----------------------- MODULE ControllerUpgradeProofs -----------------------
(***************************************************************************)
(* Proofs about ControllerUpgrade, for any containers, versions, updates   *)
(* and bounds.  The types hold whatever fails.  The other properties are   *)
(* about the faults of the run that checks them: what undoes a step does   *)
(* not fail, and the desktop is not closed during a bootstrap.             *)
(***************************************************************************)
EXTENDS ControllerUpgrade, FiniteSetTheorems, TLAPS

USE DEF docker, disk, call, world

-----------------------------------------------------------------------------
(* The types *)

\* From where the old container is stopped to where it is started again it is
\* there and does not run; the candidate is another one.
Stopping   == {"backupCopy", "backupOut", "backupIn", "create", "restoreCopy",
               "restoreOut", "restoreIn", "renameBack", "startOld"}
Trying     == {"wait", "renameOld", "renameNew", "dropNew"}
Halted ==
    /\ at \in {"image", "stop"} /\ old # None => status[old] # "absent"
    /\ at \in Stopping \cup Trying \cup {"removeOld"} => status[old] = "stopped"
    /\ at \in Trying => new \in Containers /\ new # old /\ status[new] # "absent"

Base == TypeOK /\ Halted

\* What Docker has.
DockerOK ==
    /\ name \in [Containers -> Name]
    /\ version \in [Containers -> Versions \cup {0}]
    /\ status \in [Containers -> Status]
    /\ \A c \in Containers :
          /\ status[c] = "absent" <=> name[c] = "none"
          /\ status[c] = "absent" <=> version[c] = 0
    /\ socket \in Containers \cup {None}
    /\ socket # None => status[socket] \in {"bound", "up"}

\* What is on the disk.
DiskOK ==
    /\ dir \in [{"state", "backup"} -> Content \cup {Missing}]
    /\ copied \in Content \cup {Missing}
    /\ aside \in Content \cup {Missing}

\* What a bootstrap has in hand, and the desktop.
CallOK ==
    /\ at \in Stage
    /\ old \in Containers \cup {None} /\ new \in Containers \cup {None}
    /\ at \notin {"idle", "find", "image", "install", "await"} => old # None
    /\ result \in {"none", "ok", "error"}
    /\ desktop \in Versions
    /\ written \in Nat /\ updates \in Nat /\ crashes \in Nat

\* The type invariant, one part for Docker, one for the disk, one for the call.
LEMMA TypeParts == TypeOK <=> DockerOK /\ DiskOK /\ CallOK
BY DEF TypeOK, DockerOK, DiskOK, CallOK

\* The same of the next state.
LEMMA TypePartsNext == TypeOK' <=> DockerOK' /\ DiskOK' /\ CallOK'
BY DEF TypeOK, DockerOK, DiskOK, CallOK

\* The calls of Docker: a container that is not there is created, one that is
\* there stops, starts, is renamed or removed, and the others stay as they are.
Others(c) ==
    \A b \in Containers \ {c} : status'[b] = status[b] /\ name'[b] = name[b]
                                /\ version'[b] = version[b]

\* Stopping a container changes its status and may free the socket.
LEMMA StopsOK ==
    ASSUME DockerOK, NEW c \in Containers, status[c] # "absent", Stops(c, "stopped"),
           UNCHANGED <<name, version>>
    PROVE  DockerOK' /\ Others(c) /\ status'[c] = "stopped" /\ socket' \in {socket, None}
BY DEF DockerOK, Stops, Others, Status, Runs

\* A removed container has no name and does not answer.
LEMMA DeletesOK ==
    ASSUME DockerOK, NEW c \in Containers, Deletes(c)
    PROVE  DockerOK' /\ Others(c) /\ status'[c] = "absent" /\ name'[c] = "none"
           /\ socket' \in {socket, None} /\ socket' # c
BY UpgradeAssumption DEF DockerOK, Stops, Deletes, Others, Status, Runs, Name

\* Starting a container changes its status only.
LEMMA StartsOK ==
    ASSUME DockerOK, NEW c \in Containers, status[c] \notin {"absent", "bound", "up"}, Starts(c),
           UNCHANGED <<name, version, socket>>
    PROVE  DockerOK' /\ Others(c) /\ status'[c] = "booting"
BY DEF DockerOK, Starts, Others, Status, Runs

\* Renaming a container changes its name only.
LEMMA RenamesOK ==
    ASSUME DockerOK, NEW c \in Containers, status[c] # "absent", NEW to \in Name \ {"none"},
           Renames(c, to)
    PROVE  DockerOK' /\ Others(c) /\ name'[c] = to /\ status' = status /\ version' = version
           /\ socket' = socket
BY DEF DockerOK, Renames, Others

\* A created container was not there, and is of the desktop's version.
LEMMA CreatesOK ==
    ASSUME DockerOK, NEW c \in Containers, NEW as \in Name \ {"none"},
           NEW s \in {"booting", "stopped"}, desktop \in Versions, Creates(c, as, s)
    PROVE  DockerOK' /\ Others(c) /\ status[c] = "absent" /\ status'[c] = s
           /\ name'[c] = as /\ version'[c] = desktop /\ socket' = socket
BY UpgradeAssumption DEF DockerOK, Creates, Others, Status, Runs

\* A controller that opens the state directory.
LEMMA OpenBase == ASSUME Base, NEW c \in Containers, Open(c) PROVE Base'
<1>1. DockerOK /\ DiskOK /\ CallOK
  BY TypeParts DEF Base
<1>2. DockerOK'
  BY <1>1, UpgradeAssumption DEF Open, DockerOK, Status, Runs
<1>3. DiskOK'
  <2>1. version[c] \in Versions \cup {0}
    BY <1>1 DEF DockerOK
  <2>2. dir["state"] # Missing => [schema |-> version[c], data |-> dir["state"].data] \in Content
    BY <1>1, <2>1 DEF DiskOK, Content
  <2> QED BY <1>1, <2>2 DEF Open, DiskOK
<1>4. CallOK'
  BY <1>1 DEF Open, CallOK
<1>5. Halted'
  BY <1>1, UpgradeAssumption DEF Base, Halted, Open, DockerOK, CallOK, Stopping, Trying
<1> QED BY <1>2, <1>3, <1>4, <1>5, TypePartsNext DEF Base

\* A controller binds the socket, or starts over while another has it.
LEMMA BindBase == ASSUME Base, NEW c \in Containers, Bind(c) PROVE Base'
<1>1. DockerOK /\ DiskOK /\ CallOK
  BY TypeParts DEF Base
<1>2. DockerOK'
  BY <1>1, UpgradeAssumption DEF Bind, Starts, DockerOK, Status, Runs
<1>3. DiskOK' /\ CallOK'
  BY <1>1 DEF Bind, DiskOK, CallOK
<1>4. Halted'
  BY <1>1, UpgradeAssumption
     DEF Base, Halted, Bind, Starts, DockerOK, CallOK, Stopping, Trying
<1> QED BY <1>2, <1>3, <1>4, TypePartsNext DEF Base

\* A controller that has bound the socket begins to answer.
LEMMA ServeBase == ASSUME Base, NEW c \in Containers, Serve(c) PROVE Base'
<1>1. DockerOK /\ DiskOK /\ CallOK
  BY TypeParts DEF Base
<1>2. DockerOK'
  BY <1>1, UpgradeAssumption DEF Serve, DockerOK, Status, Runs
<1>3. DiskOK' /\ CallOK'
  BY <1>1 DEF Serve, DiskOK, CallOK
<1>4. Halted'
  BY <1>1, UpgradeAssumption DEF Base, Halted, Serve, DockerOK, CallOK, Stopping, Trying
<1> QED BY <1>2, <1>3, <1>4, TypePartsNext DEF Base

\* A change by the user.
LEMMA WriteBase == ASSUME Base, Write PROVE Base'
<1>1. DockerOK /\ DiskOK /\ CallOK
  BY TypeParts DEF Base
<1>2. DockerOK' /\ CallOK'
  BY <1>1 DEF Write, DockerOK, CallOK
<1>3. DiskOK'
  <2>1. [schema |-> dir["state"].schema, data |-> written + 1] \in Content
    BY <1>1 DEF Write, DiskOK, CallOK, Content
  <2> QED BY <1>1, <2>1 DEF Write, DiskOK
<1>4. Halted'
  BY DEF Base, Halted, Write, Stopping, Trying
<1> QED BY <1>2, <1>3, <1>4, TypePartsNext DEF Base

\* A step that leaves containers and directories alone.
LEMMA GotoBase ==
    ASSUME Base, UNCHANGED <<docker, disk, world>>,
           \/ Return("ok") \/ Return("error")
           \/ at = "image" /\ (Goto("install") \/ (old # None /\ Goto("stop")))
           \/ at = "wait" /\ (Goto("renameOld") \/ Goto("dropNew"))
           \/ at \in {"renameOld", "renameNew"} /\ Goto("dropNew")
           \/ at \in Stopping /\ \E s \in Stopping : Goto(s)
           \/ at = "removeOld" /\ Goto("await")
           \/ at = "dropNew" /\ \E s \in Stopping : Goto(s)
    PROVE  Base'
<1>1. DockerOK /\ DiskOK /\ CallOK
  BY TypeParts DEF Base
<1>2. DockerOK' /\ DiskOK'
  BY <1>1 DEF DockerOK, DiskOK
<1>3. CallOK'
  BY <1>1 DEF CallOK, Goto, Return, Stage, Stopping
<1>4. Halted'
  BY DEF Base, Halted, Goto, Return, Stopping, Trying
<1> QED BY <1>2, <1>3, <1>4, TypePartsNext DEF Base

\* The steps before anything is stopped.
LEMMA FirstBase ==
    ASSUME Base, Diagnose \/ Find \/ EnsureImage \/ Stop PROVE Base'
<1>1. DockerOK /\ DiskOK /\ CallOK
  BY TypeParts DEF Base
<1>2. CASE Diagnose
  <2>1. Empty \in Content
    BY DEF Empty, Content
  <2>2. DockerOK' /\ DiskOK' /\ CallOK' /\ Halted'
    BY <1>1, <1>2, <2>1
       DEF Diagnose, DockerOK, DiskOK, CallOK, Stage, Halted, Stopping, Trying
  <2> QED BY <2>2, TypePartsNext DEF Base
<1>3. CASE Find
  <2>1. CASE Return("error")
    BY <1>3, <2>1, GotoBase DEF Find
  <2>2. CASE ~Return("error")
    <3>1. /\ at' = "image" /\ new' = new /\ result' = result
          /\ old' # None => old' \in Containers /\ status[old'] # "absent"
      BY <1>1, <1>3, <2>2 DEF Find, Named, DockerOK
    <3>2. DockerOK' /\ DiskOK' /\ CallOK' /\ Halted'
      BY <1>1, <1>3, <3>1 DEF Find, DockerOK, DiskOK, CallOK, Stage, Halted, Stopping, Trying
    <3> QED BY <3>2, TypePartsNext DEF Base
  <2> QED BY <2>1, <2>2
<1>4. CASE EnsureImage
  BY <1>4, GotoBase DEF EnsureImage
<1>5. CASE Stop
  <2>1. CASE Return("error") /\ UNCHANGED <<status, socket>>
    BY <1>5, <2>1, GotoBase DEF Stop
  <2>2. CASE ~(Return("error") /\ UNCHANGED <<status, socket>>)
    <3>1. /\ old \in Containers /\ status[old] # "absent"
          /\ Goto("backupCopy") /\ UNCHANGED <<name, version, disk, world>>
          /\ IF old \in Running THEN Stops(old, "stopped") ELSE UNCHANGED <<status, socket>>
      BY <1>1, <1>5, <2>2 DEF Base, Halted, Stop, CallOK
    <3>2. DockerOK' /\ status'[old] = "stopped"
      <4>1. CASE old \in Running
        BY <1>1, <3>1, <4>1, StopsOK
      <4>2. CASE old \notin Running
        <5>1. status[old] = "stopped"
          BY <1>1, <3>1, <4>2 DEF Running, DockerOK, Status
        <5> QED BY <1>1, <3>1, <4>2, <5>1 DEF DockerOK
      <4> QED BY <4>1, <4>2
    <3>3. DiskOK' /\ CallOK'
      BY <1>1, <3>1, UpgradeAssumption DEF Goto, DiskOK, CallOK, Stage
    <3>4. Halted'
      BY <3>1, <3>2 DEF Goto, Halted, Stopping, Trying
    <3> QED BY <3>2, <3>3, <3>4, TypePartsNext DEF Base
  <2> QED BY <2>1, <2>2
<1> QED BY <1>2, <1>3, <1>4, <1>5

\* The steps of a copy move contents of directories about.
LEMMA DiskBase == ASSUME Base, BackUp \/ Restore PROVE Base'
<1>1. DockerOK /\ DiskOK /\ CallOK
  BY TypeParts DEF Base
<1>2. /\ at \in Stopping /\ (\E s \in Stopping : Goto(s))
      /\ UNCHANGED <<docker, world>>
  BY DEF BackUp, Restore, CopyTree, MoveAside, MoveIn, Stopping
<1>3. DiskOK'
  <2>1. ASSUME NEW stage, NEW from \in {"state", "backup"}, NEW next, NEW fault,
               CopyTree(stage, from, next, fault)
        PROVE  DiskOK'
    BY <1>1, <2>1 DEF CopyTree, DiskOK
  <2>2. ASSUME NEW stage, NEW d \in {"state", "backup"}, NEW next, NEW fault,
               MoveAside(stage, d, next, fault)
        PROVE  DiskOK'
    BY <1>1, <2>2 DEF MoveAside, DiskOK
  <2>3. ASSUME NEW stage, NEW d \in {"state", "backup"}, NEW next, NEW fault,
               MoveIn(stage, d, next, fault)
        PROVE  DiskOK'
    <3>1. \E there \in Content \cup {Missing} : dir' = [dir EXCEPT ![d] = there]
      BY <1>1, <2>3 DEF MoveIn, DiskOK
    <3> QED BY <1>1, <2>3, <3>1 DEF MoveIn, DiskOK
  <2> QED BY <2>1, <2>2, <2>3 DEF BackUp, Restore
<1>4. DockerOK' /\ CallOK'
  BY <1>1, <1>2 DEF DockerOK, CallOK, Goto, Stage, Stopping
<1>5. Halted'
  BY <1>2 DEF Base, Halted, Goto, Stopping, Trying
<1> QED BY <1>3, <1>4, <1>5, TypePartsNext DEF Base

\* A container is created.
LEMMA CreateBase == ASSUME Base, CreateCandidate \/ Install PROVE Base'
<1>1. DockerOK /\ DiskOK /\ CallOK
  BY TypeParts DEF Base
<1>2. ASSUME NEW c \in Containers, NEW as \in {"candidate", "stable"},
             NEW s \in {"booting", "stopped"}, Creates(c, as, s)
      PROVE  /\ DockerOK' /\ status[c] = "absent"
             /\ \A b \in Containers : status[b] # "absent" => status'[b] = status[b]
             /\ status'[c] # "absent"
  BY <1>1, <1>2, CreatesOK DEF CallOK, Name, Others
<1>3. DiskOK' /\ UNCHANGED world
  BY <1>1 DEF CreateCandidate, Install, DiskOK
<1>4. CASE CreateCandidate
  <2>1. at = "create" /\ old \in Containers /\ status[old] = "stopped"
    BY <1>1, <1>4 DEF CreateCandidate, Base, Halted, Stopping, CallOK
  <2>2. ASSUME NEW c \in Containers, Creates(c, "candidate", "booting"),
               at' = "wait", new' = c, UNCHANGED <<old, result>>
        PROVE  Base'
    <3>1. DockerOK' /\ Halted'
      BY <1>2, <2>1, <2>2 DEF Halted, Stopping, Trying
    <3>2. CallOK'
      BY <1>1, <1>3, <2>1, <2>2 DEF CallOK, Stage
    <3> QED BY <1>3, <3>1, <3>2, TypePartsNext DEF Base
  <2>3. ASSUME NEW c \in Containers, Creates(c, "candidate", "stopped"), Goto("restoreCopy")
        PROVE  Base'
    <3>1. DockerOK' /\ Halted'
      BY <1>2, <2>1, <2>3 DEF Halted, Stopping, Trying, Goto
    <3>2. CallOK'
      BY <1>1, <1>3, <2>1, <2>3 DEF CallOK, Stage, Goto
    <3> QED BY <1>3, <3>1, <3>2, TypePartsNext DEF Base
  <2>4. CASE Goto("restoreCopy") /\ UNCHANGED docker
    BY <1>4, <2>1, <2>4, GotoBase DEF CreateCandidate, Stopping
  <2> QED BY <1>4, <2>2, <2>3, <2>4 DEF CreateCandidate
<1>5. CASE Install
  <2>1. ASSUME NEW c \in Containers, Creates(c, "stable", "booting"),
               at' = "await", new' = c, UNCHANGED <<old, result>>
        PROVE  Base'
    <3>1. DockerOK' /\ Halted' /\ CallOK'
      BY <1>1, <1>2, <1>3, <2>1 DEF Halted, Stopping, Trying, CallOK, Stage
    <3> QED BY <1>3, <3>1, TypePartsNext DEF Base
  <2>2. ASSUME NEW c \in Containers, Creates(c, "stable", "stopped"), Return("error")
        PROVE  Base'
    <3>1. DockerOK' /\ Halted' /\ CallOK'
      BY <1>1, <1>2, <1>3, <2>2 DEF Halted, Stopping, Trying, CallOK, Stage, Return
    <3> QED BY <1>3, <3>1, TypePartsNext DEF Base
  <2>3. CASE Return("error") /\ UNCHANGED docker
    BY <1>5, <2>3, GotoBase DEF Install
  <2> QED BY <1>5, <2>1, <2>2, <2>3 DEF Install
<1> QED BY <1>4, <1>5

\* Waiting, and the names that change hands.
LEMMA SwapBase ==
    ASSUME Base, Wait \/ Await \/ RenameOld \/ RenameNew \/ RemoveOld PROVE Base'
<1>1. DockerOK /\ DiskOK /\ CallOK
  BY TypeParts DEF Base
<1>2. at \notin {"idle", "find", "image", "install", "await"} => old \in Containers
  BY <1>1 DEF CallOK
<1>3. CASE Wait \/ Await
  BY <1>3, GotoBase DEF Wait, Await
<1>4. CASE RenameOld
  <2>1. CASE Renames(old, "rollback") /\ Goto("renameNew")
    <3>1. DockerOK' /\ status' = status
      BY <1>1, <1>2, <1>4, <2>1, RenamesOK DEF RenameOld, Base, Halted, Trying, Name
    <3>2. DiskOK' /\ CallOK' /\ Halted'
      BY <1>1, <1>4, <2>1, <3>1
         DEF RenameOld, DiskOK, CallOK, Stage, Goto, Base, Halted, Stopping, Trying
    <3> QED BY <3>1, <3>2, TypePartsNext DEF Base
  <2> QED BY <1>4, <2>1, GotoBase DEF RenameOld
<1>5. CASE RenameNew
  <2>1. CASE Renames(new, "stable") /\ Goto("removeOld")
    <3>1. DockerOK' /\ status' = status
      BY <1>1, <1>5, <2>1, RenamesOK DEF RenameNew, Base, Halted, Trying, Name
    <3>2. DiskOK' /\ CallOK' /\ Halted'
      BY <1>1, <1>5, <2>1, <3>1
         DEF RenameNew, DiskOK, CallOK, Stage, Goto, Base, Halted, Stopping, Trying
    <3> QED BY <3>1, <3>2, TypePartsNext DEF Base
  <2> QED BY <1>5, <2>1, GotoBase DEF RenameNew
<1>6. CASE RemoveOld
  <2>1. CASE Deletes(old)
    <3>1. DockerOK'
      BY <1>1, <1>2, <1>6, <2>1, DeletesOK DEF RemoveOld
    <3>2. DiskOK' /\ CallOK' /\ Halted'
      BY <1>1, <1>6, <2>1
         DEF RemoveOld, DiskOK, CallOK, Stage, Goto, Base, Halted, Stopping, Trying
    <3> QED BY <3>1, <3>2, TypePartsNext DEF Base
  <2> QED BY <1>6, <2>1, GotoBase DEF RemoveOld
<1> QED BY <1>3, <1>4, <1>5, <1>6

\* The steps back.
LEMMA RollbackBase ==
    ASSUME Base, DropNew \/ RenameBack \/ StartOld PROVE Base'
<1>1. DockerOK /\ DiskOK /\ CallOK
  BY TypeParts DEF Base
<1>2. old \in Containers /\ status[old] = "stopped"
  BY <1>1 DEF DropNew, RenameBack, StartOld, CallOK, Base, Halted, Stopping, Trying
<1>3. CASE DropNew
  <2>1. new \in Containers /\ new # old
    BY <1>3 DEF DropNew, Base, Halted, Trying
  <2>2. at = "dropNew" /\ \E s \in Stopping : Goto(s)
    BY <1>3 DEF DropNew, Stopping
  <2>3. CASE Deletes(new)
    <3>1. DockerOK' /\ status'[old] = "stopped"
      BY <1>1, <1>2, <2>1, <2>3, DeletesOK DEF Others
    <3>2. DiskOK' /\ CallOK' /\ Halted'
      BY <1>1, <1>2, <1>3, <2>2, <3>1
         DEF DropNew, DiskOK, CallOK, Stage, Goto, Halted, Stopping, Trying
    <3> QED BY <3>1, <3>2, TypePartsNext DEF Base
  <2>4. CASE UNCHANGED docker
    BY <1>3, <2>2, <2>4, GotoBase DEF DropNew
  <2> QED BY <1>3, <2>3, <2>4 DEF DropNew
<1>4. CASE RenameBack
  <2>1. CASE Renames(old, "stable")
    <3>1. DockerOK' /\ status' = status
      BY <1>1, <1>2, <2>1, RenamesOK DEF Name
    <3>2. DiskOK' /\ CallOK' /\ Halted'
      BY <1>1, <1>2, <1>4, <3>1
         DEF RenameBack, DiskOK, CallOK, Stage, Goto, Halted, Stopping, Trying
    <3> QED BY <3>1, <3>2, TypePartsNext DEF Base
  <2>2. CASE UNCHANGED docker
    BY <1>4, <2>2, GotoBase DEF RenameBack, Stopping
  <2> QED BY <1>4, <2>1, <2>2 DEF RenameBack
<1>5. CASE StartOld
  <2>1. CASE Starts(old)
    <3>1. DockerOK'
      BY <1>1, <1>2, <1>5, <2>1, StartsOK DEF StartOld
    <3>2. DiskOK' /\ CallOK' /\ Halted'
      BY <1>1, <1>5 DEF StartOld, DiskOK, CallOK, Stage, Return, Halted, Stopping, Trying
    <3> QED BY <3>1, <3>2, TypePartsNext DEF Base
  <2>2. CASE UNCHANGED status
    BY <1>5, <2>2, GotoBase DEF StartOld
  <2> QED BY <1>5, <2>1, <2>2 DEF StartOld
<1> QED BY <1>3, <1>4, <1>5

\* The desktop is updated, or the application dies.
LEMMA WorldBase ==
    ASSUME Base, (\E v \in Versions : UpdateDesktop(v)) \/ Crash PROVE Base'
<1>1. DockerOK /\ DiskOK /\ CallOK
  BY TypeParts DEF Base
<1>2. ASSUME NEW v \in Versions, UpdateDesktop(v) PROVE Base'
  <2>1. DockerOK' /\ DiskOK' /\ CallOK' /\ Halted'
    BY <1>1, <1>2 DEF UpdateDesktop, DockerOK, DiskOK, CallOK, Base, Halted, Stopping, Trying
  <2> QED BY <2>1, TypePartsNext DEF Base
<1>3. CASE Crash
  <2>1. DockerOK'
    BY <1>1, <1>3 DEF Crash, DockerOK, Running, Runs, Status
  <2>2. DiskOK' /\ CallOK' /\ Halted'
    BY <1>1, <1>3 DEF Crash, DiskOK, CallOK, Return, Stage, Halted, Stopping, Trying
  <2> QED BY <2>1, <2>2, TypePartsNext DEF Base
<1> QED BY <1>2, <1>3

\* The first states are well-typed.
LEMMA InitBase == Init => Base
BY UpgradeAssumption
   DEF Init, Base, TypeOK, Name, Status, Runs, Stage, Halted, Stopping, Trying

\* Every step keeps the types.
LEMMA NextBase == Base /\ [Next]_vars => Base'
<1> SUFFICES ASSUME Base, [Next]_vars PROVE Base'
  OBVIOUS
<1>1. CASE Bootstrap
  BY <1>1, FirstBase, DiskBase, CreateBase, SwapBase, RollbackBase DEF Bootstrap
<1>2. CASE UNCHANGED vars
  <2>1. DockerOK /\ DiskOK /\ CallOK
    BY TypeParts DEF Base
  <2>2. DockerOK' /\ DiskOK' /\ CallOK'
    BY <1>2, <2>1 DEF vars, DockerOK, DiskOK, CallOK
  <2>3. Halted'
    BY <1>2 DEF vars, Base, Halted
  <2> QED BY <2>2, <2>3, TypePartsNext DEF Base
<1> QED BY <1>1, <1>2, FirstBase, OpenBase, BindBase, ServeBase, WriteBase, WorldBase DEF Next

\* Base holds in every reachable state.
THEOREM BaseCorrect == Spec => []Base
BY InitBase, NextBase, PTL DEF Spec

\* Containers, directories and the locals of a bootstrap keep their types,
\* whatever fails and whenever the desktop is closed.
THEOREM TypeCorrect == Spec => []TypeOK
<1>1. Base => TypeOK
  BY DEF Base
<1> QED BY <1>1, BaseCorrect, PTL

-----------------------------------------------------------------------------
(* Who is there *)

\* The faults of the run: what undoes a step works, and a bootstrap is not
\* interrupted.
Reliable == "recovery" \notin Faults /\ ~Interrupted

Nobody  == Named = {} /\ Running = {}
Sole(c) == Named = {c} /\ Running = {c}

\* Which containers have the name and run, by the stage of the bootstrap.
Who ==
    /\ at \in {"idle", "find"} => Nobody \/ \E c \in Containers : Sole(c)
    /\ at = "image" => IF old = None THEN Nobody ELSE Sole(old)
    /\ at = "install" => Nobody
    /\ at = "stop" => Sole(old)
    /\ at \in Stopping => Running = {}
    /\ at \in Stopping \ {"renameBack"} => Named = {old}
    /\ at \in Trying => Running = {new}
    /\ at \in {"wait", "renameOld"} => Named = {old}
    /\ at \in {"renameNew", "renameBack"} => Named = {}
    /\ at = "renameNew" => name[old] = "rollback"
    /\ at = "dropNew" => Named = {old} \/ (Named = {} /\ name[old] = "rollback")
    /\ at = "removeOld" => new # old
    /\ at \in {"removeOld", "await"} => new \in Containers /\ Sole(new)

\* What the calls of Docker do to the two sets.
LEMMA StopsSets ==
    ASSUME NEW c \in Containers, NEW s \in {"stopped", "absent"}, Stops(c, s),
           status \in [Containers -> Status]
    PROVE  Running' = Running \ {c}
BY DEF Stops, Running, Runs

\* A removed container neither runs nor has the name.
LEMMA DeletesSets ==
    ASSUME Base, NEW c \in Containers, Deletes(c)
    PROVE  Running' = Running \ {c} /\ Named' = Named \ {c}
<1>1. Running' = Running \ {c}
  BY StopsSets DEF Base, TypeOK, Deletes
<1>2. Named' = Named \ {c}
  BY DEF Base, TypeOK, Deletes, Named
<1> QED BY <1>1, <1>2

\* A started container runs.
LEMMA StartsSets ==
    ASSUME Base, NEW c \in Containers, Starts(c)
    PROVE  Running' = Running \cup {c}
BY DEF Base, TypeOK, Starts, Running, Runs

\* A renamed container runs as before and has the name it is given.
LEMMA RenamesSets ==
    ASSUME Base, NEW c \in Containers, NEW to, Renames(c, to)
    PROVE  /\ Running' = Running
           /\ Named' = IF to = "stable" THEN Named \cup {c} ELSE Named \ {c}
           /\ name'[c] = to
BY DEF Base, TypeOK, Renames, Running, Named

\* A container created to be started runs.
LEMMA CreatesSets ==
    ASSUME Base, NEW c \in Containers, NEW as \in {"candidate", "stable"},
           Creates(c, as, "booting")
    PROVE  /\ Running' = Running \cup {c}
           /\ Named' = IF as = "stable" THEN Named \cup {c} ELSE Named
BY DEF Base, TypeOK, Creates, Running, Runs, Named

\* Who runs and who has the name change with status and name only.
LEMMA SameSets ==
    /\ UNCHANGED name => Named' = Named
    /\ UNCHANGED status => Running' = Running
BY DEF Named, Running

\* A controller that opens the state, binds the socket or serves ran before.
LEMMA BootWho ==
    ASSUME Base, Who, NEW c \in Containers, Open(c) \/ Bind(c) \/ Serve(c)
    PROVE  Who' /\ c \in Running /\ Running' = Running /\ Named' = Named
<1>1. c \in Running /\ Running' = Running /\ Named' = Named /\ UNCHANGED <<name, call>>
  BY DEF Base, TypeOK, Open, Bind, Serve, Starts, Running, Runs, Named
<1> QED BY <1>1 DEF Who, Nobody, Sole

\* The steps up to the stop of the old controller, and those outside a call.
LEMMA FirstWho ==
    ASSUME Reliable, Base, Who,
           Diagnose \/ Find \/ EnsureImage \/ Stop \/ Write
           \/ \E v \in Versions : UpdateDesktop(v)
    PROVE  Who'
<1> USE DEF Base
<1>1. CASE Diagnose
  BY <1>1, SameSets DEF Diagnose, Who, Nobody, Sole, Stopping, Trying
<1>2. CASE Find
  <2>1. Named' = Named /\ Running' = Running
    BY <1>2, SameSets DEF Find
  <2>2. /\ at = "find" /\ at' \in {"image", "idle"}
        /\ at' = "image" => old' \in IF Named = {} THEN {None} ELSE Named
    BY <1>2 DEF Find, Return
  <2>3. Named # {} => None \notin Named
    BY UpgradeAssumption DEF Named
  <2> QED BY <2>1, <2>2, <2>3 DEF Who, Nobody, Sole, Stopping, Trying
<1>3. CASE EnsureImage
  BY <1>3, SameSets DEF EnsureImage, Goto, Return, Who, Nobody, Sole, Stopping, Trying, TypeOK
<1>4. CASE Stop
  <2>1. at = "stop" /\ Sole(old) /\ old \in Containers /\ Named' = Named
    BY <1>4, SameSets DEF Stop, Who, TypeOK
  <2>2. CASE Goto("backupCopy") /\ Stops(old, "stopped")
    <3>1. Running' = {}
      BY <2>1, <2>2, StopsSets DEF Sole, TypeOK
    <3> QED BY <2>1, <2>2, <3>1 DEF Goto, Who, Sole, Stopping, Trying
  <2>3. CASE Return("error") /\ UNCHANGED <<status, socket>>
    BY <2>1, <2>3, SameSets DEF Return, Who, Sole, Stopping, Trying
  <2> QED BY <1>4, <2>1, <2>2, <2>3 DEF Stop, Sole
<1>5. CASE Write \/ \E v \in Versions : UpdateDesktop(v)
  BY <1>5, SameSets DEF Write, UpdateDesktop, Who, Nobody, Sole
<1> QED BY <1>1, <1>2, <1>3, <1>4, <1>5

\* The steps on directories.
LEMMA DiskWho == ASSUME Base, Who, BackUp \/ Restore PROVE Who'
<1>1. /\ at \in Stopping \ {"renameBack"}
      /\ \E s \in Stopping \ {"renameBack"} : Goto(s)
      /\ UNCHANGED <<docker, world>>
  BY DEF BackUp, Restore, CopyTree, MoveAside, MoveIn, Stopping
<1> QED BY <1>1, SameSets DEF Goto, Who, Stopping, Trying

\* A candidate is created when no controller runs.
LEMMA CreateWho == ASSUME Reliable, Base, Who, CreateCandidate \/ Install PROVE Who'
<1>1. CASE CreateCandidate
  <2>1. at = "create" /\ Named = {old} /\ Running = {}
    BY <1>1 DEF CreateCandidate, Who, Stopping
  <2>2. ASSUME NEW c \in Containers, Creates(c, "candidate", "booting"),
               at' = "wait", new' = c, UNCHANGED <<old, result>>
        PROVE  Who'
    <3>1. Running' = {c} /\ Named' = {old}
      BY <2>1, <2>2, CreatesSets
    <3> QED BY <2>2, <3>1 DEF Who, Stopping, Trying
  <2>3. CASE Goto("restoreCopy") /\ UNCHANGED docker
    BY <2>1, <2>3, SameSets DEF Goto, Who, Stopping, Trying
  <2> QED BY <1>1, <2>2, <2>3 DEF CreateCandidate, Reliable
<1>2. CASE Install
  <2>1. at = "install" /\ Nobody
    BY <1>2 DEF Install, Who
  <2>2. ASSUME NEW c \in Containers, Creates(c, "stable", "booting"),
               at' = "await", new' = c, UNCHANGED <<old, result>>
        PROVE  Who'
    <3>1. Running' = {c} /\ Named' = {c}
      BY <2>1, <2>2, CreatesSets DEF Nobody
    <3> QED BY <2>2, <3>1 DEF Who, Sole, Stopping, Trying
  <2>3. CASE Return("error") /\ UNCHANGED docker
    BY <2>1, <2>3, SameSets DEF Return, Who, Nobody, Stopping, Trying
  <2> QED BY <1>2, <2>2, <2>3 DEF Install, Reliable
<1> QED BY <1>1, <1>2

\* The candidate is waited for and takes the name.
LEMMA SwapWho ==
    ASSUME Base, Who, Wait \/ Await \/ RenameOld \/ RenameNew \/ RemoveOld PROVE Who'
<1>1. CASE Wait
  BY <1>1, SameSets DEF Wait, Goto, Who, Stopping, Trying
<1>2. CASE Await
  BY <1>2, SameSets DEF Await, Return, Who, Sole, Stopping, Trying
<1>3. CASE RenameOld
  <2>1. at = "renameOld" /\ Named = {old} /\ Running = {new} /\ old \in Containers
    BY <1>3, UpgradeAssumption DEF RenameOld, Who, Trying, Base, TypeOK
  <2>2. CASE Renames(old, "rollback") /\ Goto("renameNew")
    <3>1. Named' = {} /\ Running' = {new} /\ name'[old] = "rollback"
      BY <2>1, <2>2, RenamesSets
    <3> QED BY <2>2, <3>1 DEF Goto, Who, Stopping, Trying
  <2>3. CASE Goto("dropNew") /\ UNCHANGED docker
    BY <2>1, <2>3, SameSets DEF Goto, Who, Stopping, Trying
  <2> QED BY <1>3, <2>2, <2>3 DEF RenameOld
<1>4. CASE RenameNew
  <2>1. /\ at = "renameNew" /\ Named = {} /\ Running = {new}
        /\ new \in Containers /\ new # old /\ name[old] = "rollback"
    BY <1>4 DEF RenameNew, Who, Trying, Base, Halted
  <2>2. CASE Renames(new, "stable") /\ Goto("removeOld")
    <3>1. Named' = {new} /\ Running' = {new}
      BY <2>1, <2>2, RenamesSets
    <3> QED BY <2>1, <2>2, <3>1 DEF Goto, Who, Sole, Stopping, Trying
  <2>3. CASE Goto("dropNew") /\ UNCHANGED docker
    BY <2>1, <2>3, SameSets DEF Goto, Who, Stopping, Trying
  <2> QED BY <1>4, <2>2, <2>3 DEF RenameNew
<1>5. CASE RemoveOld
  <2>1. /\ at = "removeOld" /\ Sole(new) /\ new # old /\ new \in Containers
        /\ old \in Containers /\ Goto("await")
    BY <1>5 DEF RemoveOld, Who, Base, TypeOK
  <2>2. Sole(new)'
    <3>1. CASE Deletes(old)
      <4>1. Running' = {new} /\ Named' = {new}
        BY <2>1, <3>1, DeletesSets DEF Sole
      <4> QED BY <2>1, <4>1 DEF Sole, Goto
    <3>2. CASE UNCHANGED docker
      BY <2>1, <3>2, SameSets DEF Sole, Goto
    <3> QED BY <1>5, <3>1, <3>2 DEF RemoveOld
  <2> QED BY <2>1, <2>2 DEF Goto, Who, Sole, Stopping, Trying
<1> QED BY <1>1, <1>2, <1>3, <1>4, <1>5

\* The candidate goes before the old controller comes back.
LEMMA RollbackWho ==
    ASSUME Reliable, Base, Who, DropNew \/ RenameBack \/ StartOld PROVE Who'
<1>1. old \in Containers
  BY UpgradeAssumption DEF DropNew, RenameBack, StartOld, Base, TypeOK
<1>2. CASE DropNew
  <2>1. /\ at = "dropNew" /\ Running = {new} /\ new \in Containers /\ new # old
        /\ Named = {old} \/ (Named = {} /\ name[old] = "rollback")
        /\ Deletes(new)
        /\ Goto(IF name[old] = "rollback" THEN "renameBack" ELSE "restoreCopy")
    BY <1>2 DEF DropNew, Who, Trying, Base, Halted, Reliable
  <2>2. Running' = {} /\ Named' = Named
    BY <2>1, DeletesSets
  <2>3. Named = {old} => name[old] # "rollback"
    BY <1>1 DEF Named
  <2> QED BY <2>1, <2>2, <2>3 DEF Goto, Who, Stopping, Trying
<1>3. CASE RenameBack
  <2>1. /\ at = "renameBack" /\ Named = {} /\ Running = {}
        /\ Renames(old, "stable") /\ Goto("restoreCopy")
    BY <1>3 DEF RenameBack, Who, Stopping, Reliable
  <2>2. Running' = {} /\ Named' = {old}
    BY <1>1, <2>1, RenamesSets
  <2> QED BY <2>1, <2>2 DEF Goto, Who, Stopping, Trying
<1>4. CASE StartOld
  <2>1. /\ at = "startOld" /\ Named = {old} /\ Running = {}
        /\ Starts(old) /\ Return("error")
    BY <1>4 DEF StartOld, Who, Stopping, Reliable
  <2>2. Running' = {old} /\ Named' = Named
    BY <1>1, <1>4, <2>1, StartsSets, SameSets DEF StartOld
  <2> QED BY <1>1, <2>1, <2>2 DEF Return, Who, Sole, Stopping, Trying
<1> QED BY <1>2, <1>3, <1>4

\* What runs before a reboot runs after it.
LEMMA CrashWho ==
    ASSUME Reliable, Base, Who, Crash
    PROVE  Who' /\ Running' = Running /\ Named' = Named /\ at = "idle"
<1>1. at = "idle" /\ at' = "idle" /\ UNCHANGED name
  BY DEF Crash, Reliable, Return
<1>2. Running' = Running
  BY <1>1 DEF Crash, Running, Runs, Base, TypeOK
<1>3. Named' = Named
  BY <1>1, SameSets
<1> QED BY <1>1, <1>2, <1>3 DEF Who, Nobody, Sole, Stopping, Trying

\* Every step keeps who runs and who has the name.
LEMMA NextWho == Reliable /\ Base /\ Who /\ [Next]_vars => Who'
<1> SUFFICES ASSUME Reliable, Base, Who, [Next]_vars PROVE Who'
  OBVIOUS
<1>1. CASE UNCHANGED vars
  BY <1>1, SameSets DEF vars, Who, Nobody, Sole
<1> QED BY <1>1, FirstWho, BootWho, DiskWho, CreateWho, SwapWho, RollbackWho, CrashWho
        DEF Next, Bootstrap

\* Nobody is there before the first install.
LEMMA InitWho == Init => Who
BY DEF Init, Who, Nobody, Named, Running, Runs, Stopping, Trying

\* At each stage of a call the containers that run and the one that has the name are known.
LEMMA WhoCorrect == ASSUME Reliable PROVE Spec => []Who
BY InitWho, NextWho, BaseCorrect, PTL DEF Spec

\* OneController: two controllers never run on one state directory, whichever
\* forward step of an install or an upgrade fails.
THEOREM OneControllerCorrect == ASSUME Reliable PROVE Spec => []OneController
<1>1. Base /\ Who => OneController
  <2> SUFFICES ASSUME Base, Who PROVE OneController
    OBVIOUS
  <2>1. Running = {} \/ \E c \in Containers : Running = {c}
    BY DEF Base, TypeOK, Halted, Who, Nobody, Sole, Stage, Stopping, Trying
  <2>2. Cardinality({}) = 0 /\ \A c \in Containers : Cardinality({c}) = 1
    BY FS_EmptySet, FS_Singleton
  <2>3. Cardinality(Running) \in {0, 1}
    BY <2>1, <2>2
  <2> QED BY <2>3 DEF OneController
<1> QED BY <1>1, BaseCorrect, WhoCorrect, PTL

\* StateIsQuiet: the directories are copied and moved while no controller runs.
THEOREM StateIsQuietCorrect == ASSUME Reliable PROVE Spec => []StateIsQuiet
<1>1. Who => StateIsQuiet
  BY DEF Who, StateIsQuiet, Stopping
<1> QED BY <1>1, WhoCorrect, PTL

-----------------------------------------------------------------------------
(* What the directories hold *)

Usable(x, c) == x # Missing /\ x.schema <= version[c]
Current(x)   == x # Missing /\ (written > 0 => x.data = written)

\* The copies that a bootstrap relies on.
Copying == {"backupOut", "backupIn", "restoreOut", "restoreIn"}
BackedUp == {"create", "renameBack", "restoreCopy", "restoreOut", "restoreIn"} \cup Trying

\* A controller that has opened the state brought it to its own schema.  The old
\* container can use the state until it is stopped, what is copied and the backup
\* until it is started again.
Fits ==
    /\ \A c \in Containers : status[c] \in {"opened", "bound", "up"} =>
          dir["state"] # Missing /\ dir["state"].schema = version[c]
    /\ at \in {"idle", "find", "image", "install"} /\ Named = {} =>
          /\ dir["state"] \in {Missing, Empty} /\ written = 0
          /\ at # "idle" => dir["state"] = Empty
    /\ at \in {"idle", "find", "image", "await"} =>
          \A c \in Named : Usable(dir["state"], c)
    /\ at \in {"stop", "startOld", "backupCopy", "backupOut", "backupIn", "create"} =>
          Usable(dir["state"], old)
    /\ at \in {"renameOld", "renameNew", "removeOld"} => status[new] = "up"
    /\ at \in Copying => Usable(copied, old)
    /\ at \in BackedUp => Usable(dir["backup"], old)

\* The user's changes are in the state, and in what it will be restored from.
Kept ==
    /\ at # "restoreIn" /\ written > 0 => Current(dir["state"])
    /\ at \in Copying => Current(copied)
    /\ at \in BackedUp => Current(dir["backup"])

Steady == Fits /\ Kept

\* What is known of the contents of the directories.
LEMMA Contents ==
    ASSUME Base
    PROVE  /\ Missing \notin Content /\ Empty \in Content
           /\ Empty.schema = 0 /\ Empty.data = 0
           /\ \A x \in Content : x.schema \in Nat /\ x.data \in Nat
           /\ \A c \in Containers : version[c] \in Nat
           /\ dir["state"] \in Content \cup {Missing}
           /\ dir["backup"] \in Content \cup {Missing}
           /\ copied \in Content \cup {Missing} /\ written \in Nat
<1>1. Versions \cup {0} \subseteq Nat
  BY UpgradeAssumption
<1>2. Content \subseteq [schema : Nat, data : Nat]
  BY <1>1 DEF Content
<1>3. Missing \notin Content
  BY <1>2, UpgradeAssumption
<1>4. Empty \in Content /\ Empty.schema = 0 /\ Empty.data = 0
  BY DEF Empty, Content
<1> QED BY <1>1, <1>2, <1>3, <1>4 DEF Base, TypeOK

\* Steps that leave the directories and what runs alone.
LEMMA GoSteady ==
    ASSUME Base, Who, Steady, UNCHANGED <<docker, disk, world>>,
           \/ at \in {"idle", "find", "image", "install", "await"} /\ Named # {} /\ at' = "idle"
           \/ at \in {"find", "image", "install"} /\ at' = "idle"
           \/ at = "find" /\ at' = "image"
           \/ at = "image" /\ at' = "install" /\ old = None
           \/ at = "image" /\ at' = "stop" /\ old # None /\ old' = old
           \/ at = "stop" /\ at' = "idle"
           \/ at \in {"wait", "renameOld", "renameNew"} /\ at' = "dropNew" /\ old' = old
           \/ at = "wait" /\ at' = "renameOld" /\ Healthy /\ old' = old /\ new' = new
           \/ at = "create" /\ at' = "restoreCopy" /\ old' = old
           \/ at = "removeOld" /\ at' = "await"
    PROVE  Steady'
<1>1. Named' = Named /\ Running' = Running
  BY SameSets
<1>2. Healthy /\ at = "wait" => status[new] = "up"
  <2>1. Healthy => socket \in Running
    BY DEF Healthy, Base, TypeOK, Running, Runs
  <2> QED BY <2>1 DEF Healthy, Base, TypeOK, Who, Trying
<1>3. Fits'
  <2>1. at = "removeOld" => new \in Containers /\ Named = {new} /\ Usable(dir["state"], new)
    BY Contents DEF Who, Sole, Steady, Fits, Usable
  <2>2. Named \subseteq Containers
    BY DEF Named
  <2> QED BY <1>1, <1>2, <2>1, <2>2
          DEF Steady, Fits, Usable, Who, Nobody, Sole, Copying, BackedUp, Trying
<1>4. Kept'
  BY DEF Steady, Kept, Current, Copying, BackedUp, Trying
<1> QED BY <1>3, <1>4 DEF Steady

\* A controller that opens the state changes its schema only.
LEMMA OpenSteady ==
    ASSUME Base, Who, Steady, NEW c \in Containers, Open(c) PROVE Steady'
<1>1. c \in Running /\ Running' = Running /\ Named' = Named
  BY BootWho
<1>2. CASE UNCHANGED <<dir, status>>
  <2>1. Fits' /\ Kept'
    BY <1>1, <1>2 DEF Open, Steady, Fits, Kept, Usable, Current, Copying, BackedUp, Trying
  <2> QED BY <2>1 DEF Steady
<1>3. CASE ~UNCHANGED <<dir, status>>
  <2>1. /\ dir["state"] # Missing /\ dir["state"].schema <= version[c]
        /\ dir' = [dir EXCEPT !["state"] = [schema |-> version[c], data |-> dir["state"].data]]
        /\ status' = [status EXCEPT ![c] = "opened"]
        /\ status[c] = "booting" /\ UNCHANGED <<name, version, copied, aside, call, world>>
    BY <1>3 DEF Open
  <2>2. DEFINE x == [schema |-> version[c], data |-> dir["state"].data]
  <2>3. /\ dir'["state"] = x /\ dir'["backup"] = dir["backup"]
        /\ x.schema = version[c] /\ x.data = dir["state"].data
        /\ x # Missing
    <3>1. x \in [schema : Nat, data : Nat]
      BY <2>1, Contents
    <3> QED BY <2>1, <3>1, UpgradeAssumption DEF Base, TypeOK
  <2> HIDE DEF x
  <2>4. /\ \A b \in Containers : b \in Running => b = c
        /\ \A b \in Named : b \in Containers
    BY <1>1 DEF Who, Nobody, Sole, Stage, Stopping, Trying, Base, TypeOK, Named
  <2>5. \A b \in Containers : status'[b] \in {"opened", "bound", "up"} => b = c
    BY <1>1, <2>4 DEF Base, TypeOK, Running, Runs
  <2>6. at \in {"idle", "find", "image", "install", "await", "stop"} => Named = {c}
    BY <1>1 DEF Who, Nobody, Sole
  <2>7. at \in Trying \cup {"removeOld"} => c = new
    BY <1>1 DEF Who, Sole
  <2>8. version[c] <= version[c]
    BY Contents
  <2>9. Fits'
    <3>1. \A b \in Containers : status'[b] \in {"opened", "bound", "up"} =>
              dir'["state"] # Missing /\ dir'["state"].schema = version'[b]
      BY <2>1, <2>3, <2>5
    <3>2. at \in {"idle", "find", "image", "await"} => \A b \in Named : Usable(dir'["state"], b)
      BY <2>3, <2>6, <2>8 DEF Usable
    <3>3. at \notin {"startOld", "backupCopy", "backupOut", "backupIn", "create"} \cup Copying
      BY <1>1 DEF Who, Stopping, Copying
    <3>4. at = "stop" => old = c
      BY <1>1 DEF Who, Sole
    <3>5. at \notin {"renameOld", "renameNew", "removeOld"}
      BY <2>1, <2>7 DEF Steady, Fits, Trying
    <3>6. at \in BackedUp => Usable(dir'["backup"], old)
      BY <2>3 DEF Steady, Fits
    <3>7. at \in {"idle", "find", "image", "install"} => Named # {}
      BY <2>6
    <3> QED BY <1>1, <2>1, <2>3, <2>8, <3>1, <3>2, <3>3, <3>4, <3>5, <3>6, <3>7
            DEF Fits, Usable
  <2>10. Kept'
    BY <2>1, <2>3 DEF Steady, Kept, Current
  <2> QED BY <2>9, <2>10 DEF Steady
<1> QED BY <1>2, <1>3

\* A controller that binds the socket and serves does so on the state it opened.
LEMMA BindSteady ==
    ASSUME Base, Who, Steady, NEW c \in Containers, Bind(c) \/ Serve(c) PROVE Steady'
<1>1. c \in Running /\ Running' = Running /\ Named' = Named
  BY BootWho
<1>2. /\ status[c] \in {"opened", "bound"} /\ UNCHANGED <<name, version, disk, call, world>>
      /\ \A b \in Containers : b # c => status'[b] = status[b]
      /\ status'[c] \in {"bound", "up", "booting"}
  BY DEF Bind, Serve, Starts, Base, TypeOK
<1>3. at \in {"renameOld", "renameNew", "removeOld"} => c = new
  BY <1>1 DEF Who, Sole, Trying
<1>4. at \notin {"renameOld", "renameNew", "removeOld"}
  BY <1>2, <1>3 DEF Steady, Fits
<1>5. Fits' /\ Kept'
  BY <1>1, <1>2, <1>4 DEF Steady, Fits, Kept, Usable, Current
<1> QED BY <1>5 DEF Steady

\* A change by the user reaches the state directory of the controller in charge.
LEMMA WriteSteady == ASSUME Base, Who, Steady, Write PROVE Steady'
<1>1. /\ at = "idle" /\ dir["state"] # Missing /\ written' = written + 1
      /\ dir' = [dir EXCEPT !["state"] = [schema |-> dir["state"].schema, data |-> written + 1]]
      /\ UNCHANGED <<docker, copied, aside, call, desktop, updates, crashes>>
  BY DEF Write
<1>2. Named' = Named /\ Running' = Running
  BY <1>1, SameSets
<1>3. Named # {}
  BY <1>1 DEF Write, Healthy, Who, Nobody, Sole, Base, TypeOK, Running, Runs
<1>4. DEFINE x == [schema |-> dir["state"].schema, data |-> written + 1]
<1>5. /\ dir'["state"] = x /\ x.schema = dir["state"].schema /\ x.data = written + 1
      /\ x # Missing
  <2>1. x \in [schema : Nat, data : Nat]
    BY <1>1, Contents
  <2> QED BY <1>1, <2>1, UpgradeAssumption DEF Base, TypeOK
<1> HIDE DEF x
<1>6. Fits'
  BY <1>1, <1>2, <1>3, <1>5 DEF Steady, Fits, Usable, Copying, BackedUp, Trying
<1>7. Kept'
  BY <1>1, <1>5 DEF Kept, Current, Copying, BackedUp, Trying
<1> QED BY <1>6, <1>7 DEF Steady

\* A call makes sure the state directory is there.
LEMMA DiagnoseSteady == ASSUME Base, Who, Steady, Diagnose PROVE Steady'
<1>1. /\ at = "idle" /\ at' = "find" /\ UNCHANGED <<docker, copied, aside, world, old, new>>
      /\ dir' = IF dir["state"] = Missing THEN [dir EXCEPT !["state"] = Empty] ELSE dir
  BY DEF Diagnose
<1>2. Named' = Named /\ Running' = Running
  BY <1>1, SameSets
<1>3. CASE Named = {}
  <2>1. Running = {}
    BY <1>1, <1>3 DEF Who, Nobody, Sole
  <2>2. dir'["state"] = Empty /\ written = 0
    BY <1>1, <1>3 DEF Steady, Fits, Base, TypeOK
  <2>3. \A c \in Containers : status[c] \notin {"opened", "bound", "up"}
    BY <2>1 DEF Running, Runs
  <2>4. Fits'
    BY <1>1, <1>2, <1>3, <2>2, <2>3 DEF Fits, Copying, BackedUp, Trying
  <2>5. Kept'
    BY <1>1, <2>2, Contents DEF Kept, Copying, BackedUp, Trying
  <2> QED BY <2>4, <2>5 DEF Steady
<1>4. CASE Named # {}
  <2>1. dir' = dir
    BY <1>1, <1>4 DEF Steady, Fits, Usable
  <2>2. Fits' /\ Kept'
    BY <1>1, <1>2, <1>4, <2>1
       DEF Steady, Fits, Kept, Usable, Current, Copying, BackedUp, Trying
  <2> QED BY <2>2 DEF Steady
<1> QED BY <1>3, <1>4

\* Up to the stop of the old controller its state stays usable.
LEMMA FirstSteady ==
    ASSUME Reliable, Base, Who, Steady, Find \/ EnsureImage \/ Stop PROVE Steady'
<1>1. CASE Find \/ EnsureImage
  BY <1>1, GoSteady DEF Find, EnsureImage, Goto, Return
<1>2. CASE Stop
  <2>1. at = "stop" /\ Sole(old) /\ old \in Containers /\ Usable(dir["state"], old)
    BY <1>2 DEF Stop, Who, Steady, Fits, Base, TypeOK, Sole, Named
  <2>2. CASE Goto("backupCopy") /\ Stops(old, "stopped")
    <3>1. Running' = {}
      BY <2>1, <2>2, StopsSets DEF Sole, Base, TypeOK
    <3>2. \A c \in Containers : status'[c] \notin {"opened", "bound", "up"}
      BY <3>1 DEF Running, Runs
    <3>3. Fits' /\ Kept'
      BY <1>2, <2>1, <2>2, <3>2
         DEF Stop, Goto, Steady, Fits, Kept, Usable, Current, Copying, BackedUp, Trying
    <3> QED BY <3>3 DEF Steady
  <2>3. CASE Return("error") /\ UNCHANGED <<status, socket>>
    BY <1>2, <2>1, <2>3, GoSteady DEF Stop, Return
  <2> QED BY <1>2, <2>1, <2>2, <2>3 DEF Stop, Sole
<1> QED BY <1>1, <1>2

\* The copies are made and moved while no controller runs.
LEMMA BackUpSteady == ASSUME Base, Who, Steady, BackUp PROVE Steady'
<1>1. /\ Running = {} /\ Running' = Running /\ Named' = Named /\ Named = {old}
      /\ UNCHANGED <<docker, world>> /\ old' = old
  BY SameSets
     DEF BackUp, CopyTree, MoveAside, MoveIn, Goto, Who, Stopping
<1>2. \A c \in Containers : status[c] \notin {"opened", "bound", "up"}
  BY <1>1 DEF Running, Runs
<1>3. CASE CopyTree("backupCopy", "state", "backupOut", "files")
  <2>1. /\ at = "backupCopy" /\ UNCHANGED dir
        /\ \/ at' = "backupOut" /\ copied' = dir["state"]
           \/ at' = "startOld"
    BY <1>3 DEF CopyTree, Goto
  <2>2. Usable(dir["state"], old) /\ Current(dir["state"])
    BY <2>1 DEF Steady, Fits, Kept, Usable, Current
  <2>3. Fits' /\ Kept'
    BY <1>1, <1>2, <2>1, <2>2
       DEF Steady, Fits, Kept, Usable, Current, Copying, BackedUp, Trying
  <2> QED BY <2>3 DEF Steady
<1>4. CASE MoveAside("backupOut", "backup", "backupIn", "files")
  <2>1. /\ at = "backupOut" /\ UNCHANGED copied /\ at' \in {"backupIn", "startOld"}
        /\ dir'["state"] = dir["state"]
    BY <1>4 DEF MoveAside, Goto, Base, TypeOK
  <2>2. Fits' /\ Kept'
    BY <1>1, <1>2, <2>1
       DEF Steady, Fits, Kept, Usable, Current, Copying, BackedUp, Trying
  <2> QED BY <2>2 DEF Steady
<1>5. CASE MoveIn("backupIn", "backup", "create", "files")
  <2>1. /\ at = "backupIn" /\ dir'["state"] = dir["state"]
        /\ \/ at' = "create" /\ dir'["backup"] = copied
           \/ at' = "startOld"
    BY <1>5 DEF MoveIn, Goto, Base, TypeOK
  <2>2. Fits' /\ Kept'
    BY <1>1, <1>2, <2>1
       DEF Steady, Fits, Kept, Usable, Current, Copying, BackedUp, Trying
  <2> QED BY <2>2 DEF Steady
<1> QED BY <1>3, <1>4, <1>5 DEF BackUp

\* Restoring puts back what was there before the candidate ran.
LEMMA RestoreSteady == ASSUME Reliable, Base, Who, Steady, Restore PROVE Steady'
<1>1. /\ Running = {} /\ Running' = Running /\ Named' = Named /\ Named = {old}
      /\ UNCHANGED <<docker, world>> /\ old' = old
  BY SameSets
     DEF Restore, CopyTree, MoveAside, MoveIn, Goto, Who, Stopping
<1>2. \A c \in Containers : status[c] \notin {"opened", "bound", "up"}
  BY <1>1 DEF Running, Runs
<1>3. CASE CopyTree("restoreCopy", "backup", "restoreOut", "recovery")
  <2>1. /\ at = "restoreCopy" /\ UNCHANGED dir
        /\ Usable(dir["backup"], old) /\ Current(dir["backup"])
    BY <1>3 DEF CopyTree, Steady, Fits, Kept, BackedUp
  <2>2. at' = "restoreOut" /\ copied' = dir["backup"]
    BY <1>3, <2>1 DEF CopyTree, Goto, Usable, Reliable
  <2>3. Fits' /\ Kept'
    BY <1>1, <1>2, <2>1, <2>2
       DEF Steady, Fits, Kept, Usable, Current, Copying, BackedUp, Trying
  <2> QED BY <2>3 DEF Steady
<1>4. CASE MoveAside("restoreOut", "state", "restoreIn", "recovery")
  <2>1. /\ at = "restoreOut" /\ UNCHANGED copied /\ at' = "restoreIn"
        /\ dir'["backup"] = dir["backup"]
    BY <1>4 DEF MoveAside, Goto, Base, TypeOK, Reliable
  <2>2. Fits' /\ Kept'
    BY <1>1, <1>2, <2>1
       DEF Steady, Fits, Kept, Usable, Current, Copying, BackedUp, Trying
  <2> QED BY <2>2 DEF Steady
<1>5. CASE MoveIn("restoreIn", "state", "startOld", "recovery")
  <2>1. /\ at = "restoreIn" /\ at' = "startOld" /\ dir'["state"] = copied
    BY <1>5 DEF MoveIn, Goto, Base, TypeOK, Reliable
  <2>2. Fits' /\ Kept'
    BY <1>1, <1>2, <2>1
       DEF Steady, Fits, Kept, Usable, Current, Copying, BackedUp, Trying
  <2> QED BY <2>2 DEF Steady
<1> QED BY <1>3, <1>4, <1>5 DEF Restore

\* A new controller finds a state it can open.
LEMMA CreateSteady ==
    ASSUME Reliable, Base, Who, Steady, CreateCandidate \/ Install PROVE Steady'
<1>1. ASSUME NEW c \in Containers, NEW as \in {"candidate", "stable"},
             Creates(c, as, "booting"), Running = {}
      PROVE  /\ \A b \in Containers : status'[b] \notin {"opened", "bound", "up"}
             /\ \A b \in Containers : b # c => version'[b] = version[b]
             /\ version'[c] \in Nat
  <2>1. desktop \in Nat
    BY UpgradeAssumption DEF Base, TypeOK
  <2> QED BY <1>1, <2>1 DEF Creates, Base, TypeOK, Running, Runs
<1>2. CASE CreateCandidate
  <2>1. /\ at = "create" /\ Running = {} /\ UNCHANGED <<disk, world>>
        /\ old \in Containers /\ status[old] # "absent"
    BY <1>2, UpgradeAssumption
       DEF CreateCandidate, Who, Base, TypeOK, Halted, Stopping
  <2>2. ASSUME NEW c \in Containers, Creates(c, "candidate", "booting"),
               at' = "wait", new' = c, UNCHANGED <<old, result>>
        PROVE  Steady'
    <3>1. c # old
      BY <2>1, <2>2 DEF Creates
    <3>2. Fits' /\ Kept'
      BY <1>1, <2>1, <2>2, <3>1
         DEF Steady, Fits, Kept, Usable, Current, Copying, BackedUp, Trying
    <3> QED BY <3>2 DEF Steady
  <2>3. CASE Goto("restoreCopy") /\ UNCHANGED docker
    BY <2>1, <2>3, GoSteady DEF Goto
  <2> QED BY <1>2, <2>2, <2>3 DEF CreateCandidate, Reliable
<1>3. CASE Install
  <2>1. /\ at = "install" /\ Nobody /\ UNCHANGED <<disk, world>>
        /\ dir["state"] = Empty /\ written = 0
    BY <1>3 DEF Install, Who, Nobody, Steady, Fits
  <2>2. ASSUME NEW c \in Containers, Creates(c, "stable", "booting"),
               at' = "await", new' = c, UNCHANGED <<old, result>>
        PROVE  Steady'
    <3>1. Named' = {c}
      BY <2>1, <2>2, CreatesSets DEF Nobody
    <3>2. \A b \in Containers : status'[b] \notin {"opened", "bound", "up"}
      BY <1>1, <2>1, <2>2 DEF Nobody
    <3>3. dir'["state"] # Missing /\ dir'["state"].schema <= version'[c]
      BY <1>1, <2>1, <2>2, Contents DEF Nobody
    <3>4. Fits'
      BY <2>2, <3>1, <3>2, <3>3 DEF Fits, Usable, Copying, BackedUp, Trying
    <3>5. Kept'
      BY <2>1, <2>2, Contents DEF Kept, Copying, BackedUp, Trying
    <3> QED BY <3>4, <3>5 DEF Steady
  <2>3. CASE Return("error") /\ UNCHANGED docker
    BY <2>1, <2>3, GoSteady DEF Return
  <2> QED BY <1>3, <2>2, <2>3 DEF Install, Reliable
<1> QED BY <1>2, <1>3

\* The candidate takes over, its state with it.
LEMMA SwapSteady ==
    ASSUME Base, Who, Steady, Wait \/ Await \/ RenameOld \/ RenameNew \/ RemoveOld
    PROVE  Steady'
<1>1. CASE Wait
  BY <1>1, GoSteady DEF Wait, Goto
<1>2. CASE Await
  <2>1. Named # {}
    BY <1>2 DEF Await, Who, Sole
  <2> QED BY <1>2, <2>1, GoSteady DEF Await, Return
<1>3. CASE RenameOld \/ RenameNew
  <2>1. CASE at' = "dropNew"
    BY <1>3, <2>1, GoSteady DEF RenameOld, RenameNew, Goto
  <2>2. CASE at' # "dropNew"
    <3>1. /\ UNCHANGED <<version, status, socket, disk, world, old, new>>
          /\ \/ at = "renameOld" /\ at' = "renameNew"
             \/ at = "renameNew" /\ at' = "removeOld"
      BY <1>3, <2>2 DEF RenameOld, RenameNew, Renames, Goto
    <3>2. Fits' /\ Kept'
      BY <3>1 DEF Steady, Fits, Kept, Usable, Current, Copying, BackedUp, Trying
    <3> QED BY <3>2 DEF Steady
  <2> QED BY <2>1, <2>2
<1>4. CASE RemoveOld
  <2>1. /\ at = "removeOld" /\ at' = "await" /\ UNCHANGED <<disk, world, old, new>>
        /\ new \in Containers /\ new # old /\ Sole(new) /\ old \in Containers
        /\ status[new] = "up"
    BY <1>4, UpgradeAssumption
       DEF RemoveOld, Goto, Who, Steady, Fits, Base, TypeOK
  <2>2. CASE UNCHANGED docker
    BY <2>1, <2>2, GoSteady
  <2>3. CASE Deletes(old)
    <3>1. Named' = {new} /\ Running' = {new}
      BY <2>1, <2>3, DeletesSets DEF Sole
    <3>2. /\ version'[new] = version[new] /\ status'[new] = "up"
          /\ \A b \in Containers : b # new => status'[b] \notin {"opened", "bound", "up"}
      <4>1. version'[new] = version[new] /\ status'[new] = "up"
        BY <2>1, <2>3 DEF Deletes, Stops, Base, TypeOK
      <4>2. \A b \in Containers : status'[b] \in {"opened", "bound", "up"} => b \in Running'
        BY DEF Running, Runs
      <4> QED BY <3>1, <4>1, <4>2
    <3>3. dir["state"] # Missing /\ dir["state"].schema = version[new]
          /\ version[new] <= version[new]
      BY <2>1, Contents DEF Steady, Fits
    <3>4. Fits'
      BY <2>1, <3>1, <3>2, <3>3 DEF Fits, Usable, Copying, BackedUp, Trying
    <3>5. Kept'
      BY <2>1 DEF Steady, Kept, Current, Copying, BackedUp, Trying
    <3> QED BY <3>4, <3>5 DEF Steady
  <2> QED BY <1>4, <2>2, <2>3 DEF RemoveOld
<1> QED BY <1>1, <1>2, <1>3, <1>4

\* The old controller comes back to the state of the backup.
LEMMA RollbackSteady ==
    ASSUME Reliable, Base, Who, Steady, DropNew \/ RenameBack \/ StartOld PROVE Steady'
<1>1. old \in Containers
  BY UpgradeAssumption DEF DropNew, RenameBack, StartOld, Base, TypeOK
<1>2. CASE DropNew
  <2>1. /\ at = "dropNew" /\ at' \in {"renameBack", "restoreCopy"} /\ Running = {new}
        /\ new \in Containers /\ new # old /\ Deletes(new)
        /\ UNCHANGED <<disk, world, old, new>>
    BY <1>2 DEF DropNew, Goto, Who, Trying, Base, Halted, Reliable
  <2>2. Running' = {} /\ version'[old] = version[old]
    BY <1>1, <2>1, DeletesSets DEF Deletes, Base, TypeOK
  <2>3. \A b \in Containers : status'[b] \notin {"opened", "bound", "up"}
    BY <2>2 DEF Running, Runs
  <2>4. Fits' /\ Kept'
    BY <2>1, <2>2, <2>3 DEF Steady, Fits, Kept, Usable, Current, Copying, BackedUp, Trying
  <2> QED BY <2>4 DEF Steady
<1>3. CASE RenameBack
  <2>1. /\ at = "renameBack" /\ at' = "restoreCopy" /\ Running = {}
        /\ UNCHANGED <<version, status, disk, world, old, new>>
    BY <1>3 DEF RenameBack, Renames, Goto, Who, Stopping, Reliable
  <2>2. Fits' /\ Kept'
    BY <2>1 DEF Steady, Fits, Kept, Usable, Current, Copying, BackedUp, Trying
  <2> QED BY <2>2 DEF Steady
<1>4. CASE StartOld
  <2>1. /\ at = "startOld" /\ at' = "idle" /\ Named = {old} /\ Running = {}
        /\ Starts(old) /\ UNCHANGED <<name, version, disk, world>>
    BY <1>4 DEF StartOld, Return, Who, Stopping, Reliable
  <2>2. Named' = {old}
    BY <2>1, SameSets
  <2>3. \A b \in Containers : status'[b] \notin {"opened", "bound", "up"}
    BY <1>1, <2>1 DEF Starts, Running, Runs, Base, TypeOK
  <2>4. Fits' /\ Kept'
    BY <1>1, <2>1, <2>2, <2>3
       DEF Steady, Fits, Kept, Usable, Current, Copying, BackedUp, Trying
  <2> QED BY <2>4 DEF Steady
<1> QED BY <1>2, <1>3, <1>4

\* The desktop is updated, or the application dies.
LEMMA WorldSteady ==
    ASSUME Reliable, Base, Who, Steady,
           (\E v \in Versions : UpdateDesktop(v)) \/ Crash
    PROVE  Steady'
<1>1. CASE \E v \in Versions : UpdateDesktop(v)
  <2>1. at = "idle" /\ UNCHANGED <<docker, disk, call, written>>
    BY <1>1 DEF UpdateDesktop
  <2>2. Fits' /\ Kept'
    BY <2>1, SameSets
       DEF Steady, Fits, Kept, Usable, Current, Copying, BackedUp, Trying
  <2> QED BY <2>2 DEF Steady
<1>2. CASE Crash
  <2>1. at = "idle" /\ Running' = Running /\ Named' = Named
    BY <1>2, CrashWho
  <2>2. at' = "idle" /\ UNCHANGED <<name, version, dir, written>>
    BY <1>2 DEF Crash, Return
  <2>3. \A c \in Containers : status'[c] \in {"opened", "bound", "up"} => FALSE
    BY <1>2, <2>1 DEF Crash, Running, Runs, Base, TypeOK
  <2>4. Fits' /\ Kept'
    BY <2>1, <2>2, <2>3
       DEF Steady, Fits, Kept, Usable, Current, Copying, BackedUp, Trying
  <2> QED BY <2>4 DEF Steady
<1> QED BY <1>1, <1>2

\* Every step keeps what the state directory and its backup have.
LEMMA NextSteady == Reliable /\ Base /\ Who /\ Steady /\ [Next]_vars => Steady'
<1> SUFFICES ASSUME Reliable, Base, Who, Steady, [Next]_vars PROVE Steady'
  OBVIOUS
<1>1. CASE UNCHANGED vars
  BY <1>1, SameSets DEF vars, Steady, Fits, Kept, Usable, Current
<1> QED BY <1>1, FirstSteady, OpenSteady, BindSteady, WriteSteady, DiagnoseSteady,
           BackUpSteady, RestoreSteady, CreateSteady, SwapSteady, RollbackSteady, WorldSteady
        DEF Next, Bootstrap

\* The first states satisfy it.
LEMMA InitSteady == Init => Steady
BY DEF Init, Steady, Fits, Kept, Named, Copying, BackedUp, Trying

\* What the state directory and its backup have, at each stage of a call.
LEMMA SteadyCorrect == ASSUME Reliable PROVE Spec => []Steady
BY InitSteady, NextSteady, BaseCorrect, WhoCorrect, PTL DEF Spec

\* UserDataSurvives: at every moment the state directory or its backup has everything
\* the user has changed.
THEOREM UserDataSurvivesCorrect == ASSUME Reliable PROVE Spec => []UserDataSurvives
<1>1. Steady => UserDataSurvives
  BY DEF Steady, Kept, Current, BackedUp, UserDataSurvives
<1> QED BY <1>1, SteadyCorrect, PTL

\* FailedUpgradeRestores: when a bootstrap has returned an error, the container with
\* the stable name runs and its version accepts the state.
THEOREM FailedUpgradeRestoresCorrect == ASSUME Reliable PROVE Spec => []FailedUpgradeRestores
<1>1. Who /\ Steady => FailedUpgradeRestores
  BY DEF Who, Nobody, Sole, Steady, Fits, Usable, FailedUpgradeRestores
<1> QED BY <1>1, WhoCorrect, SteadyCorrect, PTL
=============================================================================
