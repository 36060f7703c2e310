------------------------- MODULE ControllerUpgrade -------------------------
(***************************************************************************)
(* How the desktop installs and upgrades the controller (bootstrap.rs).    *)
(*                                                                         *)
(* The controller is a Docker container with a well-known name.  It keeps  *)
(* everything in the state directory and answers on a Unix socket.  A      *)
(* desktop that is not answered by a controller of its own version stops   *)
(* the named container, backs the state directory up, starts a candidate   *)
(* on the same directory, waits for it, and gives it the name; when        *)
(* something goes wrong it removes the candidate, restores the directory   *)
(* and starts the old container again.                                     *)
(*                                                                         *)
(* The desktop may be closed at any moment: what it had in hand is lost,   *)
(* containers and directories stay.  Docker restarts after a reboot what   *)
(* was running before, and restarts a controller that exits.               *)
(***************************************************************************)
EXTENDS Naturals, FiniteSets

CONSTANTS
    Containers,  \* ids Docker can give
    Versions,    \* versions of the desktop, of its controller and its schema
    Updates,     \* pairs of versions: the second is installed over the first
    None,        \* no container
    Missing,     \* a directory that does not exist
    Faults,      \* what may go wrong
    Interrupted, \* may the desktop stop while a bootstrap is running?
    MaxUpdates,  \* bound on changes of the desktop's version
    MaxWrites,   \* bound on the user's changes
    MaxCrashes   \* bound on closed desktops and reboots

(* docker     a call of Docker on the way forward fails                    *)
(* files      an operation of the backup fails                             *)
(* recovery   an operation that undoes what was done fails as well         *)
Fault == {"docker", "files", "recovery"}

ASSUME UpgradeAssumption ==
    /\ Versions \subseteq Nat \ {0}
    /\ Updates \subseteq Versions \X Versions
    /\ Interrupted \in BOOLEAN
    /\ None \notin Containers /\ Missing \notin [schema : Nat, data : Nat]
    /\ Faults \subseteq Fault
    /\ MaxUpdates \in Nat /\ MaxWrites \in Nat /\ MaxCrashes \in Nat

VARIABLES
    name,     \* the name of each container
    version,  \* the version of each container, 0 when there is none
    status,   \* how far each container has come
    socket,   \* the container that has bound the socket
    dir,      \* contents of the state directory and of its backup
    copied,   \* contents of the copy being made
    aside,    \* contents of the directory that is being replaced
    at,       \* where bootstrap_controller is
    old,      \* the container it found under the name
    new,      \* the container it has created
    result,   \* what it returned last
    desktop,  \* version of the desktop
    written,  \* changes made by the user
    updates,  \* desktop versions installed so far
    crashes   \* crashes so far

docker == <<name, version, status, socket>>
disk   == <<dir, copied, aside>>
call   == <<at, old, new, result>>
world  == <<desktop, written, updates, crashes>>
vars   == <<docker, disk, call, world>>

-----------------------------------------------------------------------------
(* Vocabulary *)

Name   == {"none", "stable", "candidate", "rollback"}
Runs   == {"booting", "opened", "bound", "up"}
Status == {"absent", "stopped"} \cup Runs
Stage  == {"idle", "find", "image", "stop", "backupCopy", "backupOut", "backupIn",
           "create", "wait", "renameOld", "renameNew", "removeOld", "dropNew",
           "renameBack", "restoreCopy", "restoreOut", "restoreIn", "startOld",
           "install", "await"}

Content == [schema : Versions \cup {0}, data : Nat]
Empty   == [schema |-> 0, data |-> 0]

Running == {c \in Containers : status[c] \in Runs}
Healthy == socket # None /\ status[socket] = "up" /\ version[socket] = desktop
\* A connection is accepted, and nobody answers the request: it has no timeout.
Accepting == socket # None /\ status[socket] = "bound"
Named   == {c \in Containers : name[c] = "stable"}

Goto(stage) == at' = stage /\ UNCHANGED <<old, new, result>>
Return(how) == at' = "idle" /\ result' = how /\ old' = None /\ new' = None

Starts(c) == status' = [status EXCEPT ![c] = "booting"]
\* Nobody answers on the socket of a container that stops.
Stops(c, s) ==
    /\ status' = [status EXCEPT ![c] = s]
    /\ socket' = IF socket = c THEN None ELSE socket
Deletes(c) ==
    /\ Stops(c, "absent")
    /\ name' = [name EXCEPT ![c] = "none"]
    /\ version' = [version EXCEPT ![c] = 0]
Renames(c, to) ==
    /\ name' = [name EXCEPT ![c] = to]
    /\ UNCHANGED <<version, status, socket>>

(* create_controller: a container that does not start is removed again.    *)
Creates(c, as, s) ==
    /\ status[c] = "absent"
    /\ name' = [name EXCEPT ![c] = as]
    /\ version' = [version EXCEPT ![c] = desktop]
    /\ status' = [status EXCEPT ![c] = s]
    /\ UNCHANGED socket

-----------------------------------------------------------------------------
(* The controller in its container: main() up to axum::serve *)

\* The socket file is removed whoever bound it; an older controller refuses
\* the schema, exits and is started again.
Open(c) ==
    /\ status[c] = "booting"
    /\ socket' = None
    /\ IF dir["state"] # Missing /\ dir["state"].schema <= version[c]
       THEN /\ dir' = [dir EXCEPT !["state"] = [schema |-> version[c], data |-> @.data]]
            /\ status' = [status EXCEPT ![c] = "opened"]
       ELSE UNCHANGED <<dir, status>>
    /\ UNCHANGED <<name, version, copied, aside, call, world>>

\* The address is in use when another controller was faster.
Bind(c) ==
    /\ status[c] = "opened"
    /\ IF socket = None
       THEN status' = [status EXCEPT ![c] = "bound"] /\ socket' = c
       ELSE Starts(c) /\ UNCHANGED socket
    /\ UNCHANGED <<name, version, disk, call, world>>

\* Interrupted operations are resumed and frpc is refreshed before the first
\* request is answered.
Serve(c) ==
    /\ status[c] = "bound"
    /\ status' = [status EXCEPT ![c] = "up"]
    /\ UNCHANGED <<name, version, socket, disk, call, world>>

\* The user changes something through a controller the desktop accepts.
Write ==
    /\ at = "idle" /\ Healthy
    /\ dir["state"] # Missing
    /\ written < MaxWrites
    /\ written' = written + 1
    /\ dir' = [dir EXCEPT !["state"] = [schema |-> @.schema, data |-> written + 1]]
    /\ UNCHANGED <<docker, copied, aside, call, desktop, updates, crashes>>

-----------------------------------------------------------------------------
(* bootstrap_controller_impl up to the candidate *)

\* AppPaths::create makes the directories that are missing.
Diagnose ==
    /\ at = "idle"
    /\ ~Accepting /\ ~Healthy
    /\ at' = "find" /\ result' = "none" /\ UNCHANGED <<old, new>>
    /\ dir' = IF dir["state"] = Missing THEN [dir EXCEPT !["state"] = Empty]
                                        ELSE dir
    /\ UNCHANGED <<docker, copied, aside, world>>

Find ==
    /\ at = "find"
    /\ \/ /\ at' = "image"
          /\ old' \in IF Named = {} THEN {None} ELSE Named
          /\ UNCHANGED <<new, result>>
       \/ "docker" \in Faults /\ Return("error")
    /\ UNCHANGED <<docker, disk, world>>

\* Mutant: a container to stop is taken for granted.
EnsureImageThenStop ==
    /\ at = "image"
    /\ Goto("stop")
    /\ UNCHANGED <<docker, disk, world>>

\* The image is imported before anything is stopped.
EnsureImage ==
    /\ at = "image"
    /\ \/ Goto(IF old = None THEN "install" ELSE "stop")
       \/ "docker" \in Faults /\ Return("error")
    /\ UNCHANGED <<docker, disk, world>>

\* Mutant: the old controller is not stopped.
StopForgotten ==
    /\ at = "stop"
    /\ Goto("backupCopy")
    /\ UNCHANGED <<docker, disk, world>>

Stop ==
    /\ at = "stop"
    /\ \/ /\ IF old \in Running THEN Stops(old, "stopped")
                                ELSE UNCHANGED <<status, socket>>
          /\ Goto("backupCopy")
       \/ /\ "docker" \in Faults
          /\ Return("error")
          /\ UNCHANGED <<status, socket>>
    /\ UNCHANGED <<name, version, disk, world>>

\* Without a candidate the directories are restored all the same.
CreateCandidate ==
    /\ at = "create"
    /\ \/ \E c \in Containers :
             /\ Creates(c, "candidate", "booting")
             /\ at' = "wait" /\ new' = c
             /\ UNCHANGED <<old, result>>
       \/ /\ "docker" \in Faults
          /\ Goto("restoreCopy")
          /\ \/ UNCHANGED docker
             \/ /\ "recovery" \in Faults
                /\ \E c \in Containers : Creates(c, "candidate", "stopped")
    /\ UNCHANGED <<disk, world>>

Install ==
    /\ at = "install"
    /\ \/ \E c \in Containers :
             /\ Creates(c, "stable", "booting")
             /\ at' = "await" /\ new' = c
             /\ UNCHANGED <<old, result>>
       \/ /\ "docker" \in Faults
          /\ Return("error")
          /\ \/ UNCHANGED docker
             \/ /\ "recovery" \in Faults
                /\ \E c \in Containers : Creates(c, "stable", "stopped")
    /\ UNCHANGED <<disk, world>>

\* Mutant: the number of polls is not bounded.
WaitForEver ==
    /\ at = "wait"
    /\ Healthy
    /\ Goto("renameOld")
    /\ UNCHANGED <<docker, disk, world>>

\* wait_for_current_controller: whoever answers; forty polls, then no longer.  A
\* poll that was accepted lasts until it is answered or the controller is gone.
Wait ==
    /\ at = "wait" /\ ~Accepting
    /\ Goto(IF Healthy THEN "renameOld" ELSE "dropNew")
    /\ UNCHANGED <<docker, disk, world>>

Await ==
    /\ at = "await" /\ ~Accepting
    /\ Return(IF Healthy THEN "ok" ELSE "error")
    /\ UNCHANGED <<docker, disk, world>>

-----------------------------------------------------------------------------
(* The names change hands, or the upgrade is rolled back *)

RenameOld ==
    /\ at = "renameOld"
    /\ \/ Renames(old, "rollback") /\ Goto("renameNew")
       \/ "docker" \in Faults /\ Goto("dropNew") /\ UNCHANGED docker
    /\ UNCHANGED <<disk, world>>

RenameNew ==
    /\ at = "renameNew"
    /\ \/ Renames(new, "stable") /\ Goto("removeOld")
       \/ "docker" \in Faults /\ Goto("dropNew") /\ UNCHANGED docker
    /\ UNCHANGED <<disk, world>>

RemoveOld ==
    /\ at = "removeOld"
    /\ Goto("await")
    /\ \/ Deletes(old)
       \/ "docker" \in Faults /\ UNCHANGED docker
    /\ UNCHANGED <<disk, world>>

\* Mutant: the candidate is left running.
DropNewForgotten ==
    /\ at = "dropNew"
    /\ Goto(IF name[old] = "rollback" THEN "renameBack" ELSE "restoreCopy")
    /\ UNCHANGED <<docker, disk, world>>

\* rollback_controller_upgrade
DropNew ==
    /\ at = "dropNew"
    /\ Goto(IF name[old] = "rollback" THEN "renameBack" ELSE "restoreCopy")
    /\ \/ Deletes(new)
       \/ "recovery" \in Faults /\ UNCHANGED docker
    /\ UNCHANGED <<disk, world>>

RenameBack ==
    /\ at = "renameBack"
    /\ Goto("restoreCopy")
    /\ \/ Renames(old, "stable")
       \/ "recovery" \in Faults /\ UNCHANGED docker
    /\ UNCHANGED <<disk, world>>

\* Every failed upgrade ends here, whatever became of the directories.
StartOld ==
    /\ at = "startOld"
    /\ Return("error")
    /\ \/ Starts(old)
       \/ "recovery" \in Faults /\ UNCHANGED status
    /\ UNCHANGED <<name, version, socket, disk, world>>

-----------------------------------------------------------------------------
(* replace_backup and restore_backup: copy a tree, move the directory that *)
(* is there aside, move the copy into its place.                           *)

CopyTree(stage, from, next, fault) ==
    /\ at = stage
    /\ \/ dir[from] # Missing /\ copied' = dir[from] /\ Goto(next)
       \/ /\ dir[from] = Missing \/ fault \in Faults
          /\ UNCHANGED copied /\ Goto("startOld")
    /\ UNCHANGED <<docker, dir, aside, world>>

MoveAside(stage, d, next, fault) ==
    /\ at = stage
    /\ \/ /\ aside' = dir[d]
          /\ dir' = [dir EXCEPT ![d] = Missing]
          /\ Goto(next)
       \/ fault \in Faults /\ UNCHANGED <<dir, aside>> /\ Goto("startOld")
    /\ UNCHANGED <<docker, copied, world>>

\* When the copy cannot be moved in, what was there is moved back, if it can;
\* when what was there cannot be removed, the copy is in place all the same.
MoveIn(stage, d, next, fault) ==
    /\ at = stage
    /\ \/ dir' = [dir EXCEPT ![d] = copied] /\ Goto(next)
       \/ /\ fault \in Faults
          /\ \E there \in {copied, aside} \cup
                  (IF "recovery" \in Faults THEN {Missing} ELSE {}) :
                dir' = [dir EXCEPT ![d] = there]
          /\ Goto("startOld")
    /\ aside' = Missing /\ copied' = Missing
    /\ UNCHANGED <<docker, world>>

\* Mutant: the upgrade goes on when the state cannot be copied.
BackUpErrorIgnored ==
    \/ /\ at = "backupCopy" /\ "files" \in Faults
       /\ Goto("create")
       /\ UNCHANGED <<docker, disk, world>>
    \/ CopyTree("backupCopy", "state", "backupOut", "files")
    \/ MoveAside("backupOut", "backup", "backupIn", "files")
    \/ MoveIn("backupIn", "backup", "create", "files")

BackUp ==
    \/ CopyTree("backupCopy", "state", "backupOut", "files")
    \/ MoveAside("backupOut", "backup", "backupIn", "files")
    \/ MoveIn("backupIn", "backup", "create", "files")

\* Mutant: the old controller gets the directory as the candidate left it.
RestoreForgotten ==
    /\ at = "restoreCopy"
    /\ Goto("startOld")
    /\ UNCHANGED <<docker, disk, world>>

Restore ==
    \/ CopyTree("restoreCopy", "backup", "restoreOut", "recovery")
    \/ MoveAside("restoreOut", "state", "restoreIn", "recovery")
    \/ MoveIn("restoreIn", "state", "startOld", "recovery")

-----------------------------------------------------------------------------
\* Another version of the application is installed.
UpdateDesktop(v) ==
    /\ at = "idle"
    /\ <<desktop, v>> \in Updates
    /\ updates < MaxUpdates
    /\ updates' = updates + 1
    /\ desktop' = v
    /\ UNCHANGED <<docker, disk, call, written, crashes>>

\* The desktop is closed, or the host goes down and Docker starts again what
\* was running.
Crash ==
    /\ at = "idle" \/ Interrupted
    /\ crashes < MaxCrashes
    /\ crashes' = crashes + 1
    /\ Return("none")
    /\ copied' = Missing /\ aside' = Missing
    /\ \/ at # "idle" /\ UNCHANGED docker
       \/ /\ status' = [c \in Containers |->
                           IF c \in Running THEN "booting" ELSE status[c]]
          /\ socket' = None
          /\ UNCHANGED <<name, version>>
    /\ UNCHANGED <<dir, desktop, written, updates>>

Init ==
    /\ name = [c \in Containers |-> "none"]
    /\ version = [c \in Containers |-> 0]
    /\ status = [c \in Containers |-> "absent"]
    /\ socket = None
    /\ dir = [d \in {"state", "backup"} |-> Missing]
    /\ copied = Missing /\ aside = Missing
    /\ at = "idle" /\ old = None /\ new = None /\ result = "none"
    /\ desktop \in Versions
    /\ written = 0 /\ updates = 0 /\ crashes = 0

Bootstrap ==
    \/ Find \/ EnsureImage \/ Stop \/ BackUp \/ CreateCandidate \/ Install \/ Wait \/ Await
    \/ RenameOld \/ RenameNew \/ RemoveOld
    \/ DropNew \/ RenameBack \/ Restore \/ StartOld

Next ==
    \/ Diagnose
    \/ Bootstrap
    \/ \E c \in Containers : Open(c) \/ Bind(c) \/ Serve(c)
    \/ Write
    \/ \E v \in Versions : UpdateDesktop(v)
    \/ Crash

Spec == Init /\ [][Next]_vars

\* Docker and the file system answer the desktop, and the polls are counted.  They
\* answer the controller too: it needs nothing else to serve what it has bound.
\* That it ever binds its socket is not assumed.
FairSpec ==
    /\ Spec
    /\ WF_vars(Bootstrap)
    /\ \A c \in Containers : WF_vars(Serve(c))

-----------------------------------------------------------------------------
(* Properties *)

(* The variables hold what Docker, the file system and the locals of       *)
(* bootstrap_controller_impl can hold; the old container is known from     *)
(* where it is stopped to where it is removed or started again.            *)
TypeOK ==
    /\ name \in [Containers -> Name]
    /\ version \in [Containers -> Versions \cup {0}]
    /\ status \in [Containers -> Status]
    /\ \A c \in Containers :
          /\ status[c] = "absent" <=> name[c] = "none"
          /\ status[c] = "absent" <=> version[c] = 0
    /\ socket \in Containers \cup {None}
    /\ socket # None => status[socket] \in {"bound", "up"}
    /\ dir \in [{"state", "backup"} -> Content \cup {Missing}]
    /\ copied \in Content \cup {Missing}
    /\ aside \in Content \cup {Missing}
    /\ at \in Stage
    /\ old \in Containers \cup {None} /\ new \in Containers \cup {None}
    /\ at \notin {"idle", "find", "image", "install", "await"} => old # None
    /\ result \in {"none", "ok", "error"}
    /\ desktop \in Versions
    /\ written \in Nat /\ updates \in Nat /\ crashes \in Nat

(* Two controllers never run on one state directory, whichever step of an  *)
(* install, an upgrade or a rollback failed before.                        *)
OneController == Cardinality(Running) <= 1

(* The directories are copied and moved while no controller has the        *)
(* database open.                                                          *)
StateIsQuiet ==
    at \in {"backupCopy", "backupOut", "backupIn",
           "restoreCopy", "restoreOut", "restoreIn"} => Running = {}

(* At every moment one of the two directories that the next bootstrap      *)
(* knows has everything the user has changed.                              *)
UserDataSurvives ==
    written > 0 =>
        \E d \in {"state", "backup"} : dir[d] # Missing /\ dir[d].data = written

(* docs/v1-status.md: upgrades "restore the previous state/controller on   *)
(* failure".  When a bootstrap has returned an error, a container with the *)
(* stable name runs, and the state directory is one its version accepts.   *)
FailedUpgradeRestores ==
    at = "idle" /\ result = "error" /\ Named # {} =>
        \E c \in Named \cap Running :
            dir["state"] # Missing /\ dir["state"].schema <= version[c]

(* A bootstrap returns: also when the controller it waits for never opens  *)
(* the state or never binds its socket, but not when one binds it and is   *)
(* stuck before it serves, as a poll is then accepted and never answered.  *)
BootstrapReturns == at # "idle" ~> at = "idle"
=============================================================================
