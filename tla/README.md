# TLA+ specifications of webtop-manager

webtop-manager runs Linux desktops in Docker containers, publishes them through
frp, and turns them into templates that can be exported and imported. A desktop
application (Tauri) installs a *controller* — a Rust HTTP server on a Unix
socket, in a container of its own — and the controller does everything else:
pulls images, creates environments, and runs template jobs in the background
while requests come and go, connections close, and the process may be restarted
at any time.

This directory holds TLA+ models of the parts of that system where the order of
things matters, the TLC configurations that check them, and proofs for TLAPS.

    tlc -workers 2 -config DurableOperations_faults.cfg MCDurableOperations.tla
    tlapm DurableOperationsProofs.tla
    tlapm PublicationProofs.tla

`PROJECT.json` lists every run, which lines of the source each definition
stands for, the hazards the properties are aimed at, and what the runs found.

## 1. The system

| Part | Source | State | Operations | Modelled in |
|---|---|---|---|---|
| Durable operations | `api.rs`, `templates.rs`, `database.rs`, `main.rs` of `crates/controller` | rows of `operations`; `AppState`: `active_resources`, `pull_cancellations`, `operation_cancellations` | start a pull or a template job, cancel, prune or delete images, progress, terminal rows, recovery at boot | `DurableOperations` |
| Template jobs | `templates.rs`, `docker.rs`, `crates/worker` | rows of `templates`; image tags; files in the snapshot and staging roots | create, import, export, restore, delete, clean-up | `TemplateStore` |
| Environment lifecycle | `api.rs`, `docker.rs` | rows of `environments`; containers, their ports on the host; config directories | create, list, start, stop, restart, delete | `Publication`; `TemplateStore` beside template jobs |
| Publication | `api.rs`, `frp.rs`, `docker.rs` | `publication_lock`, remote ports, the frpc container, desired and actual state | publish, unpublish, start/stop/restart frpc, every refresh, retry on another port | `Publication` |
| FRP token | `api.rs`, `database.rs` | token file, fingerprint row, `token_lock` | make, adopt, recover, test, suspend | `FrpToken` |
| Installation and upgrade | `src-tauri/src/bootstrap.rs` | controller containers, the state directory and its backup | bootstrap: find, back up, candidate, wait, rename, roll back | `ControllerUpgrade` |
| Native transfer of packages | `src-tauri/src/lib.rs` | staging root, maps of sources, destinations and cancellations | select, stage, save, stop, discard | `PackageTransfer` |
| Front end | `src/features`, `src/lib/persistentOperations.ts` | operation ids in localStorage, dialogs, banners | save an export once it is over, retry, discard, import, leave, reload | `PackageTransfer`, for exports and imports |
| Controller client, contracts, pages, scripts | — | none of interest | — | not modelled |

**How the parts interact.** The desktop talks to the controller over the
socket. A handler of the controller runs as a future: it is suspended at every
`await`, and dropped there when its connection closes. Long work is handed to a
detached task (`tokio::spawn`). Handlers and tasks meet in three tables, each
under its own mutex, and in SQLite, whose updates of `operations` are
unconditional. Template jobs change SQLite, Docker and the file system, and
nothing makes a change of two of these atomic. Only SQLite, Docker and the disk
survive the process. Publication and token have two more mutexes, which are
held over many awaits and taken in the order `publication_lock`, `token_lock`;
creating, starting, stopping and deleting an environment take the first one
only for the refresh at their end. The desktop and the controller share the
staging root, without a lock. The controller knows nothing of its own upgrade: the
desktop stops it, copies its directory and starts another one on it.

**What is hard.**

* Check-then-act over several awaits: a cancel that reads a phase, signals and
  writes; a delete that counts dependants before it reserves; a start or stop
  that asks whether an environment is busy; a refresh that is asked for because
  of a row read before the container was stopped.
* A list of all environments, read once under the lock, then used over the
  calls of Docker and the answer of a server that may refuse a port.
* Reservations that pass from a handler to a task, and undo paths that must
  take back exactly what they put in.
* Two writers of one row: a job, the task that writes its progress, a cancel.
* Every job has five or more exits, with clean-up that ignores its errors.
* A restart between any two steps; rows requeued or made retryable, partial
  files removed, pulls started again, all before requests are served.
* An upgrade of nine steps on shared state, each of which may fail, and whose
  rollback goes through containers, names and directories.

**What makes each part correct.**

* *Durable operations*: a name has one holder at a time; nothing is reserved
  for ever; a running operation can be cancelled; a row is terminal only when
  the work is over, and every row that is not will be.
* *Template jobs*: a published template has its row, its tag and its file; a
  failed or cancelled job leaves nothing; what others depend on stays.
* *Publication*: a remote port belongs to one environment; frpc forwards the
  published environments that should run, to where they are, and no other.
* *Token*: one token until it is lost; what replaces it is made once, and used
  only when it has been tested; meanwhile frpc does not run.
* *Upgrade*: one controller on a state directory; nothing of the user's is
  lost; after a failure the old controller runs on a state it accepts.
* *Native transfer and front end*: an exported package is never lost, a copy
  that does not succeed tries to remove its file, a stop in time is honoured.

## 2. Modules

| Module | What it is |
|---|---|
| `ExclusiveReservations` | abstract: what `active_resources` promises; names with owners |
| `DurableOperations` | handlers, tasks, tables, rows, crash and boot |
| `ReservationRefinement` | the owner of a name in `DurableOperations`; refinement |
| `DurableOperationsProofs` | its types, and who holds a name |
| `OperationLifecycleProofs` | the rows: when they are final, cleaned, cancellable, worked on |
| `ReservationProofs` | the refinement of `ExclusiveReservations`, and no name left behind |
| `MCDurableOperations` | instances |
| `TemplateCatalog` | abstract: what a template store promises to its readers |
| `TemplateStore` | the five template jobs and the requests they race with |
| `CatalogRefinement` | how templates appear and who reads them; refinement |
| `TemplateStoreProofs` | theorems about `TemplateStore`, and the refinement |
| `MCTemplateStore` | instances |
| `ControllerUpgrade` | `bootstrap.rs`, and the boot of the controllers it starts |
| `ControllerUpgradeProofs` | theorems about `ControllerUpgrade` |
| `MCControllerUpgrade` | instances |
| `Publication` | environments, their containers, and what frpc forwards |
| `PublicationProofs` | theorems about `Publication` |
| `MCPublication` | instances: tables to begin with, modes |
| `FrpToken` | the token file, its row, and who looks at them |
| `FrpTokenProofs` | theorems about `FrpToken` |
| `MCFrpToken` | the instance |
| `PackageTransfer` | packages between the staging root and the user's files |
| `PackageTransferProofs` | theorems about `PackageTransfer` |
| `MCPackageTransfer` | the instance |

Operators named after a definition of the model and marked `Mutant:` in their
comment are wrong on purpose: each is a plausible bug of the code, and putting
it in the place of the real definition makes TLC find one of the properties
violated. No specification uses them otherwise.

### DurableOperations

`phase` is the table `operations`, the one variable (with `residue`, the
artifacts of a job on disk) that a crash leaves. `active`, `pullSenders` and `opSenders`
are the three tables of `AppState`; `signalled` is the value of the watch
channels whose senders they hold; `pullGuard` is the holder of the
`pull_cancellations` mutex, which prune, delete and cancel keep across awaits.
The other mutexes are held for one statement and need no variable.

`at[r]` is the await a request is suspended at, `on[r]` the operation it works
on. One action is the code from one await to the next; every lock section, every
row written and every spawn is on its own action unless the code runs them in
one poll. `task[o]` goes through the stages of the detached tasks: `spawned`
(the row becomes running), `body` (Docker or the worker), `drain` (a pull waits
for its progress task), `cleanup`, `finish` (the terminal row), `unlinkPull`,
`unlinkOp`, `release`.

`Vanish` drops a handler whose connection closed. `Crash` empties memory;
`RecoverRow`, `CleanPartialFiles`, `ResumePull` and `Serve` are the steps of
`main()` up to `axum::serve`.

What is abstracted:

* A request that is malformed or whose references do not match what the row
  says changes nothing, and has no action. `PullReattach` and `CancelRefused`
  are the refusals that depend on state.
* Logs, messages and percentages are left out. A progress row is a write of
  `running` (or `verifying` for a job).
* What a job does with images and files is one value, `residue`: nothing,
  something, or something whose removal was tried and failed (`stuck`), an error
  that the code ignores. `TemplateStore` is about the rest.
* Ids of jobs are fresh UUIDs; ids of pulls come from the desktop and can be
  used twice.
* `recover_unfinished_operations` is one row per step in any order, the SQL
  statement's order being unspecified; an error there ends the boot, which is
  what a `Crash` in that place shows.
* When the row of a job cannot be inserted the handler leaves with `?` and its
  reservation stays. The model does the same: this is why `NoOrphanReservation`
  is checked where rows are written, and why the abstract specification has an
  action `Lose`.

### ExclusiveReservations and ReservationRefinement

The abstract specification says for each name who owns it: nobody, a handler, a
task, or nobody any more (`Lost`). `Acquire` takes free names, `Release` and
`HandOver` give away all of one's own, `Lose` and `Restart` are the two ways a
name leaves its owner otherwise. `ownerOf` computes the owner in the detailed
model from the stages of handlers and tasks, and from `active` only whether a
name without holder is lost. `ReservationsAreExclusive` is the refinement.

### TemplateStore

`parts[o]` is what operation `o` has put on disk and into Docker: temporary
file, snapshot, staging tag, template tag, work directory, package, config
directory. A template `t` is whole when both `templateTag` and `snapshot` are
among `parts[t]`. Each job is an automaton over `step`; errors, the cancel
channel and four kinds of fault decide how it leaves a step:

* `storage` — a write to SQLite or to the state directory fails, also those
  whose `?` skips a clean-up;
* `removal` — a removal under `let _ =` fails;
* `worker` — the worker process dies without removing its temporary file, or
  after renaming it;
* `inspect` — Docker does not answer about a container it has started.

The variable `mode`, chosen once from the constant `Modes`, says which jobs,
environments and faults a behaviour has and how often the controller may crash:
one run covers several small instances, and a property may ask for the mode in
which it is promised.

`visit[e]` is a start, stop or delete of an environment, between the check
`ensure_environment_not_busy` and what follows it. `CrashAndRestart` is a crash
and the whole boot: rows become `retryable`, and `cleanup_partial_files` sees
the direct entries of its two roots, which hold work directories and partial
packages but not the temporary files of snapshots, one level deeper.

What is abstracted: a reservation is one step, since `DurableOperations` shows
what it amounts to; one lifecycle request per environment at a time; stopping
and removing a container are one step; the staged package of an import is there
from the start, and an exported package stays until the desktop fetches it (the
desktop is external); `docker rmi` without force refuses the image of an
existing container but not a parent of another image; a name that is taken shows
as an insert that may fail; the contents of packages and archives, hashes
included, are whole or absent.

### TemplateCatalog

A template appears whole, is damaged only while nobody reads it, and disappears
after that. `CatalogIsAtomic` (in `CatalogRefinement`) says `TemplateStore`
implements it, with exports and restores as the readers.

### ControllerUpgrade

Docker is `name`, `version` and `status` of each container; `socket` is the
container that answers; `dir` is the contents of the state directory and of the
backup (schema of the database, last change of the user), `copied` and `aside`
the two temporary directories of `replace_backup` and `restore_backup`. `at` is
the statement `bootstrap_controller_impl` has come to. A controller boots in
three steps: `Open` removes the socket, checks the schema and migrates; `Bind`
binds the socket or is restarted by Docker; `Serve` comes after what the
controller resumes and reconciles. In between it accepts connections and answers
none (`Accepting`): since a request of the desktop has no timeout, `Wait`,
`Await` and `Diagnose`, which ask for the health, are not enabled then.

`Faults` lets Docker's forward calls (`docker`), the backup (`files`) and the
steps that undo what was done (`recovery`) fail. `Interrupted` lets the desktop
be closed while a bootstrap is running; otherwise it is closed, or the host
reboots, between two.

What is abstracted: the schema of a version is its version number; a migration
is one step; one desktop, hence one bootstrap, at a time; forty polls of 250 ms
without an answer are a nondeterministic choice made while the controller is
not healthy, since a slow controller is not distinguished from a dead one; the
diagnoses of a Docker that is missing or forbidden, and a foreign container of
the same name, end the bootstrap before it changes anything; directories named
`.partial-`, `.previous-` and `.failed-` are never read again and disappear from
the model when the code loses interest in them.

### Publication

`row` is the table `environments` (published, whether its remote port was chosen
automatically, the port, whether it should run, the port on the host), `box` and
`host` are its containers and the ports Docker reaches them at, `forwards` what
the running frpc was told, `refused` the proxies its log reports as conflicts,
`desired` the row of `frpc_service_state`. `lock` is `publication_lock`; `view`,
`conflicts` and `rejected` are the local variables of
`start_frpc_with_port_retry`, which exist only under the lock. `req[r]` is a
request: its kind, the environment, the row it read first, the await it is at.

`Pick`, `Build`, `Insert` create an environment; `CallDocker`, `Remove`,
`Record`, `Sync` start, stop, restart and delete one; each goes on to `lock` only
if the row it read first was published (`RefreshIfPublished`). With the lock,
`List`, `Inspect`, `Connect`, `Poll`, `Move` are the rounds of the search for
ports. `Crash` ends all requests and begins the refresh of
`reconcile_runtime_state`; `Drop` ends one; `ContainerRestarts` and a host that
went down give containers other ports.

What is abstracted: the port on the host is one of two values, which differ after
every start; the server is the set of proxies it refuses, any that contains the
ports others hold (`MaxForeign`) and one of every two equal ports;
`list_environments`, which asks Docker about one environment after the other, is
one step, and so is the same loop of a refresh; names of proxies, the text of
`frpc.toml`, credentials and the directories of environments are left out.
`mode` chooses whether environments change while another request runs, which
faults there are, and the bounds. The branch of `publish_environment` that finds
no free port needs more environments than ports and is not reached.

### FrpToken

`file` is the token file, `row` the fingerprint with its `pending` flag, `frpc`
the token frpc runs with; `publication` and `token` are the two locks. Tokens are
numbered as they are made; `recovered` and `tested` are history variables. The
actions follow `inspect_or_initialize_server_token` (`Read`, `Decide`,
`Generate`, `Record`) and what each request does with the answer (`Follow`):
suspend frpc, save settings, replace the token (`RemoveFrpc`, `Undesire`,
`ReplaceSecret`, `SavePending`), start frpc (`Connect`, `Desire`), test it
(`Test`, `Complete`). `LoseFile` removes or exchanges the file, `Drop` and
`Crash` cut requests short. An installation is new, one whose version kept no
fingerprint, or one that was used (`install`).

What is abstracted: a token is its number and its fingerprint; writing a file of
its own and renaming it is one step; what frpc forwards is `Publication`'s
subject.

### PackageTransfer

`staged` and `partial` are the packages and the temporary files, `saved` what
each destination holds; `destinations`, `sources` and `flag` are the three
tables of `lib.rs`. `tracked` is localStorage; `handled`, `pending`, `opened` and
`active` are the state of `TemplatesPage.tsx`. `Start`, `Open`, `Copy`, `Rename`,
`Tidy`, `Leave` are the command on its thread, `Answer` is the page that gets its
result. `LeavePage` is the user who goes to another page and comes back: the
component is mounted anew and its timers are cleared, but the calls of the old
one go on and their answers still have the effects that are not on the screen
(`late` are the timers these set). After a `Reload` nobody gets the answers.
`Exit` ends the desktop; `ControllerStarts` is `cleanup_partial_files` of a
controller that boots beside it. With `Faulty` every file operation may fail,
the removals whose errors the code ignores among them: `stuck` remembers the
temporary files that stayed for that reason.

What is abstracted: a copy is one step that looks at the flag first, the flag
being looked at before each block; destinations are different files; an import
takes its package away in the step that starts it, since `TemplateStore` is about
the job; the tables' mutexes are held for one statement. Package names that the
desktop refuses change nothing.

## 3. Properties and runs

| Run | Checks | Instance |
|---|---|---|
| `operations_faults` | `TypeOK`, `Exclusion`, `RunningIsCancellable`, `TerminalMeansDone`, `CancelledAfterCleanup`, `ReopenedOnlyByLateCancel`, `ReservationsAreExclusive` | any two of two pulls, an export and a restore of the same template, two requests at a time, one crash; rows may not be written, connections may close, removals may fail |
| `operations_liveness` | `NoOrphanReservation`, `NoStaleChannel`, `UnfinishedIsWorkedOn`, `HandlersReturn`, `ImagesAreFreed`, `WorkSettles` | any two of a pull, an export and a restore, two requests at a time, one crash, fairness |
| `operations_late_cancel` | `TerminalIsFinal`, violated | a pull, an export, two requests |
| `templates_jobs` | `TypeOK`, `PublishedIsWhole`, `DependantsKeepTheirImage`, `NoOrphans`, `CatalogIsAtomic` | three modes: two creates, a restore, a delete and an environment with every fault and one crash; an import, an export, a restore, a delete likewise; one job of each kind and an environment, undisturbed |
| `templates_snapshot_of_running` | `SnapshotIsOfStopped`, violated | a create and an environment |
| `upgrade_faults` | `TypeOK`, `OneController`, `StateIsQuiet`, `UserDataSurvives`, `FailedUpgradeRestores`, `BootstrapReturns` | two versions in any order, three containers, two changes of version, two of the user, one crash; every forward step may fail |
| `upgrade_desktop_closed` | `FailedUpgradeRestores`, violated | an upgrade, one desktop closed while it upgrades |
| `publication_requests` | `TypeOK`, `RefreshIsCurrent`, `PortsDistinct`, `InSync`, `RowsHaveContainers`, `ConflictsAreNews` | two environments in three tables, two requests at a time, three ports, one of them held by others; four modes: two requests with a crash and a container that moves; three requests; two that overlap with a crash; two that overlap with every fault |
| `publication_private` | `ForwardsOnlyPublished`, violated | two environments, two requests one after the other, nothing goes wrong but a port |
| `token_faults` | `TypeOK`, `RecoveredIsTested`, `OneReplacement`, `PendingMeansStopped`, `RequestsReturn` | three kinds of installation, three requests, two at a time, two changes of the file, one crash or error, fairness |
| `transfers_page` | `TypeOK`, `ExportIsSafe`, `PartialsAreRemoved`, `StopIsHonoured` | one export, three transfers, the page left or reloaded once, one end of the desktop; every file operation may fail |
| `transfers_pending` | `PendingIsStaged`, violated | the same, without faults and with no end of the desktop |

What the newer runs show beyond the table:

* `RefreshIsCurrent` is what `publication_lock` is for: a refresh that waits for
  the server's answer forwards what is published now, although it listed the
  rows before it asked Docker. `InSync` joins rows, containers and frpc over any
  sequence of requests and a crash between any two of their steps; it is stated
  for moments without a request, in the modes where nothing overlaps and nothing
  fails, because otherwise the code does not promise it (section 4).
  `ConflictsAreNews` is why the search for ports ends: it gives the measure, the
  ports not yet rejected, that every round uses up.
* `PendingMeansStopped` relates a start that waited for the lock to a recovery
  that went on meanwhile; `RecoveredIsTested` a test that holds no lock to a
  second recovery; `OneReplacement` counts what two requests that both find the
  token missing may do.
* `ExportIsSafe` and `StopIsHonoured` are about a stop that overtakes the command
  it is meant for, and about a page that saves the same export twice because it
  was reloaded or left and so forgot the first. `PartialsAreRemoved` and
  `CancelledAfterCleanup` are about the order and the completeness of clean-ups,
  not about their success, which the code does not look at.

**Why these bounds.** A conflict over a name needs two holders and somebody who
takes the third place: two requests in flight and tasks they have already
spawned give up to four holders, of the same or of different operations.
`MaxOperations` bounds the operations that are begun, not those that are asked
for, refused or cancelled: any two of them cover every pair that can meet. Two
pulls are the least with which one may be resumed while another is in the list.
An export is cancellable and shares `docker-images` with pulls; a restore shares
a template with the export but not `docker-images`: with the two, `Needs` has
sets that overlap, that are disjoint, and that have one and three members. One
crash is enough for every state a boot can start from; a second one starts from
a state of the same kind, since recovery keeps nothing in memory. Two creates
give a child template of a template that is being deleted (through a restored
environment); three containers are the old one, the candidate and one more that
a second bootstrap may install. Two environments are the least that can clash
over a port, and three ports let one of them be refused and moved, and moved
again, while the other keeps its own. Two changes of the token file let a file be
lost during a recovery and be put back, or be lost again after it; three requests
let a recovery, a test and a start meet in every order. Three transfers are the
automatic save, one after the page was reloaded or left, and one to another
destination or an import beside them.

**Where the model stops by itself.** Jobs are used up once, requests and
transfers are counted, and a desktop with a ready controller has nothing to do:
all runs but those of `DurableOperations` say `CHECK_DEADLOCK FALSE`.
`DurableOperations` is checked for deadlock; that the two locks of `FrpToken`
leave nobody waiting is `RequestsReturn`.

**Fairness.** `DurableOperations`: tokio polls a ready task again, so every
step of a handler, a task or the boot that stays enabled is taken; tokio's
`Mutex` serves its waiters in order, so a step that needs a mutex which is free
again and again is taken as well (SF for `Handle` and `PullWork`, the two that
lock `pull_cancellations`). That the body of a job returns assumes that Docker
and the worker answer; the code gives neither a time limit. No request has to
arrive, nothing has to fail, and no crash has to happen.
`ControllerUpgrade`: the steps of the bootstrap are fair, and `Serve` is.
Controllers need not boot: a bootstrap returns because it counts its polls. But
it does not time them, and the code guarantees the second half of the fairness
only as far as Docker does: between its socket and its first answer the
controller asks Docker about pulls, containers and frpc. `BootstrapReturns` is
therefore the statement that a bootstrap returns *if* no controller stays for
ever in that place.
`FrpToken`: the steps of a request are weakly fair, for the same reasons; taking
a lock is strongly fair, since the mutexes are tokio's.

## 4. Where code and documentation differ

Each of these contradicts a statement of the documentation or of the program's
own texts: TLC finds it violated, and `PROJECT.json` quotes it and tells the
sequence of steps.

* **A cancel may reopen a row that is over.** `cancel_operation` reads the phase,
  signals and writes `rollingBack` unconditionally; the job may have written its
  terminal row in between. The row then says `rollingBack` until the next
  restart. `ReopenedOnlyByLateCancel` shows that nothing else reopens a row.
* **An environment can be started under a snapshot**: the check for a busy
  environment and the start are separate awaits.
* **An interrupted upgrade loses the good backup**: no record of an upgrade in
  progress exists, so the next bootstrap backs up what the candidate migrated.
* **frpc may forward what is no longer published.** A start of frpc that gives up
  at a port the user chose leaves frpc running and not desired; unpublishing
  another environment then refreshes nothing.
* **The page may offer a package that is no longer staged.** What it has seen end
  is forgotten when the page is left; opened again within the three seconds after
  a save, or during it, it saves the export once more, which fails for want of
  the package, and it says that the export remains staged.

TLC also shows what these statements do not speak of, or what is left out of a
property for that reason:

* *Operations.* A pull that was being rolled back when the controller died is
  queued again and pulled to the end. A job is `cancelled` once it has tried to
  remove its artifacts, also if it could not: each removal is under `let _ =`.
  docs/security.md:52-54 says "only after removing" them. `CancelledAfterCleanup`
  checks the order and excepts a removal that failed.
* *Templates.* Temporary files of snapshots outlive a restart, since
  `cleanup_partial_files` does not descend into the directories of the snapshot
  root. A template whose child is made while its delete has counted the
  dependants keeps its row (foreign key) and loses its tag and snapshot.
* *Upgrade.* Two failing renames of `restore_backup` leave no state directory;
  with `Interrupted` the properties `OneController`, `StateIsQuiet` and
  `UserDataSurvives` do not hold either. A controller that hangs between binding
  its socket and serving blocks the bootstrap for ever, in one poll.
* *Publication.* With overlapping requests a creation, which picks its port
  without the lock, may pick one that a publication takes; frps then refuses one
  of the two. A stop that read its row before a publication does not refresh, and
  frpc goes on forwarding. A start that overtakes a stop leaves a row that says
  "should run" with a container that has exited. A deletion that fails between
  container and row leaves a row on which every later refresh fails. A publish
  that failed in its refresh is a no-op when it is retried. A creation that fails
  may leave its container, since the errors of stopping and removing it are
  ignored.
* *Token.* A request that found the token missing and waited for the lock
  suspends frpc even if the token was recovered, tested and used meanwhile. An
  installation without a fingerprint adopts what it finds, also a new token that
  a crash left without its row.
* *Transfers.* docs/security.md:54-55 says that native copies "remove their
  partial destination before returning"; the error of that removal is ignored, so
  a drive that has gone or refuses keeps the file (`PartialsAreRemoved` excepts
  it). A retried save that is stopped removes the package while the page goes on
  saying that it remains staged. The page has room for one export to save again:
  a second failed save replaces the first. A package whose operation the page has
  forgotten stays in the staging root. A desktop that ends during a save leaves
  the temporary file beside the destination. Entries of `sources` whose transfer
  never started, and a flag raised after the transfer has left, stay until the
  desktop ends.

## 5. Proofs

Every state invariant and every step property that a passing run checks is also
a theorem, and so are the two refinements. A theorem holds for every value of
the constants that satisfies the module's assumption: any number of requests,
jobs, containers, ports, crashes and faults.

| Module | Theorems | Under |
|---|---|---|
| `DurableOperationsProofs` | `TypeOK`, `Exclusion` | `ConstantsAssumption` |
| `OperationLifecycleProofs` | `TerminalMeansDone`, `ReopenedOnlyByLateCancel`, `CancelledAfterCleanup`, `RunningIsCancellable` | the same |
| | `UnfinishedIsWorkedOn`, `NoStaleChannel` | and `~DbMayFail`, `~ClientMayVanish` |
| `ReservationProofs` | `ReservationsAreExclusive` (refinement) | `ConstantsAssumption`, `LostAssumption` |
| | `NoOrphanReservation` | and `~DbMayFail`, `~ClientMayVanish` |
| `TemplateStoreProofs` | `TypeOK`, `PublishedIsWhole`, `DependantsKeepTheirImage`, `NoOrphans`, `CatalogIsAtomic` (refinement) | `TemplateStoreAssumption` |
| `ControllerUpgradeProofs` | `TypeOK` | `UpgradeAssumption` |
| | `OneController`, `StateIsQuiet`, `UserDataSurvives`, `FailedUpgradeRestores` | and `Reliable` |
| `PublicationProofs` | `TypeOK`, `RefreshIsCurrent`, `PortsDistinct`, `ConflictsAreNews`, `RowsHaveContainers`, `InSync` | `PublicationAssumption`, `TablesAssumption` |
| `FrpTokenProofs` | `TypeOK`, `PendingMeansStopped`, `RecoveredIsTested`, `OneReplacement` | `FrpTokenAssumption` |
| `PackageTransferProofs` | `TypeOK`, `ExportIsSafe`, `PartialsAreRemoved`, `StopIsHonoured` | `PackageTransferAssumption` |

The hypotheses `~DbMayFail`, `~ClientMayVanish` are those of the run
`operations_liveness`, and they are needed: an INSERT that fails and a handler
that is dropped each lose a name, a channel or a row. `Reliable` (the desktop is
not closed during a bootstrap, and what undoes a step works) is that of
`upgrade_faults`; section 4 says what happens without it. The other properties
that hold only without overlap or faults say so themselves, by `mode`.

The assumptions say what the code guarantees by how it makes ids:
`TemplateStoreAssumption` that one id is not of two kinds of job, nor that of an
environment that was there before; `UpgradeAssumption` that a directory that is
missing is no directory.

All proofs have one layout. An inductive invariant is a conjunction of named
parts, most of them about who is at which await. A few operators say what a step
may amount to (`Moved`, `Ended`, `Passes`, `Advances`, `Called`), one lemma per
part says that such a step preserves it, and one lemma per handler says which of
them the handler is. TLC has checked the invariants on the instances of section 3
before they were proved.

**DurableOperations, exclusion.** Neither half of `Exclusion == HeldIsReserved
/\ ResourceExclusion` is inductive without the other: a reservation keeps
`ResourceExclusion` only because a name that is not in `active` is held by
nobody, and a release keeps `HeldIsReserved` only because nobody else holds
what is released. The argument is made over what an action does to the holders:
taking free names, handing over, giving back and holding on preserve both.

**DurableOperations, the life of an operation.** `Lifecycle` adds to the types
what makes a row final: the id of a new job is known only to its handler until
the row is there (`Arrived`), and what `main()` has yet to recover is not over
and has no task (`Booted`). From it `TerminalMeansDone` is inductive, and every
action but a cancel leaves a terminal row alone. `Cleaned`, `Linked`, `Worked`
and `Attached` extend it, one for each of the other properties: the clean-up
precedes the write; a pull's channel is in the tables from where its handler put
it there, since `Exclusion` keeps any other holder of `docker-images` from taking
it away; an open row has somebody to finish it; who lets go of a name has removed
the channel.

**The reservations.** Under `Exclusion` the mapping `ownerOf` is exact
(`OwnerOfName`): a name's owner is who holds it. Each action then takes, gives
up, passes on or keeps names (`Reserves`), and each of these is a step of
`ExclusiveReservations` or stutters; a crash is `Restart`.

**TemplateStore.** `Core` is the invariant behind `PublishedIsWhole`,
`DependantsKeepTheirImage` and the refinement. A job works on a template whose
maker has let go of it (`Targets`); the maker has the parts when it publishes
(`Made`); jobs under way have no name in common (`Apart`); a delete takes apart
what has no row any more (`Taken`); a container belongs to a restore that has
come that far (`Launched`). A step of another job therefore leaves a settled
template alone, and a delete finds no reader. For the refinement, a step that
changes `parts` of a settled template is `Damage` or `Remove`, and it is
allowed because the delete holds the template's name. `NoOrphans` needs `Tidy`
besides: what each job has made at each step (`Within`), and that a container has
its row or a restore about to insert it (`Paired`), where nothing fails.

**ControllerUpgrade.** `Base` (types, and that the old container is stopped from
`stop` until it is started again) holds whatever fails. Under `Reliable`, `Who`
says for each statement of the bootstrap which container has the name and which
runs; `OneController` and `StateIsQuiet` follow. `Fits` says which directory the
old container can use at each statement, `Kept` which one has the user's changes;
the two are inductive together, since a restore is right only if the backup was,
and a backup is right only if the controller had been stopped.

**Publication.** `Base` is what the lock and the handlers guarantee whatever
overlaps or fails: who is behind the lock is its holder (`Holder`), rows are
sound, an environment that is being created is nobody else's (`Fresh`), a request
has the environment it needs (`Decided`), and a list made under the lock is true
for what is still there (`Current`), which is `RefreshIsCurrent`. `Apart` adds
what holds without overlap: whoever changes an environment is alone, and ports
that were picked, listed or refused are still so. With `Search` (conflicts are
left only while they are moved) it gives `PortsDistinct` and `ConflictsAreNews`.
`Boxed` explains a row without a container, and a container without a row, by the
request that is about to remove or insert one.

`InSync` says nothing while a request is under way, so its invariant must:
`Tracked` says that while frpc is wanted it is in line with the rows, or somebody
owes it a refresh (`Owes`), or no refresh can succeed, because an environment
that should run has lost its container (`Lame`) or one to be forwarded does not
run (`Down`). `Seen` says of a list of rows that it is what the rows are, or that
somebody else waits for the lock with a newer one; `Mine` that a request that
changes an environment has read its row as it is, so that its decision whether to
refresh is right. That is where overlap would break it. A crash is covered by the
refresh that the controller starts with.

**FrpToken.** Three invariants build on each other. `Stopped`:
`PendingMeansStopped` alone is not inductive, since a start might go on, or set
`desired`, after a recovery has written its pending row. `HoldsPublication` says
that whoever is about to act on frpc has `publication_lock`, `Underway` how far a
recovery has come, and that a start about to connect has seen no pending row.
`Adopted` (for `RecoveredIsTested`): a token becomes ready without a test only in
the row of a first look. `HoldsToken` says that this look and a recovery exclude
each other, `NoRowYet` that without a row nothing has been recovered, except that
a recovery of a legacy installation is about to write its row, `InHand` that a
test completes only a token it has tested. `Paid` (for `OneReplacement`): a token
that is missing has been lost (`Lost`), and who is about to make one has found it
missing (`Finds`), so that there is a change of the file, a crash or an error for
each token after the first; lemma `Alone` says why two requests cannot both be
there.

**PackageTransfer.** `Base` says that the stop a transfer was given stays in the
table until it leaves (`Progress`), that a destination holds only the package of
its own transfer (`Placed`), and that a transfer stopped before its rename comes
to no other end (`Stopped`), which is `StopIsHonoured`. `ExportIsSafe` and
`PartialsAreRemoved` are inductive with it.

**What stays with TLC.** `HandlersReturn`, `ImagesAreFreed`, `WorkSettles`,
`BootstrapReturns` and `RequestsReturn` are liveness: fairness and `ENABLED` are
out of the prover's reach. That `ConflictsAreNews` makes the search end is an
induction over the ports, which is not proved either. The properties of the five
runs of section 4 are violated.

## 6. Plan

Done: `DurableOperations` and `TemplateStore` with their abstractions,
`ControllerUpgrade`, `Publication`, `FrpToken`, `PackageTransfer`; the theorems
of section 5 about each of them.

Next, in this order:

1. **Proofs** — what `FailedUpgradeRestores` becomes with a recovery that fails,
   as an invariant with an explicit exception; the measure of `ConflictsAreNews`
   as a theorem about `rejected`.
2. **TemplateStore, continued** — `list_templates` and `check_sources_job`
   overwriting each other's half of a record; two validations of one package in
   one directory (`import_preflight`).
3. **Front end** — `useOfficialImagePull.ts`, which keeps the id of one pull over
   reloads and polls it.

Not modelled, and not planned:

* formats of packages and archives, validation of paths and names, container
  options, GPU detection and progress parsing: pure functions of their input,
  tested where they are;
* the controller client: one request on one connection, without state;
* credentials of an environment and the details of a connection shown to the
  user: only read;
* the scripts for a server, pages, dialogs and locales, build, packaging and
  release tooling.
