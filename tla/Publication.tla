---------------------------- MODULE Publication ----------------------------
(***************************************************************************)
(* Environments and what the shared frpc forwards (api.rs, docker.rs).     *)
(*                                                                         *)
(* An environment is a row of the database and a container.  The row says  *)
(* whether it is published, on which port of the server, and whether it    *)
(* should run.  One frpc container forwards the published environments     *)
(* that should run; it is made anew from the rows on every refresh.        *)
(* Publishing, frpc's own start and stop, and every refresh hold           *)
(* publication_lock.  Creating, starting, stopping and deleting an         *)
(* environment do not: they decide with the row they read first whether    *)
(* to refresh, and wait for the lock then.                                 *)
(*                                                                         *)
(* A request stops where it is when a call it makes fails or the desktop   *)
(* goes away; the controller refreshes once when it starts.                *)
(***************************************************************************)
EXTENDS Naturals, FiniteSets

CONSTANTS
    Envs,        \* environment ids
    Requests,    \* requests the controller works on at a time
    Ports,       \* the ports of the server that may be given away
    NoOne,       \* nobody holds the lock; a request about no environment
    NoRow,       \* no row
    Tables,      \* the tables to begin with
    MaxForeign,  \* ports that other clients of the server hold at a time
    Modes        \* what may happen in a behaviour, and how often

(* dropped    a request ends where it is, at an error or with its client   *)
(* docker     frpc or a new environment cannot be created or recorded      *)
(* frps       the server refuses a proxy, or does not answer in time       *)
Fault == {"dropped", "docker", "frps"}

(* overlap    environments change while another request runs               *)
(* requests, moves and crashes are bounds: on requests, on containers that *)
(* Docker restarts, on crashes of the controller.                          *)
Mode == [overlap : BOOLEAN, faults : SUBSET Fault,
         requests : Nat, moves : Nat, crashes : Nat]

\* The fields of an environment's record that these requests read.
Row == [published : BOOLEAN, automatic : BOOLEAN, remote : Ports \cup {0},
        desired : BOOLEAN, local : 0..2]

ASSUME PublicationAssumption ==
    /\ Ports \subseteq Nat \ {0} /\ IsFiniteSet(Ports)
    /\ NoOne \notin Requests \cup Envs
    /\ NoRow \notin Row
    /\ MaxForeign \in Nat
    /\ \A m \in Modes : m \in Mode

\* Environments get different ports, and one that is not published has none.
ASSUME TablesAssumption ==
    /\ Tables \subseteq [Envs -> Row \cup {NoRow}]
    /\ \A table \in Tables, e \in Envs : table[e] # NoRow =>
          /\ table[e].published <=> table[e].remote # 0
          /\ table[e].local = 1
          /\ \A f \in Envs \ {e} : table[e].published /\ table[f] # NoRow =>
                table[e].remote # table[f].remote

VARIABLES
    row,       \* the table of environments
    box,       \* the container of each environment
    host,      \* the port of the host its container is reached at
    forwards,  \* what the running frpc forwards
    refused,   \* the proxies that its log reports as conflicts
    desired,   \* frpc_service_state.desired_running
    lock,      \* the holder of publication_lock
    req,       \* the requests
    view,      \* the holder's list of environments
    conflicts, \* the conflicts it has still to resolve
    rejected,  \* the ports it has seen refused
    mode,      \* the member of Modes that holds
    begun,     \* requests so far
    moves,     \* containers restarted so far
    crashes    \* crashes so far

system  == <<row, box, host>>
frpc    == <<forwards, refused, desired>>
scratch == <<view, conflicts, rejected>>
counts  == <<begun, moves, crashes>>
vars    == <<system, frpc, lock, req, scratch, mode, counts>>

-----------------------------------------------------------------------------
(* Vocabulary *)

Lifecycle == {"create", "start", "stop", "restart", "delete"}
Op        == Lifecycle \cup {"list", "publish", "unpublish", "startFrpc", "stopFrpc", "boot"}
Stage     == {"pick", "build", "insert", "docker", "remove", "record", "sync", "lock",
              "publish", "unpublish", "stopFrpc", "list", "inspect", "connect", "poll",
              "move", "desire", "undesire"}
Request   == [op : Op, env : Envs \cup {NoOne}, row : Row \cup {NoRow}, stage : Stage]
NoRequest == [op |-> "none"]

Nothing == [e \in {} |-> 0]
Present == {e \in Envs : row[e] # NoRow}
Busy    == {r \in Requests : req[r] # NoRequest}
At(r, s) == req[r] # NoRequest /\ req[r].stage = s

\* A container that does not run has no port.
HostPort(e) == IF box[e] = "running" THEN host[e] ELSE 0

\* environment_proxies: the environments frpc is to forward.
Proxied(rows) == {e \in Envs : rows[e] # NoRow /\ rows[e].published /\ rows[e].desired}

RemotePorts(rows, S) == {rows[e].remote : e \in {f \in S : rows[f] # NoRow}} \ {0}

\* Mutant: one port too many.
LowestOrNext(taken) ==
    IF Ports \subseteq taken THEN {Cardinality(Ports) + 1}
    ELSE {p \in Ports \ taken : \A q \in Ports \ taken : p <= q}

\* allocate_remote_port: the lowest port that is not taken.
Lowest(taken) == {p \in Ports \ taken : \A q \in Ports \ taken : p <= q}

\* frp.rs: what frpc is told of them, render_frpc_config.
Rendered(rows) ==
    [e \in Proxied(rows) |-> [local |-> rows[e].local, remote |-> rows[e].remote]]

\* An UPDATE of a row that is gone does nothing.
WithRow(e, new) == row' = IF row[e] = NoRow THEN row ELSE [row EXCEPT ![e] = new]

\* What publish_ and unpublish_environment write of a row.
WithPublication(x, published, port) ==
    [published |-> published, automatic |-> TRUE, remote |-> port,
     desired |-> x.desired, local |-> x.local]

\* set_environment_local_port, for the environments S.
WithPorts(rows, S) ==
    [e \in Envs |-> IF e \in S /\ rows[e] # NoRow
                   THEN [rows[e] EXCEPT !.local = HostPort(e)] ELSE rows[e]]

Becomes(r, mine, s) ==
    req' = [req EXCEPT ![r] = [op |-> @.op, env |-> @.env, row |-> mine, stage |-> s]]
Goto(r, s) == Becomes(r, req[r].row, s)

Forget ==
    /\ view' = [e \in Envs |-> NoRow]
    /\ conflicts' = {} /\ rejected' = {}

Return(r) ==
    /\ req' = [req EXCEPT ![r] = NoRequest]
    /\ lock' = IF lock = r THEN NoOne ELSE lock
    /\ IF lock = r THEN Forget ELSE UNCHANGED scratch

\* Mutant: frpc is not refreshed when an environment changes.
NeverRefresh(r) == Return(r)

\* A request that has changed an environment refreshes frpc only if the row it
\* read first was published.
RefreshIfPublished(r) ==
    IF req[r].row.published
    THEN Goto(r, "lock") /\ UNCHANGED <<lock, scratch>>
    ELSE Return(r)

-----------------------------------------------------------------------------
(* Requests arrive *)

Arrives(r, op) ==
    /\ req[r] = NoRequest
    /\ \A s \in Busy : req[s].op # "boot"
    /\ mode.overlap \/ (IF op \in Lifecycle THEN Busy = {}
                                            ELSE \A s \in Busy : req[s].op \notin Lifecycle)
    /\ begun < mode.requests
    /\ begun' = begun + 1
    /\ UNCHANGED <<lock, scratch, mode, moves, crashes, frpc>>

Begin(r, op, e, mine, stage) ==
    /\ Arrives(r, op)
    /\ req' = [req EXCEPT ![r] = [op |-> op, env |-> e, row |-> mine, stage |-> stage]]

\* A name and an id that are not in use.  The desktop asks for a published
\* environment, with or without a port, or for one that is not.
BeginCreate(r, e, published, port) ==
    /\ row[e] = NoRow /\ box[e] = "none" /\ view[e] = NoRow /\ e \notin DOMAIN forwards
    /\ \A s \in Busy : req[s].env # e
    /\ published \/ port = 0
    /\ Begin(r, "create", e,
             [published |-> published, automatic |-> port = 0, remote |-> port,
              desired |-> TRUE, local |-> 0],
             IF published THEN "pick" ELSE "build")
    /\ UNCHANGED system

\* The row that later decides on the refresh is read here.
BeginLifecycle(r, op, e) ==
    /\ e \in Present
    /\ op \in Lifecycle \ {"create"}
    /\ Begin(r, op, e, row[e], "docker")
    /\ UNCHANGED system

BeginLocked(r) ==
    /\ \/ \E op \in {"publish", "unpublish"}, e \in Present : Begin(r, op, e, NoRow, "lock")
       \/ \E op \in {"startFrpc", "stopFrpc"} : Begin(r, op, NoOne, NoRow, "lock")
    /\ UNCHANGED system

\* list_environments: the ports of the containers that should run are written
\* to their rows; a missing container ends that.
BeginList(r) ==
    LET running == {f \in Present : row[f].desired}
        moved   == {f \in running : row[f].local # HostPort(f)}
    IN  /\ moved # {}
        /\ IF \A f \in running : box[f] # "none"
           THEN /\ row' = WithPorts(row, moved)
                /\ Begin(r, "list", NoOne, NoRow, "lock")
           ELSE /\ \E done \in SUBSET {f \in moved : box[f] # "none"} :
                      row' = WithPorts(row, done)
                /\ Arrives(r, "list")
                /\ UNCHANGED req
        /\ UNCHANGED <<box, host>>

-----------------------------------------------------------------------------
(* create_environment *)

\* The ports in use are read without the lock, long before the row is written.
Pick(r) ==
    /\ At(r, "pick")
    /\ LET mine  == req[r].row
           taken == RemotePorts(row, Envs)
           ports == IF mine.automatic THEN Lowest(taken) ELSE {mine.remote} \ taken
       IN  IF ports = {}
           THEN Return(r)
           ELSE /\ \E p \in ports : Becomes(r, [mine EXCEPT !.remote = p], "build")
                /\ UNCHANGED <<lock, scratch>>
    /\ UNCHANGED <<system, frpc>>

\* What a creation that fails leaves of its container.
Remains(e) == \E left \in {"none", "exited", "running"} : box' = [box EXCEPT ![e] = left]

\* A container that cannot be started is removed again, and an error of that is
\* ignored; one whose port cannot be read is left.
Build(r) ==
    /\ At(r, "build")
    /\ LET e == req[r].env
       IN  \/ /\ box' = [box EXCEPT ![e] = "running"]
              /\ Becomes(r, [req[r].row EXCEPT !.local = host[e]], "insert")
              /\ UNCHANGED <<lock, scratch>>
           \/ /\ "docker" \in mode.faults
              /\ Remains(e)
              /\ Return(r)
    /\ UNCHANGED <<row, host, frpc>>

Insert(r) ==
    /\ At(r, "insert")
    /\ row' = [row EXCEPT ![req[r].env] = req[r].row]
    /\ RefreshIfPublished(r)
    /\ UNCHANGED <<box, host, frpc>>

\* Without a row the container is stopped and removed again; errors are ignored.
InsertFails(r) ==
    /\ At(r, "insert")
    /\ "docker" \in mode.faults
    /\ Remains(req[r].env)
    /\ Return(r)
    /\ UNCHANGED <<row, host, frpc>>

-----------------------------------------------------------------------------
(* start_, stop_, restart_ and delete_environment *)

Starts(e) ==
    /\ box' = [box EXCEPT ![e] = "running"]
    /\ host' = [host EXCEPT ![e] = 3 - @]

\* What Docker is asked for; a container that is gone is an error.
CallDocker(r) ==
    /\ At(r, "docker")
    /\ LET e      == req[r].env
           op     == req[r].op
           starts == op = "restart" \/ (op = "start" /\ box[e] # "running")
           stops  == op = "stop" \/ (op = "delete" /\ req[r].row.desired)
       IN  IF box[e] = "none" /\ (op # "delete" \/ stops)
           THEN Return(r) /\ UNCHANGED <<box, host>>
           ELSE /\ IF starts THEN Starts(e) ELSE
                      /\ box' = IF stops THEN [box EXCEPT ![e] = "exited"] ELSE box
                      /\ UNCHANGED host
                /\ Goto(r, IF op = "delete" THEN "remove"
                           ELSE IF op = "restart" THEN "sync" ELSE "record")
                /\ UNCHANGED <<lock, scratch>>
    /\ UNCHANGED <<row, frpc>>

\* Mutant: what Docker answers is ignored.
RemoveAndIgnore(r) ==
    /\ At(r, "remove")
    /\ LET e == req[r].env
       IN  box' = IF box[e] = "exited" THEN [box EXCEPT ![e] = "none"] ELSE box
    /\ Goto(r, "record")
    /\ UNCHANGED <<row, host, lock, scratch, frpc>>

\* Docker refuses to remove a container that runs, and one that is gone.
Remove(r) ==
    /\ At(r, "remove")
    /\ LET e == req[r].env
       IN  IF box[e] = "exited"
           THEN /\ box' = [box EXCEPT ![e] = "none"]
                /\ Goto(r, "record")
                /\ UNCHANGED <<lock, scratch>>
           ELSE Return(r) /\ UNCHANGED box
    /\ UNCHANGED <<row, host, frpc>>

Record(r) ==
    /\ At(r, "record")
    /\ LET e == req[r].env  op == req[r].op
       IN  /\ WithRow(e, IF op = "delete" THEN NoRow
                                          ELSE [row[e] EXCEPT !.desired = op = "start"])
           /\ IF op = "start" THEN Goto(r, "sync") /\ UNCHANGED <<lock, scratch>>
                              ELSE RefreshIfPublished(r)
    /\ UNCHANGED <<box, host, frpc>>

\* synchronize_environment_local_port
Sync(r) ==
    /\ At(r, "sync")
    /\ LET e == req[r].env
       IN  IF box[e] = "none"
           THEN Return(r) /\ UNCHANGED row
           ELSE /\ row' = WithPorts(row, IF req[r].row.local = HostPort(e) THEN {} ELSE {e})
                /\ RefreshIfPublished(r)
    /\ UNCHANGED <<box, host, frpc>>

-----------------------------------------------------------------------------
(* Under publication_lock *)

\* Mutant: unpublishing does not wait for the lock.
FreeForUnpublish(r) == lock = NoOne \/ req[r].op = "unpublish"

Free(r) == lock = NoOne

\* What a request does first with the lock; a refresh that is not desired ends.
Acquire(r) ==
    /\ At(r, "lock") /\ Free(r)
    /\ LET op == req[r].op
           e  == req[r].env
           first == IF op \in {"publish", "unpublish", "stopFrpc"} THEN op ELSE "list"
           moot  == \/ op \in {"publish", "unpublish"} /\ row[e] = NoRow
                    \/ op = "publish" /\ row[e].published
                    \/ op = "unpublish" /\ ~row[e].published
                    \/ first = "list" /\ op # "startFrpc" /\ ~desired
       IN  IF moot
           THEN Return(r)
           ELSE /\ Goto(r, first)
                /\ lock' = r
                /\ UNCHANGED scratch
    /\ UNCHANGED <<system, frpc>>

\* Mutant: the ports of environments that are not served are given away again.
PortsOfServed(e) == RemotePorts(row, Proxied(row) \ {e})

PortsOfOthers(e) == RemotePorts(row, Envs \ {e})

\* publish_environment, from the list of ports on.
Publish(r) ==
    /\ At(r, "publish")
    /\ LET e     == req[r].env
           ports == Lowest(PortsOfOthers(e))
       IN  IF ports = {}
           THEN Return(r) /\ UNCHANGED row
           ELSE /\ \E p \in ports : WithRow(e, WithPublication(row[e], TRUE, p))
                /\ IF desired THEN Goto(r, "list") /\ UNCHANGED <<lock, scratch>>
                              ELSE Return(r)
    /\ UNCHANGED <<box, host, frpc>>

\* unpublish_environment, from the update on.
Unpublish(r) ==
    /\ At(r, "unpublish")
    /\ LET e == req[r].env
       IN  WithRow(e, WithPublication(row[e], FALSE, 0))
    /\ IF desired THEN Goto(r, "list") /\ UNCHANGED <<lock, scratch>>
                  ELSE Return(r)
    /\ UNCHANGED <<box, host, frpc>>

StopFrpc(r) ==
    \/ /\ At(r, "stopFrpc")
       /\ forwards' = Nothing /\ refused' = {}
       /\ Goto(r, "undesire")
       /\ UNCHANGED <<system, desired, lock, scratch>>
    \/ /\ At(r, "undesire")
       /\ desired' = FALSE
       /\ Return(r)
       /\ UNCHANGED <<system, forwards, refused>>

-----------------------------------------------------------------------------
(* start_frpc_with_port_retry *)

List(r) ==
    /\ At(r, "list")
    /\ view' = row
    /\ Goto(r, "inspect")
    /\ UNCHANGED <<system, frpc, lock, conflicts, rejected>>

\* synchronize_environment_local_ports and environment_proxies: a container
\* that is missing, and a proxy without a local port, fail the refresh.
Inspect(r) ==
    /\ At(r, "inspect")
    /\ LET running == {e \in Envs : view[e] # NoRow /\ view[e].desired}
           found   == {e \in running : box[e] # "none"}
           Moved(S) == {e \in S : view[e].local # HostPort(e)}
       IN  IF found = running
           THEN /\ row' = WithPorts(row, Moved(running))
                /\ IF \A e \in Proxied(view) : HostPort(e) # 0
                   THEN /\ view' = WithPorts(view, Moved(running))
                        /\ Goto(r, "connect")
                        /\ UNCHANGED <<lock, conflicts, rejected>>
                   ELSE Return(r)
           ELSE /\ \E done \in SUBSET Moved(found) : row' = WithPorts(row, done)
                /\ Return(r)
    /\ UNCHANGED <<box, host, frpc>>

\* What the server refuses: the ports that other clients hold by now, and of two
\* equal ports one.
Refusals(proxies, foreign) ==
    LET Clash(e, f) == e # f /\ proxies[e].remote = proxies[f].remote
        held == {e \in DOMAIN proxies : proxies[e].remote \in foreign}
    IN  {S \in SUBSET DOMAIN proxies :
            /\ held \subseteq S
            /\ \A e, f \in DOMAIN proxies : Clash(e, f) => e \in S \/ f \in S
            /\ "frps" \in mode.faults \/
                 \A e \in S \ held : \E f \in DOMAIN proxies \ S : Clash(e, f)}

\* docker::start_frpc: the old container is replaced by one for the rows listed.
Connect(r) ==
    /\ At(r, "connect")
    /\ forwards' = Rendered(view)
    /\ \E foreign \in SUBSET Ports :
          /\ Cardinality(foreign) <= MaxForeign
          /\ refused' \in Refusals(forwards', foreign)
    /\ Goto(r, "poll")
    /\ UNCHANGED <<system, desired, lock, scratch>>

\* It fails before the old container is removed or after.
ConnectFails(r) ==
    /\ At(r, "connect")
    /\ "docker" \in mode.faults
    /\ \/ UNCHANGED <<forwards, refused>>
       \/ forwards' = Nothing /\ refused' = {}
    /\ Return(r)
    /\ UNCHANGED <<system, desired>>

\* frpc_conflicting_proxy_ids: the conflicts logged so far; twenty polls
\* without an answer count as none.
Poll(r) ==
    /\ At(r, "poll")
    /\ \/ /\ refused = {} \/ "frps" \in mode.faults
          /\ IF req[r].op = "startFrpc" THEN Goto(r, "desire") /\ UNCHANGED <<lock, scratch>>
                                        ELSE Return(r)
       \/ /\ conflicts' \in SUBSET refused \ {{}}
          /\ view' = row
          /\ Goto(r, "move")
          /\ UNCHANGED <<lock, rejected>>
    /\ UNCHANGED <<system, frpc>>

\* Mutant: a port that was refused is tried again.
ListedOnly == RemotePorts(view, Envs)

\* Neither in a row nor refused before.
ListedOrRefused == RemotePorts(view, Envs) \cup rejected

\* One conflict after the other is moved to another port; a port the user chose
\* is not changed.
Move(r) ==
    /\ At(r, "move")
    /\ IF conflicts = {}
       THEN Goto(r, "list") /\ UNCHANGED <<row, lock, scratch>>
       ELSE \E e \in conflicts :
            LET fixed == view[e] = NoRow \/ ~view[e].automatic \/ view[e].remote = 0
                ports == IF fixed THEN {} ELSE Lowest(ListedOrRefused)
            IN  IF ports = {}
                THEN Return(r) /\ UNCHANGED row
                ELSE \E p \in ports :
                     /\ view' = [view EXCEPT ![e] = [@ EXCEPT !.remote = p]]
                     /\ WithRow(e, [row[e] EXCEPT !.remote = p])
                     /\ conflicts' = conflicts \ {e}
                     /\ rejected' = rejected \cup {view[e].remote}
                     /\ UNCHANGED <<lock, req>>
    /\ UNCHANGED <<box, host, frpc>>

Desire(r) ==
    /\ At(r, "desire")
    /\ desired' = TRUE
    /\ Return(r)
    /\ UNCHANGED <<system, forwards, refused>>

-----------------------------------------------------------------------------
(* The surroundings *)

\* An error, or the end of the desktop that waits for the answer.
Drop(r) ==
    /\ "dropped" \in mode.faults
    /\ r \in Busy
    /\ Return(r)
    /\ UNCHANGED <<system, frpc, mode, counts>>

\* The controller starts again: reconcile_runtime_state comes before the first
\* request.  When the host went down, containers have other ports.
Crash(r) ==
    /\ crashes < mode.crashes
    /\ crashes' = crashes + 1
    /\ req' = [s \in Requests |-> IF s # r THEN NoRequest ELSE
                   [op |-> "boot", env |-> NoOne, row |-> NoRow, stage |-> "lock"]]
    /\ lock' = NoOne
    /\ Forget
    /\ \/ UNCHANGED host
       \/ host' = [e \in Envs |-> IF box[e] = "running" THEN 3 - host[e] ELSE host[e]]
    /\ UNCHANGED <<row, box, frpc, mode, begun, moves>>

\* Docker restarts a container that has exited by itself.
ContainerRestarts(e) ==
    /\ box[e] = "running" /\ moves < mode.moves
    /\ moves' = moves + 1
    /\ Starts(e)
    /\ UNCHANGED <<row, frpc, lock, req, scratch, mode, begun, crashes>>

-----------------------------------------------------------------------------
\* The table, the containers and frpc agree.
Init ==
    /\ row \in Tables
    /\ host = [e \in Envs |-> 1]
    /\ box = [e \in Envs |-> IF row[e] = NoRow THEN "none" ELSE
                             IF row[e].desired THEN "running" ELSE "exited"]
    /\ desired \in BOOLEAN
    /\ forwards = [e \in IF desired THEN Proxied(row) ELSE {} |->
                      [local |-> 1, remote |-> row[e].remote]]
    /\ refused = {}
    /\ lock = NoOne
    /\ req = [r \in Requests |-> NoRequest]
    /\ view = [e \in Envs |-> NoRow] /\ conflicts = {} /\ rejected = {}
    /\ mode \in Modes
    /\ begun = 0 /\ moves = 0 /\ crashes = 0

Arrive(r) ==
    \/ \E e \in Envs, published \in BOOLEAN, port \in Ports \cup {0} :
          BeginCreate(r, e, published, port)
    \/ \E op \in Lifecycle, e \in Envs : BeginLifecycle(r, op, e)
    \/ BeginLocked(r)
    \/ BeginList(r)

Lock(r) == Acquire(r) /\ UNCHANGED <<mode, counts>>
Step(r) ==
    /\ \/ Pick(r) \/ Build(r) \/ Insert(r) \/ InsertFails(r)
       \/ CallDocker(r) \/ Remove(r) \/ Record(r) \/ Sync(r)
       \/ Publish(r) \/ Unpublish(r) \/ StopFrpc(r)
       \/ List(r) \/ Inspect(r) \/ Connect(r) \/ ConnectFails(r)
       \/ Poll(r) \/ Move(r) \/ Desire(r)
    /\ UNCHANGED <<mode, counts>>

Next ==
    \/ \E r \in Requests : Arrive(r) \/ Lock(r) \/ Step(r) \/ Drop(r) \/ Crash(r)
    \/ \E e \in Envs : ContainerRestarts(e)

Spec == Init /\ [][Next]_vars

-----------------------------------------------------------------------------
(* Properties *)

TypeOK ==
    /\ row \in [Envs -> Row \cup {NoRow}]
    /\ box \in [Envs -> {"none", "exited", "running"}]
    /\ host \in [Envs -> 1..2]
    /\ DOMAIN forwards \subseteq Envs
    /\ refused \subseteq DOMAIN forwards
    /\ \A e \in DOMAIN forwards : forwards[e] \in [local : 1..2, remote : Ports]
    /\ desired \in BOOLEAN
    /\ req \in [Requests -> Request \cup {NoRequest}]
    /\ lock \in Requests \cup {NoOne}
    /\ lock # NoOne => lock \in Busy
    /\ view \in [Envs -> Row \cup {NoRow}]
    /\ conflicts \subseteq Envs /\ rejected \subseteq Ports

(* publication_lock makes a refresh current: what frpc forwards when the   *)
(* refresh waits for its answer is still published, on that very port,     *)
(* however much the environments change meanwhile.                         *)
RefreshIsCurrent ==
    \A r \in Requests : At(r, "poll") =>
        \A e \in DOMAIN forwards \cap Present :
            row[e].published /\ row[e].remote = forwards[e].remote

(* docs/v1-status.md: "Serialized remote-port allocation".  Two            *)
(* environments are never given one port; they are when a creation, which  *)
(* chooses its port before it takes the lock, overlaps.                    *)
PortsDistinct ==
    ~mode.overlap =>
        \A e, f \in Present : e # f /\ row[e].remote # 0 => row[e].remote # row[f].remote

(* With no request under way, every environment that should run runs where *)
(* its row says.                                                           *)
Calm ==
    /\ Busy = {} /\ ~mode.overlap /\ mode.faults = {}
    /\ \A e \in Present : row[e].desired => box[e] = "running" /\ row[e].local = host[e]

(* frpc forwards exactly the published environments that should run, to    *)
(* where they are and on the ports their rows show, after any sequence of  *)
(* requests and after a crash between any two of their steps.              *)
InSync ==
    Calm /\ desired =>
        /\ DOMAIN forwards = Proxied(row)
        /\ \A e \in DOMAIN forwards :
              /\ forwards[e].local = host[e]
              /\ e \in refused \/ forwards[e].remote = row[e].remote

(* A container never outlives its row nor a row its container, in whatever *)
(* order concurrent starts, stops and deletions meet, unless a request was *)
(* cut short.                                                              *)
RowsHaveContainers ==
    Busy = {} /\ mode.faults = {} /\ crashes = 0 =>
        \A e \in Envs : row[e] = NoRow <=> box[e] = "none"

(* The search for ports the server accepts ends: every round of it meets a *)
(* conflict on a port that no earlier round had seen refused, or one it    *)
(* gives up at (unless an environment is created meanwhile).               *)
ConflictsAreNews ==
    [][\A r \in Requests : ~mode.overlap /\ At(r, "poll") /\ conflicts' # {} =>
          \E e \in conflicts' : ~row[e].automatic \/ row[e].remote \notin rejected]_vars

(* src/locales/en.ts: the shared frpc "forwards only environments you      *)
(* explicitly publish".                                                    *)
ForwardsOnlyPublished ==
    Busy = {} => \A e \in DOMAIN forwards \ refused : row[e] # NoRow /\ row[e].published
=============================================================================
