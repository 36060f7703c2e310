------------------------------ MODULE FrpToken ------------------------------
(***************************************************************************)
(* The token that frpc and the server share (api.rs, database.rs).         *)
(*                                                                         *)
(* The token is a file; a row of the database holds its fingerprint and    *)
(* whether it waits for a test.  The row is the reference: a file that is  *)
(* gone, empty or different counts as a missing token, which suspends frpc *)
(* until recover_server_token makes a replacement.  The replacement is     *)
(* pending until a login to the server succeeds with it.                   *)
(*                                                                         *)
(* Every look at the token holds token_lock and may have to write: the     *)
(* first one on a new installation makes the token, the first one after an *)
(* upgrade adopts the file that is there.  What starts and stops frpc      *)
(* holds publication_lock, around token_lock.  A test holds neither.       *)
(*                                                                         *)
(* Tokens are numbered in the order in which they are made; the number is  *)
(* also the fingerprint, and 0 is no token.                                *)
(***************************************************************************)
EXTENDS Naturals, FiniteSets

CONSTANTS
    Requests,      \* requests the controller works on at a time
    NoOne,         \* nobody holds a lock
    MaxRequests,   \* bound on requests
    MaxLosses,     \* bound on changes of the file from outside
    MaxFaults      \* bound on crashes and on requests cut short

ASSUME FrpTokenAssumption ==
    /\ NoOne \notin Requests
    /\ {MaxRequests, MaxLosses, MaxFaults} \subseteq Nat

VARIABLES
    file,         \* the token file
    row,          \* frp_token_metadata, or NoRow
    settings,     \* there is a row of server_settings
    desired,      \* frpc_service_state.desired_running
    frpc,         \* the token of the running frpc
    publication,  \* the holder of publication_lock
    token,        \* the holder of token_lock
    req,          \* the requests
    last,         \* the last token made
    recovered,    \* tokens made by a recovery
    tested,       \* tokens that have logged in to the server
    install,      \* what the controller found when it was installed
    begun, losses, faults   \* counted so far

store   == <<file, row, settings>>
service == <<desired, frpc>>
locks   == <<publication, token>>
history == <<last, recovered, tested>>
counts  == <<install, begun, losses, faults>>
vars    == <<store, service, locks, req, history, counts>>

-----------------------------------------------------------------------------
(* Vocabulary *)

Op     == {"get", "update", "recover", "start", "stop", "refresh", "test", "boot"}
Locked == {"update", "recover", "start", "stop", "refresh"}
Stage  == {"publication", "token", "read", "decide", "generate", "record", "suspend",
           "save", "remove", "undesire", "replace", "pending", "connect", "desire",
           "test", "complete"}
State  == {"missing", "pending", "ready"}
Install == {"fresh", "legacy", "normal"}

NoRow     == [token |-> 0, pending |-> FALSE]
NoRequest == [op |-> "none"]

Busy     == {r \in Requests : req[r] # NoRequest}
At(r, s) == req[r] # NoRequest /\ req[r].stage = s

Becomes(r, s, t, state) ==
    req' = [req EXCEPT ![r] = [op |-> @.op, stage |-> s, token |-> t, state |-> state]]

Goto(r, s) == Becomes(r, s, req[r].token, req[r].state)

Releases(r, lock) == IF lock = r THEN NoOne ELSE lock

Return(r) ==
    /\ req' = [req EXCEPT ![r] = NoRequest]
    /\ publication' = Releases(r, publication)
    /\ token' = Releases(r, token)

-----------------------------------------------------------------------------
(* Requests arrive; what they do first with publication_lock *)

Begin(r, op) ==
    /\ begun < MaxRequests
    /\ req[r] = NoRequest
    /\ \A s \in Busy : req[s].op # "boot"
    /\ op # "boot" /\ (op = "test" => settings)
    /\ begun' = begun + 1
    /\ req' = [req EXCEPT ![r] =
          [op |-> op, token |-> 0, state |-> "missing",
           stage |-> IF op \in Locked THEN "publication" ELSE "token"]]
    /\ UNCHANGED <<store, service, locks, history, install, losses, faults>>

\* A refresh that nobody desires and a start without settings end.
Acquire(r) ==
    /\ At(r, "publication") /\ publication = NoOne
    /\ LET op   == req[r].op
           next == IF op = "stop" \/ (op \in {"get", "boot"} /\ req[r].state = "missing")
                   THEN "remove" ELSE "token"
           moot == \/ op \in {"refresh", "boot"} /\ next = "token" /\ ~desired
                   \/ op \in {"start", "refresh", "boot"} /\ next = "token" /\ ~settings
       IN  IF moot THEN Return(r)
                   ELSE Goto(r, next) /\ publication' = r /\ UNCHANGED token
    /\ UNCHANGED <<store, service, history>>

AcquireToken(r) ==
    /\ At(r, "token") /\ token = NoOne
    /\ token' = r
    /\ Goto(r, "read")
    /\ UNCHANGED <<store, service, publication, history>>

-----------------------------------------------------------------------------
(* inspect_or_initialize_server_token *)

\* Mutant: an empty file is a token.
IsEmpty(t) == FALSE

\* read_server_token: a file that is not there and an empty one are no token.
IsNone(t) == t = 0

Read(r) ==
    /\ At(r, "read")
    /\ Becomes(r, "decide", file, req[r].state)
    /\ UNCHANGED <<store, service, locks, history>>

\* Mutant: a token that waits for its test is replaced once more.
ReplacesUntested(state) == state # "ready"

\* Only a missing token is replaced.
Replaces(state) == state = "missing"

\* Mutant: frpc may be started to test the token.
MayConnectUntested(state) == state # "missing"

\* required_server_token, with a recovery pending not allowed.
MayConnect(state) == state = "ready"

\* Mutant: the token stays locked while frpc is suspended.
KeepsWhileSuspended(op, state) == op = "recover" \/ state = "missing"

KeepsToken(op, state) == op = "recover"

\* Where a request goes when it knows the state of the token.
Follow(r, state) ==
    LET op == req[r].op
    IN  {s \in Stage :
            \/ s = "suspend" /\ op \in {"get", "boot"} /\ state = "missing" /\ publication # r
            \/ s = "publication" /\ op = "boot" /\ state # "missing" /\ publication # r
            \/ s = "save" /\ op = "update"
            \/ s = "remove" /\ op = "recover" /\ Replaces(state)
            \/ /\ s = "connect" /\ MayConnect(state)
               /\ op \in {"start", "refresh"} \/ (op = "boot" /\ publication = r)
            \/ s = "test" /\ op = "test" /\ state # "missing"}

Answer(r, state) ==
    IF Follow(r, state) = {}
    THEN Return(r)
    ELSE /\ \E s \in Follow(r, state) : Becomes(r, s, req[r].token, state)
         /\ token' = IF KeepsToken(req[r].op, state) THEN token ELSE NoOne
         /\ UNCHANGED publication

\* The row is the reference.  Without one, a token is adopted; without either, an
\* installation that has settings must have lost its token.
Decide(r) ==
    /\ At(r, "decide")
    /\ LET t == req[r].token
       IN  \/ /\ row # NoRow
              /\ Answer(r, IF IsNone(t) \/ t # row.token THEN "missing"
                           ELSE IF row.pending THEN "pending" ELSE "ready")
           \/ /\ row = NoRow /\ ~IsNone(t)
              /\ Goto(r, "record") /\ UNCHANGED locks
           \/ /\ row = NoRow /\ IsNone(t) /\ settings
              /\ Answer(r, "missing")
           \/ /\ row = NoRow /\ IsNone(t) /\ ~settings
              /\ Goto(r, "generate") /\ UNCHANGED locks
    /\ UNCHANGED <<store, service, history>>

Generate(r) ==
    /\ At(r, "generate")
    /\ last' = last + 1
    /\ file' = last'
    /\ Becomes(r, "record", last', req[r].state)
    /\ UNCHANGED <<row, settings, service, locks, recovered, tested>>

Record(r) ==
    /\ At(r, "record")
    /\ row' = [token |-> req[r].token, pending |-> FALSE]
    /\ Answer(r, "ready")
    /\ UNCHANGED <<file, settings, service, history>>

-----------------------------------------------------------------------------
(* get_server_settings, update_server_settings *)

\* suspend_frpc_for_missing_token reads what is desired before it has the lock.
Suspend(r) ==
    /\ At(r, "suspend")
    /\ IF desired THEN Goto(r, "publication") /\ UNCHANGED locks ELSE Return(r)
    /\ UNCHANGED <<store, service, history>>

SaveSettings(r) ==
    /\ At(r, "save")
    /\ settings' = TRUE
    /\ Return(r)
    /\ UNCHANGED <<file, row, service, history>>

(* recover_server_token *)

\* remove_frpc; a suspension goes on when that fails.
RemoveFrpc(r) ==
    /\ At(r, "remove")
    /\ frpc' = 0 \/ (req[r].op \in {"get", "boot"} /\ UNCHANGED frpc)
    /\ Goto(r, "undesire")
    /\ UNCHANGED <<store, desired, locks, history>>

Undesire(r) ==
    /\ At(r, "undesire")
    /\ desired' = FALSE
    /\ IF req[r].op = "recover" THEN Goto(r, "replace") /\ UNCHANGED locks ELSE Return(r)
    /\ UNCHANGED <<store, frpc, history>>

ReplaceSecret(r) ==
    /\ At(r, "replace")
    /\ last' = last + 1
    /\ file' = last'
    /\ recovered' = recovered \cup {last'}
    /\ Becomes(r, "pending", last', req[r].state)
    /\ UNCHANGED <<row, settings, service, locks, tested>>

SavePending(r) ==
    /\ At(r, "pending")
    /\ row' = [token |-> req[r].token, pending |-> TRUE]
    /\ Return(r)
    /\ UNCHANGED <<file, settings, service, history>>

(* start_frpc, restart_frpc and the refreshes *)

\* docker::start_frpc removes the old container before it makes the new one.
Connect(r) ==
    /\ At(r, "connect")
    /\ \/ /\ frpc' = req[r].token
          /\ IF req[r].op = "start" THEN Goto(r, "desire") /\ UNCHANGED locks ELSE Return(r)
       \/ /\ frpc' = 0
          /\ Return(r)
    /\ UNCHANGED <<store, desired, history>>

Desire(r) ==
    /\ At(r, "desire")
    /\ desired' = TRUE
    /\ Return(r)
    /\ UNCHANGED <<store, frpc, history>>

(* test_frpc_connectivity *)

\* A container of its own logs in to the server, or does not.
Test(r) ==
    /\ At(r, "test")
    /\ \/ /\ tested' = tested \cup {req[r].token}
          /\ IF req[r].state = "pending" THEN Goto(r, "complete") /\ UNCHANGED locks
                                         ELSE Return(r)
       \/ Return(r) /\ UNCHANGED tested
    /\ UNCHANGED <<store, service, last, recovered>>

\* Mutant: the fingerprint is not compared.
CompletesAny(r) == row.pending

\* complete_frp_token_recovery: the UPDATE names the fingerprint that was tested.
Completes(r) == row.pending /\ row.token = req[r].token

Complete(r) ==
    /\ At(r, "complete")
    /\ row' = IF Completes(r) THEN [token |-> row.token, pending |-> FALSE] ELSE row
    /\ Return(r)
    /\ UNCHANGED <<file, settings, service, history>>

-----------------------------------------------------------------------------
(* The surroundings *)

\* The file is removed, emptied or replaced by an older one.
LoseFile ==
    /\ losses < MaxLosses
    /\ losses' = losses + 1
    /\ file' \in (0..last) \ {file}
    /\ UNCHANGED <<row, settings, service, locks, req, history, install, begun, faults>>

\* An error, or a client that no longer waits, ends a request where it is.
Drop(r) ==
    /\ r \in Busy /\ faults < MaxFaults
    /\ faults' = faults + 1
    /\ Return(r)
    /\ UNCHANGED <<store, service, history, install, begun, losses>>

\* reconcile_runtime_state comes before the first request.
Crash(r) ==
    /\ faults < MaxFaults
    /\ faults' = faults + 1
    /\ req' = [s \in Requests |-> IF s # r THEN NoRequest ELSE
                  [op |-> "boot", token |-> 0, state |-> "ready", stage |-> "token"]]
    /\ publication' = NoOne /\ token' = NoOne
    /\ UNCHANGED <<store, service, history, install, begun, losses>>

-----------------------------------------------------------------------------
\* A new installation; one whose version kept no fingerprint; one that was used.
Init ==
    /\ install \in Install
    /\ last = IF install = "fresh" THEN 0 ELSE 1
    /\ file = last
    /\ row = IF install = "normal" THEN [token |-> 1, pending |-> FALSE] ELSE NoRow
    /\ settings = (install # "fresh")
    /\ desired \in (IF install = "fresh" THEN {FALSE} ELSE BOOLEAN)
    /\ frpc = IF desired THEN 1 ELSE 0
    /\ publication = NoOne /\ token = NoOne
    /\ req = [r \in Requests |-> NoRequest]
    /\ recovered = {} /\ tested = {}
    /\ begun = 0 /\ losses = 0 /\ faults = 0

Lock(r) == (Acquire(r) \/ AcquireToken(r)) /\ UNCHANGED counts
Step(r) ==
    /\ \/ Read(r) \/ Decide(r) \/ Generate(r) \/ Record(r)
       \/ Suspend(r) \/ SaveSettings(r) \/ RemoveFrpc(r) \/ Undesire(r)
       \/ ReplaceSecret(r) \/ SavePending(r) \/ Connect(r) \/ Desire(r)
       \/ Test(r) \/ Complete(r)
    /\ UNCHANGED counts

Next ==
    \/ \E r \in Requests : Lock(r) \/ Step(r) \/ Drop(r) \/ Crash(r)
    \/ \E r \in Requests, op \in Op : Begin(r, op)
    \/ LoseFile

Spec == Init /\ [][Next]_vars

\* Docker, the file system and the database answer; the mutexes of tokio serve
\* who waits for them in order.
FairSpec == Spec /\ \A r \in Requests : WF_vars(Step(r)) /\ SF_vars(Lock(r))

-----------------------------------------------------------------------------
(* Properties *)

TypeOK ==
    /\ file \in 0..last /\ frpc \in 0..last
    /\ row = NoRow \/ row \in [token : 1..last, pending : BOOLEAN]
    /\ settings \in BOOLEAN /\ desired \in BOOLEAN
    /\ {publication, token} \subseteq Busy \cup {NoOne}
    /\ \A r \in Busy :
          req[r] \in [op : Op, stage : Stage, token : 0..last, state : State]
    /\ last \in Nat /\ recovered \subseteq 1..last /\ tested \subseteq 1..last

(* docs/security.md: "a recovery credential becomes active only after an   *)
(* authenticated test succeeds", whatever is lost, recovered again or      *)
(* tested at the same time.  A legacy installation that is cut off between *)
(* the new file and its row adopts the file untested.                      *)
RecoveredIsTested ==
    install # "legacy" \/ faults = 0 =>
        (~row.pending /\ row.token \in recovered => row.token \in tested)

(* docs/frps-setup.md: "The app generates the token once" and a recovery   *)
(* "creates one stable replacement credential, keeps reusing it across     *)
(* retries": however many requests look for a token or recover one at the  *)
(* same time, a new token needs a change of the file, a crash or an error. *)
OneReplacement == last <= 1 + losses + faults

(* While a replacement waits for its test, frpc neither runs nor is it     *)
(* started by a refresh: no start that saw the old token comes late.       *)
PendingMeansStopped == row.pending => frpc = 0 /\ ~desired

(* No order of the two locks and no crash leaves a request waiting.        *)
RequestsReturn == \A r \in Requests : req[r] # NoRequest ~> req[r] = NoRequest
=============================================================================
