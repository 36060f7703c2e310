------------------------- MODULE PublicationProofs -------------------------
(***************************************************************************)
(* Proofs about Publication, for every set of environments, requests and   *)
(* ports, every table to begin with and every mode.                        *)
(***************************************************************************)
EXTENDS Publication, TLAPS

USE DEF system, frpc, scratch, counts

-----------------------------------------------------------------------------
(* Rows *)

(* A row that is published has a port of the server, and only then.        *)
Sound(x) == x # NoRow => (x.published <=> x.remote # 0)

\* What setting fields of a row leaves of the others.
LEMMA SetLocal ==
    ASSUME NEW x \in Row, NEW l \in 0..2
    PROVE  LET y == [x EXCEPT !.local = l]
           IN  /\ y \in Row /\ y # NoRow
               /\ y.published = x.published /\ y.automatic = x.automatic /\ y.remote = x.remote
               /\ y.desired = x.desired /\ y.local = l
BY PublicationAssumption DEF Row

\* The same for desired_running.
LEMMA SetDesired ==
    ASSUME NEW x \in Row, NEW b \in BOOLEAN
    PROVE  LET y == [x EXCEPT !.desired = b]
           IN  /\ y \in Row /\ y # NoRow
               /\ y.published = x.published /\ y.automatic = x.automatic /\ y.remote = x.remote
               /\ y.desired = b /\ y.local = x.local
BY PublicationAssumption DEF Row

\* The same for the port of the server.
LEMMA SetRemote ==
    ASSUME NEW x \in Row, NEW p \in Ports \cup {0}
    PROVE  LET y == [x EXCEPT !.remote = p]
           IN  /\ y \in Row /\ y # NoRow
               /\ y.published = x.published /\ y.automatic = x.automatic /\ y.remote = p
               /\ y.desired = x.desired /\ y.local = x.local
BY PublicationAssumption DEF Row

\* What publishing and unpublishing leave of a row.
LEMMA SetPublication ==
    ASSUME NEW x \in Row, NEW b \in BOOLEAN, NEW p \in Ports \cup {0}
    PROVE  LET y == WithPublication(x, b, p)
           IN  /\ y \in Row /\ y # NoRow
               /\ y.published = b /\ y.remote = p
               /\ y.desired = x.desired /\ y.local = x.local
<1>1. /\ x.desired \in BOOLEAN /\ x.local \in 0..2
  BY DEF Row
<1>2. WithPublication(x, b, p) \in Row
  BY <1>1, Zenon DEF Row, WithPublication
<1> QED BY <1>2, PublicationAssumption DEF WithPublication

\* The rows are the same but for the port of the host and whether they run.
SameRow(x, y) == /\ x = NoRow <=> y = NoRow
                 /\ x # NoRow => x.published = y.published /\ x.remote = y.remote

\* Writing the ports of the host changes nothing else of a table.
LEMMA WithPortsRows ==
    ASSUME TypeOK, NEW rows \in [Envs -> Row \cup {NoRow}], NEW S
    PROVE  /\ WithPorts(rows, S) \in [Envs -> Row \cup {NoRow}]
           /\ \A e \in Envs :
                 /\ SameRow(rows[e], WithPorts(rows, S)[e])
                 /\ rows[e] # NoRow => WithPorts(rows, S)[e].desired = rows[e].desired
                 /\ rows[e] # NoRow => WithPorts(rows, S)[e].automatic = rows[e].automatic
                 /\ rows[e] # NoRow => WithPorts(rows, S)[e].local =
                        IF e \in S THEN HostPort(e) ELSE rows[e].local
<1> DEFINE new == WithPorts(rows, S)
<1>1. \A e \in Envs : HostPort(e) \in 0..2
  BY DEF HostPort, TypeOK
<1>2. new = [e \in Envs |-> IF e \in S /\ rows[e] # NoRow
                   THEN [rows[e] EXCEPT !.local = HostPort(e)] ELSE rows[e]]
  BY DEF WithPorts
<1>3. ASSUME NEW e \in Envs
      PROVE  /\ new[e] \in Row \cup {NoRow}
             /\ SameRow(rows[e], new[e])
             /\ rows[e] # NoRow => new[e].desired = rows[e].desired
             /\ rows[e] # NoRow => new[e].automatic = rows[e].automatic
             /\ rows[e] # NoRow => new[e].local = IF e \in S THEN HostPort(e) ELSE rows[e].local
  <2>1. CASE e \in S /\ rows[e] # NoRow
    <3>1. rows[e] \in Row /\ new[e] = [rows[e] EXCEPT !.local = HostPort(e)]
      BY <1>2, <2>1
    <3> DEFINE y == [rows[e] EXCEPT !.local = HostPort(e)]
    <3>2. /\ y \in Row /\ y # NoRow
          /\ y.published = rows[e].published /\ y.automatic = rows[e].automatic
          /\ y.remote = rows[e].remote /\ y.desired = rows[e].desired /\ y.local = HostPort(e)
      BY <1>1, <3>1, SetLocal
    <3> HIDE DEF y
    <3>3. new[e] = y
      BY <3>1 DEF y
    <3> QED BY <2>1, <3>2, <3>3 DEF SameRow
  <2>2. CASE ~(e \in S /\ rows[e] # NoRow)
    <3>1. new[e] = rows[e]
      BY <1>2, <2>2
    <3> QED BY <2>2, <3>1 DEF SameRow
  <2> QED BY <2>1, <2>2
<1> HIDE DEF new
<1>4. new \in [Envs -> Row \cup {NoRow}]
  BY <1>2, <1>3
<1> QED BY <1>3, <1>4 DEF new

-----------------------------------------------------------------------------
(* Requests *)

\* What a request consists of.
LEMMA RequestFields ==
    ASSUME NEW x \in Request
    PROVE  x.op \in Op /\ x.env \in Envs \cup {NoOne} /\ x.row \in Row \cup {NoRow}
           /\ x.stage \in Stage /\ x # NoRequest
BY DEF Request, NoRequest, Op, Lifecycle

\* What a step of a handler does to the requests.
Moved(r, mine, s) ==
    /\ req' \in [Requests -> Request \cup {NoRequest}]
    /\ req'[r] # NoRequest
    /\ req'[r].op = req[r].op /\ req'[r].env = req[r].env
    /\ req'[r].row = mine /\ req'[r].stage = s
    /\ \A q \in Requests : q # r => req'[q] = req[q]

\* Becomes and Goto move the one request.
LEMMA BecomesMoved ==
    ASSUME TypeOK, NEW r \in Requests, req[r] # NoRequest, NEW mine \in Row \cup {NoRow},
           NEW s \in Stage, Becomes(r, mine, s)
    PROVE  Moved(r, mine, s)
<1>1. req[r] \in Request
  BY DEF TypeOK
<1>2. [op |-> req[r].op, env |-> req[r].env, row |-> mine, stage |-> s] \in Request
  BY <1>1, RequestFields DEF Request
<1> QED BY <1>1, <1>2, RequestFields DEF Becomes, Moved, TypeOK

\* The same for a request that keeps the row it has read.
LEMMA GotoMoved ==
    ASSUME TypeOK, NEW r \in Requests, req[r] # NoRequest, NEW s \in Stage, Goto(r, s)
    PROVE  Moved(r, req[r].row, s)
<1>1. req[r] \in Request
  BY DEF TypeOK
<1> QED BY <1>1, RequestFields, BecomesMoved DEF Goto

\* What the end of a request does to all of them and to the lock.
Ended(r) ==
    /\ req' \in [Requests -> Request \cup {NoRequest}]
    /\ req'[r] = NoRequest
    /\ \A q \in Requests : q # r => req'[q] = req[q]
    /\ lock' = IF lock = r THEN NoOne ELSE lock
    /\ IF lock = r THEN view' = [e \in Envs |-> NoRow] /\ conflicts' = {} /\ rejected' = {}
                   ELSE UNCHANGED scratch

\* Return ends it, and drops the lock with what its search has found.
LEMMA ReturnEnded ==
    ASSUME TypeOK, NEW r \in Requests, Return(r)
    PROVE  Ended(r)
BY DEF Return, Ended, Forget, TypeOK
-----------------------------------------------------------------------------
(* The inductive invariants *)

InStage(r, S) == req[r] # NoRequest /\ req[r].stage \in S

Locked   == {"publish", "unpublish", "stopFrpc", "list", "inspect", "connect", "poll",
             "move", "desire", "undesire"}
Creating == {"pick", "build", "insert"}
Deciding == {"docker", "remove", "record", "sync"}

(* The stages after lock().await belong to the holder of publication_lock, *)
(* and what one search for ports has found is gone when the lock is free.  *)
Holder ==
    /\ \A r \in Requests : lock = r <=> InStage(r, Locked)
    /\ lock = NoOne => rejected = {}
    /\ \A r \in Requests : InStage(r, {"publish"}) => rejected = {}

(* A row that is published has a port of the server, and only then; a      *)
(* proxy that is about to be rendered has a port of the host.              *)
Rows ==
    /\ \A e \in Envs : Sound(row[e]) /\ Sound(view[e])
    /\ \A r \in Requests : InStage(r, {"connect"}) =>
          \A e \in Proxied(view) : view[e].local # 0

(* An environment that is being created is nobody else's yet: no row, no   *)
(* listing and no frpc knows it, and it has a container from start on.     *)
Fresh ==
    \A r \in Requests : InStage(r, Creating) =>
        /\ req[r].op = "create" /\ req[r].env \in Envs /\ req[r].row \in Row
        /\ row[req[r].env] = NoRow /\ view[req[r].env] = NoRow
        /\ req[r].env \notin DOMAIN forwards
        /\ \A s \in Requests : s # r /\ req[s] # NoRequest => req[s].env # req[r].env
        /\ IF req[r].stage = "pick"
           THEN req[r].row.published /\ (req[r].row.automatic <=> req[r].row.remote = 0)
           ELSE Sound(req[r].row)
        /\ box[req[r].env] = "none" <=> req[r].stage # "insert"

\* What a request is about: an environment, whose row most of them read first.
Publishes == {"publish", "unpublish"}
Decided ==
    \A r \in Requests :
        /\ InStage(r, Deciding) =>
              req[r].op \in Lifecycle /\ req[r].env \in Envs /\ req[r].row \in Row
        /\ req[r] # NoRequest /\ req[r].op \in Publishes => req[r].env \in Envs
        /\ InStage(r, Publishes) => req[r].op \in Publishes

(* publication_lock makes a refresh current: a listing, and what frpc is   *)
(* given of it, shows of every row that is still there what it says.       *)
Current ==
    /\ \A r \in Requests : InStage(r, {"inspect", "connect", "move"}) =>
          \A e \in Envs : view[e] # NoRow /\ row[e] # NoRow => SameRow(view[e], row[e])
    /\ RefreshIsCurrent

Base == TypeOK /\ Holder /\ Rows /\ Fresh /\ Decided /\ Current

(* Without overlap a request that changes environments is alone, and a     *)
(* port that was picked, listed or refused is still so when it is used.    *)
Alone ==
    \A r, s \in Requests : r # s /\ req[r] # NoRequest /\ req[s] # NoRequest =>
        req[r].op \notin Lifecycle
Picked ==
    \A r \in Requests : InStage(r, {"build", "insert"}) =>
        req[r].row.remote = 0 \/ req[r].row.remote \notin RemotePorts(row, Envs)
Listed ==
    \A r \in Requests :
        /\ InStage(r, {"inspect", "connect", "move"}) => \A e \in Envs : SameRow(view[e], row[e])
        /\ InStage(r, {"poll"}) => DOMAIN forwards \subseteq Present
Distinct == \A e, f \in Present : e # f /\ row[e].remote # 0 => row[e].remote # row[f].remote
News     == \A e \in Present : row[e].remote \notin rejected

Apart == ~mode.overlap => Alone /\ Picked /\ Listed /\ Distinct /\ News

(* Conflicts are left only while their holder moves them.                  *)
Search == conflicts # {} => \E r \in Requests : InStage(r, {"move"})

(* Where no request is cut short, a row without a container is being       *)
(* deleted, by a request that has removed the container, and a container   *)
(* without a row is being created.                                         *)
Deletes(r) == InStage(r, {"record"}) /\ req[r].op = "delete"
Boxed ==
    /\ \A r \in Requests : InStage(r, {"remove"}) => req[r].op = "delete"
    /\ \A r \in Requests : Deletes(r) => box[req[r].env] = "none"
    /\ \A e \in Envs :
          /\ row[e] = NoRow /\ box[e] # "none" =>
                \E r \in Requests : InStage(r, {"insert"}) /\ req[r].env = e
          /\ row[e] # NoRow /\ box[e] = "none" =>
                \E r \in Requests : Deletes(r) /\ req[r].env = e

Boxes == crashes \in Nat /\ (mode.faults = {} /\ crashes = 0 => Boxed)

-----------------------------------------------------------------------------
(* What the steps of one request keep *)

\* The locks of the other requests, and of a request that goes on.
LEMMA HolderMoved ==
    ASSUME TypeOK, Holder, NEW r \in Requests, NEW mine, NEW s, Moved(r, mine, s),
           InStage(r, Locked) <=> s \in Locked, UNCHANGED lock,
           UNCHANGED rejected \/ s \in Locked, s # "publish"
    PROVE  Holder'
<1>1. \A q \in Requests : lock' = q <=> InStage(q, Locked)'
  BY DEF Holder, Moved, InStage
<1>2. lock' = NoOne => rejected' = {}
  BY PublicationAssumption DEF Holder
<1>3. ASSUME NEW q \in Requests, InStage(q, {"publish"})' PROVE rejected' = {}
  <2>1. q # r /\ InStage(q, {"publish"}) /\ InStage(q, Locked)
    BY <1>3 DEF Moved, InStage, Locked
  <2>2. lock = q /\ rejected = {} /\ ~InStage(r, Locked)
    BY <2>1 DEF Holder
  <2> QED BY <2>2
<1> QED BY <1>1, <1>2, <1>3 DEF Holder

\* The same when a request ends.
LEMMA HolderEnded ==
    ASSUME TypeOK, Holder, NEW r \in Requests, Ended(r)
    PROVE  Holder'
BY PublicationAssumption DEF Holder, Ended, InStage, TypeOK, Locked

\* The step of r changes the row and the container of its own environment only.
Tame(r) ==
    /\ \A e \in Envs : e # req[r].env =>
          /\ row[e] = NoRow => row'[e] = NoRow
          /\ box'[e] = "none" <=> box[e] = "none"
    /\ \A e \in Envs : view[e] = NoRow /\ row[e] = NoRow => view'[e] = NoRow
    /\ \A e \in Envs : e \in DOMAIN forwards' => e \in DOMAIN forwards \/ view[e] # NoRow

\* A creation is not disturbed by another request that goes on,
LEMMA FreshMoved ==
    ASSUME TypeOK, Fresh, NEW r \in Requests, req[r] # NoRequest,
           NEW mine, NEW s, Moved(r, mine, s), s \notin Creating, Tame(r)
    PROVE  Fresh'
BY DEF Fresh, Moved, InStage, Tame

\* nor by one that ends.
LEMMA FreshEnded ==
    ASSUME TypeOK, Fresh, NEW r \in Requests, req[r] # NoRequest, Ended(r), Tame(r)
    PROVE  Fresh'
BY DEF Fresh, Ended, InStage, Tame

\* What the requests are about is kept when one goes on,
LEMMA DecidedMoved ==
    ASSUME Decided, NEW r \in Requests, NEW mine, NEW s, Moved(r, mine, s),
           s \in Deciding => req[r].op \in Lifecycle /\ req[r].env \in Envs /\ mine \in Row,
           req[r] # NoRequest, s \in Publishes => req[r].op \in Publishes
    PROVE  Decided'
BY DEF Decided, Moved, InStage, Publishes

\* and when one ends.
LEMMA DecidedEnded ==
    ASSUME Decided, NEW r \in Requests, Ended(r)
    PROVE  Decided'
BY DEF Decided, Ended, InStage, Publishes

\* No row changes what it publishes, and what is listed and forwarded stays.
LEMMA CurrentMoved ==
    ASSUME TypeOK, Current, NEW r \in Requests, NEW mine, NEW s, Moved(r, mine, s),
           s \notin {"inspect", "connect", "poll", "move"},
           \A e \in Envs : \/ SameRow(row[e], row'[e]) \/ row'[e] = NoRow
                           \/ row[e] = NoRow /\ view[e] = NoRow /\ e \notin DOMAIN forwards,
           UNCHANGED <<view, forwards>>
    PROVE  Current'
BY DEF Current, RefreshIsCurrent, At, Present, Moved, InStage, SameRow, TypeOK

\* The same when a request ends.
LEMMA CurrentEnded ==
    ASSUME TypeOK, Holder, Current, NEW r \in Requests, Ended(r),
           \A e \in Envs : \/ SameRow(row[e], row'[e]) \/ row'[e] = NoRow
                           \/ row[e] = NoRow /\ view[e] = NoRow /\ e \notin DOMAIN forwards,
           UNCHANGED forwards
    PROVE  Current'
BY DEF Holder, Locked, Current, RefreshIsCurrent, At, Present, Ended, InStage, SameRow, TypeOK

\* Sound rows stay sound when a request goes on,
LEMMA RowsMoved ==
    ASSUME TypeOK, Rows, NEW r \in Requests, NEW mine, NEW s, Moved(r, mine, s),
           s # "connect", \A e \in Envs : Sound(row'[e]), UNCHANGED view
    PROVE  Rows'
BY DEF Rows, Moved, InStage, Proxied, TypeOK

\* and when one ends.
LEMMA RowsEnded ==
    ASSUME TypeOK, Holder, Rows, NEW r \in Requests, Ended(r),
           \A e \in Envs : Sound(row'[e])
    PROVE  Rows'
<1>1. CASE lock = r
  <2>1. \A q \in Requests : ~InStage(q, {"connect"})'
    BY <1>1 DEF Holder, Ended, InStage, Locked
  <2>2. \A e \in Envs : Sound(view'[e])
    BY <1>1 DEF Ended, Sound
  <2> QED BY <2>1, <2>2 DEF Rows
<1>2. CASE lock # r
  BY <1>2 DEF Rows, Ended, InStage, Proxied, TypeOK
<1> QED BY <1>1, <1>2

\* What may become of the rows outside the lock, or at the end of a request.
Gentle == \A e \in Envs : \/ SameRow(row[e], row'[e]) \/ row'[e] = NoRow
                          \/ /\ row[e] = NoRow /\ view[e] = NoRow /\ e \notin DOMAIN forwards
                             /\ Sound(row'[e])

\* A step that is gentle with the rows leaves them sound.
LEMMA GentleSound == ASSUME Rows, Gentle PROVE \A e \in Envs : Sound(row'[e])
BY DEF Rows, Gentle, SameRow, Sound

\* A request that goes on to a stage without the lock.
LEMMA MovedBase ==
    ASSUME Base, TypeOK', NEW r \in Requests, req[r] # NoRequest, NEW mine \in Row, NEW s,
           Moved(r, mine, s), ~InStage(r, Locked), s \in Deciding \cup {"lock"},
           s \in Deciding => InStage(r, Deciding),
           Gentle, Tame(r), UNCHANGED <<lock, view, conflicts, rejected, forwards>>
    PROVE  Base'
<1> USE DEF Base
<1>1. Holder'
  BY HolderMoved DEF Deciding, Locked
<1>2. Rows'
  BY RowsMoved, GentleSound DEF Deciding
<1>3. Fresh'
  BY FreshMoved DEF Deciding, Creating
<1>4. Decided'
  BY DecidedMoved DEF Decided, Deciding, Publishes
<1>5. Current'
  BY CurrentMoved DEF Deciding, Gentle
<1> QED BY <1>1, <1>2, <1>3, <1>4, <1>5

\* A request that ends.
LEMMA EndedBase ==
    ASSUME Base, TypeOK', NEW r \in Requests, req[r] # NoRequest, Ended(r),
           Gentle, Tame(r), UNCHANGED forwards
    PROVE  Base'
<1> USE DEF Base
<1>1. Holder'
  BY HolderEnded
<1>2. Rows'
  BY RowsEnded, GentleSound
<1>3. Fresh'
  BY FreshEnded
<1>4. Decided'
  BY DecidedEnded
<1>5. Current'
  BY CurrentEnded DEF Gentle
<1> QED BY <1>1, <1>2, <1>3, <1>4, <1>5

\* The type of what a request changes, and of its end.
LEMMA EndedTypes ==
    ASSUME TypeOK, Holder, NEW r \in Requests, Ended(r)
    PROVE  /\ req' \in [Requests -> Request \cup {NoRequest}]
           /\ lock' \in Requests \cup {NoOne}
           /\ lock' # NoOne => lock' \in Busy'
           /\ view' \in [Envs -> Row \cup {NoRow}]
           /\ conflicts' \subseteq Envs /\ rejected' \subseteq Ports
BY DEF Ended, TypeOK, Busy, Holder, InStage

-----------------------------------------------------------------------------
(* The steps of a request that does not have the lock *)

\* A step that leaves rows, containers and frpc as they are.
LEMMA NothingMoves ==
    ASSUME TypeOK, NEW r \in Requests, UNCHANGED <<row, box, forwards>>,
           UNCHANGED view \/ Ended(r)
    PROVE  Gentle /\ Tame(r)
BY DEF Gentle, Tame, SameRow, Ended

\* A request that ends without a change.
LEMMA ReturnBase ==
    ASSUME Base, NEW r \in Requests, req[r] # NoRequest, Return(r), UNCHANGED <<system, frpc>>
    PROVE  Base'
<1>1. TypeOK /\ Ended(r)
  BY ReturnEnded DEF Base
<1>2. TypeOK'
  BY <1>1, EndedTypes DEF Base, TypeOK
<1> QED BY <1>1, <1>2, NothingMoves, EndedBase

\* The creation of an environment goes on.
LEMMA FreshAdvances ==
    ASSUME TypeOK, Fresh, NEW r \in Requests, InStage(r, Creating), NEW mine \in Row, NEW s,
           Moved(r, mine, s), s \in {"build", "insert"}, Sound(mine), Tame(r),
           LET e == req[r].env IN row'[e] = NoRow /\ (box'[e] = "none" <=> s # "insert")
    PROVE  Fresh'
<1>1. ASSUME NEW q \in Requests, q # r, InStage(q, Creating)'
      PROVE  InStage(q, Creating) /\ req'[q] = req[q] /\ req[q].env # req[r].env
  BY <1>1 DEF Fresh, Moved, InStage
<1>2. ASSUME NEW q \in Requests, q # r, InStage(q, Creating)'
      PROVE  /\ row'[req'[q].env] = NoRow /\ view'[req'[q].env] = NoRow
             /\ req'[q].env \notin DOMAIN forwards'
             /\ box'[req'[q].env] = "none" <=> req'[q].stage # "insert"
             /\ \A u \in Requests : u # q /\ req'[u] # NoRequest => req'[u].env # req'[q].env
  BY <1>1, <1>2 DEF Fresh, Tame, Moved, InStage
<1>3. /\ view'[req'[r].env] = NoRow /\ req'[r].env \notin DOMAIN forwards'
      /\ \A u \in Requests : u # r /\ req'[u] # NoRequest => req'[u].env # req'[r].env
  BY DEF Fresh, Tame, Moved, InStage
<1>4. /\ req'[r].op = "create" /\ req'[r].env \in Envs
      /\ req'[r].row = mine /\ req'[r].env = req[r].env /\ req'[r].stage = s
  BY DEF Fresh, Moved, InStage
<1>5. ASSUME NEW q \in Requests, q # r, InStage(q, Creating)'
      PROVE  /\ req'[q].op = "create" /\ req'[q].env \in Envs /\ req'[q].row \in Row
             /\ IF req'[q].stage = "pick"
                THEN req'[q].row.published /\ (req'[q].row.automatic <=> req'[q].row.remote = 0)
                ELSE Sound(req'[q].row)
  BY <1>1, <1>5 DEF Fresh, InStage
<1> QED BY <1>2, <1>3, <1>4, <1>5 DEF Fresh

\* create_environment: the port.
LEMMA PickBase == ASSUME Base, NEW r \in Requests, Pick(r) PROVE Base'
<1> DEFINE mine  == req[r].row
           taken == RemotePorts(row, Envs)
           ports == IF mine.automatic THEN Lowest(taken) ELSE {mine.remote} \ taken
<1>1. TypeOK /\ req[r] # NoRequest /\ InStage(r, {"pick"})
  BY DEF Pick, At, InStage, Base
<1>2. mine \in Row /\ mine.published /\ (mine.automatic <=> mine.remote = 0)
  BY <1>1 DEF Base, Fresh, InStage, Creating
<1>3. CASE Return(r) /\ UNCHANGED <<system, frpc>>
  BY <1>1, <1>3, ReturnBase
<1>4. ASSUME NEW p \in ports, Becomes(r, [mine EXCEPT !.remote = p], "build"),
             UNCHANGED <<lock, scratch, system, frpc>>
      PROVE  Base'
  <2> DEFINE new == [mine EXCEPT !.remote = p]
  <2>1. p \in Ports \cup {0}
    BY <1>2 DEF Lowest, Row
  <2>2. new \in Row /\ new.published = mine.published /\ new.remote = p
    BY <1>2, <2>1, SetRemote
  <2>3. p # 0
    BY <1>2, PublicationAssumption DEF Lowest
  <2> HIDE DEF new
  <2>4. Moved(r, new, "build")
    BY <1>1, <1>4, <2>2, BecomesMoved DEF Stage, new
  <2>5. TypeOK'
    BY <1>1, <1>4, <2>4 DEF TypeOK, Moved, Busy
  <2>6. Holder' /\ Decided'
    BY <1>1, <1>4, <2>4, HolderMoved, DecidedMoved DEF Base, InStage, Locked, Deciding, Publishes
  <2>7. Rows' /\ Current'
    BY <1>1, <1>4, <2>4, RowsMoved, CurrentMoved DEF Base, Rows, SameRow
  <2>8. Fresh'
    BY <1>1, <1>2, <1>4, <2>2, <2>3, <2>4, NothingMoves, FreshAdvances
       DEF Base, Fresh, InStage, Creating, Sound
  <2> QED BY <2>5, <2>6, <2>7, <2>8 DEF Base
<1> QED BY <1>3, <1>4 DEF Pick

\* create_environment: the container.
LEMMA BuildBase == ASSUME Base, NEW r \in Requests, Build(r) PROVE Base'
<1> DEFINE e == req[r].env
<1>1. TypeOK /\ req[r] # NoRequest /\ InStage(r, {"build"}) /\ InStage(r, Creating)
  BY DEF Build, At, InStage, Base, Creating
<1>2. /\ e \in Envs /\ req[r].row \in Row /\ Sound(req[r].row) /\ row[e] = NoRow
      /\ box[e] = "none"
  BY <1>1 DEF Base, Fresh, InStage
<1>3. CASE /\ box' = [box EXCEPT ![e] = "running"]
           /\ Becomes(r, [req[r].row EXCEPT !.local = host[e]], "insert")
           /\ UNCHANGED <<lock, scratch>>
  <2> DEFINE new == [req[r].row EXCEPT !.local = host[e]]
  <2>1. host[e] \in 0..2
    BY <1>1, <1>2 DEF TypeOK
  <2>2. /\ new \in Row /\ new # NoRow
        /\ new.published = req[r].row.published /\ new.remote = req[r].row.remote
    BY <1>2, <2>1, SetLocal
  <2> HIDE DEF new
  <2>3. Sound(new)
    BY <1>2, <2>2, PublicationAssumption DEF Sound
  <2>4. Moved(r, new, "insert")
    BY <1>1, <1>3, <2>2, BecomesMoved DEF Stage, new
  <2>5. UNCHANGED <<row, host, frpc, lock, scratch>>
    BY <1>3 DEF Build
  <2>6. TypeOK'
    BY <1>1, <1>2, <1>3, <2>4, <2>5 DEF TypeOK, Moved, Busy
  <2>7. Holder' /\ Decided'
    BY <1>1, <2>4, <2>5, HolderMoved, DecidedMoved DEF Base, InStage, Locked, Deciding, Publishes
  <2>8. Rows' /\ Current'
    BY <1>1, <2>4, <2>5, RowsMoved, CurrentMoved DEF Base, Rows, SameRow
  <2>9. Tame(r) /\ box'[e] = "running"
    BY <1>1, <1>2, <1>3, <2>5 DEF Tame, TypeOK
  <2>10. Fresh'
    BY <1>1, <1>2, <2>2, <2>4, <2>5, <2>9, <2>3, FreshAdvances DEF Base
  <2> QED BY <2>6, <2>7, <2>8, <2>10 DEF Base
<1>4. CASE Remains(e) /\ Return(r)
  <2>1. UNCHANGED <<row, host, frpc>>
    BY DEF Build
  <2>2. Ended(r) /\ Tame(r) /\ Gentle
    BY <1>1, <1>2, <1>4, <2>1, ReturnEnded DEF Remains, Tame, Gentle, SameRow, TypeOK, Ended
  <2>3. TypeOK'
    BY <1>1, <1>2, <1>4, <2>1, <2>2, EndedTypes DEF Remains, Base, TypeOK
  <2> QED BY <1>1, <2>1, <2>2, <2>3, EndedBase
<1> QED BY <1>3, <1>4 DEF Build

\* A request outside the lock that has changed its row or its container.
LEMMA ChangedBase ==
    ASSUME Base, NEW r \in Requests, InStage(r, Creating \cup Deciding),
           row' \in [Envs -> Row \cup {NoRow}],
           box' \in [Envs -> {"none", "exited", "running"}], host' \in [Envs -> 1..2],
           Gentle, Tame(r), UNCHANGED frpc,
           \/ Return(r)
           \/ \E s \in Deciding \cup {"lock"} :
                 /\ s \in Deciding => InStage(r, Deciding)
                 /\ Goto(r, s) /\ UNCHANGED <<lock, scratch>>
    PROVE  Base'
<1>1. TypeOK /\ Holder /\ req[r] # NoRequest /\ ~InStage(r, Locked)
  BY DEF Base, InStage, Creating, Deciding, Locked
<1>2. req[r].row \in Row
  BY DEF Base, Fresh, Decided, InStage
<1>3. CASE Return(r)
  <2>1. Ended(r)
    BY <1>1, <1>3, ReturnEnded
  <2>2. TypeOK'
    BY <1>1, <2>1, EndedTypes DEF TypeOK
  <2> QED BY <1>1, <2>1, <2>2, EndedBase
<1>4. ASSUME NEW s \in Deciding \cup {"lock"}, s \in Deciding => InStage(r, Deciding),
             Goto(r, s), UNCHANGED <<lock, scratch>>
      PROVE  Base'
  <2>1. Moved(r, req[r].row, s)
    BY <1>1, <1>4, GotoMoved DEF Deciding, Stage
  <2>2. TypeOK'
    BY <1>1, <1>4, <2>1 DEF TypeOK, Moved, Busy
  <2> QED BY <1>1, <1>2, <1>4, <2>1, <2>2, MovedBase
<1> QED BY <1>3, <1>4

\* RefreshIfPublished ends a request or sends it to the lock.
LEMMA RefreshGoes ==
    ASSUME NEW r \in Requests, RefreshIfPublished(r)
    PROVE  \/ Return(r)
           \/ \E s \in Deciding \cup {"lock"} :
                 /\ s \in Deciding => InStage(r, Deciding)
                 /\ Goto(r, s) /\ UNCHANGED <<lock, scratch>>
BY DEF RefreshIfPublished, Deciding

\* create_environment: the row.
LEMMA InsertBase ==
    ASSUME Base, NEW r \in Requests, Insert(r) \/ InsertFails(r) PROVE Base'
<1> DEFINE e == req[r].env
<1>1. TypeOK /\ InStage(r, {"insert"}) /\ InStage(r, Creating \cup Deciding)
  BY DEF Insert, InsertFails, At, InStage, Base, Creating
<1>2. /\ e \in Envs /\ req[r].row \in Row /\ Sound(req[r].row)
      /\ row[e] = NoRow /\ view[e] = NoRow /\ e \notin DOMAIN forwards
  BY <1>1 DEF Base, Fresh, InStage, Creating
<1>3. CASE Insert(r)
  <2>1. row' = [row EXCEPT ![e] = req[r].row] /\ UNCHANGED <<box, host, frpc>>
    BY <1>3 DEF Insert
  <2>2. RefreshIfPublished(r)
    BY <1>3 DEF Insert
  <2>3. row' \in [Envs -> Row \cup {NoRow}] /\ Gentle
    BY <1>1, <1>2, <2>1 DEF Gentle, SameRow, TypeOK
  <2>4. Tame(r)
    <3>1. UNCHANGED view \/ \A f \in Envs : view'[f] = NoRow
      BY <1>1, <2>2, ReturnEnded DEF RefreshIfPublished, Ended
    <3> QED BY <1>1, <2>1, <3>1 DEF Tame, TypeOK
  <2> QED BY <1>1, <2>1, <2>2, <2>3, <2>4, RefreshGoes, ChangedBase DEF TypeOK
<1>4. CASE InsertFails(r)
  <2>1. Remains(e) /\ Return(r) /\ UNCHANGED <<row, host, frpc>>
    BY <1>4 DEF InsertFails
  <2>2. Gentle
    BY <2>1 DEF Gentle, SameRow
  <2>3. Tame(r)
    BY <1>1, <2>1, ReturnEnded DEF Remains, Tame, TypeOK, Ended
  <2>4. box' \in [Envs -> {"none", "exited", "running"}]
    BY <1>1, <2>1 DEF TypeOK, Remains
  <2> QED BY <1>1, <2>1, <2>2, <2>3, <2>4, ChangedBase DEF TypeOK
<1> QED BY <1>3, <1>4

\* A request that starts, stops or deletes knows its environment and its row.
LEMMA DecidingFacts ==
    ASSUME Base, NEW r \in Requests, InStage(r, Deciding)
    PROVE  /\ TypeOK /\ InStage(r, Creating \cup Deciding) /\ req[r] # NoRequest
           /\ req[r].env \in Envs /\ req[r].row \in Row /\ req[r].op \in Lifecycle
BY DEF Base, Decided, InStage

\* Only the request's own row and container change.
LEMMA OwnTame ==
    ASSUME NEW r \in Requests, UNCHANGED forwards, UNCHANGED view \/ Ended(r),
           \A f \in Envs : f # req[r].env =>
              (row[f] = NoRow => row'[f] = NoRow) /\ box'[f] = box[f]
    PROVE  Tame(r)
BY DEF Tame, Ended

\* What Docker is asked for.
LEMMA CallDockerBase == ASSUME Base, NEW r \in Requests, CallDocker(r) PROVE Base'
<1> DEFINE e == req[r].env
<1>1. InStage(r, Deciding) /\ UNCHANGED <<row, frpc>>
  BY DEF CallDocker, At, InStage, Deciding
<1>2. TypeOK /\ e \in Envs /\ req[r] # NoRequest
  BY <1>1, DecidingFacts
<1>3. CASE Return(r) /\ UNCHANGED <<box, host>>
  BY <1>1, <1>2, <1>3, ReturnBase
<1>4. ASSUME Starts(e) \/ (UNCHANGED host /\ box' \in {box, [box EXCEPT ![e] = "exited"]}),
             NEW s \in Deciding, Goto(r, s), UNCHANGED <<lock, scratch>>
      PROVE  Base'
  <2>1. /\ box' \in [Envs -> {"none", "exited", "running"}] /\ host' \in [Envs -> 1..2]
        /\ \A f \in Envs : f # e => box'[f] = box[f]
    BY <1>2, <1>4 DEF Starts, TypeOK
  <2>2. Tame(r) /\ Gentle
    BY <1>1, <1>4, <2>1, OwnTame DEF Gentle, SameRow
  <2> QED BY <1>1, <1>2, <1>4, <2>1, <2>2, DecidingFacts, ChangedBase DEF TypeOK
<1> QED BY <1>3, <1>4 DEF CallDocker, Deciding

\* The container goes.
LEMMA RemoveBase == ASSUME Base, NEW r \in Requests, Remove(r) PROVE Base'
<1> DEFINE e == req[r].env
<1>1. InStage(r, Deciding) /\ UNCHANGED <<row, host, frpc>>
  BY DEF Remove, At, InStage, Deciding
<1>2. TypeOK /\ e \in Envs /\ req[r] # NoRequest
  BY <1>1, DecidingFacts
<1>3. CASE Return(r) /\ UNCHANGED box
  BY <1>1, <1>2, <1>3, ReturnBase
<1>4. CASE box' = [box EXCEPT ![e] = "none"] /\ Goto(r, "record") /\ UNCHANGED <<lock, scratch>>
  <2>1. /\ box' \in [Envs -> {"none", "exited", "running"}]
        /\ \A f \in Envs : f # e => box'[f] = box[f]
    BY <1>2, <1>4 DEF TypeOK
  <2>2. Tame(r) /\ Gentle
    BY <1>1, <1>4, <2>1, OwnTame DEF Gentle, SameRow
  <2>3. "record" \in Deciding
    BY DEF Deciding
  <2> QED BY <1>1, <1>2, <1>4, <2>1, <2>2, <2>3, DecidingFacts, ChangedBase DEF TypeOK
<1> QED BY <1>3, <1>4 DEF Remove

\* The row of the request's environment gets what it should do, or goes.
LEMMA RecordBase == ASSUME Base, NEW r \in Requests, Record(r) PROVE Base'
<1> DEFINE e == req[r].env  op == req[r].op
           new == [row[e] EXCEPT !.desired = op = "start"]
<1>1. InStage(r, Deciding) /\ UNCHANGED <<box, host, frpc>>
  BY DEF Record, At, InStage, Deciding
<1>2. TypeOK /\ e \in Envs /\ req[r] # NoRequest
  BY <1>1, DecidingFacts
<1>3. row[e] # NoRow => new \in Row /\ SameRow(row[e], new)
  <2>1. SUFFICES ASSUME row[e] # NoRow PROVE new \in Row /\ SameRow(row[e], new)
    OBVIOUS
  <2>2. row[e] \in Row
    BY <1>2, <2>1 DEF TypeOK
  <2>3. new \in Row /\ new # NoRow /\ new.published = row[e].published /\ new.remote = row[e].remote
    BY <2>2, SetDesired
  <2> HIDE DEF new
  <2> QED BY <2>1, <2>3 DEF SameRow
<1>4. WithRow(e, IF op = "delete" THEN NoRow ELSE new)
  BY DEF Record
<1> HIDE DEF new
<1>5. \/ row' = row
      \/ row' = [row EXCEPT ![e] = NoRow]
      \/ row[e] # NoRow /\ row' = [row EXCEPT ![e] = new]
  BY <1>4 DEF WithRow
<1>6. row' \in [Envs -> Row \cup {NoRow}] /\ Gentle
  BY <1>2, <1>3, <1>5 DEF Gentle, SameRow, TypeOK
<1>7. \/ Goto(r, "sync") /\ UNCHANGED <<lock, scratch>>
      \/ RefreshIfPublished(r)
  BY DEF Record
<1>8. UNCHANGED view \/ Ended(r)
  BY <1>2, <1>7, ReturnEnded DEF RefreshIfPublished
<1>9. Tame(r)
  <2>1. \A f \in Envs : f # e => row'[f] = row[f] /\ box'[f] = box[f]
    BY <1>1, <1>2, <1>5 DEF TypeOK
  <2> QED BY <1>1, <1>8, <2>1, OwnTame
<1>10. "sync" \in Deciding
  BY DEF Deciding
<1> QED BY <1>1, <1>2, <1>6, <1>7, <1>9, <1>10, DecidingFacts, RefreshGoes, ChangedBase DEF TypeOK

\* Rows get the ports their containers are reached at.
LEMMA WithPortsGentle ==
    ASSUME TypeOK, NEW S, row' = WithPorts(row, S)
    PROVE  /\ row' \in [Envs -> Row \cup {NoRow}] /\ Gentle
           /\ \A e \in Envs : SameRow(row[e], row'[e])
BY WithPortsRows DEF Gentle, TypeOK

\* The port of the host is written to the row.
LEMMA SyncBase == ASSUME Base, NEW r \in Requests, Sync(r) PROVE Base'
<1> DEFINE e == req[r].env
<1>1. InStage(r, Deciding) /\ UNCHANGED <<box, host, frpc>>
  BY DEF Sync, At, InStage, Deciding
<1>2. TypeOK /\ e \in Envs /\ req[r] # NoRequest
  BY <1>1, DecidingFacts
<1>3. CASE Return(r) /\ UNCHANGED row
  BY <1>1, <1>2, <1>3, ReturnBase
<1>4. ASSUME NEW S, row' = WithPorts(row, S), RefreshIfPublished(r) PROVE Base'
  <2>1. UNCHANGED view \/ Ended(r)
    BY <1>2, <1>4, ReturnEnded DEF RefreshIfPublished
  <2>2. Tame(r)
    BY <1>1, <1>2, <1>4, <2>1, WithPortsGentle, OwnTame DEF SameRow
  <2>3. row' \in [Envs -> Row \cup {NoRow}] /\ Gentle
    BY <1>2, <1>4, WithPortsGentle
  <2> QED BY <1>1, <1>2, <1>4, <2>2, <2>3, DecidingFacts, RefreshGoes, ChangedBase DEF TypeOK
<1> QED BY <1>3, <1>4 DEF Sync

\* A request is cut short.
LEMMA DropBase == ASSUME Base, NEW r \in Requests, Drop(r) PROVE Base'
BY ReturnBase DEF Drop, Busy

-----------------------------------------------------------------------------
(* The steps under publication_lock *)

\* A request at a stage under the lock holds it, and is the only one.
LEMMA LockedFacts ==
    ASSUME Base, NEW r \in Requests, InStage(r, Locked)
    PROVE  /\ TypeOK /\ Holder /\ lock = r /\ req[r] # NoRequest
           /\ \A q \in Requests : q # r => ~InStage(q, Locked)
BY DEF Base, Holder, InStage

\* The holder goes on.
LEMMA HeldBase ==
    ASSUME Base, TypeOK', NEW r \in Requests, InStage(r, Locked),
           NEW s \in Locked \ Publishes, Moved(r, req[r].row, s), UNCHANGED lock, Tame(r),
           \A e \in Envs : Sound(row'[e]) /\ Sound(view'[e]),
           s = "connect" => \A e \in Proxied(view') : view'[e].local # 0,
           s \in {"inspect", "connect", "move"} =>
              \A e \in Envs : view'[e] # NoRow /\ row'[e] # NoRow => SameRow(view'[e], row'[e]),
           s = "poll" => \A e \in DOMAIN forwards' : row'[e] # NoRow =>
              row'[e].published /\ row'[e].remote = forwards'[e].remote
    PROVE  Base'
<1>1. /\ TypeOK /\ Holder /\ lock = r /\ req[r] # NoRequest
      /\ \A q \in Requests : q # r => ~InStage(q, Locked)
  BY LockedFacts
<1>2. \A q \in Requests : InStage(q, Locked)' => q = r /\ req'[q].stage = s
  BY <1>1 DEF Moved, InStage
<1>3. Holder'
  BY <1>1, HolderMoved DEF Publishes
<1>4. Rows'
  BY <1>2 DEF Rows, InStage, Locked
<1>5. Fresh' /\ Decided'
  BY <1>1, FreshMoved, DecidedMoved DEF Base, Creating, Deciding, Locked, Publishes
<1>6. Current'
  BY <1>2 DEF Current, RefreshIsCurrent, InStage, At, Present, Locked
<1> QED BY <1>3, <1>4, <1>5, <1>6 DEF Base

\* The holder ends; nobody else is at a stage that needs the lock.
LEMMA HeldEnds ==
    ASSUME Base, TypeOK', NEW r \in Requests, InStage(r, Locked), Ended(r), Tame(r),
           \A e \in Envs : Sound(row'[e])
    PROVE  Base'
<1>1. /\ TypeOK /\ Holder /\ lock = r /\ req[r] # NoRequest
      /\ \A q \in Requests : q # r => ~InStage(q, Locked)
  BY LockedFacts
<1>2. \A q \in Requests : ~InStage(q, Locked)'
  BY <1>1 DEF Ended, InStage
<1>3. Holder' /\ Rows' /\ Fresh' /\ Decided'
  BY <1>1, HolderEnded, RowsEnded, FreshEnded, DecidedEnded DEF Base
<1>4. Current'
  BY <1>2 DEF Current, RefreshIsCurrent, InStage, At, Locked
<1> QED BY <1>3, <1>4 DEF Base

\* A request gets the lock, or ends for want of something to do.
LEMMA AcquireBase == ASSUME Base, NEW r \in Requests, Acquire(r) PROVE Base'
<1>1. TypeOK /\ req[r] # NoRequest /\ InStage(r, {"lock"}) /\ UNCHANGED <<system, frpc>>
  BY DEF Acquire, At, InStage, Base
<1>2. CASE Return(r)
  BY <1>1, <1>2, ReturnBase
<1>3. ASSUME NEW s \in {"publish", "unpublish", "stopFrpc", "list"}, Goto(r, s),
             s \in Publishes => req[r].op = s, lock' = r, UNCHANGED scratch
      PROVE  Base'
  <2>1. Moved(r, req[r].row, s) /\ lock = NoOne
    BY <1>1, <1>3, GotoMoved DEF Stage, Acquire, Free
  <2>2. TypeOK'
    BY <1>1, <1>3, <2>1 DEF TypeOK, Moved, Busy
  <2>3. \A q \in Requests : ~InStage(q, Locked)
    BY <2>1, PublicationAssumption DEF Base, Holder
  <2>4. Holder'
    BY <1>3, <2>1, <2>3, PublicationAssumption DEF Base, Holder, Moved, InStage, Locked
  <2>5. Rows' /\ Current' /\ Decided'
    BY <1>1, <1>3, <2>1, RowsMoved, CurrentMoved, DecidedMoved
       DEF Base, Rows, SameRow, Deciding, Publishes
  <2>6. Fresh'
    BY <1>1, <1>3, <2>1, NothingMoves, FreshMoved DEF Base, Creating
  <2> QED BY <2>2, <2>4, <2>5, <2>6 DEF Base
<1> QED BY <1>2, <1>3 DEF Acquire, Publishes

\* What publishing and unpublishing write of the row of e.
LEMMA PublicationRows ==
    ASSUME Base, NEW e \in Envs, NEW b \in BOOLEAN, NEW p \in Ports \cup {0}, b <=> p # 0,
           WithRow(e, WithPublication(row[e], b, p))
    PROVE  /\ row' \in [Envs -> Row \cup {NoRow}]
           /\ \A f \in Envs : row'[f] = NoRow <=> row[f] = NoRow
           /\ \A f \in Envs : f # e => row'[f] = row[f]
           /\ row[e] # NoRow => row'[e].remote = p
           /\ \A f \in Envs : Sound(row'[f])
<1> DEFINE new == WithPublication(row[e], b, p)
<1>1. row \in [Envs -> Row \cup {NoRow}] /\ \A f \in Envs : Sound(row[f])
  BY DEF Base, TypeOK, Rows
<1>2. row[e] # NoRow => new \in Row /\ new # NoRow /\ new.published = b /\ new.remote = p
  BY <1>1, SetPublication
<1>3. row' = IF row[e] = NoRow THEN row ELSE [row EXCEPT ![e] = new]
  BY DEF WithRow
<1> HIDE DEF new
<1> QED BY <1>1, <1>2, <1>3 DEF Sound

\* The row is published or not any more.
LEMMA PublishBase == ASSUME Base, NEW r \in Requests, Publish(r) \/ Unpublish(r) PROVE Base'
<1> DEFINE e == req[r].env
<1>1. InStage(r, Locked) /\ UNCHANGED <<box, host, frpc>>
  BY DEF Publish, Unpublish, At, InStage, Locked
<1>2. TypeOK /\ e \in Envs /\ lock = r /\ req[r] # NoRequest
  BY <1>1, LockedFacts DEF Publish, Unpublish, At, Base, Decided, InStage, Publishes
<1>3. CASE Return(r) /\ UNCHANGED row
  BY <1>1, <1>2, <1>3, ReturnBase
<1>4. ASSUME NEW b \in BOOLEAN, NEW p \in Ports \cup {0}, b <=> p # 0,
             WithRow(e, WithPublication(row[e], b, p)),
             (Goto(r, "list") /\ UNCHANGED <<lock, scratch>>) \/ Return(r)
      PROVE  Base'
  <2>1. /\ row' \in [Envs -> Row \cup {NoRow}]
        /\ \A f \in Envs : row'[f] = NoRow <=> row[f] = NoRow
        /\ \A f \in Envs : Sound(row'[f])
    BY <1>2, <1>4, PublicationRows
  <2>2. CASE Goto(r, "list") /\ UNCHANGED <<lock, scratch>>
    <3>1. Moved(r, req[r].row, "list")
      BY <1>2, <2>2, GotoMoved DEF Stage
    <3>2. Tame(r)
      BY <1>1, <2>1, <2>2, OwnTame
    <3>3. TypeOK'
      BY <1>1, <1>2, <2>1, <2>2, <3>1 DEF TypeOK, Moved, Busy
    <3> QED BY <1>1, <2>1, <2>2, <3>1, <3>2, <3>3, HeldBase DEF Locked, Publishes, Base, Rows
  <2>3. CASE Return(r)
    <3>1. Ended(r)
      BY <1>2, <2>3, ReturnEnded
    <3>2. Tame(r)
      BY <1>1, <2>1, <3>1, OwnTame
    <3>3. TypeOK'
      BY <1>1, <1>2, <2>1, <3>1, EndedTypes DEF TypeOK, Base
    <3> QED BY <1>1, <2>1, <3>1, <3>2, <3>3, HeldEnds
  <2> QED BY <1>4, <2>2, <2>3
<1>5. CASE Publish(r)
  <2>1. ASSUME NEW p \in Lowest(PortsOfOthers(e)), WithRow(e, WithPublication(row[e], TRUE, p)),
               (Goto(r, "list") /\ UNCHANGED <<lock, scratch>>) \/ Return(r)
        PROVE  Base'
    <3>1. p \in Ports /\ p # 0
      BY PublicationAssumption DEF Lowest
    <3> QED BY <1>4, <2>1, <3>1
  <2> QED BY <1>3, <1>5, <2>1 DEF Publish
<1>6. CASE Unpublish(r)
  BY <1>4, <1>6 DEF Unpublish
<1> QED BY <1>5, <1>6

\* frpc stops; what the user wants of it is recorded.
LEMMA StopFrpcBase == ASSUME Base, NEW r \in Requests, StopFrpc(r) \/ Desire(r) PROVE Base'
<1>1. InStage(r, Locked) /\ UNCHANGED system
  BY DEF StopFrpc, Desire, At, InStage, Locked
<1>2. TypeOK /\ lock = r /\ req[r] # NoRequest
  BY <1>1, LockedFacts
<1>3. CASE Goto(r, "undesire") /\ forwards' = Nothing /\ refused' = {}
           /\ UNCHANGED <<desired, lock, scratch>>
  <2>1. Moved(r, req[r].row, "undesire")
    BY <1>2, <1>3, GotoMoved DEF Stage
  <2>2. Tame(r) /\ DOMAIN forwards' = {}
    BY <1>1, <1>3 DEF Tame, Nothing
  <2>3. TypeOK'
    BY <1>1, <1>2, <1>3, <2>1, <2>2 DEF TypeOK, Moved, Busy
  <2> QED BY <1>1, <1>3, <2>1, <2>2, <2>3, HeldBase DEF Locked, Publishes, Base, Rows
<1>4. CASE Return(r) /\ desired' \in BOOLEAN /\ UNCHANGED <<forwards, refused>>
  <2>1. Ended(r)
    BY <1>2, <1>4, ReturnEnded
  <2>2. Tame(r)
    BY <1>1, <1>4, <2>1, NothingMoves, <1>2
  <2>3. TypeOK'
    BY <1>1, <1>2, <1>4, <2>1, EndedTypes DEF TypeOK, Base
  <2> QED BY <1>1, <2>1, <2>2, <2>3, HeldEnds DEF Base, Rows
<1> QED BY <1>3, <1>4 DEF StopFrpc, Desire

\* The rows are listed.
LEMMA ListBase == ASSUME Base, NEW r \in Requests, List(r) PROVE Base'
<1>1. InStage(r, Locked) /\ UNCHANGED <<system, frpc>> /\ view' = row
  BY DEF List, At, InStage, Locked
<1>2. TypeOK /\ lock = r /\ req[r] # NoRequest
  BY <1>1, LockedFacts
<1>3. Moved(r, req[r].row, "inspect")
  BY <1>2, GotoMoved DEF List, Stage
<1>4. Tame(r)
  BY <1>1 DEF Tame
<1>5. TypeOK'
  BY <1>1, <1>2, <1>3 DEF List, TypeOK, Moved, Busy
<1>6. UNCHANGED lock /\ "inspect" \in Locked \ Publishes
  BY DEF List, Locked, Publishes
<1> QED BY <1>1, <1>3, <1>4, <1>5, <1>6, HeldBase DEF Base, Rows, SameRow

\* The ports of the containers are written to the rows and the list.
LEMMA InspectBase == ASSUME Base, NEW r \in Requests, Inspect(r) PROVE Base'
<1> DEFINE running == {e \in Envs : view[e] # NoRow /\ view[e].desired}
           found   == {e \in running : box[e] # "none"}
           late(S) == {e \in S : view[e].local # HostPort(e)}
<1>1. InStage(r, Locked) /\ InStage(r, {"inspect"}) /\ UNCHANGED <<box, host, frpc>>
  BY DEF Inspect, At, InStage, Locked
<1>2. TypeOK /\ lock = r /\ req[r] # NoRequest
  BY <1>1, LockedFacts
<1>3. ASSUME NEW S, row' = WithPorts(row, S), Return(r) PROVE Base'
  <2>1. Ended(r)
    BY <1>2, <1>3, ReturnEnded
  <2>2. row' \in [Envs -> Row \cup {NoRow}] /\ Gentle
    BY <1>2, <1>3, WithPortsGentle
  <2>3. Tame(r)
    BY <1>1, <1>2, <1>3, <2>1, WithPortsGentle, OwnTame DEF SameRow
  <2>4. TypeOK'
    BY <1>1, <1>2, <2>1, <2>2, EndedTypes DEF TypeOK, Base
  <2>5. \A e \in Envs : Sound(row'[e])
    BY <2>2, GentleSound DEF Base
  <2> QED BY <1>1, <2>1, <2>3, <2>4, <2>5, HeldEnds
<1>4. CASE /\ row' = WithPorts(row, late(running)) /\ view' = WithPorts(view, late(running))
           /\ \A e \in Proxied(view) : HostPort(e) # 0
           /\ Goto(r, "connect") /\ UNCHANGED <<lock, conflicts, rejected>>
  <2>1. Moved(r, req[r].row, "connect")
    BY <1>2, <1>4, GotoMoved DEF Stage
  <2>2. /\ row' \in [Envs -> Row \cup {NoRow}] /\ view' \in [Envs -> Row \cup {NoRow}]
        /\ \A e \in Envs : SameRow(row[e], row'[e]) /\ SameRow(view[e], view'[e])
    BY <1>2, <1>4, WithPortsRows DEF TypeOK
  <2>3. \A e \in Envs : Sound(row'[e]) /\ Sound(view'[e])
    BY <2>2 DEF SameRow, Sound, Base, Rows
  <2>4. Tame(r)
    BY <1>1, <2>2 DEF Tame, SameRow
  <2>5. TypeOK'
    BY <1>1, <1>2, <1>4, <2>1, <2>2 DEF TypeOK, Moved, Busy
  <2>6. ASSUME NEW e \in Proxied(view') PROVE view'[e].local # 0
    <3>1. e \in Envs /\ view[e] # NoRow /\ view'[e].published /\ view'[e].desired
      BY <2>2 DEF Proxied, SameRow
    <3>2. /\ view'[e].desired = view[e].desired
          /\ view'[e].local = IF e \in late(running) THEN HostPort(e) ELSE view[e].local
      BY <1>2, <1>4, <3>1, WithPortsRows DEF TypeOK
    <3>3. e \in Proxied(view) /\ e \in running
      BY <2>2, <3>1, <3>2 DEF Proxied, SameRow
    <3> QED BY <1>4, <3>2, <3>3
  <2>7. ASSUME NEW e \in Envs, view'[e] # NoRow, row'[e] # NoRow
        PROVE  SameRow(view'[e], row'[e])
    <3>1. view[e] # NoRow /\ row[e] # NoRow
      BY <2>2, <2>7 DEF SameRow
    <3>2. SameRow(view[e], row[e])
      BY <1>1, <3>1 DEF Base, Current, InStage
    <3> QED BY <2>2, <3>1, <3>2 DEF SameRow
  <2>8. "connect" \in Locked \ Publishes
    BY DEF Locked, Publishes
  <2> QED BY <1>1, <1>4, <2>1, <2>3, <2>4, <2>5, <2>6, <2>7, <2>8, HeldBase
<1> QED BY <1>3, <1>4 DEF Inspect

\* frpc is given what was listed.
LEMMA ConnectBase == ASSUME Base, NEW r \in Requests, Connect(r) PROVE Base'
<1>1. InStage(r, Locked) /\ InStage(r, {"connect"}) /\ UNCHANGED <<system, desired, lock, scratch>>
  BY DEF Connect, At, InStage, Locked
<1>2. TypeOK /\ lock = r /\ req[r] # NoRequest
  BY <1>1, LockedFacts
<1>3. Moved(r, req[r].row, "poll")
  BY <1>2, GotoMoved DEF Connect, Stage
<1>4. /\ DOMAIN forwards' = Proxied(view)
      /\ \A e \in Proxied(view) :
            forwards'[e] = [local |-> view[e].local, remote |-> view[e].remote]
  BY DEF Connect, Rendered
<1>5. \A e \in Proxied(view) :
         /\ e \in Envs /\ view[e] \in Row /\ view[e] # NoRow /\ view[e].published
         /\ view[e].remote # 0 /\ view[e].local # 0
  BY <1>1, <1>2 DEF Proxied, TypeOK, Base, Rows, Sound
<1>6. \A e \in DOMAIN forwards' : forwards'[e] \in [local : 1..2, remote : Ports]
  BY <1>4, <1>5 DEF Row
<1>7. refused' \subseteq DOMAIN forwards'
  BY DEF Connect, Refusals
<1>8. TypeOK'
  BY <1>1, <1>2, <1>3, <1>4, <1>5, <1>6, <1>7 DEF TypeOK, Moved, Busy
<1>9. Tame(r)
  BY <1>1, <1>4, <1>5 DEF Tame
<1>10. ASSUME NEW e \in DOMAIN forwards', row'[e] # NoRow
       PROVE  row'[e].published /\ row'[e].remote = forwards'[e].remote
  <2>1. e \in Envs /\ view[e] # NoRow /\ row[e] # NoRow /\ row' = row
    BY <1>1, <1>4, <1>5, <1>10
  <2>2. SameRow(view[e], row[e])
    BY <1>1, <2>1 DEF Base, Current, InStage
  <2>3. view[e].published /\ forwards'[e].remote = view[e].remote
    BY <1>4, <1>5, <1>10
  <2> QED BY <2>1, <2>2, <2>3 DEF SameRow
<1>11. "poll" \in Locked \ Publishes
  BY DEF Locked, Publishes
<1> QED BY <1>1, <1>3, <1>8, <1>9, <1>10, <1>11, HeldBase DEF Base, Rows

\* It cannot be made.
LEMMA ConnectFailsBase == ASSUME Base, NEW r \in Requests, ConnectFails(r) PROVE Base'
<1>1. InStage(r, Locked) /\ UNCHANGED <<system, desired>> /\ Return(r)
  BY DEF ConnectFails, At, InStage, Locked
<1>2. TypeOK /\ req[r] # NoRequest
  BY <1>1, LockedFacts
<1>3. Ended(r)
  BY <1>1, <1>2, ReturnEnded
<1>4. CASE UNCHANGED <<forwards, refused>>
  BY <1>1, <1>2, <1>4, ReturnBase
<1>5. CASE forwards' = Nothing /\ refused' = {}
  <2>1. DOMAIN forwards' = {}
    BY <1>5 DEF Nothing
  <2>2. Tame(r)
    BY <1>1, <1>3, <2>1 DEF Tame, Ended
  <2>3. TypeOK'
    BY <1>1, <1>2, <1>3, <1>5, <2>1, EndedTypes DEF TypeOK, Base
  <2> QED BY <1>1, <1>3, <2>2, <2>3, HeldEnds DEF Base, Rows
<1> QED BY <1>4, <1>5 DEF ConnectFails

\* Its log is read.
LEMMA PollBase == ASSUME Base, NEW r \in Requests, Poll(r) PROVE Base'
<1>1. InStage(r, Locked) /\ UNCHANGED <<system, frpc>>
  BY DEF Poll, At, InStage, Locked
<1>2. TypeOK /\ lock = r /\ req[r] # NoRequest
  BY <1>1, LockedFacts
<1>3. CASE Return(r)
  BY <1>1, <1>2, <1>3, ReturnBase
<1>4. ASSUME NEW s \in {"desire", "move"}, Goto(r, s), UNCHANGED <<lock, rejected>>,
             conflicts' \subseteq Envs, view' \in {view, row}, s = "move" => view' = row
      PROVE  Base'
  <2>1. Moved(r, req[r].row, s)
    BY <1>2, <1>4, GotoMoved DEF Stage
  <2>2. Tame(r)
    BY <1>1, <1>4 DEF Tame
  <2>3. TypeOK'
    BY <1>1, <1>2, <1>4, <2>1 DEF TypeOK, Moved, Busy
  <2>4. s \in Locked \ Publishes /\ s \notin {"inspect", "connect", "poll"}
    BY DEF Locked, Publishes
  <2>5. \A e \in Envs : Sound(row'[e]) /\ Sound(view'[e])
    BY <1>1, <1>4 DEF Base, Rows
  <2>6. s = "move" => \A e \in Envs : SameRow(view'[e], row'[e])
    BY <1>1, <1>4 DEF SameRow
  <2> QED BY <1>1, <1>4, <2>1, <2>2, <2>3, <2>4, <2>5, <2>6, HeldBase
<1>5. refused \subseteq Envs
  BY <1>2 DEF TypeOK
<1>6. CASE /\ conflicts' \in SUBSET refused \ {{}}
           /\ view' = row /\ Goto(r, "move") /\ UNCHANGED <<lock, rejected>>
  <2>1. conflicts' \subseteq Envs /\ view' = row
    BY <1>5, <1>6
  <2>2. view' \in {view, row} /\ UNCHANGED <<lock, rejected>> /\ Goto(r, "move")
    BY <1>6
  <2> QED BY ONLY <1>4, <2>1, <2>2
<1>7. CASE Goto(r, "desire") /\ UNCHANGED <<lock, scratch>>
  BY <1>2, <1>4, <1>7 DEF TypeOK
<1> QED BY <1>3, <1>6, <1>7 DEF Poll

\* A conflict is moved to another port.
LEMMA MoveBase == ASSUME Base, NEW r \in Requests, Move(r) PROVE Base'
<1>1. InStage(r, Locked) /\ UNCHANGED <<box, host, frpc>>
  BY DEF Move, At, InStage, Locked
<1>2. TypeOK /\ lock = r /\ req[r] # NoRequest /\ InStage(r, {"move"})
  BY <1>1, LockedFacts DEF Move, At, InStage
<1>3. CASE Return(r) /\ UNCHANGED row
  BY <1>1, <1>2, <1>3, ReturnBase
<1>4. CASE Goto(r, "list") /\ UNCHANGED <<row, lock, scratch>>
  <2>1. Moved(r, req[r].row, "list")
    BY <1>2, <1>4, GotoMoved DEF Stage
  <2>2. Tame(r)
    BY <1>1, <1>2, <1>4, NothingMoves
  <2>3. TypeOK'
    BY <1>1, <1>2, <1>4, <2>1 DEF TypeOK, Moved, Busy
  <2> QED BY <1>1, <1>4, <2>1, <2>2, <2>3, HeldBase DEF Base, Rows, Locked, Publishes
<1>5. ASSUME NEW e \in conflicts, view[e] # NoRow, view[e].remote # 0, NEW p \in Ports,
             view' = [view EXCEPT ![e] = [@ EXCEPT !.remote = p]],
             WithRow(e, [row[e] EXCEPT !.remote = p]),
             conflicts' = conflicts \ {e}, rejected' = rejected \cup {view[e].remote},
             UNCHANGED <<lock, req>>
      PROVE  Base'
  <2> DEFINE mine == [row[e] EXCEPT !.remote = p]
             seen == [view[e] EXCEPT !.remote = p]
  <2>1. e \in Envs /\ p # 0 /\ view[e] \in Row /\ (row[e] # NoRow => row[e] \in Row)
    BY <1>2, <1>5, PublicationAssumption DEF TypeOK
  <2>2. seen \in Row /\ seen # NoRow /\ seen.published = view[e].published /\ seen.remote = p
    BY <2>1, SetRemote
  <2>3. row[e] # NoRow => mine \in Row /\ mine # NoRow
                          /\ mine.published = row[e].published /\ mine.remote = p
    BY <2>1, SetRemote
  <2> HIDE DEF mine, seen
  <2>4. view' = [view EXCEPT ![e] = seen]
    BY <1>5 DEF seen
  <2>5. row' = IF row[e] = NoRow THEN row ELSE [row EXCEPT ![e] = mine]
    BY <1>5 DEF WithRow, mine
  <2>6. row' \in [Envs -> Row \cup {NoRow}] /\ view' \in [Envs -> Row \cup {NoRow}]
    BY <1>2, <2>1, <2>2, <2>3, <2>4, <2>5 DEF TypeOK
  <2>7. /\ \A f \in Envs : f # e => row'[f] = row[f] /\ view'[f] = view[f]
        /\ view'[e] = seen /\ row'[e] = IF row[e] = NoRow THEN NoRow ELSE mine
    BY <1>2, <2>1, <2>4, <2>5 DEF TypeOK
  <2>8. view[e].published /\ (row[e] # NoRow => row[e].published)
    <3>1. view[e].published
      BY <1>5, <2>1 DEF Base, Rows, Sound
    <3>2. row[e] # NoRow => SameRow(view[e], row[e])
      BY <1>2, <1>5, <2>1 DEF Base, Current, InStage
    <3> QED BY <1>5, <3>1, <3>2 DEF SameRow
  <2>9. \A f \in Envs : Sound(row'[f]) /\ Sound(view'[f])
    BY <2>1, <2>2, <2>3, <2>7, <2>8 DEF Base, Rows, Sound
  <2>10. \A f \in Envs : view'[f] # NoRow /\ row'[f] # NoRow => SameRow(view'[f], row'[f])
    <3>1. \A f \in Envs : view[f] # NoRow /\ row[f] # NoRow => SameRow(view[f], row[f])
      BY <1>2 DEF Base, Current, InStage
    <3> QED BY <2>1, <2>2, <2>3, <2>7, <2>8, <3>1 DEF SameRow
  <2>11. Moved(r, req[r].row, "move")
    BY <1>2, <1>5 DEF Moved, InStage, TypeOK
  <2>12. Tame(r)
    <3>1. \A f \in Envs : row[f] = NoRow => row'[f] = NoRow
      BY <2>7
    <3>2. \A f \in Envs : view[f] = NoRow => view'[f] = NoRow
      BY <1>5, <2>7
    <3> QED BY <1>1, <3>1, <3>2 DEF Tame
  <2>13. conflicts' \subseteq Envs /\ rejected' \subseteq Ports
    BY <1>2, <1>5, <2>1 DEF TypeOK, Row
  <2>14. TypeOK'
    BY <1>1, <1>2, <1>5, <2>6, <2>13 DEF TypeOK, Busy
  <2> QED BY <1>1, <1>5, <2>9, <2>10, <2>11, <2>12, <2>14, HeldBase DEF Locked, Publishes
<1> QED BY <1>3, <1>4, <1>5 DEF Move, Lowest

-----------------------------------------------------------------------------
(* Arrivals, the surroundings and the theorems *)

\* A request begins at a stage that needs no lock.
LEMMA BegunBase ==
    ASSUME Base, NEW r \in Requests, NEW op \in Op, NEW e \in Envs \cup {NoOne},
           NEW mine \in Row \cup {NoRow}, NEW s \in Stage \ Locked,
           req[r] = NoRequest,
           req' = [req EXCEPT ![r] = [op |-> op, env |-> e, row |-> mine, stage |-> s]],
           row' \in [Envs -> Row \cup {NoRow}], \A f \in Envs : SameRow(row[f], row'[f]),
           UNCHANGED <<box, host, frpc, lock, scratch>>,
           \A q \in Requests : InStage(q, Creating) => req[q].env # e,
           s \in Deciding => op \in Lifecycle /\ e \in Envs /\ mine \in Row,
           op \in Publishes => e \in Envs,
           s \in Creating =>
              /\ op = "create" /\ e \in Envs /\ mine \in Row /\ row[e] = NoRow /\ view[e] = NoRow
              /\ e \notin DOMAIN forwards /\ box[e] = "none" /\ s # "insert"
              /\ \A q \in Requests : req[q] # NoRequest => req[q].env # e
              /\ IF s = "pick" THEN mine.published /\ (mine.automatic <=> mine.remote = 0)
                               ELSE Sound(mine)
    PROVE  Base'
<1> USE DEF Base
<1>1. TypeOK
  OBVIOUS
<1>2. /\ req' \in [Requests -> Request \cup {NoRequest}] /\ req'[r] # NoRequest
      /\ req'[r].op = op /\ req'[r].env = e /\ req'[r].row = mine /\ req'[r].stage = s
      /\ \A q \in Requests : q # r => req'[q] = req[q]
  <2>1. [op |-> op, env |-> e, row |-> mine, stage |-> s] \in Request
    BY DEF Request
  <2> QED BY <1>1, <2>1, RequestFields DEF TypeOK
<1>3. TypeOK'
  BY <1>1, <1>2 DEF TypeOK, Busy
<1>4. Holder'
  BY <1>2 DEF Holder, InStage, Locked
<1>5. Rows'
  <2>1. \A f \in Envs : Sound(row'[f]) /\ Sound(view'[f])
    BY DEF Rows, SameRow, Sound
  <2>2. \A q \in Requests : InStage(q, {"connect"})' => InStage(q, {"connect"})
    BY <1>2 DEF InStage, Locked
  <2> QED BY <2>1, <2>2 DEF Rows, Proxied, TypeOK
<1>6. Fresh'
  <2>1. ASSUME NEW q \in Requests, InStage(q, Creating)', q # r
        PROVE  InStage(q, Creating) /\ req'[q] = req[q] /\ req[q].env # e
    BY <1>2, <2>1 DEF InStage
  <2>2. ASSUME NEW q \in Requests, InStage(q, Creating)', q # r
        PROVE  /\ row'[req[q].env] = NoRow
               /\ \A u \in Requests : u # q /\ req'[u] # NoRequest => req'[u].env # req[q].env
    BY <1>2, <2>1, <2>2 DEF Fresh, SameRow
  <2>3. \/ s \notin Creating
        \/ /\ row'[e] = NoRow
           /\ IF s = "pick" THEN mine.published /\ (mine.automatic <=> mine.remote = 0)
                             ELSE Sound(mine)
    BY DEF SameRow
  <2>4. ASSUME NEW q \in Requests, InStage(q, Creating)', q # r
        PROVE  /\ req'[q].op = "create" /\ req'[q].env \in Envs /\ req'[q].row \in Row
               /\ row'[req'[q].env] = NoRow /\ view'[req'[q].env] = NoRow
               /\ req'[q].env \notin DOMAIN forwards'
               /\ \A u \in Requests : u # q /\ req'[u] # NoRequest => req'[u].env # req'[q].env
               /\ IF req'[q].stage = "pick"
                  THEN req'[q].row.published /\ (req'[q].row.automatic <=> req'[q].row.remote = 0)
                  ELSE Sound(req'[q].row)
               /\ box'[req'[q].env] = "none" <=> req'[q].stage # "insert"
    BY <2>1, <2>2, <2>4 DEF Fresh
  <2>5. ASSUME s \in Creating
        PROVE  /\ req'[r].op = "create" /\ req'[r].env \in Envs /\ req'[r].row \in Row
               /\ row'[req'[r].env] = NoRow /\ view'[req'[r].env] = NoRow
               /\ req'[r].env \notin DOMAIN forwards'
               /\ \A u \in Requests : u # r /\ req'[u] # NoRequest => req'[u].env # req'[r].env
               /\ IF req'[r].stage = "pick"
                  THEN req'[r].row.published /\ (req'[r].row.automatic <=> req'[r].row.remote = 0)
                  ELSE Sound(req'[r].row)
               /\ box'[req'[r].env] = "none" <=> req'[r].stage # "insert"
    BY <1>2, <2>3, <2>5
  <2>6. InStage(r, Creating)' => s \in Creating
    BY <1>2 DEF InStage
  <2> QED BY <2>4, <2>5, <2>6 DEF Fresh
<1>7. Decided'
  BY <1>2 DEF Decided, InStage, Publishes, Locked
<1>8. Current'
  <2>1. \A q \in Requests : InStage(q, Locked)' => InStage(q, Locked) /\ req'[q] = req[q]
    BY <1>2 DEF InStage
  <2>2. ASSUME NEW q \in Requests, InStage(q, {"inspect", "connect", "move"})',
               NEW f \in Envs, view[f] # NoRow, row'[f] # NoRow
        PROVE  SameRow(view[f], row'[f])
    <3>1. InStage(q, {"inspect", "connect", "move"}) /\ row[f] # NoRow
      BY <2>1, <2>2 DEF InStage, Locked, SameRow
    <3>2. SameRow(view[f], row[f])
      BY <2>2, <3>1 DEF Current
    <3> QED BY <2>2, <3>1, <3>2 DEF SameRow
  <2>3. RefreshIsCurrent'
    BY <2>1 DEF Current, RefreshIsCurrent, At, Present, InStage, Locked, SameRow
  <2> QED BY <2>2, <2>3 DEF Current
<1> QED BY <1>3, <1>4, <1>5, <1>6, <1>7, <1>8

\* Rows get new ports of the host, or containers restart, beside the requests.
LEMMA RowsMoveBase ==
    ASSUME Base, row' \in [Envs -> Row \cup {NoRow}], \A f \in Envs : SameRow(row[f], row'[f]),
           box' \in [Envs -> {"none", "exited", "running"}], host' \in [Envs -> 1..2],
           \A f \in Envs : box'[f] = "none" <=> box[f] = "none",
           UNCHANGED <<frpc, lock, scratch, req>>
    PROVE  Base'
<1> USE DEF Base
<1>1. TypeOK' /\ Holder' /\ Decided'
  BY DEF TypeOK, Busy, Holder, InStage, Decided
<1>2. Rows'
  BY DEF Rows, SameRow, Sound, InStage, Proxied, TypeOK
<1>3. Fresh'
  BY DEF Fresh, InStage, SameRow
<1>4. Current'
  BY DEF Current, InStage, SameRow, RefreshIsCurrent, At, Present, TypeOK
<1> QED BY <1>1, <1>2, <1>3, <1>4

\* A request arrives.
LEMMA ArriveBase == ASSUME Base, NEW r \in Requests, Arrive(r) PROVE Base'
<1>1. TypeOK
  BY DEF Base
<1>2. \A f \in Envs : SameRow(row[f], row[f])
  BY DEF SameRow
<1>3. ASSUME NEW e \in Envs, NEW published \in BOOLEAN, NEW port \in Ports \cup {0},
             BeginCreate(r, e, published, port)
      PROVE  Base'
  <2> DEFINE mine == [published |-> published, automatic |-> port = 0, remote |-> port,
                      desired |-> TRUE, local |-> 0]
             s == IF published THEN "pick" ELSE "build"
  <2>1. mine \in Row /\ mine.published = published /\ mine.remote = port
        /\ (mine.automatic <=> port = 0)
    <3>1. (port = 0) \in BOOLEAN /\ 0 \in 0..2
      OBVIOUS
    <3>2. mine \in Row
      BY <3>1, Zenon DEF Row
    <3> QED BY <3>2
  <2>2. IF s = "pick" THEN mine.published /\ (mine.automatic <=> mine.remote = 0) ELSE Sound(mine)
    BY <1>3, <2>1, PublicationAssumption DEF BeginCreate, Sound
  <2>3. s \in Stage \ Locked /\ s # "insert" /\ s \notin Deciding /\ "create" \in Op \ Publishes
    BY DEF Stage, Locked, Deciding, Op, Lifecycle, Publishes
  <2>4. /\ req[r] = NoRequest /\ UNCHANGED <<system, frpc, lock, scratch>>
        /\ req' = [req EXCEPT ![r] = [op |-> "create", env |-> e, row |-> mine, stage |-> s]]
    BY <1>3 DEF BeginCreate, Begin, Arrives
  <2>5. /\ row[e] = NoRow /\ view[e] = NoRow /\ e \notin DOMAIN forwards /\ box[e] = "none"
        /\ \A q \in Requests : req[q] # NoRequest => req[q].env # e
    BY <1>3 DEF BeginCreate, Busy
  <2> HIDE DEF mine, s
  <2> QED BY <1>1, <1>2, <2>1, <2>2, <2>3, <2>4, <2>5, BegunBase DEF InStage, TypeOK
<1>4. ASSUME NEW op \in Lifecycle, NEW e \in Envs, BeginLifecycle(r, op, e) PROVE Base'
  <2>1. /\ req[r] = NoRequest /\ UNCHANGED <<system, frpc, lock, scratch>>
        /\ req' = [req EXCEPT ![r] = [op |-> op, env |-> e, row |-> row[e], stage |-> "docker"]]
    BY <1>4 DEF BeginLifecycle, Begin, Arrives
  <2>2. row[e] \in Row
    BY <1>1, <1>4 DEF BeginLifecycle, Present, TypeOK
  <2>3. "docker" \in Stage \ Locked /\ "docker" \notin Creating /\ op \in Op \ Publishes
    BY DEF Stage, Locked, Creating, Op, Lifecycle, Publishes
  <2>4. \A q \in Requests : InStage(q, Creating) => req[q].env # e
    BY <2>2, PublicationAssumption DEF Base, Fresh
  <2> QED BY <1>1, <1>2, <2>1, <2>2, <2>3, <2>4, BegunBase DEF TypeOK
<1>5. ASSUME NEW op \in Op \ Lifecycle, NEW e \in Envs \cup {NoOne},
             op \in Publishes => e \in Present, e \in Present \/ e = NoOne,
             Begin(r, op, e, NoRow, "lock"), row' \in [Envs -> Row \cup {NoRow}],
             \A f \in Envs : SameRow(row[f], row'[f]), UNCHANGED <<box, host>>
      PROVE  Base'
  <2>1. /\ req[r] = NoRequest /\ UNCHANGED <<frpc, lock, scratch>>
        /\ req' = [req EXCEPT ![r] = [op |-> op, env |-> e, row |-> NoRow, stage |-> "lock"]]
    BY <1>5 DEF Begin, Arrives
  <2>2. "lock" \in Stage \ Locked /\ "lock" \notin Creating /\ "lock" \notin Deciding
    BY DEF Stage, Locked, Creating, Deciding
  <2>3. \A q \in Requests : InStage(q, Creating) => req[q].env # e
    BY <1>5, PublicationAssumption DEF Base, Fresh, Present
  <2>4. op \in Publishes => e \in Envs
    BY <1>5 DEF Present
  <2> QED BY <1>5, <2>1, <2>2, <2>3, <2>4, BegunBase
<1>6. CASE BeginLocked(r)
  <2>1. UNCHANGED system /\ row \in [Envs -> Row \cup {NoRow}]
    BY <1>1, <1>6 DEF BeginLocked, TypeOK
  <2>2. ASSUME NEW op \in {"publish", "unpublish"}, NEW e \in Present,
               Begin(r, op, e, NoRow, "lock")
        PROVE  Base'
    BY <1>2, <1>5, <2>1, <2>2 DEF Op, Lifecycle, Present
  <2>3. ASSUME NEW op \in {"startFrpc", "stopFrpc"}, Begin(r, op, NoOne, NoRow, "lock")
        PROVE  Base'
    BY <1>2, <1>5, <2>1, <2>3 DEF Op, Lifecycle, Publishes
  <2> QED BY <1>6, <2>2, <2>3 DEF BeginLocked
<1>7. CASE BeginList(r)
  <2>1. ASSUME NEW S, row' = WithPorts(row, S)
        PROVE  row' \in [Envs -> Row \cup {NoRow}] /\ \A f \in Envs : SameRow(row[f], row'[f])
    BY <1>1, <2>1, WithPortsGentle
  <2>2. UNCHANGED <<box, host>>
    BY <1>7 DEF BeginList
  <2>3. ASSUME NEW S, row' = WithPorts(row, S), Begin(r, "list", NoOne, NoRow, "lock")
        PROVE  Base'
    BY <1>5, <2>1, <2>2, <2>3 DEF Op, Lifecycle, Publishes
  <2>4. ASSUME NEW S, row' = WithPorts(row, S), Arrives(r, "list"), UNCHANGED req
        PROVE  Base'
    <3>1. UNCHANGED <<frpc, lock, scratch>>
      BY <2>4 DEF Arrives
    <3> QED BY <1>1, <2>1, <2>2, <2>4, <3>1, RowsMoveBase DEF TypeOK
  <2> QED BY <1>7, <2>3, <2>4 DEF BeginList
<1> QED BY <1>3, <1>4, <1>6, <1>7 DEF Arrive

\* After a crash there is only the request that starts the controller.
LEMMA CrashBase == ASSUME Base, NEW r \in Requests, Crash(r) PROVE Base'
<1> DEFINE boot == [op |-> "boot", env |-> NoOne, row |-> NoRow, stage |-> "lock"]
<1>1. TypeOK /\ UNCHANGED <<row, box, frpc>> /\ lock' = NoOne /\ Forget
  BY DEF Crash, Base
<1>2. boot \in Request /\ boot.stage = "lock" /\ boot.op = "boot" /\ boot # NoRequest
  BY RequestFields DEF Request, Op, Stage
<1>3. req' = [s \in Requests |-> IF s # r THEN NoRequest ELSE boot]
  BY DEF Crash
<1> HIDE DEF boot
<1>4. /\ req' \in [Requests -> Request \cup {NoRequest}]
      /\ \A s \in Requests : req'[s] # NoRequest => req'[s].stage = "lock" /\ req'[s].op = "boot"
  BY <1>2, <1>3
<1>5. host' \in [Envs -> 1..2]
  BY <1>1 DEF Crash, TypeOK
<1>6. TypeOK'
  BY <1>1, <1>4, <1>5 DEF TypeOK, Forget
<1>7. Holder' /\ Fresh' /\ Decided' /\ Current'
  BY <1>1, <1>4, PublicationAssumption
     DEF Holder, Fresh, Decided, Current, RefreshIsCurrent, At, InStage, Locked, Creating,
         Deciding, Publishes, Forget
<1>8. Rows'
  BY <1>1, <1>4 DEF Base, Rows, Forget, Sound, InStage
<1> QED BY <1>6, <1>7, <1>8 DEF Base

\* Docker restarts a container.
LEMMA RestartsBase == ASSUME Base, NEW e \in Envs, ContainerRestarts(e) PROVE Base'
<1>1. TypeOK
  BY DEF Base
<1>2. /\ box' \in [Envs -> {"none", "exited", "running"}] /\ host' \in [Envs -> 1..2]
      /\ \A f \in Envs : box'[f] = "none" <=> box[f] = "none"
  BY <1>1 DEF ContainerRestarts, Starts, TypeOK
<1>3. UNCHANGED <<row, frpc, lock, scratch, req>>
  BY DEF ContainerRestarts
<1>4. row' \in [Envs -> Row \cup {NoRow}] /\ \A f \in Envs : SameRow(row[f], row'[f])
  BY <1>1, <1>3 DEF TypeOK, SameRow
<1> QED BY <1>2, <1>3, <1>4, RowsMoveBase

\* The invariant holds to begin with,
LEMMA InitBase == Init => Base
<1> SUFFICES ASSUME Init PROVE Base
  OBVIOUS
<1>1. /\ row \in [Envs -> Row \cup {NoRow}] /\ \A e \in Envs : Sound(row[e])
  BY TablesAssumption DEF Init, Sound
<1>2. \A r \in Requests : req[r] = NoRequest
  BY DEF Init
<1>3. ASSUME NEW e \in Proxied(row)
      PROVE  e \in Envs /\ row[e].remote \in Ports
  BY <1>1, <1>3 DEF Proxied, Sound, Row
<1>4. DOMAIN forwards \subseteq Proxied(row)
  BY DEF Init
<1>5. \A e \in DOMAIN forwards : forwards[e] \in [local : 1..2, remote : Ports]
  BY <1>3 DEF Init
<1>6. TypeOK
  BY <1>1, <1>3, <1>4, <1>5 DEF Init, TypeOK
<1>7. Holder /\ Fresh /\ Decided /\ Current
  BY <1>2, PublicationAssumption
     DEF Init, Holder, Fresh, Decided, Current, RefreshIsCurrent, At, InStage
<1>8. Rows
  BY <1>1, <1>2 DEF Init, Rows, Sound, InStage
<1> QED BY <1>6, <1>7, <1>8 DEF Base

\* and every step keeps it.
LEMMA NextBase == Base /\ [Next]_vars => Base'
<1> SUFFICES ASSUME Base, [Next]_vars PROVE Base'
  OBVIOUS
<1>1. CASE UNCHANGED vars
  BY <1>1 DEF vars, Base, TypeOK, Busy, Holder, Rows, Proxied, Fresh, Decided, Current,
              RefreshIsCurrent, At, Present, InStage
<1>2. ASSUME NEW r \in Requests, Lock(r) \/ Drop(r) \/ Crash(r) \/ Arrive(r) PROVE Base'
  BY <1>2, AcquireBase, DropBase, CrashBase, ArriveBase DEF Lock
<1>3. ASSUME NEW r \in Requests, Step(r) PROVE Base'
  BY <1>3, PickBase, BuildBase, InsertBase, CallDockerBase, RemoveBase, RecordBase, SyncBase,
     PublishBase, StopFrpcBase, ListBase, InspectBase, ConnectBase, ConnectFailsBase, PollBase,
     MoveBase DEF Step
<1> QED BY <1>1, <1>2, <1>3, RestartsBase DEF Next

(* Every variable keeps its type: in particular frpc is never given a port *)
(* that is not one of the server's or a proxy without a port of the host.  *)
THEOREM TypeCorrect == Spec => []TypeOK
<1>1. Base => TypeOK
  BY DEF Base
<1> QED BY <1>1, InitBase, NextBase, PTL DEF Spec

(* What frpc forwards while a refresh waits for the server's answer is     *)
(* still published, on that very port: listing, rendering and every write  *)
(* of what is published are under publication_lock, and an environment     *)
(* that is created beside it is not yet known to it.                       *)
THEOREM RefreshCurrent == Spec => []RefreshIsCurrent
<1>1. Base => RefreshIsCurrent
  BY DEF Base, Current
<1> QED BY <1>1, InitBase, NextBase, PTL DEF Spec

-----------------------------------------------------------------------------
(* Ports, while environments do not change beside another request *)

\* No row gets a port it did not have.
NoNewPort ==
    /\ \A e \in Envs : \/ row'[e] = NoRow \/ row'[e].remote = 0
                       \/ row[e] # NoRow /\ row'[e].remote = row[e].remote
    /\ rejected' \subseteq rejected

\* Then all ports are still different, and none was refused.
LEMMA PortsKept ==
    ASSUME TypeOK, Distinct, News, NoNewPort
    PROVE  Distinct' /\ News'
<1>1. 0 \notin rejected
  BY PublicationAssumption DEF TypeOK
<1> QED BY <1>1 DEF Distinct, News, NoNewPort, Present

\* The requests stay, or one of them goes on or ends.
LEMMA AloneKept ==
    ASSUME Alone, NEW r \in Requests, req[r] # NoRequest,
           (\E mine, s : Moved(r, mine, s)) \/ Ended(r)
    PROVE  Alone'
BY DEF Alone, Moved, Ended

\* Whoever has picked a port is alone with it.
LEMMA PickedKept ==
    ASSUME Base, Alone, NEW r \in Requests, req[r] # NoRequest,
           (\E mine, s : Moved(r, mine, s) /\ s \notin {"build", "insert"}) \/ Ended(r)
    PROVE  Picked'
<1>1. ASSUME NEW q \in Requests, InStage(q, {"build", "insert"})' PROVE FALSE
  <2>1. q # r /\ InStage(q, {"build", "insert"})
    BY <1>1 DEF Moved, Ended, InStage
  <2>2. req[q].op = "create"
    BY <2>1 DEF Base, Fresh, InStage, Creating
  <2> QED BY <2>1, <2>2 DEF Alone, InStage, Lifecycle
<1> QED BY <1>1 DEF Picked

\* What another request has listed is still so.
LEMMA OthersListed ==
    ASSUME Base, Alone, Listed, NEW r \in Requests, req[r] # NoRequest,
           (\E mine, s : Moved(r, mine, s)) \/ Ended(r),
           \/ InStage(r, Locked)
           \/ /\ req[r].op \in Lifecycle \/ UNCHANGED row
              /\ UNCHANGED <<view, forwards>>
    PROVE  \A q \in Requests : q # r =>
              /\ InStage(q, {"inspect", "connect", "move"})' =>
                    \A e \in Envs : SameRow(view'[e], row'[e])
              /\ InStage(q, {"poll"})' => DOMAIN forwards' \subseteq Present'
<1> SUFFICES ASSUME NEW q \in Requests, q # r,
                    InStage(q, {"inspect", "connect", "move", "poll"})'
             PROVE  /\ InStage(q, {"inspect", "connect", "move"})' =>
                          \A e \in Envs : SameRow(view'[e], row'[e])
                    /\ InStage(q, {"poll"})' => DOMAIN forwards' \subseteq Present'
  BY DEF InStage
<1>1. InStage(q, {"inspect", "connect", "move", "poll"}) /\ req'[q] = req[q]
  BY DEF Moved, Ended, InStage
<1>2. InStage(q, Locked)
  BY <1>1 DEF InStage, Locked
<1>3. ~InStage(r, Locked)
  BY <1>2, LockedFacts
<1>4. req[r].op \notin Lifecycle
  BY <1>1 DEF Alone, InStage
<1> QED BY <1>1, <1>3, <1>4 DEF Listed, InStage, Present

\* A request without the lock that changes at most its own environment.
LEMMA ApartOutside ==
    ASSUME Base, Apart, NEW r \in Requests, req[r] # NoRequest, ~InStage(r, Locked),
           UNCHANGED mode, NoNewPort, UNCHANGED <<view, forwards>>,
           req[r].op \in Lifecycle \/ UNCHANGED row,
           \/ \E mine, s : Moved(r, mine, s) /\ s \in Deciding \cup {"lock"}
           \/ Ended(r)
    PROVE  Apart'
<1>1. SUFFICES ASSUME ~mode.overlap, Alone, Picked, Listed, Distinct, News
              PROVE  Alone' /\ Picked' /\ Listed' /\ Distinct' /\ News'
  BY DEF Apart
<1>2. Alone' /\ Distinct' /\ News'
  BY <1>1, AloneKept, PortsKept DEF Base
<1>3. Picked'
  BY <1>1, PickedKept DEF Deciding
<1>4. /\ ~InStage(r, {"inspect", "connect", "move"})' /\ ~InStage(r, {"poll"})'
  BY DEF Moved, Ended, InStage, Deciding
<1>5. Listed'
  BY <1>1, <1>4, OthersListed DEF Listed
<1> QED BY <1>2, <1>3, <1>5

\* The holder of the lock goes on or ends.
LEMMA ApartHeld ==
    ASSUME Base, Apart, NEW r \in Requests, InStage(r, Locked), UNCHANGED mode,
           ~mode.overlap /\ Alone /\ Listed /\ Distinct /\ News => Distinct' /\ News',
           \/ Ended(r)
           \/ \E mine, s :
                 /\ Moved(r, mine, s) /\ s \in Locked
                 /\ ~mode.overlap /\ Listed /\ s \in {"inspect", "connect", "move"} =>
                       \A e \in Envs : SameRow(view'[e], row'[e])
                 /\ ~mode.overlap /\ Listed /\ s = "poll" => DOMAIN forwards' \subseteq Present'
    PROVE  Apart'
<1>1. SUFFICES ASSUME ~mode.overlap, Alone, Picked, Listed, Distinct, News
              PROVE  Alone' /\ Picked' /\ Listed' /\ Distinct' /\ News'
  BY DEF Apart
<1>2. req[r] # NoRequest
  BY DEF InStage
<1>3. Alone' /\ Picked'
  BY <1>1, <1>2, AloneKept, PickedKept DEF Locked
<1>4. /\ InStage(r, {"inspect", "connect", "move"})' => \A e \in Envs : SameRow(view'[e], row'[e])
      /\ InStage(r, {"poll"})' => DOMAIN forwards' \subseteq Present'
  BY <1>1 DEF Moved, Ended, InStage
<1>5. Listed'
  BY <1>1, <1>2, <1>4, OthersListed DEF Listed
<1> QED BY <1>1, <1>3, <1>5

\* Who does not hold the lock clears nothing of the holder's.
LEMMA HolderFree ==
    ASSUME Base, NEW r \in Requests, ~InStage(r, Locked)
    PROVE  lock # r
BY DEF Base, Holder

\* No row changes, and no port is refused.
LEMMA QuietPorts ==
    ASSUME TypeOK, NEW r \in Requests, UNCHANGED row, UNCHANGED rejected \/ Ended(r)
    PROVE  NoNewPort
BY DEF NoNewPort, Ended

\* The creation picks a port, and keeps it until the row is there.
LEMMA CreateApart ==
    ASSUME Base, Apart, NEW r \in Requests, UNCHANGED mode,
           Pick(r) \/ Build(r) \/ Insert(r) \/ InsertFails(r)
    PROVE  Apart'
<1> DEFINE e == req[r].env  mine == req[r].row
<1>1. /\ TypeOK /\ req[r] # NoRequest /\ InStage(r, Creating) /\ ~InStage(r, Locked)
      /\ e \in Envs /\ mine \in Row /\ row[e] = NoRow /\ req[r].op = "create"
      /\ req[r].op \in Lifecycle
  BY DEF Pick, Build, Insert, InsertFails, At, InStage, Creating, Locked, Base, Fresh, Lifecycle
<1>2. ASSUME Return(r), UNCHANGED <<row, forwards>> PROVE Apart'
  <2>1. Ended(r) /\ NoNewPort
    BY <1>1, <1>2, ReturnEnded, QuietPorts
  <2>2. UNCHANGED view
    BY <1>1, <2>1, HolderFree DEF Ended
  <2> QED BY <1>1, <1>2, <2>1, <2>2, ApartOutside
<1>3. ASSUME NEW new \in Row, NEW s \in {"build", "insert"}, Becomes(r, new, s),
             UNCHANGED <<row, forwards, scratch>>,
             Picked => new.remote = 0 \/ new.remote \notin RemotePorts(row, Envs)
      PROVE  Apart'
  <2>1. Moved(r, new, s)
    BY <1>1, <1>3, BecomesMoved DEF Stage
  <2>2. SUFFICES ASSUME ~mode.overlap, Alone, Picked, Listed, Distinct, News
                 PROVE  Alone' /\ Picked' /\ Listed' /\ Distinct' /\ News'
    BY DEF Apart
  <2>3. Alone' /\ Distinct' /\ News'
    BY <1>1, <1>3, <2>1, <2>2, AloneKept, PortsKept, QuietPorts
  <2>4. ASSUME NEW q \in Requests, q # r, InStage(q, Locked \cup Creating)' PROVE FALSE
    BY <1>1, <2>1, <2>2, <2>4 DEF Alone, Moved, InStage
  <2>5. Picked'
    BY <1>3, <2>1, <2>2, <2>4 DEF Picked, Moved, InStage, Creating, RemotePorts
  <2>6. Listed'
    BY <2>1, <2>4 DEF Listed, Moved, InStage, Locked
  <2> QED BY <2>3, <2>5, <2>6
<1>4. CASE Pick(r)
  <2> DEFINE taken == RemotePorts(row, Envs)
             ports == IF mine.automatic THEN Lowest(taken) ELSE {mine.remote} \ taken
  <2>1. ASSUME NEW p \in ports, Becomes(r, [mine EXCEPT !.remote = p], "build"),
               UNCHANGED scratch, UNCHANGED <<system, frpc>>
        PROVE  Apart'
    <3> DEFINE new == [mine EXCEPT !.remote = p]
    <3>1. p \in Ports \cup {0} /\ p \notin taken
      BY <1>1 DEF Lowest, Row
    <3>2. new \in Row /\ new.remote = p
      BY <1>1, <3>1, SetRemote
    <3> HIDE DEF new
    <3> QED BY <1>3, <2>1, <3>1, <3>2 DEF new
  <2> QED BY <1>2, <1>4, <2>1 DEF Pick
<1>5. CASE Build(r)
  <2> DEFINE new == [mine EXCEPT !.local = host[e]]
  <2>1. CASE Return(r)
    BY <1>2, <1>5, <2>1 DEF Build
  <2>2. CASE Becomes(r, new, "insert") /\ UNCHANGED <<lock, scratch>>
    <3>1. host[e] \in 0..2
      BY <1>1 DEF TypeOK
    <3>2. new \in Row /\ new.remote = mine.remote
      BY <1>1, <3>1, SetLocal
    <3>3. Picked => mine.remote = 0 \/ mine.remote \notin RemotePorts(row, Envs)
      BY <1>5 DEF Picked, Build, At, InStage
    <3>4. UNCHANGED <<row, forwards>>
      BY <1>5 DEF Build
    <3> HIDE DEF new
    <3> QED BY <1>3, <2>2, <3>2, <3>3, <3>4 DEF new
  <2> QED BY <1>5, <2>1, <2>2 DEF Build
<1>6. CASE InsertFails(r)
  BY <1>2, <1>6 DEF InsertFails
<1>7. CASE Insert(r)
  <2>1. row' = [row EXCEPT ![e] = mine] /\ UNCHANGED <<box, host, frpc>> /\ InStage(r, {"insert"})
    BY <1>7 DEF Insert, At, InStage
  <2>2. (\E s : Moved(r, mine, s) /\ s = "lock" /\ UNCHANGED scratch) \/ Ended(r)
    BY <1>1, <1>7, GotoMoved, ReturnEnded DEF Insert, RefreshIfPublished, Stage
  <2>3. UNCHANGED scratch
    BY <1>1, <2>2, HolderFree DEF Ended
  <2>4. SUFFICES ASSUME ~mode.overlap, Alone, Picked, Listed, Distinct, News
                 PROVE  Alone' /\ Picked' /\ Listed' /\ Distinct' /\ News'
    BY DEF Apart
  <2>5. mine.remote = 0 \/ mine.remote \notin RemotePorts(row, Envs)
    BY <2>1, <2>4 DEF Picked, InStage
  <2>6. \A f \in Envs : row'[f] = IF f = e THEN mine ELSE row[f]
    BY <1>1, <2>1 DEF TypeOK
  <2>7. Distinct'
    BY <1>1, <2>4, <2>5, <2>6 DEF Distinct, Present, RemotePorts
  <2>8. lock = NoOne
    BY <1>1, <2>4 DEF Base, Holder, TypeOK, Alone, InStage, Locked, Creating
  <2>9. rejected = {} /\ rejected' = {}
    BY <2>3, <2>8 DEF Base, Holder
  <2>10. News'
    BY <2>9 DEF News
  <2>11. ASSUME NEW q \in Requests, InStage(q, Locked \cup Creating)' PROVE FALSE
    BY <1>1, <2>2, <2>4, <2>11 DEF Alone, Moved, Ended, InStage, Locked, Creating
  <2>12. Alone' /\ Picked' /\ Listed'
    BY <1>1, <2>2, <2>4, <2>11, AloneKept DEF Picked, Listed, InStage, Locked, Creating
  <2> QED BY <2>7, <2>10, <2>12
<1> QED BY <1>4, <1>5, <1>6, <1>7

\* An environment is started, stopped or removed.
LEMMA DecideApart ==
    ASSUME Base, Apart, NEW r \in Requests, UNCHANGED mode,
           CallDocker(r) \/ Remove(r) \/ Record(r) \/ Sync(r)
    PROVE  Apart'
<1> DEFINE e == req[r].env
<1>1. InStage(r, Deciding) /\ UNCHANGED frpc
  BY DEF CallDocker, Remove, Record, Sync, At, InStage, Deciding
<1>2. TypeOK /\ req[r] # NoRequest /\ e \in Envs /\ req[r].op \in Lifecycle /\ ~InStage(r, Locked)
  BY <1>1, DecidingFacts DEF InStage, Deciding, Locked
<1>3. /\ (\E mine, s : Moved(r, mine, s) /\ s \in Deciding \cup {"lock"}) \/ Ended(r)
      /\ UNCHANGED scratch
  <2>1. Return(r) \/ \E s \in Deciding \cup {"lock"} : Goto(r, s) /\ UNCHANGED scratch
    BY DEF CallDocker, Remove, Record, Sync, RefreshIfPublished, Deciding
  <2>2. ASSUME Return(r) PROVE Ended(r) /\ UNCHANGED scratch
    BY <1>2, <2>2, ReturnEnded, HolderFree DEF Ended
  <2>3. ASSUME NEW s \in Deciding \cup {"lock"}, Goto(r, s) PROVE Moved(r, req[r].row, s)
    BY <1>2, <2>3, GotoMoved DEF Deciding, Stage
  <2> QED BY <2>1, <2>2, <2>3
<1>4. \A f \in Envs : \/ row'[f] = NoRow
                      \/ row[f] # NoRow /\ row'[f].remote = row[f].remote
  <2>1. CASE CallDocker(r) \/ Remove(r)
    BY <2>1 DEF CallDocker, Remove
  <2>2. CASE Sync(r)
    <3>1. UNCHANGED row \/ \E S : row' = WithPorts(row, S)
      BY <2>2 DEF Sync
    <3> QED BY <1>2, <3>1, WithPortsGentle DEF SameRow
  <2>3. CASE Record(r)
    <3> DEFINE new == [row[e] EXCEPT !.desired = req[r].op = "start"]
    <3>1. row[e] # NoRow => new.remote = row[e].remote
      BY <1>2, SetDesired DEF TypeOK
    <3> HIDE DEF new
    <3>2. row' = IF row[e] = NoRow THEN row
                 ELSE [row EXCEPT ![e] = IF req[r].op = "delete" THEN NoRow ELSE new]
      BY <2>3 DEF Record, WithRow, new
    <3> QED BY <1>2, <3>1, <3>2 DEF TypeOK
  <2> QED BY <2>1, <2>2, <2>3
<1>5. NoNewPort
  BY <1>3, <1>4 DEF NoNewPort
<1> QED BY <1>1, <1>2, <1>3, <1>5, ApartOutside

\* Requests take the lock, or give it back without a change of a row.
LEMMA AcquireApart ==
    ASSUME Base, Apart, NEW r \in Requests, UNCHANGED mode, Acquire(r)
    PROVE  Apart'
<1>1. /\ TypeOK /\ req[r] # NoRequest /\ InStage(r, {"lock"}) /\ ~InStage(r, Locked)
      /\ UNCHANGED <<system, frpc>>
  BY DEF Acquire, At, InStage, Locked, Base
<1>2. (\E mine, s : Moved(r, mine, s) /\ s \in {"publish", "unpublish", "stopFrpc", "list"}
                    /\ UNCHANGED scratch) \/ Ended(r)
  <2>1. Return(r) \/ \E s \in {"publish", "unpublish", "stopFrpc", "list"} :
                        Goto(r, s) /\ UNCHANGED scratch
    BY DEF Acquire
  <2>2. ASSUME NEW s \in {"publish", "unpublish", "stopFrpc", "list"}, Goto(r, s)
        PROVE  Moved(r, req[r].row, s)
    BY <1>1, <2>2, GotoMoved DEF Stage
  <2> QED BY <1>1, <2>1, <2>2, ReturnEnded
<1>3. UNCHANGED scratch
  BY <1>1, <1>2, HolderFree DEF Ended
<1>4. SUFFICES ASSUME ~mode.overlap, Alone, Picked, Listed, Distinct, News
               PROVE  Alone' /\ Picked' /\ Listed' /\ Distinct' /\ News'
  BY DEF Apart
<1>5. Alone' /\ Picked' /\ Distinct' /\ News'
  BY <1>1, <1>2, <1>3, <1>4, AloneKept, PickedKept, PortsKept, QuietPorts
<1>6. /\ ~InStage(r, {"inspect", "connect", "move"})' /\ ~InStage(r, {"poll"})'
  BY <1>2 DEF Moved, Ended, InStage
<1>7. Listed'
  BY <1>1, <1>2, <1>3, <1>4, <1>6, OthersListed DEF Listed
<1> QED BY <1>5, <1>7

\* The holder keeps the ports of all rows.
LEMMA HeldQuiet ==
    ASSUME Base, Apart, NEW r \in Requests, InStage(r, Locked), UNCHANGED mode, NoNewPort,
           \/ Ended(r)
           \/ \E mine, s :
                 /\ Moved(r, mine, s) /\ s \in Locked
                 /\ ~mode.overlap /\ Listed /\ s \in {"inspect", "connect", "move"} =>
                       \A e \in Envs : SameRow(view'[e], row'[e])
                 /\ ~mode.overlap /\ Listed /\ s = "poll" => DOMAIN forwards' \subseteq Present'
    PROVE  Apart'
BY ApartHeld, PortsKept DEF Base

\* Under the lock, the steps that give no row a port.
LEMMA HeldApart ==
    ASSUME Base, Apart, NEW r \in Requests, UNCHANGED mode,
           \/ Unpublish(r) \/ StopFrpc(r) \/ List(r) \/ Inspect(r) \/ Connect(r)
           \/ ConnectFails(r) \/ Poll(r) \/ Desire(r)
    PROVE  Apart'
<1>1. InStage(r, Locked)
  BY DEF Unpublish, StopFrpc, List, Inspect, Connect, ConnectFails, Poll, Desire,
         At, InStage, Locked
<1>2. TypeOK /\ req[r] # NoRequest /\ lock = r
  BY <1>1, LockedFacts
<1>3. ASSUME Return(r), NoNewPort PROVE Apart'
  BY <1>1, <1>2, <1>3, ReturnEnded, HeldQuiet
<1>4. ASSUME NEW s \in {"list", "undesire", "desire"}, Goto(r, s), NoNewPort PROVE Apart'
  <2>1. Moved(r, req[r].row, s)
    BY <1>2, <1>4, GotoMoved DEF Stage
  <2> QED BY <1>1, <1>4, <2>1, HeldQuiet DEF Locked
<1>5. CASE StopFrpc(r) \/ ConnectFails(r) \/ Desire(r)
  <2>1. UNCHANGED row /\ (UNCHANGED rejected \/ Return(r))
    BY <1>5 DEF StopFrpc, ConnectFails, Desire
  <2>2. NoNewPort
    BY <1>2, <2>1, QuietPorts, ReturnEnded
  <2> QED BY <1>3, <1>4, <1>5, <2>2 DEF StopFrpc, ConnectFails, Desire
<1>6. CASE Unpublish(r)
  <2> DEFINE e == req[r].env
  <2>1. e \in Envs
    BY <1>6 DEF Base, Decided, Unpublish, At, InStage, Publishes
  <2>2. /\ \A f \in Envs : row'[f] = NoRow <=> row[f] = NoRow
        /\ \A f \in Envs : f # e => row'[f] = row[f]
        /\ row[e] # NoRow => row'[e].remote = 0
    BY <1>6, <2>1, PublicationRows DEF Unpublish
  <2>3. UNCHANGED rejected \/ Ended(r)
    BY <1>2, <1>6, ReturnEnded DEF Unpublish
  <2>4. NoNewPort
    BY <2>1, <2>2, <2>3 DEF NoNewPort, Ended
  <2> QED BY <1>3, <1>4, <1>6, <2>4 DEF Unpublish
<1>7. CASE List(r)
  <2>1. UNCHANGED <<row, rejected>> /\ view' = row /\ Goto(r, "inspect")
    BY <1>7 DEF List
  <2>2. Moved(r, req[r].row, "inspect")
    BY <1>2, <2>1, GotoMoved DEF Stage
  <2>3. NoNewPort
    BY <1>2, <2>1, QuietPorts
  <2>4. \A e \in Envs : SameRow(view'[e], row'[e])
    BY <2>1 DEF SameRow
  <2> QED BY <1>1, <2>2, <2>3, <2>4, HeldQuiet DEF Locked
<1>8. CASE Inspect(r)
  <2>1. ASSUME NEW S, row' = WithPorts(row, S), UNCHANGED rejected \/ Ended(r) PROVE NoNewPort
    BY <1>2, <2>1, WithPortsGentle DEF NoNewPort, SameRow, Ended
  <2>2. ASSUME NEW S, row' = WithPorts(row, S), Return(r) PROVE Apart'
    BY <1>2, <1>3, <2>1, <2>2, ReturnEnded
  <2>3. ASSUME NEW S, row' = WithPorts(row, S), view' = WithPorts(view, S),
               Goto(r, "connect"), UNCHANGED rejected
        PROVE  Apart'
    <3>1. Moved(r, req[r].row, "connect") /\ NoNewPort
      BY <1>2, <2>1, <2>3, GotoMoved DEF Stage
    <3>2. \A e \in Envs : SameRow(row[e], row'[e]) /\ SameRow(view[e], view'[e])
      BY <1>2, <2>3, WithPortsRows DEF TypeOK
    <3>3. Listed => \A e \in Envs : SameRow(view[e], row[e])
      BY <1>8 DEF Listed, Inspect, At, InStage
    <3>4. Listed => \A e \in Envs : SameRow(view'[e], row'[e])
      BY <3>2, <3>3 DEF SameRow
    <3> QED BY <1>1, <3>1, <3>4, HeldQuiet DEF Locked
  <2> QED BY <1>8, <2>2, <2>3 DEF Inspect
<1>9. CASE Connect(r)
  <2>1. UNCHANGED <<row, rejected, view>> /\ Goto(r, "poll") /\ DOMAIN forwards' = Proxied(view)
    BY <1>9 DEF Connect, Rendered
  <2>2. Moved(r, req[r].row, "poll") /\ NoNewPort
    BY <1>2, <2>1, GotoMoved, QuietPorts DEF Stage
  <2>3. Listed => \A e \in Envs : SameRow(view[e], row[e])
    BY <1>9 DEF Listed, Connect, At, InStage
  <2>4. Listed => DOMAIN forwards' \subseteq Present'
    BY <2>1, <2>3 DEF Proxied, Present, SameRow
  <2> QED BY <1>1, <2>2, <2>4, HeldQuiet DEF Locked
<1>10. CASE Poll(r)
  <2>1. UNCHANGED row /\ (UNCHANGED rejected \/ Ended(r))
    BY <1>2, <1>10, ReturnEnded DEF Poll
  <2>2. NoNewPort
    BY <1>2, <2>1, QuietPorts
  <2>3. CASE Goto(r, "move") /\ view' = row
    <3>1. Moved(r, req[r].row, "move")
      BY <1>2, <2>3, GotoMoved DEF Stage
    <3>2. \A e \in Envs : SameRow(view'[e], row'[e])
      BY <2>1, <2>3 DEF SameRow
    <3> QED BY <1>1, <2>2, <3>1, <3>2, HeldQuiet DEF Locked
  <2> QED BY <1>3, <1>4, <1>10, <2>2, <2>3 DEF Poll
<1> QED BY <1>5, <1>6, <1>7, <1>8, <1>9, <1>10

\* A published environment gets a port that no row has.
LEMMA PublishApart ==
    ASSUME Base, Apart, NEW r \in Requests, UNCHANGED mode, Publish(r)
    PROVE  Apart'
<1> DEFINE e == req[r].env
<1>1. InStage(r, Locked) /\ InStage(r, {"publish"})
  BY DEF Publish, At, InStage, Locked
<1>2. TypeOK /\ req[r] # NoRequest /\ lock = r /\ e \in Envs /\ rejected = {}
  BY <1>1, LockedFacts DEF Base, Decided, Holder, InStage, Publishes
<1>3. Ended(r) \/ \E s : Moved(r, req[r].row, s) /\ s = "list" /\ UNCHANGED scratch
  BY <1>2, ReturnEnded, GotoMoved DEF Publish, Stage
<1>4. rejected' = {} /\ News'
  BY <1>2, <1>3 DEF Ended, News
<1>5. Distinct => Distinct'
  <2>1. CASE UNCHANGED row
    BY <2>1 DEF Distinct, Present
  <2>2. ASSUME NEW p \in Lowest(PortsOfOthers(e)), WithRow(e, WithPublication(row[e], TRUE, p))
        PROVE  Distinct => Distinct'
    <3>1. p \in Ports /\ p # 0 /\ p \notin PortsOfOthers(e)
      BY PublicationAssumption DEF Lowest
    <3>2. /\ \A f \in Envs : row'[f] = NoRow <=> row[f] = NoRow
          /\ \A f \in Envs : f # e => row'[f] = row[f]
          /\ row[e] # NoRow => row'[e].remote = p
      BY <1>2, <2>2, <3>1, PublicationRows
    <3> QED BY <1>2, <3>1, <3>2 DEF Distinct, Present, PortsOfOthers, RemotePorts
  <2> QED BY <2>1, <2>2 DEF Publish
<1> QED BY <1>1, <1>3, <1>4, <1>5, ApartHeld DEF Locked

\* A conflict is moved to a port that no row has and that was not refused.
LEMMA MoveApart ==
    ASSUME Base, Apart, NEW r \in Requests, UNCHANGED mode, Move(r)
    PROVE  Apart'
<1>1. InStage(r, Locked) /\ InStage(r, {"inspect", "connect", "move"})
  BY DEF Move, At, InStage, Locked
<1>2. TypeOK /\ req[r] # NoRequest /\ lock = r
  BY <1>1, LockedFacts
<1>3. ASSUME UNCHANGED row, Return(r) \/ (Goto(r, "list") /\ UNCHANGED rejected) PROVE Apart'
  <2>1. Ended(r) \/ (Moved(r, req[r].row, "list") /\ UNCHANGED rejected)
    BY <1>2, <1>3, ReturnEnded, GotoMoved DEF Stage
  <2>2. NoNewPort
    BY <1>2, <1>3, <2>1, QuietPorts
  <2> QED BY <1>1, <2>1, <2>2, HeldQuiet DEF Locked
<1>4. ASSUME NEW e \in conflicts, view[e] # NoRow, view[e].remote # 0,
             NEW p \in Lowest(ListedOrRefused),
             view' = [view EXCEPT ![e] = [@ EXCEPT !.remote = p]],
             WithRow(e, [row[e] EXCEPT !.remote = p]),
             rejected' = rejected \cup {view[e].remote}, UNCHANGED req
      PROVE  Apart'
  <2> DEFINE mine == [row[e] EXCEPT !.remote = p]
             seen == [view[e] EXCEPT !.remote = p]
  <2>1. SUFFICES ASSUME ~mode.overlap, Alone, Picked, Listed, Distinct, News
                 PROVE  Alone' /\ Picked' /\ Listed' /\ Distinct' /\ News'
    BY DEF Apart
  <2>2. \A f \in Envs : SameRow(view[f], row[f])
    BY <1>1, <2>1 DEF Listed
  <2>3. e \in Envs /\ view[e] \in Row /\ row[e] # NoRow /\ row[e] \in Row /\ p \in Ports
    BY <1>2, <1>4, <2>2 DEF TypeOK, SameRow, Lowest
  <2>4. /\ seen # NoRow /\ seen.published = view[e].published /\ seen.remote = p
        /\ mine # NoRow /\ mine.published = row[e].published /\ mine.remote = p
    BY <2>3, SetRemote
  <2> HIDE DEF mine, seen
  <2>5. /\ \A f \in Envs : row'[f] = IF f = e THEN mine ELSE row[f]
        /\ \A f \in Envs : view'[f] = IF f = e THEN seen ELSE view[f]
    BY <1>2, <1>4, <2>3 DEF WithRow, mine, seen, TypeOK
  <2>6. p # 0 /\ p \notin rejected /\ \A f \in Envs : row[f] # NoRow => row[f].remote # p
    <3>1. p \notin rejected /\ p \notin RemotePorts(view, Envs) /\ p # 0
      BY PublicationAssumption DEF Lowest, ListedOrRefused
    <3>2. \A f \in Envs : view[f] # NoRow => view[f].remote # p
      BY <3>1 DEF RemotePorts
    <3> QED BY <2>2, <3>1, <3>2 DEF SameRow
  <2>7. Distinct'
    BY <2>1, <2>4, <2>5, <2>6 DEF Distinct, Present
  <2>8. view[e].remote = row[e].remote /\ view[e].remote # p
    BY <1>4, <2>2, <2>3, <2>6 DEF SameRow
  <2>9. News'
    BY <1>4, <2>1, <2>3, <2>4, <2>5, <2>6, <2>8 DEF News, Distinct, Present
  <2>10. \A f \in Envs : SameRow(view'[f], row'[f])
    BY <2>2, <2>3, <2>4, <2>5 DEF SameRow
  <2>11. Alone'
    BY <1>4, <2>1 DEF Alone
  <2>12. \A q \in Requests : InStage(q, Locked) => q = r
    BY <1>1, LockedFacts
  <2>13. ASSUME NEW q \in Requests, InStage(q, {"build", "insert"})' PROVE FALSE
    <3>1. InStage(q, {"build", "insert"}) /\ q # r
      BY <1>1, <1>4, <2>13 DEF InStage, Locked
    <3>2. req[q].op = "create"
      BY <3>1 DEF Base, Fresh, InStage, Creating
    <3> QED BY <1>2, <2>1, <3>1, <3>2 DEF Alone, InStage, Lifecycle
  <2>14. Picked'
    BY <2>13 DEF Picked
  <2>15. Listed'
    <3>1. \A q \in Requests : ~InStage(q, {"poll"})'
      BY <1>1, <1>4, <2>12 DEF InStage, Locked, Move, At
    <3> QED BY <2>10, <3>1 DEF Listed
  <2> QED BY <2>7, <2>9, <2>11, <2>14, <2>15
<1> QED BY <1>3, <1>4 DEF Move

\* A request that arrives meets no creation and, if it changes environments, nobody.
LEMMA ArriveApart ==
    ASSUME Base, Apart, NEW r \in Requests, Arrive(r)
    PROVE  Apart'
<1>1. TypeOK
  BY DEF Base
<1>0. UNCHANGED mode
  BY DEF Arrive, BeginCreate, BeginLifecycle, BeginLocked, BeginList, Begin, Arrives
<1>2. SUFFICES ASSUME ~mode.overlap, Alone, Picked, Listed, Distinct, News
               PROVE  Alone' /\ Picked' /\ Listed' /\ Distinct' /\ News'
  BY <1>0 DEF Apart
<1>3. ASSUME NEW op \in Op, Arrives(r, op),
             \/ UNCHANGED req
             \/ \E e, mine, s :
                   /\ Begin(r, op, e, mine, s)
                   /\ s \in {"pick", "docker", "lock"} \/ (s = "build" /\ mine.remote = 0),
             \A f \in Envs : SameRow(row[f], row'[f])
      PROVE  Alone' /\ Picked' /\ Listed' /\ Distinct' /\ News'
  <2>1. /\ req[r] = NoRequest /\ UNCHANGED <<mode, frpc, lock, scratch>>
        /\ IF op \in Lifecycle THEN Busy = {} ELSE \A q \in Busy : req[q].op \notin Lifecycle
    BY <1>2, <1>3 DEF Arrives
  <2>2. /\ \A q \in Requests : q # r => req'[q] = req[q]
        /\ \/ req'[r] = NoRequest
           \/ /\ req'[r].op = op /\ req'[r].stage \in {"pick", "docker", "lock", "build"}
              /\ req'[r].stage = "build" => req'[r].row.remote = 0
    BY <1>1, <1>3, <2>1 DEF Begin, TypeOK
  <2>3. Alone'
    BY <1>2, <2>1, <2>2 DEF Alone, Busy
  <2>4. NoNewPort
    BY <1>3, <2>1 DEF NoNewPort, SameRow
  <2>5. Distinct' /\ News'
    BY <1>1, <1>2, <2>4, PortsKept
  <2>6. RemotePorts(row', Envs) = RemotePorts(row, Envs)
    BY <1>3 DEF RemotePorts, SameRow
  <2>7. ASSUME NEW q \in Requests, InStage(q, {"build", "insert"})'
        PROVE  req'[q].row.remote = 0 \/ req'[q].row.remote \notin RemotePorts(row', Envs)
    BY <1>2, <2>2, <2>6, <2>7 DEF Picked, InStage
  <2>8. Picked'
    BY <2>6, <2>7 DEF Picked, RemotePorts
  <2>9. ASSUME NEW q \in Requests, InStage(q, {"inspect", "connect", "move", "poll"})'
        PROVE  InStage(q, {"inspect", "connect", "move", "poll"}) /\ req'[q] = req[q]
    BY <2>2, <2>9 DEF InStage
  <2>10. Listed'
    BY <1>2, <1>3, <2>1, <2>9 DEF Listed, InStage, SameRow, Present
  <2> QED BY <2>1, <2>3, <2>5, <2>8, <2>10
<1>4. \A f \in Envs : SameRow(row[f], row[f])
  BY DEF SameRow
<1>5. ASSUME NEW e \in Envs, NEW published \in BOOLEAN, NEW port \in Ports \cup {0},
             BeginCreate(r, e, published, port)
      PROVE  Alone' /\ Picked' /\ Listed' /\ Distinct' /\ News'
  <2> DEFINE mine == [published |-> published, automatic |-> port = 0, remote |-> port,
                      desired |-> TRUE, local |-> 0]
             s == IF published THEN "pick" ELSE "build"
  <2>1. Begin(r, "create", e, mine, s) /\ UNCHANGED system /\ (published \/ port = 0)
    BY <1>5 DEF BeginCreate
  <2>2. mine.remote = port
    OBVIOUS
  <2>4. published => s = "pick"
    BY Zenon
  <2>5. ~published => s = "build" /\ port = 0
    BY <2>1, Zenon
  <2>3. Arrives(r, "create") /\ "create" \in Op
    BY <2>1 DEF Begin, Op, Lifecycle
  <2> HIDE DEF mine, s
  <2>6. s \in {"pick", "docker", "lock"} \/ (s = "build" /\ mine.remote = 0)
    <3> HIDE DEF mine, s
    <3>1. published \/ ~published
      OBVIOUS
    <3> QED BY <2>2, <2>4, <2>5, <3>1, Zenon
  <2> HIDE DEF mine, s
  <2> QED BY <1>3, <1>4, <2>1, <2>3, <2>6
<1>6. ASSUME NEW op \in Op, NEW e, NEW mine, NEW s \in {"docker", "lock"},
             Begin(r, op, e, mine, s), \A f \in Envs : SameRow(row[f], row'[f])
      PROVE  Alone' /\ Picked' /\ Listed' /\ Distinct' /\ News'
  <2>1. Arrives(r, op)
    BY <1>6 DEF Begin
  <2> QED BY <1>3, <1>6, <2>1
<1>7. ASSUME NEW op \in Lifecycle, NEW e \in Envs, BeginLifecycle(r, op, e)
      PROVE  Alone' /\ Picked' /\ Listed' /\ Distinct' /\ News'
  BY <1>4, <1>6, <1>7 DEF BeginLifecycle, Op
<1>8. CASE BeginLocked(r)
  BY <1>4, <1>6, <1>8 DEF BeginLocked, Op
<1>9. CASE BeginList(r)
  <2>1. \A f \in Envs : SameRow(row[f], row'[f])
    BY <1>1, <1>9, WithPortsGentle DEF BeginList
  <2>2. Begin(r, "list", NoOne, NoRow, "lock") \/ (Arrives(r, "list") /\ UNCHANGED req)
    BY <1>9 DEF BeginList
  <2>3. "list" \in Op
    BY DEF Op
  <2> QED BY <1>3, <1>6, <2>1, <2>2, <2>3
<1> QED BY <1>5, <1>7, <1>8, <1>9 DEF Arrive

\* A crash leaves rows and no creation.
LEMMA CrashApart ==
    ASSUME Base, Apart, NEW r \in Requests, Crash(r)
    PROVE  Apart'
<1>1. /\ \A q \in Requests : req'[q] # NoRequest => q = r /\ req'[q].stage = "lock"
      /\ UNCHANGED <<row, mode>> /\ rejected' = {}
  BY DEF Crash, Forget
<1> QED BY <1>1 DEF Apart, Alone, Picked, Listed, Distinct, News, Present, InStage

\* Every step keeps the ports apart.
LEMMA NextApart == ASSUME Base, Apart, [Next]_vars PROVE Apart'
<1>1. CASE UNCHANGED <<row, view, rejected, req, mode, forwards>>
  BY <1>1 DEF Apart, Alone, Picked, Listed, Distinct, News, Present, InStage, RemotePorts
<1>2. ASSUME NEW r \in Requests, Lock(r) PROVE Apart'
  BY <1>2, AcquireApart DEF Lock
<1>3. ASSUME NEW r \in Requests, Step(r) PROVE Apart'
  BY <1>3, CreateApart, DecideApart, HeldApart, PublishApart, MoveApart DEF Step
<1>4. ASSUME NEW r \in Requests, Drop(r) PROVE Apart'
  <2>1. Ended(r) /\ req[r] # NoRequest /\ UNCHANGED <<system, frpc, mode>>
    BY <1>4, ReturnEnded DEF Drop, Busy, Base
  <2>2. NoNewPort
    BY <2>1, QuietPorts DEF Base
  <2>3. CASE InStage(r, Locked)
    BY <2>1, <2>2, <2>3, HeldQuiet
  <2>4. CASE ~InStage(r, Locked)
    BY <2>1, <2>2, <2>4, HolderFree, ApartOutside DEF Ended
  <2> QED BY <2>3, <2>4
<1>5. ASSUME NEW e \in Envs, ContainerRestarts(e) PROVE Apart'
  BY <1>1, <1>5 DEF ContainerRestarts
<1> QED BY <1>1, <1>2, <1>3, <1>4, <1>5, ArriveApart, CrashApart DEF Next, vars

\* They are to begin with, and no conflict is left.
LEMMA InitApart == ASSUME Init PROVE Apart /\ Search
<1>1. row \in Tables
  BY DEF Init
<1>2. Distinct
  BY <1>1, TablesAssumption DEF Distinct, Present
<1> QED BY <1>2 DEF Init, Apart, Search, Alone, Picked, Listed, News, InStage

\* Only Poll finds conflicts, and what it finds is gone when the holder leaves Move.
LEMMA NextSearch == ASSUME Base, Search, [Next]_vars PROVE Search'
<1>1. CASE UNCHANGED <<conflicts, req>>
  BY <1>1 DEF Search, InStage
<1>2. ASSUME NEW r \in Requests, InStage(r, {"move"})' PROVE Search'
  BY <1>2 DEF Search
<1>3. ASSUME NEW r \in Requests, Ended(r) PROVE Search'
  <2>1. CASE lock = r
    BY <1>3, <2>1 DEF Ended, Search
  <2>2. CASE lock # r
    <3>1. ~InStage(r, {"move"})
      BY <2>2 DEF Base, Holder, InStage, Locked
    <3> QED BY <1>3, <2>2, <3>1 DEF Ended, Search, InStage
  <2> QED BY <2>1, <2>2
<1>4. ASSUME NEW r \in Requests, ~InStage(r, {"move"}), UNCHANGED conflicts,
             \A q \in Requests : q # r => req'[q] = req[q]
      PROVE  Search'
  BY <1>4 DEF Search, InStage
<1>5. ASSUME NEW r \in Requests, Return(r) PROVE Search'
  BY <1>3, <1>5, ReturnEnded DEF Base
<1>6. ASSUME NEW r \in Requests, NEW mine, NEW s, Becomes(r, mine, s), UNCHANGED conflicts,
             ~InStage(r, {"move"})
      PROVE  Search'
  BY <1>4, <1>6 DEF Becomes, Base, TypeOK
<1>7. ASSUME NEW r \in Requests, Move(r) PROVE Search'
  <2>1. TypeOK /\ req[r] # NoRequest /\ InStage(r, {"move"})
    BY <1>7 DEF Move, At, Base, InStage
  <2>2. CASE UNCHANGED req
    BY <1>2, <2>1, <2>2 DEF InStage
  <2>3. CASE conflicts = {} /\ UNCHANGED conflicts
    BY <2>3 DEF Search
  <2> QED BY <1>5, <1>7, <2>2, <2>3 DEF Move
<1>8. ASSUME NEW r \in Requests, Poll(r) PROVE Search'
  <2>1. TypeOK /\ req[r] # NoRequest /\ ~InStage(r, {"move"})
    BY <1>8 DEF Poll, At, Base, InStage
  <2>2. CASE Goto(r, "move")
    BY <1>2, <2>1, <2>2, GotoMoved DEF Moved, InStage, Stage
  <2> QED BY <1>5, <1>6, <1>8, <2>1, <2>2 DEF Poll, Goto
<1>9. ASSUME NEW r \in Requests, Pick(r) \/ Build(r) \/ Insert(r) \/ InsertFails(r) PROVE Search'
  BY <1>5, <1>6, <1>9 DEF Pick, Build, Insert, InsertFails, RefreshIfPublished, Goto, At, InStage
<1>10. ASSUME NEW r \in Requests, CallDocker(r) \/ Remove(r) \/ Record(r) \/ Sync(r) PROVE Search'
  BY <1>5, <1>6, <1>10 DEF CallDocker, Remove, Record, Sync, RefreshIfPublished, Goto, At, InStage
<1>11. ASSUME NEW r \in Requests, Acquire(r) \/ Publish(r) \/ Unpublish(r) \/ StopFrpc(r)
       PROVE  Search'
  BY <1>5, <1>6, <1>11 DEF Acquire, Publish, Unpublish, StopFrpc, Goto, At, InStage
<1>12. ASSUME NEW r \in Requests,
              List(r) \/ Inspect(r) \/ Connect(r) \/ ConnectFails(r) \/ Desire(r)
       PROVE  Search'
  BY <1>5, <1>6, <1>12 DEF List, Inspect, Connect, ConnectFails, Desire, Goto, At, InStage
<1>13. ASSUME NEW r \in Requests, Arrive(r) PROVE Search'
  <2>1. req[r] = NoRequest /\ UNCHANGED scratch
    BY <1>13 DEF Arrive, BeginCreate, BeginLifecycle, BeginLocked, BeginList, Begin, Arrives
  <2>2. \A q \in Requests : q # r => req'[q] = req[q]
    BY <1>13 DEF Arrive, BeginCreate, BeginLifecycle, BeginLocked, BeginList, Begin, Base, TypeOK
  <2> QED BY <1>4, <2>1, <2>2 DEF InStage
<1>14. ASSUME NEW r \in Requests, Drop(r) \/ Crash(r) PROVE Search'
  BY <1>5, <1>14 DEF Drop, Crash, Forget, Search
<1>15. ASSUME NEW e \in Envs, ContainerRestarts(e) PROVE Search'
  BY <1>1, <1>15 DEF ContainerRestarts
<1> QED BY <1>1, <1>7, <1>8, <1>9, <1>10, <1>11, <1>12, <1>13, <1>14, <1>15
        DEF Next, Lock, Step, vars

(* No two environments are ever given one port of the server, as long as   *)
(* none is created, started or removed beside another request: whoever     *)
(* chooses a port, at a creation, a publication or a conflict, has a list  *)
(* of the ports that is still true when the row is written.                *)
THEOREM PortsDistinctCorrect == Spec => []PortsDistinct
<1>1. Apart => PortsDistinct
  BY DEF Apart, Distinct, PortsDistinct
<1> QED BY <1>1, InitBase, NextBase, InitApart, NextApart, PTL DEF Spec

\* Poll meets a conflict of a row, and no row has a refused port.
LEMMA NewConflict ==
    ASSUME Base, Apart, Search, [Next]_vars, NEW r \in Requests, ~mode.overlap,
           At(r, "poll"), conflicts' # {}
    PROVE  \E e \in conflicts' : ~row[e].automatic \/ row[e].remote \notin rejected
<1>1. TypeOK /\ lock = r /\ \A q \in Requests : q # r => ~InStage(q, Locked)
  BY LockedFacts DEF At, InStage, Locked
<1>2. conflicts = {}
  BY <1>1 DEF Search, At, InStage, Locked
<1>3. DOMAIN forwards \subseteq Present /\ \A e \in Present : row[e].remote \notin rejected
  BY DEF Apart, Listed, News, At, InStage
<1>4. conflicts' \subseteq DOMAIN forwards
  <2>1. CASE UNCHANGED conflicts
    BY <1>2, <2>1
  <2>2. ASSUME NEW q, Return(q) PROVE conflicts' = {}
    BY <1>2, <2>2 DEF Return, Forget
  <2>3. ASSUME NEW q \in Requests, Poll(q) PROVE conflicts' \subseteq DOMAIN forwards
    BY <1>1, <2>1, <2>2, <2>3 DEF Poll, TypeOK
  <2>4. ASSUME NEW q \in Requests, Move(q) PROVE FALSE
    BY <1>1, <2>4 DEF Move, At, InStage, Locked
  <2>5. ASSUME NEW q \in Requests, Arrive(q) \/ Lock(q) \/ Drop(q) \/ Crash(q)
        PROVE  UNCHANGED conflicts \/ conflicts' = {}
    BY <2>2, <2>5 DEF Arrive, BeginCreate, BeginLifecycle, BeginLocked, BeginList, Begin, Arrives,
                      Lock, Acquire, Drop, Crash, Forget
  <2>6. ASSUME NEW q \in Requests,
               Pick(q) \/ Build(q) \/ Insert(q) \/ InsertFails(q) \/ CallDocker(q) \/ Remove(q)
               \/ Record(q) \/ Sync(q)
        PROVE  UNCHANGED conflicts \/ conflicts' = {}
    BY <2>2, <2>6 DEF Pick, Build, Insert, InsertFails, CallDocker, Remove, Record, Sync,
                      RefreshIfPublished
  <2>7. ASSUME NEW q \in Requests,
               Publish(q) \/ Unpublish(q) \/ StopFrpc(q) \/ List(q) \/ Inspect(q) \/ Connect(q)
               \/ ConnectFails(q) \/ Desire(q)
        PROVE  UNCHANGED conflicts \/ conflicts' = {}
    BY <2>2, <2>7 DEF Publish, Unpublish, StopFrpc, List, Inspect, Connect, ConnectFails, Desire
  <2>8. ASSUME NEW e \in Envs, ContainerRestarts(e) PROVE UNCHANGED conflicts
    BY <2>8 DEF ContainerRestarts
  <2>9. [Next]_vars => \/ UNCHANGED conflicts \/ conflicts' = {}
                      \/ \E q \in Requests : Poll(q) \/ Move(q)
    BY <2>5, <2>6, <2>7, <2>8 DEF Next, Step, vars
  <2> QED BY <1>2, <2>3, <2>4, <2>9
<1> QED BY <1>3, <1>4

(* Every round of the search for ports meets a conflict on a port that was *)
(* not refused before, or on one the user chose: a conflict is moved to a  *)
(* port that is neither in a row nor refused, no row keeps a refused port, *)
(* and no row gets one while the lock is held.                             *)
THEOREM ConflictsNews == Spec => ConflictsAreNews
<1>1. Base /\ Apart /\ Search /\ [Next]_vars =>
        [\A r \in Requests : ~mode.overlap /\ At(r, "poll") /\ conflicts' # {} =>
          \E e \in conflicts' : ~row[e].automatic \/ row[e].remote \notin rejected]_vars
  BY NewConflict
<1> QED BY <1>1, InitBase, NextBase, InitApart, NextApart, NextSearch, PTL
    DEF Spec, ConflictsAreNews

-----------------------------------------------------------------------------
(* Rows and containers, where no request is cut short *)

\* No row and no container comes or goes.
NoneKept ==
    \A e \in Envs : /\ row'[e] = NoRow <=> row[e] = NoRow
                    /\ box'[e] = "none" <=> box[e] = "none"

\* A step of a request that neither inserts nor deletes, or of nobody.
LEMMA BoxedKept ==
    ASSUME Base, Boxed, NoneKept, NEW r \in Requests, ~InStage(r, {"insert"}), ~Deletes(r),
           \/ UNCHANGED req
           \/ Return(r)
           \/ \E s \in Stage \ {"insert"} :
                 /\ Goto(r, s) /\ req[r] # NoRequest
                 /\ s = "remove" => req[r].op = "delete"
                 /\ s = "record" => req[r].op # "delete"
    PROVE  Boxed'
<1>1. TypeOK
  BY DEF Base
<1>2. \A q \in Requests : q # r => req'[q] = req[q]
  BY <1>1, ReturnEnded, GotoMoved DEF Ended, Moved
<1>3. /\ InStage(r, {"remove"})' => req'[r].op = "delete"
      /\ ~InStage(r, {"insert"})' /\ ~Deletes(r)'
  <2>1. CASE UNCHANGED req
    BY <2>1 DEF Boxed, InStage, Deletes
  <2>2. CASE Return(r)
    BY <1>1, <2>2, ReturnEnded DEF Ended, InStage, Deletes
  <2>3. ASSUME NEW s \in Stage \ {"insert"}, Goto(r, s), req[r] # NoRequest,
               s = "remove" => req[r].op = "delete", s = "record" => req[r].op # "delete"
        PROVE  /\ InStage(r, {"remove"})' => req'[r].op = "delete"
               /\ ~InStage(r, {"insert"})' /\ ~Deletes(r)'
    BY <1>1, <2>3, GotoMoved DEF Moved, InStage, Deletes
  <2> QED BY <2>1, <2>2, <2>3
<1>4. \A q \in Requests : q # r =>
         /\ InStage(q, {"remove"})' <=> InStage(q, {"remove"})
         /\ InStage(q, {"insert"})' <=> InStage(q, {"insert"})
         /\ Deletes(q)' <=> Deletes(q)
  BY <1>2 DEF InStage, Deletes
<1>5. \A q \in Requests : Deletes(q) => req[q].env \in Envs
  BY DEF Deletes, Base, Decided, InStage, Deciding
<1>6. \A q \in Requests : InStage(q, {"remove"})' => req'[q].op = "delete"
  BY <1>2, <1>3, <1>4 DEF Boxed
<1>7. \A q \in Requests : Deletes(q)' => box'[req'[q].env] = "none"
  BY <1>2, <1>3, <1>4, <1>5 DEF Boxed, NoneKept
<1>8. ASSUME NEW e \in Envs
      PROVE  /\ row'[e] = NoRow /\ box'[e] # "none" =>
                   \E q \in Requests : InStage(q, {"insert"})' /\ req'[q].env = e
             /\ row'[e] # NoRow /\ box'[e] = "none" =>
                   \E q \in Requests : Deletes(q)' /\ req'[q].env = e
  BY <1>2, <1>4 DEF Boxed, NoneKept
<1> QED BY <1>6, <1>7, <1>8 DEF Boxed

\* Rows and containers are kept where no row is lost and none is added.
LEMMA SameRows ==
    ASSUME Base,
           \/ UNCHANGED row
           \/ \E S : row' = WithPorts(row, S)
    PROVE  \A e \in Envs : row'[e] = NoRow <=> row[e] = NoRow
<1>1. ASSUME NEW S, row' = WithPorts(row, S)
      PROVE  \A e \in Envs : row'[e] = NoRow <=> row[e] = NoRow
  BY <1>1, WithPortsGentle DEF Base, SameRow
<1> QED BY <1>1

\* The handlers under publication_lock add and remove no row and no container.
LEMMA LockedBoxed ==
    ASSUME Base, Boxed, NEW r \in Requests,
           \/ Acquire(r) \/ Publish(r) \/ Unpublish(r) \/ StopFrpc(r) \/ List(r) \/ Inspect(r)
           \/ Connect(r) \/ ConnectFails(r) \/ Poll(r) \/ Move(r) \/ Desire(r)
    PROVE  Boxed'
<1> DEFINE e == req[r].env
           Kept == \A f \in Envs : row'[f] = NoRow <=> row[f] = NoRow
<1>1. /\ TypeOK /\ req[r] # NoRequest /\ UNCHANGED <<box, host>>
      /\ InStage(r, Locked \cup {"lock"})
  BY DEF Base, Acquire, Publish, Unpublish, StopFrpc, List, Inspect, Connect, ConnectFails, Poll,
         Move, Desire, At, InStage, Locked
<1>2. ~InStage(r, {"insert"}) /\ ~Deletes(r)
  BY <1>1 DEF InStage, Deletes, Locked
<1>3. \/ UNCHANGED req
      \/ Return(r)
      \/ \E s \in Stage \ {"insert", "remove", "record"} : Goto(r, s)
  <2>1. CASE Acquire(r) \/ Publish(r) \/ Unpublish(r) \/ StopFrpc(r)
    BY <2>1 DEF Acquire, Publish, Unpublish, StopFrpc, Stage
  <2>2. CASE List(r) \/ Inspect(r) \/ Connect(r) \/ ConnectFails(r)
    BY <2>2 DEF List, Inspect, Connect, ConnectFails, Stage
  <2>3. CASE Poll(r) \/ Move(r) \/ Desire(r)
    BY <2>3 DEF Poll, Move, Desire, Stage
  <2> QED BY <2>1, <2>2, <2>3
<1>4. Kept
  <2>1. CASE UNCHANGED row
    BY <2>1
  <2>2. ASSUME NEW b \in BOOLEAN, NEW p \in Ports \cup {0}, b <=> p # 0,
               WithRow(e, WithPublication(row[e], b, p)), e \in Envs
        PROVE  Kept
    BY <2>2, PublicationRows
  <2>3. CASE Publish(r) \/ Unpublish(r)
    <3>1. e \in Envs
      BY <2>3 DEF Publish, Unpublish, At, Base, Decided, InStage, Publishes
    <3>2. \A p \in Ports : p # 0
      BY PublicationAssumption
    <3> QED BY <2>1, <2>2, <2>3, <3>1, <3>2 DEF Publish, Unpublish, Lowest
  <2>4. CASE Inspect(r)
    BY <2>4, SameRows DEF Inspect
  <2>5. ASSUME Move(r), NEW f \in Envs, NEW p \in Ports, WithRow(f, [row[f] EXCEPT !.remote = p])
        PROVE  Kept
    <3>1. CASE row[f] = NoRow
      BY <2>5, <3>1 DEF WithRow
    <3>2. CASE row[f] # NoRow
      <4> DEFINE new == [row[f] EXCEPT !.remote = p]
      <4>1. new # NoRow
        BY <1>1, <3>2, SetRemote DEF TypeOK
      <4>2. row' = [row EXCEPT ![f] = new]
        BY <2>5, <3>2 DEF WithRow
      <4> HIDE DEF new
      <4> QED BY <1>1, <3>2, <4>1, <4>2 DEF TypeOK
    <3> QED BY <3>1, <3>2
  <2>6. CASE Move(r)
    BY <1>1, <2>1, <2>5, <2>6 DEF Move, Lowest, TypeOK
  <2>7. CASE \/ Acquire(r) \/ StopFrpc(r) \/ List(r) \/ Connect(r) \/ ConnectFails(r)
             \/ Poll(r) \/ Desire(r)
    BY <2>1, <2>7 DEF Acquire, StopFrpc, List, Connect, ConnectFails, Poll, Desire
  <2> QED BY <2>3, <2>4, <2>6, <2>7
<1>5. NoneKept
  BY <1>1, <1>4 DEF NoneKept
<1> QED BY <1>1, <1>2, <1>3, <1>5, BoxedKept

\* A container is started where nobody else's row or container is, or taken
\* away again.
LEMMA CreateBoxed ==
    ASSUME Base, Boxed, NEW r \in Requests, mode.faults = {},
           Pick(r) \/ Build(r) \/ Insert(r) \/ InsertFails(r)
    PROVE  Boxed'
<1> DEFINE e == req[r].env
<1>1. /\ TypeOK /\ req[r] # NoRequest /\ InStage(r, Creating)
      /\ ~InStage(r, {"remove"}) /\ ~Deletes(r)
  BY DEF Base, Pick, Build, Insert, InsertFails, At, InStage, Creating, Deletes
<1>2. /\ e \in Envs /\ req[r].row \in Row /\ row[e] = NoRow
      /\ \A q \in Requests : q # r /\ req[q] # NoRequest => req[q].env # e
      /\ box[e] = "none" <=> ~InStage(r, {"insert"})
  BY <1>1 DEF Base, Fresh, InStage
<1>3. CASE Pick(r)
  <2>1. NoneKept /\ ~InStage(r, {"insert"})
    BY <1>3 DEF NoneKept, Pick, At, InStage
  <2>2. CASE Return(r)
    BY <1>1, <2>1, <2>2, BoxedKept
  <2>3. ASSUME NEW mine, Becomes(r, mine, "build") PROVE Boxed'
    <3>1. /\ \A q \in Requests : q # r => req'[q] = req[q]
          /\ req'[r].stage = "build"
      BY <1>1, <2>3 DEF Becomes, TypeOK
    <3>2. \A q \in Requests :
             /\ InStage(q, {"remove"})' <=> InStage(q, {"remove"})
             /\ InStage(q, {"insert"})' <=> InStage(q, {"insert"})
             /\ Deletes(q)' <=> Deletes(q)
      BY <1>1, <2>1, <3>1 DEF InStage, Deletes
    <3>3. UNCHANGED <<row, box>>
      BY <1>3 DEF Pick
    <3> QED BY <1>1, <2>1, <3>1, <3>2, <3>3 DEF Boxed, InStage, Deletes
  <2> QED BY <1>3, <2>2, <2>3 DEF Pick
<1>4. CASE Build(r)
  <2>1. /\ box' = [box EXCEPT ![e] = "running"] /\ UNCHANGED row
        /\ \E mine : Becomes(r, mine, "insert")
    BY <1>4 DEF Build
  <2>2. /\ \A q \in Requests : q # r => req'[q] = req[q]
        /\ req'[r] # NoRequest /\ req'[r].stage = "insert" /\ req'[r].env = e
    BY <1>1, <2>1 DEF Becomes, TypeOK, NoRequest
  <2>3. /\ InStage(r, {"insert"})' /\ ~InStage(r, {"remove"})' /\ ~Deletes(r)'
        /\ ~InStage(r, {"insert"})
    BY <1>4, <2>2 DEF InStage, Deletes, Build, At
  <2>4. \A q \in Requests : q # r =>
           /\ InStage(q, {"remove"})' <=> InStage(q, {"remove"})
           /\ InStage(q, {"insert"})' <=> InStage(q, {"insert"})
           /\ Deletes(q)' <=> Deletes(q)
    BY <2>2 DEF InStage, Deletes
  <2>5. \A f \in Envs : f # e => box'[f] = box[f]
    BY <1>1, <2>1 DEF TypeOK
  <2>6. \A q \in Requests : InStage(q, {"remove"})' => req'[q].op = "delete"
    BY <2>2, <2>3, <2>4 DEF Boxed
  <2>7. \A q \in Requests : Deletes(q)' => box'[req'[q].env] = "none"
    <3>1. ASSUME NEW q \in Requests, Deletes(q)' PROVE box'[req'[q].env] = "none"
      <4>1. q # r /\ Deletes(q) /\ req'[q] = req[q]
        BY <2>2, <2>3, <2>4, <3>1
      <4>2. req[q].env # e /\ req[q].env \in Envs
        BY <1>2, <4>1 DEF Deletes, InStage, Base, Decided, Deciding
      <4> QED BY <2>5, <4>1, <4>2 DEF Boxed
    <3> QED BY <3>1
  <2>8. ASSUME NEW f \in Envs
        PROVE  /\ row'[f] = NoRow /\ box'[f] # "none" =>
                     \E q \in Requests : InStage(q, {"insert"})' /\ req'[q].env = f
               /\ row'[f] # NoRow /\ box'[f] = "none" =>
                     \E q \in Requests : Deletes(q)' /\ req'[q].env = f
    <3>1. CASE f = e
      BY <1>2, <2>1, <2>2, <2>3, <3>1
    <3>2. CASE f # e
      BY <1>1, <2>1, <2>2, <2>3, <2>4, <2>5, <3>2 DEF Boxed
    <3> QED BY <3>1, <3>2
  <2> QED BY <2>6, <2>7, <2>8 DEF Boxed
<1>5. CASE Insert(r)
  <2>1. row' = [row EXCEPT ![e] = req[r].row] /\ UNCHANGED box /\ box[e] # "none"
    BY <1>2, <1>5 DEF Insert, At, InStage
  <2>2. /\ \A q \in Requests : q # r => req'[q] = req[q]
        /\ ~InStage(r, {"insert"})' /\ ~InStage(r, {"remove"})' /\ ~Deletes(r)'
    <3>1. CASE Return(r)
      BY <1>1, <3>1, ReturnEnded DEF Ended, InStage, Deletes
    <3>2. CASE Goto(r, "lock")
      BY <1>1, <3>2, GotoMoved DEF Moved, InStage, Deletes, Stage
    <3> QED BY <1>5, <3>1, <3>2 DEF Insert, RefreshIfPublished
  <2>3. \A q \in Requests : q # r =>
           /\ InStage(q, {"remove"})' <=> InStage(q, {"remove"})
           /\ InStage(q, {"insert"})' <=> InStage(q, {"insert"})
           /\ Deletes(q)' <=> Deletes(q)
    BY <2>2 DEF InStage, Deletes
  <2>4. \A f \in Envs : f # e => row'[f] = row[f]
    BY <1>1, <2>1 DEF TypeOK
  <2>5. \A q \in Requests : InStage(q, {"remove"})' => req'[q].op = "delete"
    BY <2>2, <2>3 DEF Boxed
  <2>6. \A q \in Requests : Deletes(q)' => box'[req'[q].env] = "none"
    BY <2>1, <2>2, <2>3 DEF Boxed
  <2>7. ASSUME NEW f \in Envs
        PROVE  /\ row'[f] = NoRow /\ box'[f] # "none" =>
                     \E q \in Requests : InStage(q, {"insert"})' /\ req'[q].env = f
               /\ row'[f] # NoRow /\ box'[f] = "none" =>
                     \E q \in Requests : Deletes(q)' /\ req'[q].env = f
    <3>1. CASE f = e
      <4>1. row'[e] = req[r].row /\ req[r].row # NoRow
        BY <1>1, <1>2, <2>1, PublicationAssumption DEF TypeOK
      <4> QED BY <2>1, <3>1, <4>1
    <3>2. CASE f # e
      BY <1>1, <2>1, <2>2, <2>3, <2>4, <3>2 DEF Boxed
    <3> QED BY <3>1, <3>2
  <2> QED BY <2>5, <2>6, <2>7 DEF Boxed
<1>6. CASE InsertFails(r)
  BY <1>6 DEF InsertFails
<1> QED BY <1>3, <1>4, <1>5, <1>6

\* A row goes when its container is gone; Docker starts and stops only
\* containers there are.
LEMMA DecideBoxed ==
    ASSUME Base, Boxed, NEW r \in Requests, CallDocker(r) \/ Remove(r) \/ Record(r) \/ Sync(r)
    PROVE  Boxed'
<1> DEFINE e == req[r].env
<1>1. InStage(r, Deciding) /\ ~InStage(r, {"insert"})
  BY DEF CallDocker, Remove, Record, Sync, At, InStage, Deciding
<1>2. TypeOK /\ e \in Envs /\ req[r] # NoRequest
  BY <1>1, DecidingFacts
<1>3. RefreshIfPublished(r) => Return(r) \/ Goto(r, "lock")
  BY DEF RefreshIfPublished
<1>4. CASE CallDocker(r)
  <2>1. ~Deletes(r) /\ UNCHANGED row
    BY <1>4 DEF CallDocker, At, InStage, Deletes
  <2>2. \A f \in Envs : box'[f] = "none" <=> box[f] = "none"
    BY <1>2, <1>4 DEF CallDocker, Starts, TypeOK
  <2>3. \/ Return(r)
        \/ \E s \in Stage \ {"insert"} :
              /\ Goto(r, s)
              /\ s = "remove" => req[r].op = "delete"
              /\ s = "record" => req[r].op # "delete"
    <3>1. CASE Return(r)
      BY <3>1
    <3>2. CASE Goto(r, IF req[r].op = "delete" THEN "remove"
                       ELSE IF req[r].op = "restart" THEN "sync" ELSE "record")
      BY <3>2 DEF Stage
    <3> QED BY <1>4, <3>1, <3>2 DEF CallDocker
  <2> QED BY <1>1, <1>2, <2>1, <2>2, <2>3, BoxedKept DEF NoneKept
<1>5. CASE Remove(r)
  <2>1. ~Deletes(r) /\ UNCHANGED row /\ InStage(r, {"remove"})
    BY <1>5 DEF Remove, At, InStage, Deletes
  <2>2. CASE Return(r) /\ UNCHANGED box
    BY <1>1, <2>1, <2>2, BoxedKept DEF NoneKept
  <2>3. CASE box' = [box EXCEPT ![e] = "none"] /\ Goto(r, "record")
    <3>1. /\ \A q \in Requests : q # r => req'[q] = req[q]
          /\ Deletes(r)' /\ ~InStage(r, {"remove"})' /\ req'[r].env = e /\ req'[r].op = "delete"
      BY <1>2, <2>1, <2>3, GotoMoved DEF Moved, InStage, Deletes, Boxed, Stage
    <3>2. \A q \in Requests : q # r =>
             /\ InStage(q, {"remove"})' <=> InStage(q, {"remove"})
             /\ InStage(q, {"insert"})' <=> InStage(q, {"insert"})
             /\ Deletes(q)' <=> Deletes(q)
      BY <3>1 DEF InStage, Deletes
    <3>3. box'[e] = "none" /\ \A f \in Envs : f # e => box'[f] = box[f]
      BY <1>2, <2>3 DEF TypeOK
    <3>4. \A q \in Requests : InStage(q, {"remove"})' => req'[q].op = "delete"
      BY <3>1, <3>2 DEF Boxed
    <3>5. \A q \in Requests : Deletes(q)' => box'[req'[q].env] = "none"
      <4>1. ASSUME NEW q \in Requests, Deletes(q)', q # r, req[q].env # e
            PROVE  box'[req'[q].env] = "none"
        <5>1. Deletes(q) /\ req'[q] = req[q]
          BY <3>1, <3>2, <4>1
        <5>2. req[q].env \in Envs
          BY <5>1 DEF Deletes, InStage, Base, Decided, Deciding
        <5> QED BY <3>3, <4>1, <5>1, <5>2 DEF Boxed
      <4> QED BY <3>1, <3>3, <4>1
    <3>6. ASSUME NEW f \in Envs
          PROVE  /\ row'[f] = NoRow /\ box'[f] # "none" =>
                       \E q \in Requests : InStage(q, {"insert"})' /\ req'[q].env = f
                 /\ row'[f] # NoRow /\ box'[f] = "none" =>
                       \E q \in Requests : Deletes(q)' /\ req'[q].env = f
      <4>1. CASE f = e
        BY <3>1, <3>3, <4>1
      <4>2. CASE f # e
        BY <1>1, <2>1, <3>1, <3>2, <3>3, <4>2 DEF Boxed
      <4> QED BY <4>1, <4>2
    <3> QED BY <3>4, <3>5, <3>6 DEF Boxed
  <2> QED BY <1>5, <2>2, <2>3 DEF Remove
<1>6. CASE Record(r) /\ req[r].op # "delete"
  <2>1. WithRow(e, [row[e] EXCEPT !.desired = req[r].op = "start"]) /\ UNCHANGED box
    BY <1>6 DEF Record
  <2>2. \A f \in Envs : row'[f] = NoRow <=> row[f] = NoRow
    <3>1. CASE row[e] = NoRow
      BY <2>1, <3>1 DEF WithRow
    <3>2. CASE row[e] # NoRow
      <4> DEFINE new == [row[e] EXCEPT !.desired = req[r].op = "start"]
      <4>1. new # NoRow
        BY <1>2, <3>2, SetDesired DEF TypeOK
      <4>2. row' = [row EXCEPT ![e] = new]
        BY <2>1, <3>2 DEF WithRow
      <4> HIDE DEF new
      <4> QED BY <1>2, <3>2, <4>1, <4>2 DEF TypeOK
    <3> QED BY <3>1, <3>2
  <2>3. Return(r) \/ \E s \in {"lock", "sync"} : Goto(r, s)
    BY <1>3, <1>6 DEF Record
  <2>4. ~Deletes(r)
    BY <1>6 DEF Deletes
  <2> QED BY <1>1, <1>2, <2>1, <2>2, <2>3, <2>4, BoxedKept DEF NoneKept, Stage
<1>7. CASE Record(r) /\ req[r].op = "delete"
  <2>1. /\ Deletes(r) /\ UNCHANGED box
        /\ row' = IF row[e] = NoRow THEN row ELSE [row EXCEPT ![e] = NoRow]
    BY <1>7 DEF Record, At, InStage, Deletes, WithRow
  <2>2. box[e] = "none" /\ row'[e] = NoRow /\ \A f \in Envs : f # e => row'[f] = row[f]
    BY <1>2, <2>1 DEF Boxed, TypeOK
  <2>3. /\ \A q \in Requests : q # r => req'[q] = req[q]
        /\ ~InStage(r, {"insert"})' /\ ~InStage(r, {"remove"})' /\ ~Deletes(r)'
    <3>1. CASE Return(r)
      BY <1>2, <3>1, ReturnEnded DEF Ended, InStage, Deletes
    <3>2. CASE Goto(r, "lock")
      BY <1>2, <3>2, GotoMoved DEF Moved, InStage, Deletes, Stage
    <3> QED BY <1>3, <1>7, <3>1, <3>2 DEF Record
  <2>4. \A q \in Requests : q # r =>
           /\ InStage(q, {"remove"})' <=> InStage(q, {"remove"})
           /\ InStage(q, {"insert"})' <=> InStage(q, {"insert"})
           /\ Deletes(q)' <=> Deletes(q)
    BY <2>3 DEF InStage, Deletes
  <2>5. \A q \in Requests : InStage(q, {"remove"})' => req'[q].op = "delete"
    BY <2>3, <2>4 DEF Boxed
  <2>6. \A q \in Requests : Deletes(q)' => box'[req'[q].env] = "none"
    BY <2>1, <2>3, <2>4 DEF Boxed
  <2>7. ASSUME NEW f \in Envs
        PROVE  /\ row'[f] = NoRow /\ box'[f] # "none" =>
                     \E q \in Requests : InStage(q, {"insert"})' /\ req'[q].env = f
               /\ row'[f] # NoRow /\ box'[f] = "none" =>
                     \E q \in Requests : Deletes(q)' /\ req'[q].env = f
    <3>1. CASE f = e
      BY <2>1, <2>2, <3>1
    <3>2. CASE f # e
      BY <1>1, <2>1, <2>2, <2>3, <2>4, <3>2 DEF Boxed, Deletes
    <3> QED BY <3>1, <3>2
  <2> QED BY <2>5, <2>6, <2>7 DEF Boxed
<1>8. CASE Sync(r)
  <2>1. ~Deletes(r) /\ UNCHANGED box
    BY <1>8 DEF Sync, At, InStage, Deletes
  <2>2. \A f \in Envs : row'[f] = NoRow <=> row[f] = NoRow
    BY <1>8, SameRows DEF Sync
  <2>3. Return(r) \/ Goto(r, "lock")
    BY <1>3, <1>8 DEF Sync
  <2> QED BY <1>1, <1>2, <2>1, <2>2, <2>3, BoxedKept DEF NoneKept, Stage
<1> QED BY <1>4, <1>5, <1>6, <1>7, <1>8

\* A request that arrives is not yet at a stage that Boxed is about.
LEMMA ArriveBoxed == ASSUME Base, Boxed, NEW r \in Requests, Arrive(r) PROVE Boxed'
<1>1. TypeOK /\ req[r] = NoRequest
  BY DEF Base, Arrive, BeginCreate, BeginLifecycle, BeginLocked, BeginList, Begin, Arrives
<1>2. UNCHANGED box
  BY DEF Arrive, BeginCreate, BeginLifecycle, BeginLocked, BeginList
<1>3. \A f \in Envs : row'[f] = NoRow <=> row[f] = NoRow
  BY SameRows DEF Arrive, BeginCreate, BeginLifecycle, BeginLocked, BeginList
<1>4. \/ UNCHANGED req
      \/ \E op, e, mine : \E s \in {"pick", "build", "docker", "lock"} :
            req' = [req EXCEPT ![r] = [op |-> op, env |-> e, row |-> mine, stage |-> s]]
  BY DEF Arrive, BeginCreate, BeginLifecycle, BeginLocked, BeginList, Begin
<1>5. /\ \A q \in Requests : q # r => req'[q] = req[q]
      /\ ~InStage(r, {"remove"})' /\ ~InStage(r, {"insert"})' /\ ~Deletes(r)'
  BY <1>1, <1>4 DEF InStage, Deletes, TypeOK
<1>6. ~InStage(r, {"remove"}) /\ ~InStage(r, {"insert"}) /\ ~Deletes(r)
  BY <1>1 DEF InStage, Deletes
<1>7. \A q \in Requests :
         /\ InStage(q, {"remove"})' <=> InStage(q, {"remove"})
         /\ InStage(q, {"insert"})' <=> InStage(q, {"insert"})
         /\ Deletes(q)' <=> Deletes(q)
  BY <1>5, <1>6 DEF InStage, Deletes
<1>8. \A q \in Requests : InStage(q, {"remove"})' => req'[q].op = "delete"
  BY <1>5, <1>7 DEF Boxed
<1>9. \A q \in Requests : Deletes(q)' => box'[req'[q].env] = "none"
  BY <1>2, <1>5, <1>7 DEF Boxed
<1>10. ASSUME NEW f \in Envs
       PROVE  /\ row'[f] = NoRow /\ box'[f] # "none" =>
                    \E q \in Requests : InStage(q, {"insert"})' /\ req'[q].env = f
              /\ row'[f] # NoRow /\ box'[f] = "none" =>
                    \E q \in Requests : Deletes(q)' /\ req'[q].env = f
  BY <1>2, <1>3, <1>5, <1>6, <1>7 DEF Boxed
<1> QED BY <1>8, <1>9, <1>10 DEF Boxed

\* Docker restarts only a container there is.
LEMMA RestartsBoxed == ASSUME Base, Boxed, NEW e \in Envs, ContainerRestarts(e) PROVE Boxed'
<1>1. UNCHANGED <<row, req>> /\ \A f \in Envs : box'[f] = "none" <=> box[f] = "none"
  BY DEF Base, TypeOK, ContainerRestarts, Starts
<1>2. \A q \in Requests : /\ InStage(q, {"remove"})' <=> InStage(q, {"remove"})
                          /\ InStage(q, {"insert"})' <=> InStage(q, {"insert"})
                          /\ Deletes(q)' <=> Deletes(q)
  BY <1>1 DEF InStage, Deletes
<1>3. \A q \in Requests : Deletes(q) => req[q].env \in Envs
  BY DEF Deletes, Base, Decided, InStage, Deciding
<1> QED BY <1>1, <1>2, <1>3 DEF Boxed

\* Every step keeps rows and containers together,
LEMMA NextBoxes == ASSUME Base, Boxes, [Next]_vars PROVE Boxes'
<1>1. ASSUME NEW r \in Requests, Crash(r) PROVE Boxes'
  BY <1>1 DEF Boxes, Crash
<1>2. ASSUME NEW r \in Requests, Drop(r) PROVE Boxes'
  BY <1>2 DEF Boxes, Drop
<1>3. SUFFICES ASSUME UNCHANGED <<mode, crashes>>, mode.faults = {}, Boxed,
                      ~\E r \in Requests : Crash(r) \/ Drop(r)
               PROVE  Boxed'
  <2>1. ASSUME NEW r \in Requests, Arrive(r) PROVE UNCHANGED <<mode, crashes>>
    BY <2>1 DEF Arrive, BeginCreate, BeginLifecycle, BeginLocked, BeginList, Begin, Arrives
  <2>2. ASSUME NEW r \in Requests, Lock(r) \/ Step(r) PROVE UNCHANGED <<mode, crashes>>
    BY <2>2 DEF Lock, Step
  <2>3. ASSUME NEW e \in Envs, ContainerRestarts(e) PROVE UNCHANGED <<mode, crashes>>
    BY <2>3 DEF ContainerRestarts
  <2>4. UNCHANGED vars => UNCHANGED <<mode, crashes>>
    BY DEF vars
  <2>5. UNCHANGED <<mode, crashes>> \/ \E r \in Requests : Crash(r) \/ Drop(r)
    BY <2>1, <2>2, <2>3, <2>4 DEF Next
  <2> QED BY <1>1, <1>2, <2>5 DEF Boxes
<1>4. CASE UNCHANGED vars
  BY <1>3, <1>4 DEF Boxed, InStage, Deletes, vars
<1>5. ASSUME NEW r \in Requests, Lock(r) \/ Step(r) PROVE Boxed'
  BY <1>3, <1>5, LockedBoxed, CreateBoxed, DecideBoxed DEF Lock, Step
<1>6. ASSUME NEW r \in Requests, Arrive(r) PROVE Boxed'
  BY <1>3, <1>6, ArriveBoxed
<1>7. ASSUME NEW e \in Envs, ContainerRestarts(e) PROVE Boxed'
  BY <1>3, <1>7, RestartsBoxed
<1> QED BY <1>3, <1>4, <1>5, <1>6, <1>7 DEF Next

\* and they are to begin with.
LEMMA InitBoxes == Init => Boxes
<1> SUFFICES ASSUME Init PROVE Boxes
  OBVIOUS
<1>1. \A e \in Envs : row[e] = NoRow <=> box[e] = "none"
  BY DEF Init
<1>2. \A r \in Requests : ~InStage(r, {"remove"}) /\ ~Deletes(r)
  BY DEF Init, InStage, Deletes
<1> QED BY <1>1, <1>2 DEF Init, Boxes, Boxed

(* Where nothing fails, no container is left without its row and no row    *)
(* without its container when all requests have been answered, in whatever *)
(* order creations, starts, stops and deletions met: a row is deleted only *)
(* after Docker has removed the container, and Docker refuses to remove    *)
(* one that a request that overlaps has started.                           *)
THEOREM RowsHaveContainersCorrect == Spec => []RowsHaveContainers
<1>1. Boxes => RowsHaveContainers
  <2>1. ASSUME Boxed, Busy = {}, NEW e \in Envs PROVE row[e] = NoRow <=> box[e] = "none"
    BY <2>1 DEF Boxed, Busy, InStage, Deletes
  <2> QED BY <2>1 DEF Boxes, RowsHaveContainers
<1> QED BY <1>1, InitBase, NextBase, InitBoxes, NextBoxes, PTL DEF Spec

-----------------------------------------------------------------------------
(* What frpc forwards, where nothing fails and nothing overlaps *)

Undisturbed == ~mode.overlap /\ mode.faults = {}

(* A request that changes an environment has read the row as it still is,  *)
(* and has not lost the container it started.                              *)
MineOf(r) ==
    LET e == req[r].env
    IN  /\ InStage(r, {"docker", "remove", "record"}) => row[e] = req[r].row
        /\ InStage(r, {"remove"}) => req[r].op = "delete"
        /\ InStage(r, {"record"}) /\ req[r].op = "start" => box[e] # "none"
        /\ InStage(r, {"sync"}) => /\ row[e] # NoRow /\ box[e] # "none"
                                   /\ row[e].published = req[r].row.published
Mine == \A r \in Requests : MineOf(r)

(* frpc is to run, by its record or by a start that is under way.          *)
Searching == {"list", "inspect", "connect", "poll", "move", "desire"}
Wanted == desired \/ \E r \in Requests : InStage(r, Searching) /\ req[r].op = "startFrpc"

(* A request that will make frpc anew, or note that it is not to run.      *)
Awaits(r) == InStage(r, {"lock"}) /\ req[r].op \in Lifecycle \cup {"list", "boot"}
Owes(r) ==
    \/ InStage(r, {"list", "inspect", "connect", "undesire"})
    \/ Awaits(r)
    \/ InStage(r, {"record", "sync"}) /\ req[r].row.published

(* frpc forwards what the rows say.                                        *)
InLine ==
    /\ DOMAIN forwards = Proxied(row)
    /\ \A e \in DOMAIN forwards :
          /\ forwards[e].local = row[e].local
          /\ e \in refused \/ forwards[e].remote = row[e].remote

(* An environment that should run has lost its container, and every        *)
(* refresh fails at it; or one that frpc should forward does not run.      *)
LameAt(e) == /\ row[e] # NoRow /\ row[e].desired /\ box[e] = "none"
             /\ \A r \in Requests : ~(InStage(r, {"record"}) /\ req[r].env = e)
Lame == \E e \in Envs : LameAt(e)
Down == \E e \in Proxied(row) : box[e] # "running"

(* frpc is as the rows say, or a refresh is owed, or none can succeed.     *)
Tracked == Wanted => InLine \/ Lame \/ Down \/ \E r \in Requests : Owes(r)

(* A list of the rows is what the rows are, or another request will see to *)
(* what has changed.                                                       *)
Seen ==
    \A r \in Requests : InStage(r, {"inspect", "connect"}) =>
        view = row \/ Lame \/ \E q \in Requests : q # r /\ Awaits(q)

(* Only a start by the user records that frpc is to run, and a conflict is *)
(* one that frpc has reported.                                             *)
Asked == \A r \in Requests : InStage(r, {"desire"}) => req[r].op = "startFrpc"
Found == conflicts \subseteq refused

\* All of it, and what the steps may use.
Good    == Mine /\ Tracked /\ Seen /\ Asked /\ Found
Settled == Undisturbed => Good
Quiet   == Base /\ Alone /\ Search /\ Undisturbed /\ Good

\* A step of one request.
Acts(r) == \A q \in Requests : q # r => req'[q] = req[q]

\* What frpc is given of the rows stays, but for the ports that were refused.
AsServed ==
    \A e \in Envs :
        /\ e \in Proxied(row') <=> e \in Proxied(row)
        /\ e \in Proxied(row) =>
              /\ row'[e].local = row[e].local
              /\ e \in refused \/ row'[e].remote = row[e].remote

\* Rows that stay as they are serve as they did.
LEMMA RowStays == ASSUME UNCHANGED row PROVE AsServed
BY DEF AsServed

\* A handler that changes environments is alone.
LEMMA OnlyMine ==
    ASSUME Base, Alone, NEW r \in Requests, InStage(r, Creating \cup Deciding)
    PROVE  \A q \in Requests : q # r => req[q] = NoRequest
<1>1. req[r].op \in Lifecycle /\ req[r] # NoRequest
  BY DEF Base, Fresh, Decided, InStage, Lifecycle
<1> QED BY <1>1 DEF Alone

\* The step of a handler that changes no environment meets none that does.
LEMMA OthersMine ==
    ASSUME Base, Alone, NEW r \in Requests, req[r] # NoRequest,
           (\E mine, s : Moved(r, mine, s) /\ s \notin Deciding) \/ Ended(r)
    PROVE  Mine'
<1> SUFFICES ASSUME NEW q \in Requests, InStage(q, Deciding)' PROVE FALSE
  BY DEF Mine, MineOf, InStage, Deciding
<1>1. q # r /\ InStage(q, Deciding)
  BY DEF Moved, Ended, InStage
<1>2. req[q].op \in Lifecycle /\ req[q] # NoRequest
  BY <1>1 DEF Base, Decided, InStage
<1> QED BY <1>1, <1>2 DEF Alone

\* Where no row comes or goes, none is told to run, and no container comes.
LEMMA LameStays ==
    ASSUME NEW r \in Requests, Lame,
           \A e \in Envs : row[e] # NoRow /\ row[e].desired /\ box[e] = "none" =>
               row'[e] # NoRow /\ row'[e].desired /\ box'[e] = "none",
           Acts(r), InStage(r, {"record"})' => ~LameAt(req'[r].env)
    PROVE  Lame'
<1>1. PICK e \in Envs : LameAt(e)
  BY DEF Lame
<1>2. ASSUME NEW q \in Requests, InStage(q, {"record"})', req'[q].env = e PROVE FALSE
  <2>1. q # r
    BY <1>1, <1>2
  <2>2. req'[q] = req[q]
    BY <2>1 DEF Acts
  <2> QED BY <1>1, <1>2, <2>2 DEF LameAt, InStage
<1>3. row'[e] # NoRow /\ row'[e].desired /\ box'[e] = "none"
  BY <1>1 DEF LameAt
<1>4. LameAt(e)'
  BY <1>2, <1>3 DEF LameAt
<1> QED BY <1>4 DEF Lame

\* A request that owes no refresh leaves what frpc forwards in line.
LEMMA TrackedStays ==
    ASSUME Tracked, NEW r \in Requests, ~Owes(r), Acts(r),
           Wanted' => Wanted, Lame => Lame', AsServed, UNCHANGED <<forwards, refused>>,
           \A e \in Proxied(row) : box[e] # "running" => box'[e] # "running"
    PROVE  Tracked'
<1> SUFFICES ASSUME Wanted, ~Lame PROVE InLine' \/ Down' \/ \E q \in Requests : Owes(q)'
  BY DEF Tracked
<1>1. Proxied(row) \subseteq Envs /\ Proxied(row') \subseteq Envs
  BY DEF Proxied
<1>2. CASE InLine
  BY <1>1, <1>2 DEF InLine, AsServed
<1>3. CASE Down
  BY <1>1, <1>3 DEF Down, AsServed
<1>4. ASSUME NEW q \in Requests, Owes(q) PROVE Owes(q)'
  <2>1. req'[q] = req[q]
    BY <1>4 DEF Acts
  <2> QED BY <1>4, <2>1 DEF Owes, Awaits, InStage
<1> QED BY <1>2, <1>3, <1>4 DEF Tracked

\* Nobody begins to want frpc.
LEMMA WantedStays ==
    ASSUME NEW r \in Requests, UNCHANGED desired, Acts(r),
           InStage(r, Searching)' => InStage(r, Searching) \/ req[r].op # "startFrpc",
           InStage(r, Searching)' => req'[r].op = req[r].op
    PROVE  Wanted' => Wanted
BY DEF Wanted, Acts, InStage

\* What the holder of the lock has listed, another request does not change.
LEMMA SeenByHolder ==
    ASSUME Base, Seen, NEW r \in Requests, NEW q \in Requests, q # r,
           InStage(q, {"inspect", "connect"}), req'[q] = req[q],
           UNCHANGED view, Lame => Lame', Acts(r), ~Awaits(r),
           \/ UNCHANGED row
           \/ Lame'
           \/ \E p \in Requests : p # q /\ Awaits(p)'
    PROVE  view' = row' \/ Lame' \/ \E p \in Requests : p # q /\ Awaits(p)'
<1>1. ASSUME NEW p \in Requests, Awaits(p) PROVE Awaits(p)'
  <2>1. req'[p] = req[p]
    BY <1>1 DEF Acts
  <2> QED BY <1>1, <2>1 DEF Awaits, InStage
<1> QED BY <1>1 DEF Seen

\* The only handler that changes environments.
LEMMA MineMoves ==
    ASSUME Base, Alone, NEW r \in Requests, InStage(r, Creating \cup Deciding), Acts(r), MineOf(r)'
    PROVE  Mine'
<1>1. \A q \in Requests : q # r => req'[q] = NoRequest
  BY OnlyMine DEF Acts
<1> QED BY <1>1 DEF Mine, MineOf, InStage

\* A request without the lock that changes at most its own environment, and
\* then owes a refresh or has changed nothing frpc is to forward.
LEMMA OutsideGood ==
    ASSUME Quiet, NEW r \in Requests, ~InStage(r, Locked), ~Awaits(r), Acts(r),
           ~InStage(r, Locked)', UNCHANGED <<view, conflicts, frpc>>,
           UNCHANGED row \/ (req[r] # NoRequest /\ req[r].op \in Lifecycle),
           Mine', Lame => Lame',
           \/ Owes(r)'
           \/ /\ ~Owes(r) /\ AsServed
              /\ \A e \in Proxied(row) : box[e] # "running" => box'[e] # "running"
    PROVE  Good'
<1>1. ~InStage(r, Searching)'
  BY DEF InStage, Searching, Locked
<1>2. Tracked'
  <2>1. CASE Owes(r)'
    BY <2>1 DEF Tracked
  <2>2. CASE ~Owes(r)'
    <3>1. Wanted' => Wanted
      BY <1>1, WantedStays
    <3> QED BY <2>2, <3>1, TrackedStays DEF Quiet, Good
  <2> QED BY <2>1, <2>2
<1>3. ASSUME NEW q \in Requests, InStage(q, {"inspect", "connect"})'
      PROVE  view' = row' \/ Lame' \/ \E p \in Requests : p # q /\ Awaits(p)'
  <2>1. q # r
    BY <1>1, <1>3 DEF InStage, Searching
  <2>2. req'[q] = req[q] /\ InStage(q, {"inspect", "connect"})
    BY <1>3, <2>1 DEF Acts, InStage
  <2>3. UNCHANGED row
    BY <2>1, <2>2 DEF Quiet, Alone, InStage
  <2> QED BY <2>1, <2>2, <2>3, SeenByHolder DEF Quiet, Good
<1>4. Asked'
  <2>1. ASSUME NEW q \in Requests, InStage(q, {"desire"})' PROVE req'[q].op = "startFrpc"
    <3>1. q # r
      BY <1>1, <2>1 DEF InStage, Searching
    <3>2. req'[q] = req[q] /\ InStage(q, {"desire"})
      BY <2>1, <3>1 DEF Acts, InStage
    <3> QED BY <3>2 DEF Quiet, Good, Asked
  <2> QED BY <2>1 DEF Asked
<1>5. Seen'
  BY <1>3 DEF Seen
<1> QED BY <1>2, <1>4, <1>5 DEF Good, Quiet, Found

\* What a handler without the lock leaves alone when it goes on or returns.
LEMMA OutsideStep ==
    ASSUME Base, NEW r \in Requests, InStage(r, Creating \cup Deciding),
           \/ Return(r)
           \/ \E mine, s : Moved(r, mine, s) /\ s \notin Locked /\ UNCHANGED <<lock, scratch>>
    PROVE  /\ ~InStage(r, Locked) /\ ~Awaits(r) /\ Acts(r) /\ ~InStage(r, Locked)'
           /\ UNCHANGED <<view, conflicts>> /\ req[r] # NoRequest /\ req[r].op \in Lifecycle
<1>1. ~InStage(r, Locked) /\ ~Awaits(r) /\ req[r] # NoRequest
  BY DEF InStage, Awaits, Locked, Creating, Deciding
<1>2. req[r].op \in Lifecycle
  BY DEF Base, Fresh, Decided, InStage, Lifecycle
<1>3. CASE Return(r)
  <2>1. Ended(r) /\ lock # r
    BY <1>1, <1>3, ReturnEnded DEF Base, Holder
  <2> QED BY <1>1, <1>2, <2>1 DEF Ended, Acts, InStage
<1>4. ASSUME NEW mine, NEW s, Moved(r, mine, s), s \notin Locked, UNCHANGED <<lock, scratch>>
      PROVE  Acts(r) /\ ~InStage(r, Locked)' /\ UNCHANGED <<view, conflicts>>
  BY <1>4 DEF Moved, Acts, InStage
<1> QED BY <1>1, <1>2, <1>3, <1>4

\* A port is picked, and the container is made and started.
LEMMA BuildGood ==
    ASSUME Quiet, NEW r \in Requests, Pick(r) \/ Build(r)
    PROVE  Good'
<1> DEFINE e == req[r].env
<1>1. /\ InStage(r, {"pick", "build"}) /\ InStage(r, Creating \cup Deciding) /\ InStage(r, Creating)
      /\ TypeOK /\ UNCHANGED <<row, frpc>> /\ req[r] # NoRequest
  BY DEF Pick, Build, At, InStage, Creating, Quiet, Base
<1>2. e \in Envs /\ row[e] = NoRow /\ req[r].row \in Row
  BY <1>1 DEF Quiet, Base, Fresh, InStage
<1>3. \A f \in Envs : f # e => box'[f] = box[f]
  BY <1>1, <1>2 DEF Pick, Build, Remains, Quiet, TypeOK
<1>4. \/ Return(r)
      \/ \E mine, s : /\ Moved(r, mine, s) /\ s \in {"build", "insert"}
                      /\ UNCHANGED <<lock, scratch>>
  <2>1. CASE Pick(r)
    <3>1. ASSUME NEW p \in Ports PROVE [req[r].row EXCEPT !.remote = p] \in Row
      BY <1>2, SetRemote
    <3>2. req[r].row.automatic \/ req[r].row.remote \in Ports \cup {0}
      BY <1>2 DEF Row
    <3>3. ASSUME NEW p, Becomes(r, [req[r].row EXCEPT !.remote = p], "build"), p \in Ports \cup {0}
          PROVE  \E mine, s : Moved(r, mine, s) /\ s \in {"build", "insert"}
      <4>1. [req[r].row EXCEPT !.remote = p] \in Row
        BY <1>2, <3>3, SetRemote
      <4> QED BY <1>1, <3>3, <4>1, BecomesMoved DEF Stage
    <3> QED BY <1>2, <2>1, <3>2, <3>3 DEF Pick, Lowest, Row
  <2>2. CASE Build(r)
    <3>1. host[e] \in 0..2
      BY <1>1, <1>2 DEF TypeOK
    <3>2. [req[r].row EXCEPT !.local = host[e]] \in Row
      BY <1>2, <3>1, SetLocal
    <3> QED BY <1>1, <2>2, <3>2, BecomesMoved DEF Build, Stage
  <2> QED BY <2>1, <2>2
<1>5. Return(r) \/ \E mine, s : Moved(r, mine, s) /\ s \notin Locked /\ UNCHANGED <<lock, scratch>>
  BY <1>4 DEF Locked
<1>6. /\ ~InStage(r, Locked) /\ ~Awaits(r) /\ Acts(r) /\ ~InStage(r, Locked)'
      /\ UNCHANGED <<view, conflicts>> /\ ~InStage(r, {"record"})' /\ ~Owes(r)
  <2>1. ~InStage(r, {"record"})'
    BY <1>1, <1>4, ReturnEnded DEF Ended, Moved, InStage
  <2>2. ~Owes(r)
    BY <1>1 DEF Owes, Awaits, InStage
  <2> QED BY <1>1, <1>5, <2>1, <2>2, OutsideStep DEF Quiet
<1>7. Mine'
  <2>1. (\E mine, s : Moved(r, mine, s) /\ s \notin Deciding) \/ Ended(r)
    BY <1>1, <1>4, ReturnEnded DEF Deciding
  <2> QED BY <1>1, <2>1, OthersMine DEF Quiet
<1>8. Lame => Lame'
  BY <1>1, <1>2, <1>3, <1>6, LameStays
<1>9. \A f \in Proxied(row) : f # e /\ f \in Envs
  BY <1>2 DEF Proxied
<1> QED BY <1>1, <1>3, <1>6, <1>7, <1>8, <1>9, RowStays, OutsideGood

\* The row of the new environment is written.
LEMMA InsertGood ==
    ASSUME Quiet, NEW r \in Requests, Insert(r)
    PROVE  Good'
<1> DEFINE e == req[r].env
<1>1. /\ InStage(r, {"insert"}) /\ InStage(r, Creating \cup Deciding) /\ InStage(r, Creating)
      /\ TypeOK /\ UNCHANGED <<box, frpc>> /\ req[r] # NoRequest
  BY DEF Insert, At, InStage, Creating, Quiet, Base
<1>2. e \in Envs /\ row[e] = NoRow /\ req[r].row \in Row /\ req[r].op = "create"
  BY <1>1 DEF Quiet, Base, Fresh, InStage
<1>3. row'[e] = req[r].row /\ \A f \in Envs : f # e => row'[f] = row[f]
  BY <1>1, <1>2 DEF Insert, TypeOK
<1>4. \/ Return(r) /\ ~req[r].row.published
      \/ Moved(r, req[r].row, "lock") /\ UNCHANGED <<lock, scratch>>
  BY <1>1, GotoMoved DEF Insert, RefreshIfPublished, Stage
<1>5. Return(r) \/ \E mine, s : Moved(r, mine, s) /\ s \notin Locked /\ UNCHANGED <<lock, scratch>>
  BY <1>4 DEF Locked
<1>6. /\ ~InStage(r, Locked) /\ ~Awaits(r) /\ Acts(r) /\ ~InStage(r, Locked)'
      /\ UNCHANGED <<view, conflicts>> /\ ~InStage(r, {"record"})' /\ ~Owes(r)
      /\ req[r].op \in Lifecycle
  <2>1. ~InStage(r, {"record"})'
    BY <1>1, <1>4, ReturnEnded DEF Ended, Moved, InStage
  <2>2. ~Owes(r)
    BY <1>1 DEF Owes, Awaits, InStage
  <2> QED BY <1>1, <1>5, <2>1, <2>2, OutsideStep DEF Quiet
<1>7. Mine'
  <2>1. (\E mine, s : Moved(r, mine, s) /\ s \notin Deciding) \/ Ended(r)
    BY <1>1, <1>4, ReturnEnded DEF Deciding
  <2> QED BY <1>1, <2>1, OthersMine DEF Quiet
<1>8. Lame => Lame'
  BY <1>1, <1>2, <1>3, <1>6, LameStays
<1>9. Owes(r)' \/ AsServed
  <2>1. CASE Moved(r, req[r].row, "lock")
    BY <1>2, <2>1 DEF Moved, Owes, Awaits, InStage, Lifecycle
  <2>2. CASE ~req[r].row.published
    BY <1>2, <1>3, <2>2 DEF AsServed, Proxied
  <2> QED BY <1>4, <2>1, <2>2
<1> QED BY <1>1, <1>6, <1>7, <1>8, <1>9, OutsideGood

\* What a handler that changes an environment has read.
LEMMA DecideFacts ==
    ASSUME Quiet, NEW r \in Requests, InStage(r, Deciding)
    PROVE  /\ TypeOK /\ req[r] # NoRequest /\ InStage(r, Creating \cup Deciding)
           /\ req[r].env \in Envs /\ req[r].row \in Row /\ req[r].op \in Lifecycle
           /\ row[req[r].env] # NoRow /\ MineOf(r)
           /\ req[r].row.published <=> row[req[r].env].published
<1>1. MineOf(r)
  BY DEF Quiet, Good, Mine
<1>2. req[r].row \in Row /\ req[r].row # NoRow
  BY DecidingFacts, PublicationAssumption DEF Quiet
<1> QED BY <1>1, <1>2, DecidingFacts DEF Quiet, MineOf, InStage, Deciding

\* A step of such a handler.
LEMMA DecideGood ==
    ASSUME Quiet, NEW r \in Requests, InStage(r, Deciding), UNCHANGED frpc,
           \/ Return(r)
           \/ \E mine, s : Moved(r, mine, s) /\ s \notin Locked /\ UNCHANGED <<lock, scratch>>,
           MineOf(r)', Lame => Lame',
           \/ Owes(r)'
           \/ /\ ~Owes(r) /\ AsServed
              /\ \A e \in Proxied(row) : box[e] # "running" => box'[e] # "running"
    PROVE  Good'
<1>1. InStage(r, Creating \cup Deciding) /\ Base /\ Alone
  BY DEF InStage, Quiet
<1>2. /\ ~InStage(r, Locked) /\ ~Awaits(r) /\ Acts(r) /\ ~InStage(r, Locked)'
      /\ UNCHANGED <<view, conflicts>> /\ req[r] # NoRequest /\ req[r].op \in Lifecycle
  BY <1>1, OutsideStep
<1>3. Mine'
  BY <1>1, <1>2, MineMoves
<1> QED BY <1>2, <1>3, OutsideGood

\* Docker starts or stops a container.
LEMMA CallDockerGood ==
    ASSUME Quiet, NEW r \in Requests, CallDocker(r)
    PROVE  Good'
<1> DEFINE e == req[r].env
           op == req[r].op
           starts == op = "restart" \/ (op = "start" /\ box[e] # "running")
           stops  == op = "stop" \/ (op = "delete" /\ req[r].row.desired)
           next == IF op = "delete" THEN "remove" ELSE IF op = "restart" THEN "sync" ELSE "record"
<1>1. InStage(r, {"docker"}) /\ InStage(r, Deciding) /\ UNCHANGED <<row, frpc>>
  BY DEF CallDocker, At, InStage, Deciding
<1>2. /\ TypeOK /\ e \in Envs /\ row[e] = req[r].row /\ row[e] # NoRow /\ req[r] # NoRequest
      /\ req[r].row.published <=> row[e].published
  BY <1>1, DecideFacts DEF MineOf, InStage
<1>3. ~Owes(r)
  BY <1>1 DEF Owes, Awaits, InStage
<1>4. CASE Return(r) /\ UNCHANGED box
  <2>1. Acts(r) /\ ~InStage(r, {"record"})' /\ MineOf(r)'
    BY <1>2, <1>4, ReturnEnded DEF Ended, Acts, InStage, MineOf
  <2>2. Lame => Lame'
    BY <1>1, <1>4, <2>1, LameStays
  <2> QED BY <1>1, <1>3, <1>4, <2>1, <2>2, RowStays, DecideGood
<1>5. CASE /\ ~(box[e] = "none" /\ (op # "delete" \/ stops))
           /\ IF starts THEN Starts(e) ELSE
                 /\ box' = IF stops THEN [box EXCEPT ![e] = "exited"] ELSE box
                 /\ UNCHANGED host
           /\ Goto(r, next) /\ UNCHANGED <<lock, scratch>>
  <2>1. /\ next \in Stage \ Locked
        /\ op = "delete" <=> next = "remove"
        /\ next = "record" => op # "delete" /\ op # "restart"
        /\ next \in {"remove", "record", "sync"}
    <3>1. CASE op = "delete"
      BY <3>1 DEF Stage, Locked
    <3>2. CASE op = "restart"
      BY <3>2 DEF Stage, Locked
    <3>3. CASE op # "delete" /\ op # "restart"
      BY <3>3 DEF Stage, Locked
    <3> QED BY <3>1, <3>2, <3>3
  <2>2. Moved(r, req[r].row, next)
    BY <1>2, <1>5, <2>1, GotoMoved
  <2>3. /\ \A f \in Envs : f # e => box'[f] = box[f]
        /\ box[e] # "none" => box'[e] # "none"
        /\ op = "delete" /\ box[e] # "running" => box'[e] # "running"
        /\ box[e] = "none" => box'[e] = "none"
    BY <1>2, <1>5 DEF Starts, TypeOK
  <2> HIDE DEF next
  <2>4. MineOf(r)'
    BY <1>1, <1>2, <1>5, <2>1, <2>2, <2>3 DEF MineOf, Moved, InStage
  <2>5. ~LameAt(e)
    BY <1>2, <1>5 DEF LameAt
  <2>6. Acts(r) /\ (InStage(r, {"record"})' => req'[r].env = e)
    BY <2>2 DEF Moved, Acts, InStage
  <2>7. Lame => Lame'
    <3>1. \A f \in Envs : row[f] # NoRow /\ row[f].desired /\ box[f] = "none" =>
              row'[f] # NoRow /\ row'[f].desired /\ box'[f] = "none"
      BY <1>1, <2>3
    <3> QED BY <2>5, <2>6, <3>1, LameStays
  <2>8. \/ Owes(r)'
        \/ /\ ~Owes(r) /\ AsServed
           /\ \A f \in Proxied(row) : box[f] # "running" => box'[f] # "running"
    <3>1. CASE next = "remove"
      BY <1>1, <1>3, <2>1, <2>3, <3>1, RowStays DEF Proxied
    <3>2. CASE next # "remove" /\ req[r].row.published
      BY <2>1, <2>2, <3>2 DEF Owes, Moved, InStage
    <3>3. CASE ~req[r].row.published
      BY <1>1, <1>2, <1>3, <2>3, <3>3, RowStays DEF Proxied
    <3> QED BY <3>1, <3>2, <3>3
  <2> QED BY <1>1, <1>5, <2>1, <2>2, <2>4, <2>7, <2>8, DecideGood
<1> QED BY <1>4, <1>5 DEF CallDocker

\* Docker removes the container, or refuses to.
LEMMA RemoveGood ==
    ASSUME Quiet, NEW r \in Requests, Remove(r)
    PROVE  Good'
<1> DEFINE e == req[r].env
<1>1. InStage(r, {"remove"}) /\ InStage(r, Deciding) /\ UNCHANGED <<row, frpc>>
  BY DEF Remove, At, InStage, Deciding
<1>2. /\ TypeOK /\ e \in Envs /\ row[e] = req[r].row /\ row[e] # NoRow /\ req[r] # NoRequest
      /\ req[r].op = "delete"
  BY <1>1, DecideFacts DEF MineOf, InStage
<1>3. ~Owes(r)
  BY <1>1 DEF Owes, Awaits, InStage
<1>4. CASE Return(r) /\ UNCHANGED box
  <2>1. Acts(r) /\ ~InStage(r, {"record"})' /\ MineOf(r)'
    BY <1>2, <1>4, ReturnEnded DEF Ended, Acts, InStage, MineOf
  <2>2. Lame => Lame'
    BY <1>1, <1>4, <2>1, LameStays
  <2> QED BY <1>1, <1>3, <1>4, <2>1, <2>2, RowStays, DecideGood
<1>5. CASE /\ box[e] = "exited" /\ box' = [box EXCEPT ![e] = "none"]
           /\ Goto(r, "record") /\ UNCHANGED <<lock, scratch>>
  <2>1. Moved(r, req[r].row, "record")
    BY <1>2, <1>5, GotoMoved DEF Stage
  <2>2. box'[e] = "none" /\ \A f \in Envs : f # e => box'[f] = box[f]
    BY <1>2, <1>5 DEF TypeOK
  <2>3. MineOf(r)'
    BY <1>1, <1>2, <2>1 DEF MineOf, Moved, InStage
  <2>4. Acts(r) /\ req'[r].env = e /\ ~LameAt(e)
    BY <1>5, <2>1 DEF Moved, Acts, LameAt
  <2>5. Lame => Lame'
    <3>1. \A f \in Envs : row[f] # NoRow /\ row[f].desired /\ box[f] = "none" =>
              row'[f] # NoRow /\ row'[f].desired /\ box'[f] = "none"
      BY <1>1, <2>2
    <3> QED BY <2>4, <3>1, LameStays
  <2>6. \A f \in Proxied(row) : box[f] # "running" => box'[f] # "running"
    BY <2>2 DEF Proxied
  <2> QED BY <1>1, <1>3, <1>5, <2>1, <2>3, <2>5, <2>6, RowStays, DecideGood DEF Locked
<1> QED BY <1>4, <1>5 DEF Remove

\* Whether it should run, or that it is gone, is written to the row.
LEMMA RecordGood ==
    ASSUME Quiet, NEW r \in Requests, Record(r)
    PROVE  Good'
<1> DEFINE e == req[r].env
           new == [row[e] EXCEPT !.desired = req[r].op = "start"]
<1>1. InStage(r, {"record"}) /\ InStage(r, Deciding) /\ UNCHANGED <<box, frpc>>
  BY DEF Record, At, InStage, Deciding
<1>2. /\ TypeOK /\ e \in Envs /\ row[e] = req[r].row /\ row[e] # NoRow /\ req[r] # NoRequest
      /\ row[e] \in Row /\ req[r].op \in Lifecycle
      /\ req[r].op = "start" => box[e] # "none"
  BY <1>1, DecideFacts DEF MineOf, InStage
<1>3. new # NoRow /\ new.published = row[e].published
  BY <1>2, SetDesired
<1>4. row' = [row EXCEPT ![e] = IF req[r].op = "delete" THEN NoRow ELSE new]
  BY <1>2 DEF Record, WithRow
<1> HIDE DEF new
<1>5. /\ \A f \in Envs : f # e => row'[f] = row[f]
      /\ req[r].op = "delete" => row'[e] = NoRow
      /\ req[r].op # "delete" => row'[e] = new
  BY <1>2, <1>4 DEF TypeOK
<1>6. \/ Return(r) /\ ~req[r].row.published
      \/ Moved(r, req[r].row, "lock") /\ UNCHANGED <<lock, scratch>>
      \/ /\ Moved(r, req[r].row, "sync") /\ UNCHANGED <<lock, scratch>>
         /\ req[r].op = "start"
  BY <1>2, GotoMoved DEF Record, RefreshIfPublished, Stage
<1>7. /\ Acts(r) /\ ~InStage(r, {"docker", "remove", "record"})'
      /\ InStage(r, {"sync"})' => req[r].op = "start" /\ req'[r].env = e /\ req'[r].row = req[r].row
  BY <1>2, <1>6, ReturnEnded DEF Ended, Moved, Acts, InStage
<1>8. MineOf(r)'
  BY <1>1, <1>2, <1>3, <1>5, <1>7 DEF MineOf, InStage
<1>9. Lame => Lame'
  <2>1. SUFFICES ASSUME NEW f \in Envs, LameAt(f) PROVE LameAt(f)'
    BY DEF Lame
  <2>2. f # e
    BY <1>1, <2>1 DEF LameAt
  <2>3. ASSUME NEW q \in Requests, InStage(q, {"record"})', req'[q].env = f PROVE FALSE
    <3>1. q # r
      BY <1>7, <2>3 DEF InStage
    <3>2. req'[q] = req[q]
      BY <1>7, <3>1 DEF Acts
    <3> QED BY <2>1, <2>3, <3>2 DEF LameAt, InStage
  <2> QED BY <1>1, <1>5, <2>1, <2>2, <2>3 DEF LameAt
<1>10. Owes(r)' \/ ~req[r].row.published
  BY <1>2, <1>6 DEF Owes, Awaits, Moved, InStage
<1>11. ~req[r].row.published => ~Owes(r) /\ AsServed
  <2>1. ~req[r].row.published => ~Owes(r)
    BY <1>1 DEF Owes, Awaits, InStage
  <2>2. ~req[r].row.published => e \notin Proxied(row) /\ e \notin Proxied(row')
    BY <1>2, <1>3, <1>5 DEF Proxied
  <2> QED BY <1>5, <2>1, <2>2 DEF AsServed, Proxied
<1> QED BY <1>1, <1>6, <1>8, <1>9, <1>10, <1>11, DecideGood DEF Locked

\* The port of the host is written to the row.
LEMMA SyncGood ==
    ASSUME Quiet, NEW r \in Requests, Sync(r)
    PROVE  Good'
<1> DEFINE e == req[r].env
           S == IF req[r].row.local = HostPort(e) THEN {} ELSE {e}
<1>1. InStage(r, {"sync"}) /\ InStage(r, Deciding) /\ UNCHANGED <<box, frpc>>
  BY DEF Sync, At, InStage, Deciding
<1>2. /\ TypeOK /\ e \in Envs /\ row[e] # NoRow /\ req[r] # NoRequest /\ box[e] # "none"
      /\ req[r].op \in Lifecycle /\ (req[r].row.published <=> row[e].published)
  BY <1>1, DecideFacts DEF MineOf, InStage
<1>3. row' = WithPorts(row, S) /\ RefreshIfPublished(r)
  BY <1>2 DEF Sync
<1>4. \A f \in Envs :
         /\ SameRow(row[f], row'[f])
         /\ row[f] # NoRow => row'[f].desired = row[f].desired
         /\ row[f] # NoRow => row'[f].local = IF f \in S THEN HostPort(f) ELSE row[f].local
  BY <1>2, <1>3, WithPortsRows DEF TypeOK
<1>5. \A f \in S : f = e
  OBVIOUS
<1> HIDE DEF S
<1>6. \/ Return(r) /\ ~req[r].row.published
      \/ Moved(r, req[r].row, "lock") /\ UNCHANGED <<lock, scratch>>
  BY <1>2, <1>3, GotoMoved DEF RefreshIfPublished, Stage
<1>7. Acts(r) /\ ~InStage(r, Deciding)'
  BY <1>2, <1>6, ReturnEnded DEF Ended, Moved, Acts, InStage, Deciding
<1>8. MineOf(r)' /\ ~InStage(r, {"record"})'
  BY <1>7 DEF MineOf, InStage, Deciding
<1>9. Lame => Lame'
  BY <1>1, <1>4, <1>7, <1>8, LameStays DEF SameRow
<1>10. Owes(r)' \/ ~req[r].row.published
  BY <1>2, <1>6 DEF Owes, Awaits, Moved, InStage
<1>11. ~req[r].row.published => ~Owes(r) /\ AsServed
  <2>1. ~req[r].row.published => ~Owes(r)
    BY <1>1 DEF Owes, Awaits, InStage
  <2>2. ~req[r].row.published => e \notin Proxied(row) /\ e \notin Proxied(row')
    BY <1>2, <1>4 DEF Proxied, SameRow
  <2> QED BY <1>4, <1>5, <2>1, <2>2 DEF AsServed, Proxied, SameRow
<1> QED BY <1>1, <1>6, <1>8, <1>9, <1>10, <1>11, DecideGood DEF Locked

\* Nothing that these conditions speak of changes.
LEMMA SameGood ==
    ASSUME Good, UNCHANGED <<row, box, frpc, req, view, conflicts>>
    PROVE  Good'
BY DEF Good, Mine, MineOf, Tracked, Wanted, InLine, Lame, LameAt, Down, Owes, Awaits, Seen, Asked,
       Found, InStage

\* A request waits for the lock or holds it.
LEMMA HeldFacts ==
    ASSUME Quiet, NEW r \in Requests, InStage(r, Locked)
    PROVE  /\ TypeOK /\ lock = r /\ req[r] # NoRequest
           /\ \A q \in Requests : q # r => ~InStage(q, Locked)
           /\ \A q \in Requests : ~InStage(q, Deciding)
           /\ ~InStage(r, {"move"}) => conflicts = {}
<1>1. /\ TypeOK /\ lock = r /\ req[r] # NoRequest
      /\ \A q \in Requests : q # r => ~InStage(q, Locked)
  BY LockedFacts DEF Quiet
<1>2. \A q \in Requests : ~InStage(q, Deciding)
  <2>1. SUFFICES ASSUME NEW q \in Requests, InStage(q, Deciding) PROVE FALSE
    OBVIOUS
  <2>2. q # r
    BY <2>1 DEF InStage, Locked, Deciding
  <2>3. req[q].op \in Lifecycle /\ req[q] # NoRequest
    BY <2>1 DEF Quiet, Base, Decided, InStage
  <2> QED BY <1>1, <2>2, <2>3 DEF Quiet, Alone
<1>3. ~InStage(r, {"move"}) => conflicts = {}
  BY <1>1 DEF Quiet, Search, InStage, Locked
<1> QED BY <1>1, <1>2, <1>3

\* A step of the holder of the lock.
LEMMA HeldGood ==
    ASSUME Quiet, NEW r \in Requests, InStage(r, Locked),
           \/ Ended(r)
           \/ \E mine, s : /\ Moved(r, mine, s) /\ s \in Locked
                           /\ s = "desire" => req[r].op = "startFrpc"
                           /\ s \in {"inspect", "connect"} =>
                                 view' = row' \/ Lame' \/ \E q \in Requests : q # r /\ Awaits(q)',
           Found', Tracked'
    PROVE  Good'
<1>1. /\ req[r] # NoRequest /\ Base /\ Alone
      /\ \A q \in Requests : q # r => ~InStage(q, Locked)
  BY HeldFacts DEF Quiet
<1>2. \A q \in Requests : q # r => req'[q] = req[q] /\ ~InStage(q, Locked)'
  BY <1>1 DEF Moved, Ended, InStage
<1>3. Mine'
  BY <1>1, OthersMine DEF Locked, Deciding
<1>4. Asked'
  <2>1. InStage(r, {"desire"})' => req'[r].op = "startFrpc"
    BY DEF Moved, Ended, InStage
  <2> QED BY <1>2, <2>1 DEF Asked, InStage, Locked
<1>5. Seen'
  <2>1. InStage(r, {"inspect", "connect"})' =>
            view' = row' \/ Lame' \/ \E q \in Requests : q # r /\ Awaits(q)'
    BY DEF Moved, Ended, InStage
  <2> QED BY <1>2, <2>1 DEF Seen, InStage, Locked
<1> QED BY <1>3, <1>4, <1>5 DEF Good

\* The end of the holder drops its conflicts, and nobody else starts frpc.
LEMMA HeldEnd ==
    ASSUME Quiet, NEW r \in Requests, InStage(r, Locked), Return(r)
    PROVE  Ended(r) /\ Acts(r) /\ Found' /\ ~InStage(r, Searching)' /\ (Wanted' => desired')
<1>1. TypeOK /\ lock = r /\ \A q \in Requests : q # r => ~InStage(q, Locked)
  BY HeldFacts
<1>2. Ended(r)
  BY <1>1, ReturnEnded
<1>3. ~InStage(r, Searching)' /\ Acts(r)
  BY <1>2 DEF Ended, InStage, Acts
<1>4. ASSUME NEW q \in Requests, InStage(q, Searching)' PROVE FALSE
  <2>1. q # r /\ InStage(q, Searching)
    BY <1>2, <1>4 DEF Ended, InStage
  <2> QED BY <1>1, <2>1 DEF InStage, Searching, Locked
<1> QED BY <1>1, <1>2, <1>3, <1>4 DEF Ended, Found, Wanted

\* The holder ends without a change.
LEMMA HeldReturns ==
    ASSUME Quiet, NEW r \in Requests, InStage(r, Locked), ~Owes(r), Return(r),
           UNCHANGED <<row, box, frpc>>
    PROVE  Good'
<1>1. Ended(r) /\ Acts(r) /\ Found' /\ ~InStage(r, Searching)'
  BY HeldEnd
<1>2. Wanted' => Wanted
  BY <1>1, WantedStays
<1>3. Lame => Lame'
  BY <1>1, LameStays DEF Ended, InStage
<1>4. Tracked'
  BY <1>1, <1>2, <1>3, RowStays, TrackedStays DEF Quiet, Good
<1> QED BY <1>1, <1>4, HeldGood

\* The holder ends when frpc is not to run.
LEMMA HeldMoot ==
    ASSUME Quiet, NEW r \in Requests, InStage(r, Locked), Return(r), ~desired'
    PROVE  Good'
<1>1. Ended(r) /\ Found' /\ (Wanted' => desired')
  BY HeldEnd
<1> QED BY <1>1, HeldGood DEF Tracked

\* The holder goes on to list the rows, or to note that frpc is not to run.
LEMMA HeldOwes ==
    ASSUME Quiet, NEW r \in Requests, InStage(r, Locked), NEW s \in {"list", "undesire"},
           Goto(r, s), Found'
    PROVE  Good'
<1>1. Moved(r, req[r].row, s)
  BY HeldFacts, GotoMoved DEF Stage
<1>2. Owes(r)'
  BY <1>1 DEF Moved, Owes, InStage
<1>3. Tracked'
  BY <1>2 DEF Tracked
<1> QED BY <1>1, <1>3, HeldGood DEF Locked

\* publication_lock is taken, or there is nothing to do with it.
LEMMA AcquireGood ==
    ASSUME Quiet, NEW r \in Requests, Acquire(r)
    PROVE  Good'
<1> DEFINE op == req[r].op
           first == IF op \in {"publish", "unpublish", "stopFrpc"} THEN op ELSE "list"
<1>1. /\ InStage(r, {"lock"}) /\ lock = NoOne /\ UNCHANGED <<system, frpc>> /\ req[r] # NoRequest
      /\ TypeOK /\ Base /\ Alone
  BY DEF Acquire, At, InStage, Free, Quiet, Base
<1>2. \A q \in Requests : ~InStage(q, Locked)
  BY <1>1, PublicationAssumption DEF Base, Holder
<1>3. op \in Op
  BY <1>1, RequestFields DEF TypeOK
<1>4. first = "list" \/ (first = op /\ op \in {"publish", "unpublish", "stopFrpc"})
  OBVIOUS
<1>5. Awaits(r) => first = "list" /\ op # "startFrpc"
  BY DEF Awaits, Lifecycle
<1>6. \/ Return(r) /\ (Awaits(r) => ~desired)
      \/ Goto(r, first) /\ UNCHANGED scratch
  <2>1. Awaits(r) => op \notin {"publish", "unpublish"}
    BY DEF Awaits, Lifecycle
  <2> QED BY <1>5, <2>1 DEF Acquire
<1>7. Owes(r) => Awaits(r)
  BY <1>1 DEF Owes, InStage
<1> HIDE DEF first
<1>8. Ended(r) \/ Moved(r, req[r].row, first)
  <2>1. first \in Stage
    BY <1>4 DEF Stage
  <2> QED BY <1>1, <1>6, <2>1, ReturnEnded, GotoMoved
<1>9. /\ Acts(r) /\ UNCHANGED <<view, conflicts>>
      /\ \A q \in Requests : q # r => req'[q] = req[q] /\ ~InStage(q, Locked)'
      /\ ~InStage(r, {"inspect", "connect", "desire", "record"})'
  <2>1. UNCHANGED <<view, conflicts>>
    BY <1>1, <1>6, ReturnEnded, PublicationAssumption DEF Ended
  <2> QED BY <1>2, <1>4, <1>8, <2>1 DEF Acts, Ended, Moved, InStage
<1>10. Mine'
  <2>1. first \notin Deciding
    BY <1>4 DEF Deciding
  <2> QED BY <1>1, <1>8, <2>1, OthersMine
<1>11. Seen' /\ Asked' /\ Found'
  <2>1. Found'
    BY <1>1, <1>9 DEF Quiet, Good, Found
  <2> QED BY <1>9, <2>1 DEF Seen, Asked, InStage, Locked
<1>12. Lame => Lame'
  BY <1>1, <1>9, LameStays DEF InStage
<1>13. Tracked'
  <2>1. CASE Return(r) /\ ~desired
    <3>1. ~desired' /\ req'[r] = NoRequest
      BY <1>1, <1>6, <2>1, ReturnEnded DEF Ended
    <3>2. ~Wanted'
      BY <1>9, <3>1 DEF Wanted, InStage, Searching, Locked
    <3> QED BY <3>2 DEF Tracked
  <2>2. CASE Goto(r, first) /\ first = "list"
    <3>1. Owes(r)'
      BY <1>1, <2>2, GotoMoved DEF Moved, Owes, InStage, Stage
    <3> QED BY <3>1 DEF Tracked
  <2>3. CASE ~Awaits(r) /\ (Return(r) \/ first # "list")
    <3>1. ~InStage(r, Searching)'
      <4>1. CASE Return(r)
        BY <1>1, <4>1, ReturnEnded DEF Ended, InStage
      <4>2. CASE first # "list" /\ Goto(r, first)
        BY <1>1, <1>4, <4>2, GotoMoved DEF Moved, InStage, Searching, Stage
      <4> QED BY <1>6, <2>3, <4>1, <4>2
    <3>2. Wanted' => Wanted
      BY <1>1, <1>9, <3>1, WantedStays
    <3> QED BY <1>1, <1>7, <1>9, <1>12, <2>3, <3>2, RowStays, TrackedStays DEF Quiet, Good
  <2> QED BY <1>5, <1>6, <2>1, <2>2, <2>3
<1> QED BY <1>10, <1>11, <1>13 DEF Good

\* An environment is published or not any more.
LEMMA PublishGood ==
    ASSUME Quiet, NEW r \in Requests, Publish(r) \/ Unpublish(r)
    PROVE  Good'
<1>1. /\ InStage(r, Locked) /\ ~InStage(r, {"move"}) /\ UNCHANGED <<box, frpc>> /\ ~Owes(r)
  BY DEF Publish, Unpublish, At, InStage, Locked, Owes, Awaits
<1>2. \/ Return(r) /\ UNCHANGED row
      \/ Return(r) /\ ~desired
      \/ Goto(r, "list") /\ UNCHANGED scratch
  BY DEF Publish, Unpublish
<1>3. UNCHANGED scratch => Found'
  BY <1>1 DEF Quiet, Good, Found
<1> QED BY <1>1, <1>2, <1>3, HeldReturns, HeldMoot, HeldOwes

\* frpc is stopped, and then recorded as stopped.
LEMMA StopGood ==
    ASSUME Quiet, NEW r \in Requests, StopFrpc(r)
    PROVE  Good'
<1>1. InStage(r, Locked) /\ ~InStage(r, {"move"})
  BY DEF StopFrpc, At, InStage, Locked
<1>2. CASE Goto(r, "undesire") /\ UNCHANGED scratch
  <2>1. Found'
    BY <1>1, <1>2, HeldFacts DEF Found
  <2> QED BY <1>1, <1>2, <2>1, HeldOwes
<1>3. CASE Return(r) /\ desired' = FALSE
  BY <1>1, <1>3, HeldMoot
<1> QED BY <1>2, <1>3 DEF StopFrpc

\* frpc is recorded as started.
LEMMA DesireGood ==
    ASSUME Quiet, NEW r \in Requests, Desire(r)
    PROVE  Good'
<1>1. /\ InStage(r, Locked) /\ UNCHANGED <<row, box, forwards, refused>> /\ Return(r)
      /\ InStage(r, {"desire"}) /\ ~Owes(r)
  BY DEF Desire, At, InStage, Locked, Owes, Awaits
<1>2. Ended(r) /\ Acts(r) /\ Found'
  BY <1>1, HeldEnd
<1>3. Wanted
  BY <1>1 DEF Quiet, Good, Asked, Wanted, InStage, Searching
<1>4. Lame => Lame'
  BY <1>1, <1>2, LameStays DEF Ended, InStage
<1>5. Tracked'
  BY <1>1, <1>2, <1>3, <1>4, RowStays, TrackedStays DEF Quiet, Good
<1> QED BY <1>1, <1>2, <1>5, HeldGood

\* The rows are listed.
LEMMA ListGood ==
    ASSUME Quiet, NEW r \in Requests, List(r)
    PROVE  Good'
<1>1. InStage(r, Locked) /\ UNCHANGED <<row, frpc, conflicts>> /\ view' = row'
  BY DEF List, At, InStage, Locked
<1>2. Moved(r, req[r].row, "inspect")
  BY <1>1, HeldFacts, GotoMoved DEF List, Stage
<1>3. Owes(r)' /\ Found'
  BY <1>1, <1>2 DEF Moved, Owes, InStage, Quiet, Good, Found
<1> QED BY <1>1, <1>2, <1>3, HeldGood DEF Tracked, Locked

\* The ports of the listed environments are written, or a container is missing
\* or does not run.
LEMMA InspectGood ==
    ASSUME Quiet, NEW r \in Requests, Inspect(r)
    PROVE  Good'
<1> DEFINE running == {e \in Envs : view[e] # NoRow /\ view[e].desired}
           found   == {e \in running : box[e] # "none"}
           late(S) == {e \in S : view[e].local # HostPort(e)}
<1>1. InStage(r, Locked) /\ InStage(r, {"inspect"}) /\ UNCHANGED <<box, host, frpc>>
  BY DEF Inspect, At, InStage, Locked
<1>2. /\ TypeOK /\ req[r] # NoRequest /\ \A q \in Requests : ~InStage(q, Deciding)
      /\ conflicts = {}
  BY <1>1, HeldFacts DEF InStage
<1>3. /\ \E S : row' = WithPorts(row, S)
      /\ \/ Return(r)
         \/ Goto(r, "connect")
  BY DEF Inspect
<1>4. \A e \in Envs :
         /\ SameRow(row[e], row'[e])
         /\ row[e] # NoRow => row'[e].desired = row[e].desired
  BY <1>2, <1>3, WithPortsRows DEF TypeOK
<1>5. \/ Ended(r)
      \/ Moved(r, req[r].row, "connect")
  BY <1>2, <1>3, ReturnEnded, GotoMoved DEF Stage
<1>6. Acts(r) /\ ~InStage(r, {"record"})'
  BY <1>5 DEF Ended, Moved, Acts, InStage
<1>7. Lame => Lame'
  BY <1>1, <1>4, <1>6, LameStays DEF SameRow
<1>8. ASSUME NEW q \in Requests, q # r, Awaits(q) PROVE Awaits(q)'
  BY <1>6, <1>8 DEF Acts, Awaits, InStage
<1>9. view = row \/ Lame' \/ \E q \in Requests : q # r /\ Awaits(q)'
  BY <1>1, <1>7, <1>8 DEF Quiet, Good, Seen, InStage
<1>10. ASSUME NEW e \in Envs, row[e] # NoRow, row[e].desired, box[e] = "none" PROVE Lame
  BY <1>2, <1>10 DEF Lame, LameAt, InStage, Deciding
<1>11. CASE Goto(r, "connect") /\ row' = WithPorts(row, late(running))
            /\ view' = WithPorts(view, late(running)) /\ UNCHANGED conflicts
  <2>1. Moved(r, req[r].row, "connect")
    BY <1>2, <1>11, GotoMoved DEF Stage
  <2>2. view = row => view' = row'
    BY <1>11
  <2>3. Owes(r)' /\ Found'
    BY <1>1, <1>11, <2>1 DEF Moved, Owes, InStage, Quiet, Good, Found
  <2> QED BY <1>1, <1>9, <2>1, <2>2, <2>3, HeldGood DEF Tracked, Locked
<1>12. CASE Return(r) /\ (found # running \/ \E e \in Proxied(view) : HostPort(e) = 0)
  <2>1. Ended(r) /\ Found'
    BY <1>1, <1>12, HeldEnd
  <2>2. ASSUME view = row, found # running PROVE Lame'
    BY <1>7, <1>10, <2>2
  <2>3. ASSUME view = row, NEW e \in Proxied(view), HostPort(e) = 0 PROVE Down'
    <3>1. e \in Proxied(row') /\ e \in Envs
      BY <1>4, <2>3 DEF Proxied, SameRow
    <3>2. box'[e] # "running"
      BY <1>1, <1>2, <2>3, <3>1 DEF HostPort, TypeOK
    <3> QED BY <3>1, <3>2 DEF Down
  <2>4. Lame' \/ Down' \/ \E q \in Requests : Owes(q)'
    <3>1. CASE view = row
      BY <1>12, <2>2, <2>3, <3>1
    <3>2. CASE view # row
      BY <1>9, <3>2 DEF Owes
    <3> QED BY <3>1, <3>2
  <2> QED BY <1>1, <2>1, <2>4, HeldGood DEF Tracked
<1> QED BY <1>11, <1>12 DEF Inspect

\* frpc is made for what was listed.
LEMMA ConnectGood ==
    ASSUME Quiet, NEW r \in Requests, Connect(r)
    PROVE  Good'
<1>1. /\ InStage(r, Locked) /\ InStage(r, {"connect"}) /\ forwards' = Rendered(view)
      /\ UNCHANGED <<row, box, conflicts, view>>
  BY DEF Connect, At, InStage, Locked
<1>2. Moved(r, req[r].row, "poll")
  BY <1>1, HeldFacts, GotoMoved DEF Connect, Stage
<1>3. conflicts = {}
  BY <1>1, HeldFacts DEF InStage
<1>4. Acts(r) /\ ~InStage(r, {"record"})'
  BY <1>2 DEF Moved, Acts, InStage
<1>5. Lame => Lame'
  BY <1>1, <1>4, LameStays
<1>6. ASSUME NEW q \in Requests, q # r, Awaits(q) PROVE Owes(q)'
  BY <1>4, <1>6 DEF Acts, Owes, Awaits, InStage
<1>7. ASSUME view = row PROVE InLine'
  BY <1>1, <1>7 DEF InLine, Rendered, Proxied
<1>8. Tracked'
  BY <1>1, <1>5, <1>6, <1>7 DEF Quiet, Good, Seen, Tracked, InStage
<1> QED BY <1>1, <1>2, <1>3, <1>8, HeldGood DEF Found, Locked

\* The server answers.
LEMMA PollGood ==
    ASSUME Quiet, NEW r \in Requests, Poll(r)
    PROVE  Good'
<1>1. InStage(r, Locked) /\ InStage(r, {"poll"}) /\ UNCHANGED <<row, box, frpc>> /\ ~Owes(r)
  BY DEF Poll, At, InStage, Locked, Owes, Awaits
<1>2. ASSUME NEW s \in {"desire", "move"}, Goto(r, s), Found',
             s = "desire" => req[r].op = "startFrpc"
      PROVE  Good'
  <2>1. Moved(r, req[r].row, s)
    BY <1>1, <1>2, HeldFacts, GotoMoved DEF Stage
  <2>2. Acts(r) /\ ~InStage(r, {"record"})' /\ req'[r].op = req[r].op
    BY <2>1 DEF Moved, Acts, InStage
  <2>3. Lame => Lame'
    BY <1>1, <2>2, LameStays
  <2>4. InStage(r, Searching)
    BY <1>1 DEF InStage, Searching
  <2>5. Wanted' => Wanted
    BY <1>1, <2>2, <2>4, WantedStays
  <2>6. Tracked'
    BY <1>1, <2>2, <2>3, <2>5, RowStays, TrackedStays DEF Quiet, Good
  <2> QED BY <1>1, <1>2, <2>1, <2>6, HeldGood DEF Locked
<1>3. UNCHANGED scratch \/ conflicts' \subseteq refused => Found'
  BY <1>1 DEF Found, Quiet, Good
<1>4. \/ Return(r)
      \/ Goto(r, "desire") /\ req[r].op = "startFrpc" /\ UNCHANGED scratch
      \/ Goto(r, "move") /\ conflicts' \subseteq refused
  BY DEF Poll
<1> QED BY <1>1, <1>2, <1>3, <1>4, HeldReturns

\* A conflict is moved to another port.
LEMMA MoveGood ==
    ASSUME Quiet, NEW r \in Requests, Move(r)
    PROVE  Good'
<1>1. /\ InStage(r, Locked) /\ InStage(r, {"move"}) /\ UNCHANGED <<box, frpc>> /\ ~Owes(r)
      /\ Found
  BY DEF Move, At, InStage, Locked, Owes, Awaits, Quiet, Good
<1>2. TypeOK /\ req[r] # NoRequest
  BY <1>1, HeldFacts
<1>3. CASE Goto(r, "list") /\ conflicts = {} /\ UNCHANGED scratch
  BY <1>1, <1>3, HeldOwes DEF Found
<1>4. CASE Return(r) /\ UNCHANGED row
  BY <1>1, <1>4, HeldReturns
<1>5. ASSUME NEW e \in conflicts, NEW p \in Ports, WithRow(e, [row[e] EXCEPT !.remote = p]),
             conflicts' = conflicts \ {e}, UNCHANGED req
      PROVE  Good'
  <2> DEFINE new == [row[e] EXCEPT !.remote = p]
  <2>1. e \in Envs /\ e \in refused
    BY <1>1, <1>2, <1>5 DEF TypeOK, Found
  <2>2. row[e] # NoRow => /\ new # NoRow /\ new.published = row[e].published
                          /\ new.desired = row[e].desired /\ new.local = row[e].local
    BY <1>2, <2>1, SetRemote DEF TypeOK
  <2>3. row' = IF row[e] = NoRow THEN row ELSE [row EXCEPT ![e] = new]
    BY <1>5 DEF WithRow
  <2> HIDE DEF new
  <2>4. /\ \A f \in Envs : f # e => row'[f] = row[f]
        /\ row'[e] = IF row[e] = NoRow THEN NoRow ELSE new
    BY <1>2, <2>1, <2>3 DEF TypeOK
  <2>5. AsServed
    BY <2>1, <2>2, <2>4 DEF AsServed, Proxied
  <2>6. Moved(r, req[r].row, "move")
    BY <1>1, <1>2, <1>5 DEF Moved, InStage, TypeOK
  <2>7. Acts(r) /\ ~InStage(r, {"record"})'
    BY <2>6 DEF Moved, Acts, InStage
  <2>8. Lame => Lame'
    BY <1>1, <2>2, <2>4, <2>7, LameStays
  <2>9. Wanted' => Wanted
    BY <1>1, <1>5 DEF Wanted, InStage
  <2>10. Tracked'
    BY <1>1, <2>5, <2>7, <2>8, <2>9, TrackedStays DEF Quiet, Good
  <2>11. Found'
    BY <1>1, <1>5 DEF Found
  <2> QED BY <1>1, <2>6, <2>10, <2>11, HeldGood DEF Locked
<1> QED BY <1>3, <1>4, <1>5 DEF Move, Lowest

\* A request arrives when no other changes environments.
LEMMA ArriveGood ==
    ASSUME Quiet, NEW r \in Requests, Arrive(r)
    PROVE  Good'
<1>1. /\ TypeOK /\ UNCHANGED <<box, view, conflicts, frpc, mode>> /\ req[r] = NoRequest
      /\ Base /\ Alone
  BY DEF Quiet, Base, Arrive, BeginCreate, BeginLifecycle, BeginLocked, BeginList, Begin, Arrives
<1>2. ASSUME NEW op, Arrives(r, op)
      PROVE  \A q \in Requests : q # r =>
                /\ ~InStage(q, Deciding)
                /\ op \in Lifecycle => req[q] = NoRequest
  <2>1. IF op \in Lifecycle THEN Busy = {} ELSE \A q \in Busy : req[q].op \notin Lifecycle
    BY <1>2 DEF Arrives, Quiet, Undisturbed
  <2>2. \A q \in Requests : InStage(q, Deciding) => req[q].op \in Lifecycle /\ q \in Busy
    BY <1>1 DEF Base, Decided, InStage, Busy
  <2> QED BY <2>1, <2>2 DEF Busy
<1>3. ~InStage(r, Locked) /\ ~Awaits(r) /\ ~Owes(r)
  BY <1>1 DEF Owes, Awaits, InStage
<1>4. ASSUME NEW op, NEW e, NEW mine, NEW s \in {"pick", "build", "docker", "lock"},
             Begin(r, op, e, mine, s), UNCHANGED row, s = "docker" => mine = row[e]
      PROVE  Good'
  <2>1. /\ Acts(r) /\ req'[r] # NoRequest /\ req'[r].stage = s
        /\ req'[r].env = e /\ req'[r].row = mine
    BY <1>1, <1>4 DEF Begin, Acts, TypeOK, NoRequest
  <2>2. ~InStage(r, Locked)' /\ ~InStage(r, {"record"})'
    BY <2>1 DEF InStage, Locked
  <2>3. MineOf(r)'
    BY <1>4, <2>1 DEF MineOf, InStage
  <2>4. Mine'
    BY <1>2, <1>4, <2>1, <2>3 DEF Begin, Mine, MineOf, InStage, Acts, Deciding
  <2>5. Lame => Lame'
    BY <1>1, <1>4, <2>1, <2>2, LameStays
  <2> QED BY <1>1, <1>3, <1>4, <2>1, <2>2, <2>4, <2>5, RowStays, OutsideGood
<1>5. ASSUME NEW e \in Envs, NEW published \in BOOLEAN, NEW port \in Ports \cup {0},
             BeginCreate(r, e, published, port)
      PROVE  Good'
  <2> DEFINE mine == [published |-> published, automatic |-> port = 0, remote |-> port,
                      desired |-> TRUE, local |-> 0]
             s == IF published THEN "pick" ELSE "build"
  <2>1. Begin(r, "create", e, mine, s) /\ UNCHANGED row
    BY <1>5 DEF BeginCreate
  <2>2. s \in {"pick", "build"}
    OBVIOUS
  <2> HIDE DEF mine, s
  <2> QED BY <1>4, <2>1, <2>2
<1>6. ASSUME NEW op \in Lifecycle, NEW e \in Envs, BeginLifecycle(r, op, e)
      PROVE  Good'
  BY <1>4, <1>6 DEF BeginLifecycle
<1>7. CASE BeginLocked(r)
  BY <1>4, <1>7 DEF BeginLocked
<1>8. CASE BeginList(r)
  <2>1. \E S : row' = WithPorts(row, S)
    BY <1>8 DEF BeginList
  <2>2. \A f \in Envs :
           /\ row'[f] = NoRow <=> row[f] = NoRow
           /\ row[f] # NoRow => row'[f].desired = row[f].desired
    BY <1>1, <2>1, WithPortsRows DEF TypeOK, SameRow
  <2>3. \/ Begin(r, "list", NoOne, NoRow, "lock")
        \/ /\ Arrives(r, "list") /\ UNCHANGED req
           /\ \E f \in Present : row[f].desired /\ box[f] = "none"
    BY <1>8 DEF BeginList
  <2>4. Arrives(r, "list")
    BY <2>3 DEF Begin
  <2>5. CASE Begin(r, "list", NoOne, NoRow, "lock")
    <3>1. /\ Acts(r) /\ req'[r] # NoRequest /\ req'[r].stage = "lock" /\ req'[r].op = "list"
      BY <1>1, <2>5 DEF Begin, Acts, TypeOK, NoRequest
    <3>2. Mine'
      BY <1>2, <2>4, <3>1 DEF Mine, MineOf, InStage, Acts, Deciding
    <3>3. Awaits(r)' /\ ~InStage(r, {"inspect", "connect", "desire"})'
      BY <3>1 DEF Awaits, InStage
    <3>4. Owes(r)'
      BY <3>3 DEF Owes
    <3>5. Asked'
      BY <3>1, <3>3 DEF Quiet, Good, Asked, InStage, Acts
    <3>6. Seen'
      <4>1. ASSUME NEW q \in Requests, InStage(q, {"inspect", "connect"})'
            PROVE  r # q /\ Awaits(r)'
        BY <3>3, <4>1 DEF InStage
      <4> QED BY <4>1 DEF Seen
    <3>7. Tracked'
      BY <3>4 DEF Tracked
    <3>8. Found'
      BY <1>1 DEF Quiet, Good, Found
    <3> QED BY <3>2, <3>5, <3>6, <3>7, <3>8 DEF Good
  <2>6. ASSUME UNCHANGED req, NEW f \in Present, row[f].desired, box[f] = "none"
        PROVE  Good'
    <3>1. \A q \in Requests : ~InStage(q, Deciding)
      BY <1>1, <1>2, <2>4 DEF InStage
    <3>2. Mine'
      BY <2>6, <3>1 DEF Mine, MineOf, InStage, Deciding
    <3>3. LameAt(f)' /\ f \in Envs
      BY <1>1, <2>2, <2>6, <3>1 DEF LameAt, Present, InStage, Deciding
    <3>4. Lame'
      BY <3>3 DEF Lame
    <3>5. Asked'
      BY <2>6 DEF Quiet, Good, Asked, InStage
    <3> QED BY <1>1, <3>2, <3>4, <3>5 DEF Good, Quiet, Found, Tracked, Seen
  <2> QED BY <2>3, <2>5, <2>6
<1> QED BY <1>5, <1>6, <1>7, <1>8 DEF Arrive

\* A crash leaves the refresh that the controller starts with.
LEMMA CrashGood ==
    ASSUME NEW r \in Requests, Crash(r)
    PROVE  Good'
<1>1. /\ req'[r] # NoRequest /\ req'[r].op = "boot" /\ req'[r].stage = "lock"
      /\ \A q \in Requests : q # r => req'[q] = NoRequest
      /\ conflicts' = {}
  BY DEF Crash, Forget, NoRequest
<1>2. \A q \in Requests : ~InStage(q, Locked \cup Deciding)'
  BY <1>1 DEF InStage, Locked, Deciding
<1>3. Owes(r)'
  BY <1>1 DEF Owes, Awaits, InStage
<1>4. Mine' /\ Seen' /\ Asked'
  BY <1>2 DEF Mine, MineOf, Seen, Asked, InStage, Locked, Deciding
<1> QED BY <1>1, <1>3, <1>4 DEF Good, Tracked, Found

\* Every step keeps what frpc forwards tracked, where nothing fails,
LEMMA NextSettled == ASSUME Base, Apart, Search, Settled, [Next]_vars PROVE Settled'
<1>1. UNCHANGED mode
  <2>1. ASSUME NEW r \in Requests, Arrive(r) PROVE UNCHANGED mode
    BY <2>1 DEF Arrive, BeginCreate, BeginLifecycle, BeginLocked, BeginList, Begin, Arrives
  <2>2. ASSUME NEW r \in Requests, Lock(r) \/ Step(r) \/ Drop(r) \/ Crash(r) PROVE UNCHANGED mode
    BY <2>2 DEF Lock, Step, Drop, Crash
  <2>3. ASSUME NEW e \in Envs, ContainerRestarts(e) PROVE UNCHANGED mode
    BY <2>3 DEF ContainerRestarts
  <2>4. UNCHANGED vars => UNCHANGED mode
    BY DEF vars
  <2> QED BY <2>1, <2>2, <2>3, <2>4 DEF Next
<1>2. SUFFICES ASSUME Quiet PROVE Good'
  BY <1>1 DEF Settled, Quiet, Undisturbed, Apart
<1>3. CASE UNCHANGED vars
  BY <1>2, <1>3, SameGood DEF vars, Quiet
<1>4. ASSUME NEW e \in Envs, ContainerRestarts(e) PROVE Good'
  <2>1. box' = box
    BY <1>4 DEF ContainerRestarts, Starts, Base, TypeOK
  <2> QED BY <1>2, <1>4, <2>1, SameGood DEF ContainerRestarts, Quiet
<1>5. ASSUME NEW r \in Requests, Step(r) PROVE Good'
  <2>1. ~InsertFails(r) /\ ~ConnectFails(r)
    BY <1>2 DEF Quiet, Undisturbed, InsertFails, ConnectFails
  <2> QED BY <1>2, <1>5, <2>1, BuildGood, InsertGood, CallDockerGood, RemoveGood, RecordGood,
             SyncGood, PublishGood, StopGood, ListGood, InspectGood, ConnectGood, PollGood,
             MoveGood, DesireGood DEF Step
<1>6. ASSUME NEW r \in Requests, Drop(r) PROVE Good'
  BY <1>2, <1>6 DEF Drop, Quiet, Undisturbed
<1>7. ASSUME NEW r \in Requests, Lock(r) PROVE Good'
  BY <1>2, <1>7, AcquireGood DEF Lock
<1>8. ASSUME NEW r \in Requests, Arrive(r) \/ Crash(r) PROVE Good'
  BY <1>2, <1>8, ArriveGood, CrashGood
<1> QED BY <1>3, <1>4, <1>5, <1>6, <1>7, <1>8 DEF Next

\* and it is to begin with.
LEMMA InitSettled == Init => Settled
<1> SUFFICES ASSUME Init PROVE Good
  BY DEF Settled
<1>1. /\ \A r \in Requests : req[r] = NoRequest
      /\ row \in [Envs -> Row \cup {NoRow}]
      /\ \A e \in Envs : row[e] # NoRow => row[e].local = 1
  BY TablesAssumption DEF Init
<1>2. Mine /\ Seen /\ Asked /\ Found
  BY <1>1 DEF Init, Mine, MineOf, Seen, Asked, Found, InStage
<1>3. Wanted => desired
  BY <1>1 DEF Wanted, InStage
<1>4. desired => InLine
  BY <1>1 DEF Init, InLine, Proxied
<1> QED BY <1>2, <1>3, <1>4 DEF Good, Tracked

(* With no request under way, and every environment that should run        *)
(* running where its row says, frpc forwards exactly the published         *)
(* environments, to where they are and on the ports their rows show.  When *)
(* something changes that frpc is told of, a request owes it a refresh; a  *)
(* refresh that lists the rows under publication_lock either brings frpc   *)
(* in line, or hands on to a request that waits for the lock, or stops at  *)
(* an environment that has lost its container or does not run; and after a *)
(* crash the controller owes one.                                          *)
THEOREM InSyncCorrect == Spec => []InSync
<1>1. Base /\ Settled => InSync
  <2>1. SUFFICES ASSUME TypeOK, Good, Calm, desired
               PROVE  InLine /\ \A e \in Proxied(row) : row[e].local = host[e]
    BY DEF InSync, Settled, Undisturbed, Calm, Base, InLine
  <2>2. \A e \in Proxied(row) : e \in Present /\ row[e].desired
    BY DEF Proxied, Present
  <2>3. ~Lame /\ ~Down
    BY <2>1, <2>2 DEF Lame, LameAt, Down, Calm, Present
  <2>4. \A r \in Requests : ~Owes(r)
    BY <2>1 DEF Calm, Busy, Owes, Awaits, InStage
  <2> QED BY <2>1, <2>2, <2>3, <2>4 DEF Good, Tracked, Wanted, Calm
<1>2. Init => Apart /\ Search
  BY InitApart
<1>3. Base /\ Apart /\ Search /\ Settled /\ [Next]_vars => Apart' /\ Search' /\ Settled'
  BY NextApart, NextSearch, NextSettled
<1> QED BY <1>1, <1>2, <1>3, InitBase, NextBase, InitSettled, PTL DEF Spec
=============================================================================
