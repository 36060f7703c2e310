--------------------------- MODULE FrpTokenProofs ---------------------------
(***************************************************************************)
(* Theorems about FrpToken for every set of requests and every bound on    *)
(* requests, losses of the file and faults.                                *)
(***************************************************************************)
EXTENDS FrpToken, TLAPS

Request   == [op : Op, stage : Stage, token : 0..last, state : State]
Requested == req \in [Requests -> Request \cup {NoRequest}]

(* The stages at which a request changes frpc or the row of the token on   *)
(* behalf of publication_lock.                                             *)
Serving == {"remove", "undesire", "replace", "pending", "connect", "desire"}

ActsOnFrpc(r) ==
    \/ \E s \in Serving : At(r, s)
    \/ r \in Busy /\ req[r].op \in Locked /\ ~At(r, "publication")

HoldsPublication == \A r \in Requests : ActsOnFrpc(r) => publication = r

(* What a request has in hand at these stages is a token.                  *)
HasToken == \A r \in Requests :
    At(r, "record") \/ At(r, "pending") \/ At(r, "test") => req[r].token # 0

(* How far a recovery has come, and what a start relies on.                *)
Underway == \A r \in Requests :
    /\ At(r, "undesire") /\ req[r].op = "recover" => frpc = 0
    /\ At(r, "replace") \/ At(r, "pending") =>
          req[r].op = "recover" /\ frpc = 0 /\ ~desired
    /\ At(r, "connect") \/ At(r, "desire") => ~row.pending

Types   == TypeOK /\ Requested /\ HasToken
Stopped == Types /\ HoldsPublication /\ Underway /\ PendingMeansStopped

-----------------------------------------------------------------------------
(* PendingMeansStopped *)

\* What an action leaves alone and how it moves its request is visible throughout.
USE DEF store, service, locks, history, counts, Becomes, Goto, Return, Releases

(* Nobody is at work, and a first token is ready.                          *)
LEMMA InitStopped == Init => Stopped
<1> SUFFICES ASSUME Init PROVE Stopped
  OBVIOUS
<1> USE FrpTokenAssumption DEF Init, Install, NoRow, NoRequest
<1>1. \A r \in Requests : r \notin Busy /\ \A s \in Stage : ~At(r, s)
  BY DEF Busy, At
<1>2. last \in Nat /\ file \in 0..last /\ frpc \in 0..last /\ ~row.pending
  <2>1. CASE install = "fresh"
    BY <2>1
  <2>2. CASE install # "fresh"
    BY <2>2
  <2> QED BY <2>1, <2>2
<1>3. row = NoRow \/ row \in [token : 1..last, pending : BOOLEAN]
  OBVIOUS
<1>4. Types
  BY <1>1, <1>2, <1>3 DEF Types, TypeOK, Requested, HasToken, Busy, Stage
<1>5. HoldsPublication /\ Underway /\ PendingMeansStopped
  BY <1>1, <1>2 DEF HoldsPublication, ActsOnFrpc, Serving, Underway, PendingMeansStopped, Stage
<1> QED BY <1>4, <1>5 DEF Stopped

(* The file is lost.                                                       *)
LEMMA LoseStopped == Stopped /\ LoseFile => Stopped'
  BY FrpTokenAssumption
     DEF LoseFile, Stopped, Types, TypeOK, Requested, HoldsPublication, HasToken, Underway,
         PendingMeansStopped, Request, NoRow, NoRequest, At, Busy, ActsOnFrpc, Serving, Op,
         Locked, Stage, State

(* A request arrives or is cut short; the controller starts again.         *)
LEMMA SurroundingsStopped ==
    ASSUME Stopped, NEW r \in Requests PROVE
    /\ \A op \in Op : Begin(r, op) => Stopped'
    /\ Drop(r) \/ Crash(r) => Stopped'
<1> USE FrpTokenAssumption
    DEF Stopped, Types, TypeOK, Requested, HoldsPublication, HasToken, Underway,
        PendingMeansStopped, Request, NoRow, NoRequest, At, Busy, ActsOnFrpc, Serving, Op,
        Locked, Stage, State
<1>1. ASSUME NEW op \in Op, Begin(r, op) PROVE Stopped'
  BY <1>1 DEF Begin
<1>2. CASE Drop(r)
  <2>1. TypeOK'
    BY <1>2 DEF Drop
  <2>2. Requested' /\ HasToken'
    BY <1>2 DEF Drop
  <2>3. HoldsPublication'
    BY <1>2 DEF Drop
  <2>4. Underway'
    BY <1>2 DEF Drop
  <2>5. PendingMeansStopped'
    BY <1>2 DEF Drop
  <2> QED BY <2>1, <2>2, <2>3, <2>4, <2>5
<1>3. CASE Crash(r)
  <2>1. TypeOK'
    BY <1>3 DEF Crash
  <2>2. Requested' /\ HasToken'
    BY <1>3 DEF Crash
  <2>3. HoldsPublication'
    BY <1>3 DEF Crash
  <2>4. Underway'
    BY <1>3 DEF Crash
  <2>5. PendingMeansStopped'
    BY <1>3 DEF Crash
  <2> QED BY <2>1, <2>2, <2>3, <2>4, <2>5
<1> QED BY <1>1, <1>2, <1>3

(* What inspect_or_initialize_server_token may find, in the order of the   *)
(* code: a first token, none and none expected, or the state of the row.   *)
LEMMA DecideFinds ==
    ASSUME Types, NEW r \in Requests, Decide(r)
    PROVE  /\ At(r, "decide") /\ UNCHANGED <<store, service, history>>
           /\ \/ Goto(r, "record") /\ UNCHANGED locks /\ row = NoRow /\ req[r].token # 0
              \/ /\ Goto(r, "generate") /\ UNCHANGED locks
                 /\ row = NoRow /\ req[r].token = 0 /\ ~settings
              \/ \E state \in State :
                    /\ Answer(r, state)
                    /\ row = NoRow => state = "missing" /\ req[r].token = 0 /\ settings
                    /\ row # NoRow => (state = "missing" <=> req[r].token # row.token)
                    /\ state # "missing" => req[r].token # 0
                    /\ state = "ready" => ~row.pending
<1> USE DEF IsNone, State
<1>1. CASE row = NoRow
  BY <1>1 DEF Decide
<1>2. CASE row # NoRow
  <2> DEFINE state == IF IsNone(req[r].token) \/ req[r].token # row.token THEN "missing"
                      ELSE IF row.pending THEN "pending" ELSE "ready"
  <2>1. Answer(r, state)
    BY <1>2 DEF Decide
  <2>2. row.token \in 1..last
    BY <1>2 DEF Types, TypeOK
  <2>3. /\ state \in State
        /\ state = "missing" <=> req[r].token # row.token
        /\ state # "missing" => req[r].token # 0
        /\ state = "ready" => ~row.pending
    BY <2>2
  <2> HIDE DEF state
  <2>4. At(r, "decide") /\ UNCHANGED <<store, service, history>>
    BY DEF Decide
  <2> QED BY <1>2, <2>1, <2>3, <2>4
<1> QED BY <1>1, <1>2

(* A look at the token has told its state: a token that is not missing is  *)
(* in hand, and one that is ready waits for no test.                       *)
LEMMA AnswerStopped ==
    ASSUME Stopped, NEW r \in Requests, At(r, "decide") \/ At(r, "record"),
           NEW state \in State, Answer(r, state),
           state # "missing" => req[r].token # 0,
           state = "ready" => ~row'.pending,
           row' = row \/ row' \in [token : 1..last, pending : {FALSE}],
           UNCHANGED <<file, settings, service, history, counts>>
    PROVE  Stopped'
<1> USE FrpTokenAssumption
    DEF Stopped, Types, TypeOK, Requested, HoldsPublication, HasToken, Underway,
        PendingMeansStopped, Request, NoRow, NoRequest, At, Busy, ActsOnFrpc, Serving, Op,
        Locked, Stage, State
<1>1. CASE Return(r)
  <2>1. TypeOK'
    <3>1. {publication', token'} \subseteq Busy' \cup {NoOne}
      BY <1>1
    <3>2. \A q \in Busy' : req'[q] \in Request
      BY <1>1
    <3>3. row' = NoRow \/ row' \in [token : 1..last, pending : BOOLEAN]
      OBVIOUS
    <3> QED BY <3>1, <3>2, <3>3
  <2>2. Requested' /\ HasToken'
    BY <1>1
  <2>3. HoldsPublication'
    BY <1>1
  <2>4. Underway'
    <3>1. \A q \in Requests \ {r} : At(q, "connect") \/ At(q, "desire") => ~row'.pending
      OBVIOUS
    <3> QED BY <1>1, <3>1
  <2>5. PendingMeansStopped'
    BY <1>1
  <2> QED BY <2>1, <2>2, <2>3, <2>4, <2>5
<1>2. ASSUME NEW s \in Follow(r, state), Becomes(r, s, req[r].token, state),
             publication' = publication, token' \in {token, NoOne}
      PROVE  Stopped'
  <2>0. /\ s \in {"suspend", "publication", "save", "remove", "connect", "test"}
        /\ s = "test" => state # "missing"
        /\ s = "connect" => state = "ready"
        /\ s = "suspend" => req[r].op \in {"get", "boot"}
        /\ s = "publication" => req[r].op = "boot"
        /\ s = "save" => req[r].op = "update"
        /\ s = "remove" => req[r].op = "recover"
        /\ s = "connect" => req[r].op \in {"start", "refresh"} \/ publication = r
    BY <1>2 DEF Follow, MayConnect
  <2>1. TypeOK'
    <3>1. {publication', token'} \subseteq Busy' \cup {NoOne}
      BY <1>2
    <3>2. \A q \in Busy' : req'[q] \in Request
      BY <1>2, <2>0
    <3>3. row' = NoRow \/ row' \in [token : 1..last, pending : BOOLEAN]
      OBVIOUS
    <3> QED BY <1>2, <3>1, <3>2, <3>3
  <2>2. Requested' /\ HasToken'
    BY <1>2, <2>0
  <2>3. HoldsPublication'
    BY <1>2, <2>0
  <2>4. Underway'
    <3>1. \A q \in Requests : q # r /\ (At(q, "connect") \/ At(q, "desire")) => ~row'.pending
      OBVIOUS
    <3>2. s = "connect" => ~row'.pending
      BY <2>0
    <3> QED BY <1>2, <2>0, <3>1, <3>2
  <2>5. PendingMeansStopped'
    BY <1>2, <2>0
  <2> QED BY <2>1, <2>2, <2>3, <2>4, <2>5
<1>3. \/ Return(r)
      \/ /\ \E s \in Follow(r, state) : Becomes(r, s, req[r].token, state)
         /\ publication' = publication /\ token' \in {token, NoOne}
  BY DEF Answer
<1> QED BY <1>1, <1>2, <1>3

(* What it finds may be a token that has no row yet, or none.              *)
LEMMA DecideStopped ==
    ASSUME Stopped, NEW r \in Requests, UNCHANGED counts, Decide(r) PROVE Stopped'
<1>1. At(r, "decide") /\ UNCHANGED <<store, service, history>>
  BY DecideFinds DEF Stopped
<1>2. ASSUME NEW s \in {"record", "generate"}, Goto(r, s), UNCHANGED locks,
             s = "record" => req[r].token # 0
      PROVE  Stopped'
  BY <1>1, <1>2, FrpTokenAssumption
     DEF Stopped, Types, TypeOK, Requested, HoldsPublication, HasToken, Underway,
         PendingMeansStopped, Request, NoRow, NoRequest, At, Busy, ActsOnFrpc, Serving, Op,
         Locked, Stage, State
<1>3. ASSUME NEW state \in State, Answer(r, state), state # "missing" => req[r].token # 0,
             state = "ready" => ~row.pending
      PROVE  Stopped'
  <2>1. /\ row' = row /\ (state = "ready" => ~row'.pending)
        /\ UNCHANGED <<file, settings, service, history, counts>>
    BY <1>1, <1>3
  <2> QED BY <1>1, <1>3, <2>1, AnswerStopped
<1> QED BY <1>2, <1>3, DecideFinds DEF Stopped

(* The locks are taken; the token is looked at.                            *)
LEMMA LookStopped ==
    ASSUME Stopped, NEW r \in Requests, UNCHANGED counts,
           \/ Acquire(r) \/ AcquireToken(r) \/ Read(r) \/ Decide(r)
           \/ Generate(r) \/ Record(r) \/ Suspend(r)
    PROVE  Stopped'
<1> USE FrpTokenAssumption
    DEF Stopped, Types, TypeOK, Requested, HoldsPublication, HasToken, Underway,
        PendingMeansStopped, Request, NoRow, NoRequest, At, Busy, ActsOnFrpc, Serving, Op,
        Locked, Stage, State
<1>1. CASE Acquire(r)
  BY <1>1 DEF Acquire
<1>2. CASE AcquireToken(r)
  BY <1>2 DEF AcquireToken
<1>7. CASE Read(r)
  BY <1>7 DEF Read
<1>3. CASE Decide(r)
  BY <1>3, DecideStopped
<1>4. CASE Generate(r)
  BY <1>4 DEF Generate
<1>5. CASE Record(r)
  <2>1. /\ At(r, "record") /\ Answer(r, "ready") /\ UNCHANGED <<file, settings, service, history>>
        /\ row' = [token |-> req[r].token, pending |-> FALSE]
    BY <1>5 DEF Record
  <2>2. req[r].token # 0 /\ row' \in [token : 1..last, pending : {FALSE}]
    BY <2>1
  <2>3. ~row'.pending /\ "ready" \in State
    BY <2>1
  <2> QED BY <2>1, <2>2, <2>3, AnswerStopped
<1>6. CASE Suspend(r)
  BY <1>6 DEF Suspend
<1> QED BY <1>1, <1>2, <1>3, <1>4, <1>5, <1>6, <1>7

(* frpc is removed or started, a replacement is made or tested.            *)
LEMMA ActStopped ==
    ASSUME Stopped, NEW r \in Requests, UNCHANGED counts,
           \/ SaveSettings(r) \/ RemoveFrpc(r) \/ Undesire(r) \/ ReplaceSecret(r)
           \/ SavePending(r) \/ Connect(r) \/ Desire(r) \/ Test(r) \/ Complete(r)
    PROVE  Stopped'
<1> USE FrpTokenAssumption
    DEF Stopped, Types, TypeOK, Requested, HoldsPublication, HasToken, Underway,
        PendingMeansStopped, Request, NoRow, NoRequest, At, Busy, ActsOnFrpc, Serving, Op,
        Locked, Stage, State
<1>1. CASE SaveSettings(r)
  BY <1>1 DEF SaveSettings
<1>8. CASE RemoveFrpc(r)
  BY <1>8 DEF RemoveFrpc
<1>2. CASE Undesire(r)
  <2>1. TypeOK'
    <3>1. UNCHANGED <<file, row, settings, frpc, last, recovered, tested>> /\ ~desired'
      BY <1>2 DEF Undesire
    <3>2. {publication', token'} \subseteq Busy' \cup {NoOne}
      BY <1>2 DEF Undesire
    <3>3. \A s \in Busy' : req'[s] \in Request
      BY <1>2 DEF Undesire
    <3> QED BY <1>2, <3>1, <3>2, <3>3 DEF Undesire
  <2>2. Requested' /\ HasToken'
    BY <1>2 DEF Undesire
  <2>3. HoldsPublication'
    BY <1>2 DEF Undesire
  <2>4. Underway'
    BY <1>2 DEF Undesire
  <2>5. PendingMeansStopped'
    BY <1>2 DEF Undesire
  <2> QED BY <2>1, <2>2, <2>3, <2>4, <2>5
<1>3. CASE ReplaceSecret(r)
  BY <1>3 DEF ReplaceSecret
<1>4. CASE SavePending(r)
  BY <1>4 DEF SavePending
<1>5. CASE Connect(r)
  BY <1>5 DEF Connect
<1>9. CASE Desire(r)
  BY <1>9 DEF Desire
<1>6. CASE Test(r)
  <2>1. TypeOK'
    <3>1. tested' \subseteq 1..last
      <4>1. req[r] \in Request /\ req[r].token # 0
        BY <1>6 DEF Test
      <4>2. req[r].token \in 1..last
        BY <4>1
      <4> QED BY <1>6, <4>2 DEF Test
    <3>2. {publication', token'} \subseteq Busy' \cup {NoOne}
      BY <1>6 DEF Test
    <3>3. \A s \in Busy' : req'[s] \in Request
      BY <1>6 DEF Test
    <3> QED BY <1>6, <3>1, <3>2, <3>3 DEF Test
  <2>2. Requested' /\ HasToken'
    BY <1>6 DEF Test
  <2>3. HoldsPublication'
    BY <1>6 DEF Test
  <2>4. Underway'
    BY <1>6 DEF Test
  <2>5. PendingMeansStopped'
    BY <1>6 DEF Test
  <2> QED BY <2>1, <2>2, <2>3, <2>4, <2>5
<1>7. CASE Complete(r)
  <2>1. TypeOK'
    <3>1. row' = NoRow \/ row' \in [token : 1..last, pending : BOOLEAN]
      <4>1. CASE Completes(r)
        <5>1. row' = [token |-> row.token, pending |-> FALSE]
          BY <1>7, <4>1 DEF Complete
        <5>2. row # NoRow
          BY <4>1 DEF Completes
        <5> QED BY <5>1, <5>2
      <4>2. CASE ~Completes(r)
        BY <1>7, <4>2 DEF Complete
      <4> QED BY <4>1, <4>2
    <3>2. {publication', token'} \subseteq Busy' \cup {NoOne}
      BY <1>7 DEF Complete
    <3>3. \A s \in Busy' : req'[s] \in Request
      BY <1>7 DEF Complete
    <3> QED BY <1>7, <3>1, <3>2, <3>3 DEF Complete
  <2>2. Requested' /\ HasToken'
    BY <1>7 DEF Complete, Completes
  <2>3. HoldsPublication'
    BY <1>7 DEF Complete, Completes
  <2>4. Underway'
    BY <1>7 DEF Complete, Completes
  <2>5. PendingMeansStopped'
    BY <1>7 DEF Complete, Completes
  <2> QED BY <2>1, <2>2, <2>3, <2>4, <2>5
<1> QED BY <1>1, <1>2, <1>3, <1>4, <1>5, <1>6, <1>7, <1>8, <1>9

\* Every step keeps frpc stopped while a token waits to be tested.
LEMMA NextStopped == Stopped /\ [Next]_vars => Stopped'
<1> SUFFICES ASSUME Stopped, [Next]_vars PROVE Stopped'
  OBVIOUS
<1>1. CASE UNCHANGED vars
  BY <1>1 DEF vars, Stopped, Types, TypeOK, Requested, HoldsPublication, HasToken, Underway,
              PendingMeansStopped, Request, NoRow, NoRequest, At, Busy, ActsOnFrpc, Serving,
              Locked, Op, Stage, State
<1>2. ASSUME NEW r \in Requests, Lock(r) \/ Step(r) PROVE Stopped'
  BY <1>2, LookStopped, ActStopped DEF Lock, Step
<1>3. ASSUME NEW r \in Requests, Drop(r) \/ Crash(r) PROVE Stopped'
  BY <1>3, SurroundingsStopped
<1>4. ASSUME NEW r \in Requests, NEW op \in Op, Begin(r, op) PROVE Stopped'
  BY <1>4, SurroundingsStopped
<1>5. CASE \E r \in Requests : Lock(r) \/ Step(r) \/ Drop(r) \/ Crash(r)
  BY <1>2, <1>3, <1>5
<1>6. CASE \E r \in Requests, op \in Op : Begin(r, op)
  BY <1>4, <1>6
<1>7. CASE LoseFile
  BY <1>7, LoseStopped
<1> QED BY <1>1, <1>5, <1>6, <1>7 DEF Next

(* While a replacement waits for its test, no frpc runs and none is        *)
(* desired, however many requests start, refresh and recover at the same   *)
(* time and whatever is lost or cut short.  Who is about to start frpc has *)
(* seen no pending row and holds publication_lock, without which no row    *)
(* becomes pending.                                                        *)
THEOREM PendingStopped == Spec => []PendingMeansStopped
<1> QED BY InitStopped, NextStopped, PTL DEF Spec, Stopped

(* Files, rows, locks and requests have the types of the Rust values.      *)
THEOREM TypeCorrect == Spec => []TypeOK
<1>1. Spec => []Stopped
  BY InitStopped, NextStopped, PTL DEF Spec
<1>2. Stopped => TypeOK
  BY DEF Stopped, Types
<1> QED BY <1>1, <1>2, PTL
-----------------------------------------------------------------------------
(* RecoveredIsTested *)

\* The stages of a look at the token; a recovery goes on with token_lock.
LooksAtToken(r) ==
    \/ \E s \in {"read", "decide", "generate", "record"} : At(r, s)
    \/ \E s \in {"remove", "undesire", "replace", "pending"} : At(r, s) /\ req[r].op = "recover"

HoldsToken == \A r \in Requests : LooksAtToken(r) => token = r

(* What a request has in hand: a first row is written only while there is  *)
(* none, a recovery is completed only with a token that was tested.        *)
InHand == \A r \in Requests :
    /\ At(r, "record") \/ At(r, "generate") => row = NoRow
    /\ At(r, "generate") => ~settings
    /\ At(r, "complete") => req[r].token \in tested

(* Without a row there has been no recovery, or, on an installation whose  *)
(* version kept none, the recovery is about to write it.                   *)
NoRowYet == row = NoRow =>
    /\ install \in {"fresh", "legacy"}
    /\ install = "fresh" =>
          /\ ~settings /\ recovered = {}
          /\ \A r \in Requests : ~At(r, "save") /\
                \A s \in {"remove", "undesire", "replace", "pending"} :
                    At(r, s) => req[r].op # "recover"
    /\ install = "legacy" => settings
    /\ install = "legacy" /\ faults = 0 /\ recovered # {} => \E r \in Requests : At(r, "pending")

Adopted == HoldsToken /\ InHand /\ NoRowYet /\ RecoveredIsTested /\ faults \in Nat

\* At first no request has looked at the token.
LEMMA InitAdopted == Init => Adopted
<1> SUFFICES ASSUME Init PROVE Adopted
  OBVIOUS
<1>1. \A r \in Requests, s \in Stage : ~At(r, s)
  BY DEF Init, At, NoRequest
<1>2. HoldsToken /\ InHand
  BY <1>1 DEF HoldsToken, LooksAtToken, InHand, Stage
<1>3. NoRowYet
  <2>1. recovered = {} /\ settings = (install # "fresh")
    BY DEF Init
  <2>2. row = NoRow => install \in {"fresh", "legacy"}
    BY DEF Init, Install, NoRow
  <2> QED BY <1>1, <2>1, <2>2 DEF NoRowYet, Stage
<1> QED BY <1>2, <1>3 DEF Init, Adopted, RecoveredIsTested

(* The file is lost.                                                       *)
LEMMA LoseAdopted == Stopped /\ Adopted /\ LoseFile => Adopted'
  BY DEF LoseFile, Adopted, HoldsToken, LooksAtToken, InHand, NoRowYet, RecoveredIsTested,
         NoRow, NoRequest, At

(* A request arrives or is cut short; the controller starts again.         *)
LEMMA SurroundingsAdopted ==
    ASSUME Stopped, Adopted, NEW r \in Requests PROVE
    /\ \A op \in Op : Begin(r, op) => Adopted'
    /\ Drop(r) \/ Crash(r) => Adopted'
<1> USE FrpTokenAssumption
    DEF Stopped, Types, TypeOK, Requested, HasToken, Adopted, HoldsToken, LooksAtToken, InHand,
        NoRowYet, RecoveredIsTested, Request, NoRow, NoRequest, At, Busy, Op, Locked, Stage, State
<1>1. ASSUME NEW op \in Op, Begin(r, op) PROVE Adopted'
  BY <1>1 DEF Begin
<1>2. CASE Drop(r)
  <2>1. HoldsToken' /\ InHand'
    BY <1>2 DEF Drop
  <2>2. NoRowYet'
    BY <1>2 DEF Drop
  <2>3. RecoveredIsTested' /\ faults' \in Nat
    BY <1>2 DEF Drop
  <2> QED BY <2>1, <2>2, <2>3
<1>3. CASE Crash(r)
  BY <1>3 DEF Crash
<1> QED BY <1>1, <1>2, <1>3

(* What a look at the token finds changes nothing but the request.         *)
LEMMA DecideAdopted ==
    ASSUME Stopped, Adopted, NEW r \in Requests, Decide(r), UNCHANGED counts PROVE Adopted'
<1>1. /\ At(r, "decide") /\ UNCHANGED <<store, service, history>>
      /\ Types
  BY DecideFinds DEF Stopped
<1>2. token = r
  BY <1>1 DEF Adopted, HoldsToken, LooksAtToken
<1>3. ASSUME NEW s \in {"record", "generate"}, Goto(r, s), UNCHANGED locks, row = NoRow,
             s = "generate" => ~settings
      PROVE  Adopted'
  BY <1>1, <1>2, <1>3
     DEF Types, Requested, Request, NoRow, NoRequest, At, Adopted, HoldsToken, LooksAtToken,
         InHand, NoRowYet, RecoveredIsTested
<1>4. CASE Return(r)
  BY <1>1, <1>2, <1>4
     DEF Types, Requested, Request, NoRow, NoRequest, At, Adopted, HoldsToken, LooksAtToken,
         InHand, NoRowYet, RecoveredIsTested
<1>5. ASSUME NEW state \in State, NEW s \in Follow(r, state), Becomes(r, s, req[r].token, state),
             token' = IF KeepsToken(req[r].op, state) THEN token ELSE NoOne,
             row = NoRow => settings
      PROVE  Adopted'
  <2>1. /\ s \in {"suspend", "publication", "save", "remove", "connect", "test"}
        /\ s = "remove" => req[r].op = "recover" /\ token' = r
    BY <1>2, <1>5 DEF Follow, KeepsToken
  <2> USE DEF Types, Requested, Request, NoRow, NoRequest, At
  <2>2. HoldsToken'
    BY <1>1, <1>2, <1>5, <2>1 DEF Adopted, HoldsToken, LooksAtToken
  <2>3. InHand'
    BY <1>1, <1>5, <2>1 DEF Adopted, InHand
  <2>4. NoRowYet'
    BY <1>1, <1>5, <2>1 DEF Adopted, NoRowYet
  <2>5. RecoveredIsTested' /\ faults' \in Nat
    BY <1>1 DEF Adopted, RecoveredIsTested
  <2> QED BY <2>2, <2>3, <2>4, <2>5 DEF Adopted
<1> QED BY <1>1, <1>3, <1>4, <1>5, DecideFinds DEF Answer

(* A request takes a lock or takes a step.                                 *)
LEMMA StepAdopted ==
    ASSUME Stopped, Adopted, NEW r \in Requests, UNCHANGED counts PROVE
    /\ Lock(r) => Adopted'
    /\ Step(r) => Adopted'
<1> USE FrpTokenAssumption
    DEF Stopped, Types, TypeOK, Requested, HasToken, Adopted, HoldsToken, LooksAtToken, InHand,
        NoRowYet, RecoveredIsTested, Request, NoRow, NoRequest, At, Busy, Op, Locked, Stage, State
<1>1. CASE Acquire(r)
  BY <1>1 DEF Acquire
<1>2. CASE AcquireToken(r)
  <2>1. HoldsToken'
    <3>1. \A s \in Requests : ~LooksAtToken(s)
      BY <1>2 DEF AcquireToken
    <3> QED BY <1>2, <3>1 DEF AcquireToken
  <2>2. InHand'
    BY <1>2 DEF AcquireToken
  <2>3. NoRowYet'
    BY <1>2 DEF AcquireToken
  <2> QED BY <1>2, <2>1, <2>2, <2>3 DEF AcquireToken
<1>3. CASE Read(r)
  BY <1>3 DEF Read
<1>4. CASE Decide(r)
  BY <1>4, DecideAdopted
<1>5. CASE Generate(r)
  BY <1>5 DEF Generate
<1>6. CASE Record(r)
  <2>1. HoldsToken'
    <3>1. CASE Return(r)
      BY <1>6, <3>1 DEF Record
    <3>2. ASSUME NEW s \in Follow(r, "ready"), Becomes(r, s, req[r].token, "ready"),
                 token' = IF KeepsToken(req[r].op, "ready") THEN token ELSE NoOne
          PROVE  HoldsToken'
      <4>1. s \in {"publication", "save", "connect", "test"}
        BY <3>2 DEF Follow, Replaces
      <4>2. token = r
        BY <1>6 DEF Record
      <4> QED BY <3>2, <4>1, <4>2
    <3> QED BY <1>6, <3>1, <3>2 DEF Record, Answer
  <2>2. InHand'
    BY <1>6 DEF Record, Answer, Follow, MayConnect, KeepsToken, Replaces
  <2>3. NoRowYet'
    BY <1>6 DEF Record, Answer, Follow, MayConnect, KeepsToken, Replaces
  <2>4. RecoveredIsTested'
    <3>1. row = NoRow /\ \A s \in Requests : ~At(s, "pending")
      BY <1>6 DEF Record, Underway
    <3>2. install # "legacy" \/ faults = 0 => recovered = {}
      BY <3>1
    <3> QED BY <1>6, <3>2 DEF Record
  <2> QED BY <2>1, <2>2, <2>3, <2>4
<1>7. CASE Suspend(r)
  BY <1>7 DEF Suspend
<1>8. CASE SaveSettings(r)
  <2>1. HoldsToken'
    BY <1>8 DEF SaveSettings
  <2>2. InHand'
    <3>1. \A s \in Requests : ~At(s, "generate")
      BY <1>8 DEF SaveSettings
    <3> QED BY <1>8, <3>1 DEF SaveSettings
  <2>3. NoRowYet'
    BY <1>8 DEF SaveSettings
  <2>4. RecoveredIsTested'
    BY <1>8 DEF SaveSettings
  <2> QED BY <2>1, <2>2, <2>3, <2>4
<1>9. CASE RemoveFrpc(r)
  <2>1. HoldsToken' /\ InHand'
    BY <1>9 DEF RemoveFrpc
  <2>2. NoRowYet'
    BY <1>9 DEF RemoveFrpc
  <2> QED BY <1>9, <2>1, <2>2 DEF RemoveFrpc
<1>10. CASE Undesire(r)
  BY <1>10 DEF Undesire
<1>11. CASE ReplaceSecret(r)
  <2>1. HoldsToken'
    BY <1>11 DEF ReplaceSecret
  <2>2. InHand'
    BY <1>11 DEF ReplaceSecret
  <2>3. NoRowYet'
    <3>1. At(r, "pending")' /\ req[r].op = "recover"
      BY <1>11 DEF ReplaceSecret, Underway
    <3>2. row = NoRow => install = "legacy" /\ settings
      BY <1>11, <3>1 DEF ReplaceSecret
    <3> QED BY <1>11, <3>1, <3>2 DEF ReplaceSecret
  <2>4. RecoveredIsTested'
    BY <1>11 DEF ReplaceSecret
  <2> QED BY <2>1, <2>2, <2>3, <2>4
<1>12. CASE SavePending(r)
  <2>1. HoldsToken'
    BY <1>12 DEF SavePending
  <2>2. InHand'
    <3>1. token = r
      BY <1>12 DEF SavePending, Underway
    <3>2. \A s \in Requests \ {r} : ~At(s, "record") /\ ~At(s, "generate")
      BY <1>12, <3>1
    <3> QED BY <1>12, <3>2 DEF SavePending
  <2>3. NoRowYet'
    BY <1>12 DEF SavePending
  <2>4. RecoveredIsTested'
    BY <1>12 DEF SavePending
  <2> QED BY <2>1, <2>2, <2>3, <2>4
<1>13. CASE Connect(r)
  BY <1>13 DEF Connect
<1>14. CASE Desire(r)
  BY <1>14 DEF Desire
<1>15. CASE Test(r)
  BY <1>15 DEF Test
<1>16. CASE Complete(r)
  <2>1. HoldsToken'
    BY <1>16 DEF Complete, Completes
  <2>2. InHand'
    <3>1. row = NoRow => row' = NoRow
      BY <1>16 DEF Complete, Completes
    <3> QED BY <1>16, <3>1 DEF Complete
  <2>3. NoRowYet'
    BY <1>16 DEF Complete, Completes
  <2>4. RecoveredIsTested'
    BY <1>16 DEF Complete, Completes
  <2> QED BY <2>1, <2>2, <2>3, <2>4
<1> QED BY <1>1, <1>2, <1>3, <1>4, <1>5, <1>6, <1>7, <1>8,
            <1>9, <1>10, <1>11, <1>12, <1>13, <1>14, <1>15, <1>16 DEF Lock, Step

\* Every step keeps what requests and rows know of the token.
LEMMA NextAdopted == Stopped /\ Adopted /\ [Next]_vars => Adopted'
<1> SUFFICES ASSUME Stopped, Adopted, [Next]_vars PROVE Adopted'
  OBVIOUS
<1>1. CASE UNCHANGED vars
  BY <1>1 DEF vars, Adopted, HoldsToken, LooksAtToken, InHand, NoRowYet, RecoveredIsTested,
              NoRow, NoRequest, At
<1>2. ASSUME NEW r \in Requests, Lock(r) \/ Step(r) PROVE Adopted'
  BY <1>2, StepAdopted DEF Lock, Step
<1>3. ASSUME NEW r \in Requests, Drop(r) \/ Crash(r) PROVE Adopted'
  BY <1>3, SurroundingsAdopted
<1>4. ASSUME NEW r \in Requests, NEW op \in Op, Begin(r, op) PROVE Adopted'
  BY <1>4, SurroundingsAdopted
<1>5. CASE \E r \in Requests : Lock(r) \/ Step(r) \/ Drop(r) \/ Crash(r)
  BY <1>2, <1>3, <1>5
<1>6. CASE \E r \in Requests, op \in Op : Begin(r, op)
  BY <1>4, <1>6
<1>7. CASE LoseFile
  BY <1>7, LoseAdopted
<1> QED BY <1>1, <1>5, <1>6, <1>7 DEF Next

(* A recovered token is ready only when it has logged in to the server,    *)
(* whatever is lost, recovered again or tested at the same time, unless an *)
(* installation that never had a row is cut off between file and row.  The *)
(* row that a first look writes is written under token_lock, where no      *)
(* recovery is half way; a test completes only what it has tested.         *)
THEOREM RecoveredCorrect == Spec => []RecoveredIsTested
<1>1. Spec => [](Stopped /\ Adopted)
  BY InitStopped, NextStopped, InitAdopted, NextAdopted, PTL DEF Spec
<1>2. Adopted => RecoveredIsTested
  BY DEF Adopted
<1> QED BY <1>1, <1>2, PTL
-----------------------------------------------------------------------------
(* OneReplacement *)

Lacks(t) == IF row = NoRow THEN t = 0 ELSE t # row.token
Owed == last <= losses + faults
Recording(r) == At(r, "pending") \/ At(r, "record")

\* A token that is missing, outside the steps that write its row, was lost.
Lost == Lacks(file) /\ (\A r \in Requests : ~Recording(r)) => Owed

\* Who is about to make a token has found it missing; who has read or made one
\* finds it in the file, unless it was lost.
Finds == \A r \in Requests :
    /\ At(r, "decide") /\ Lacks(req[r].token) => Owed
    /\ At(r, "generate") => Owed
    /\ \A s \in {"remove", "undesire", "replace"} : At(r, s) /\ req[r].op = "recover" => Owed
    /\ At(r, "decide") \/ Recording(r) => file = req[r].token \/ Owed

Paid == OneReplacement /\ Lost /\ Finds /\ {last, losses, faults} \subseteq Nat

\* At first nothing has been lost and nothing replaced.
LEMMA InitPaid == Init => Paid
<1> SUFFICES ASSUME Init PROVE Paid
  OBVIOUS
<1>1. \A r \in Requests, s \in Stage : ~At(r, s)
  BY DEF Init, At, NoRequest
<1>2. Finds
  BY <1>1 DEF Finds, Recording, Stage
<1>3. CASE install = "fresh"
  BY <1>2, <1>3 DEF Init, Paid, OneReplacement, Lost, Owed
<1>4. CASE install # "fresh"
  BY <1>2, <1>4 DEF Init, Paid, OneReplacement, Lost, Lacks, NoRow
<1> QED BY <1>3, <1>4

(* The loss of the file pays for a new token.                              *)
LEMMA LosePaid == Stopped /\ Paid /\ LoseFile => Paid'
  BY DEF LoseFile, Paid, OneReplacement, Lost, Finds, Owed

(* So does a crash or an error, whatever was half way.                     *)
LEMMA SurroundingsPaid ==
    ASSUME Stopped, Paid, NEW r \in Requests PROVE
    /\ \A op \in Op : Begin(r, op) => Paid'
    /\ Drop(r) \/ Crash(r) => Paid'
<1> USE DEF Stopped, Types, Requested, Request, NoRequest, At, Paid, OneReplacement, Lost, Lacks,
        Finds, Owed, Recording, Locked
<1>1. ASSUME NEW op \in Op, Begin(r, op) PROVE Paid'
  BY <1>1 DEF Begin
<1>2. CASE Drop(r)
  BY <1>2 DEF Drop
<1>3. CASE Crash(r)
  BY <1>3 DEF Crash
<1> QED BY <1>1, <1>2, <1>3

(* Between a look at the token and the row it leads to nobody else is.     *)
LEMMA Alone ==
    ASSUME Stopped, HoldsToken, NEW r \in Requests,
           \/ \E s \in {"read", "decide", "generate", "replace"} : At(r, s)
           \/ Recording(r),
           NEW q \in Requests \ {r}
    PROVE  ~LooksAtToken(q) /\ ~Recording(q)
<1>1. token = r
  BY DEF Stopped, Underway, HoldsToken, LooksAtToken, Recording
<1>2. ~LooksAtToken(q)
  BY <1>1 DEF HoldsToken
<1> QED BY <1>2 DEF Stopped, Underway, LooksAtToken, Recording

(* A request takes a lock or takes a step.                                 *)
LEMMA StepPaid ==
    ASSUME Stopped, Adopted, Paid, NEW r \in Requests, UNCHANGED counts PROVE
    /\ Lock(r) => Paid'
    /\ Step(r) => Paid'
<1> USE DEF Stopped, Types, TypeOK, Requested, HasToken, Request, State, NoRow, NoRequest, At,
        Adopted, HoldsToken, LooksAtToken, InHand, Paid, OneReplacement, Lost, Lacks, Finds,
        Owed, Recording
<1>1. CASE Acquire(r)
  BY <1>1 DEF Acquire
<1>2. CASE AcquireToken(r)
  BY <1>2 DEF AcquireToken
<1>3. CASE Read(r)
  <2>1. OneReplacement'
    BY <1>3 DEF Read
  <2>2. Lost'
    BY <1>3 DEF Read
  <2>3. Finds'
    <3>1. \A s \in Requests : ~Recording(s)
      BY <1>3, Alone DEF Read
    <3> QED BY <1>3, <3>1 DEF Read
  <2> QED BY <1>3, <2>1, <2>2, <2>3 DEF Read
<1>4. CASE Decide(r)
  <2>1. At(r, "decide") /\ UNCHANGED <<store, service, history>>
    BY <1>4, DecideFinds
  <2>2. \A q \in Requests \ {r} : ~Recording(q)
    BY <2>1, Alone
  <2>3. CASE Goto(r, "record")
    BY <2>1, <2>2, <2>3
  <2>4. CASE Goto(r, "generate") /\ row = NoRow /\ req[r].token = 0
    BY <2>1, <2>4
  <2>5. CASE Return(r)
    BY <2>1, <2>5
  <2>6. ASSUME NEW state \in State, NEW s \in Follow(r, state), Becomes(r, s, req[r].token, state),
               state = "missing" => Lacks(req[r].token)
        PROVE  Paid'
    <3>1. /\ s \in {"suspend", "publication", "save", "remove", "connect", "test"}
          /\ s = "remove" => state = "missing"
      BY <2>6 DEF Follow, Replaces
    <3>2. Lost'
      BY <2>1, <2>6, <3>1
    <3>3. Finds'
      BY <2>1, <2>6, <3>1
    <3> QED BY <2>1, <3>2, <3>3
  <2> QED BY <1>4, <2>3, <2>4, <2>5, <2>6, DecideFinds DEF Answer
<1>5. CASE Generate(r)
  <2>1. OneReplacement'
    BY <1>5 DEF Generate
  <2>2. Lost'
    BY <1>5 DEF Generate
  <2>3. Finds'
    BY <1>5, Alone DEF Generate
  <2> QED BY <1>5, <2>1, <2>2, <2>3 DEF Generate
<1>6. CASE Record(r)
  BY <1>6 DEF Record, Answer, Follow, MayConnect, KeepsToken, Replaces
<1>7. CASE Suspend(r)
  BY <1>7 DEF Suspend
<1>8. CASE SaveSettings(r)
  BY <1>8 DEF SaveSettings
<1>9. CASE RemoveFrpc(r)
  BY <1>9 DEF RemoveFrpc
<1>10. CASE Undesire(r)
  BY <1>10 DEF Undesire
<1>11. CASE ReplaceSecret(r)
  <2>1. OneReplacement'
    BY <1>11 DEF ReplaceSecret, Underway
  <2>2. Lost'
    BY <1>11 DEF ReplaceSecret
  <2>3. Finds'
    BY <1>11, Alone DEF ReplaceSecret
  <2> QED BY <1>11, <2>1, <2>2, <2>3 DEF ReplaceSecret
<1>12. CASE SavePending(r)
  <2>1. OneReplacement'
    BY <1>12 DEF SavePending
  <2>2. Lost'
    BY <1>12 DEF SavePending
  <2>3. Finds'
    BY <1>12, Alone DEF SavePending
  <2> QED BY <1>12, <2>1, <2>2, <2>3 DEF SavePending
<1>13. CASE Connect(r)
  BY <1>13 DEF Connect
<1>14. CASE Desire(r)
  BY <1>14 DEF Desire
<1>15. CASE Test(r)
  BY <1>15 DEF Test
<1>16. CASE Complete(r)
  <2>1. (row' = NoRow <=> row = NoRow) /\ row'.token = row.token
    <3>1. CASE Completes(r)
      <4>1. row' = [token |-> row.token, pending |-> FALSE]
        BY <1>16, <3>1 DEF Complete
      <4>2. row # NoRow
        BY <3>1 DEF Completes
      <4> QED BY <4>1, <4>2
    <3>2. CASE ~Completes(r)
      BY <1>16, <3>2 DEF Complete
    <3> QED BY <3>1, <3>2
  <2>2. OneReplacement'
    BY <1>16 DEF Complete
  <2>3. Lost'
    BY <1>16, <2>1 DEF Complete
  <2>4. Finds'
    BY <1>16, <2>1 DEF Complete
  <2> QED BY <1>16, <2>2, <2>3, <2>4 DEF Complete
<1> QED BY <1>1, <1>2, <1>3, <1>4, <1>5, <1>6, <1>7, <1>8,
            <1>9, <1>10, <1>11, <1>12, <1>13, <1>14, <1>15, <1>16 DEF Lock, Step

\* Every step keeps the account of losses and replacements.
LEMMA NextPaid == Stopped /\ Adopted /\ Paid /\ [Next]_vars => Paid'
<1> SUFFICES ASSUME Stopped, Adopted, Paid, [Next]_vars PROVE Paid'
  OBVIOUS
<1>1. CASE UNCHANGED vars
  BY <1>1 DEF vars, Paid, OneReplacement, Lost, Lacks, Finds, Owed, Recording, NoRow, NoRequest, At
<1>2. ASSUME NEW r \in Requests, Lock(r) \/ Step(r) PROVE Paid'
  BY <1>2, StepPaid DEF Lock, Step
<1>3. ASSUME NEW r \in Requests, Drop(r) \/ Crash(r) PROVE Paid'
  BY <1>3, SurroundingsPaid
<1>4. ASSUME NEW r \in Requests, NEW op \in Op, Begin(r, op) PROVE Paid'
  BY <1>4, SurroundingsPaid
<1>5. CASE \E r \in Requests : Lock(r) \/ Step(r) \/ Drop(r) \/ Crash(r)
  BY <1>2, <1>3, <1>5
<1>6. CASE \E r \in Requests, op \in Op : Begin(r, op)
  BY <1>4, <1>6
<1>7. CASE LoseFile
  BY <1>7, LosePaid
<1> QED BY <1>1, <1>5, <1>6, <1>7 DEF Next

(* Every token after the first is paid for by a change of the file, a      *)
(* crash or an error: who makes one holds token_lock since it found the    *)
(* token missing, and nobody else is between a new file and its row.       *)
THEOREM ReplacedOnce == Spec => []OneReplacement
<1>1. Spec => [](Stopped /\ Adopted /\ Paid)
  BY InitStopped, NextStopped, InitAdopted, NextAdopted, InitPaid, NextPaid, PTL DEF Spec
<1>2. Paid => OneReplacement
  BY DEF Paid
<1> QED BY <1>1, <1>2, PTL
=============================================================================
