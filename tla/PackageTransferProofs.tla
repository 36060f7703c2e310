----------------------- MODULE PackageTransferProofs -----------------------
(***************************************************************************)
(* Proofs about PackageTransfer, for every set of exports and transfers.   *)
(***************************************************************************)
EXTENDS PackageTransfer, TLAPS

USE DEF files, tables, page, history, counts

-----------------------------------------------------------------------------
(* The inductive invariants *)

InStage(t, S) == job[t] # NoJob /\ job[t].stage \in S

\* A transfer has no result before its end, and the stop it was given stays in
\* the table until it leaves.
Progress ==
    /\ exits \in Nat /\ reloads \in Nat
    /\ \A t \in Transfers :
          /\ InStage(t, {"start", "copy", "copying", "rename", "tidy"}) => job[t].result = "none"
          /\ InStage(t, {"copy", "copying", "rename", "tidy", "leave"}) => flag[t] # "none"
          /\ flag[t] = "up" => job[t] # NoJob
          /\ flag[t] = "up" /\ Saves(t) => job[t].from \in given

\* A transfer from an export goes to the destination of the export or to its
\* own, so that no other package is ever saved there.
Placed ==
    /\ \A t \in Transfers : job[t] # NoJob /\ Saves(t) => job[t].to \in {job[t].from, t}
    /\ \A x \in Exports : saved[x] \in {None, x}
    /\ \A t \in Transfers : saved[t] # None => job[t] # NoJob /\ saved[t] = job[t].from
    /\ \A t \in Transfers : InStage(t, {"tidy"}) /\ Saves(t) =>
          \E d \in Places : saved[d] = job[t].from

\* A transfer that is stopped before its rename comes to no other end.
Stopped ==
    /\ inTime \subseteq Transfers
    /\ \A t \in inTime :
          /\ InStage(t, {"start", "copy", "copying", "leave", "answer", "done"})
          /\ job[t].result # "saved"
          /\ InStage(t, {"start", "copy", "copying"}) => flag[t] = "up"
    /\ \A t \in Transfers \cap staged :
          InStage(t, {"tidy", "leave", "answer", "done"}) /\ t \notin inTime

Base == TypeOK /\ Progress /\ Placed /\ Stopped

-----------------------------------------------------------------------------
(* The commands *)

\* What the fields of a command are.
LEMMA JobFields ==
    ASSUME NEW j \in Job
    PROVE  /\ j.from \in Exports \cup {None} /\ j.to \in Places /\ j.asked \in Asker
           /\ j.stage \in Stage /\ j.result \in Result /\ j # NoJob
BY DEF Job, NoJob, Stage

\* What changing who waits for a command leaves of it.
LEMMA SetAsked ==
    ASSUME NEW j \in Job, NEW a \in Asker
    PROVE  LET new == [j EXCEPT !.asked = a]
           IN  /\ new \in Job /\ new # NoJob /\ new.from = j.from /\ new.to = j.to
               /\ new.stage = j.stage /\ new.result = j.result
<1>1. [j EXCEPT !.asked = a] \in Job
  BY DEF Job
<1> QED BY <1>1, JobFields DEF Job

\* What is left of a command that is over.
LEMMA OverLeaves ==
    ASSUME NEW j \in Job
    PROVE  /\ Over(j) \in Job /\ Over(j) # NoJob /\ Over(j).from = j.from /\ Over(j).to = j.to
           /\ Over(j).stage = "done" /\ Over(j).result = j.result
<1>1. Over(j) \in Job
  BY DEF Over, Job, Stage, Asker
<1> QED BY <1>1, JobFields DEF Over, Job

\* A step of the command t.
Ended(t, s, how) ==
    /\ job' \in [Transfers -> Job \cup {NoJob}]
    /\ job'[t] # NoJob
    /\ job'[t].from = job[t].from /\ job'[t].to = job[t].to
    /\ job'[t].stage = s /\ job'[t].result = how
    /\ \A u \in Transfers : u # t => job'[u] = job[u]

\* Ends is such a step,
LEMMA EndsEnded ==
    ASSUME TypeOK, NEW t \in Transfers, job[t] # NoJob, NEW s \in Stage, NEW how \in Result,
           Ends(t, s, how)
    PROVE  Ended(t, s, how)
<1> DEFINE new == [from |-> job[t].from, to |-> job[t].to, asked |-> job[t].asked,
                   stage |-> s, result |-> how]
<1>1. job[t] \in Job
  BY DEF TypeOK
<1>2. new \in Job
  BY <1>1, JobFields, Zenon DEF Job
<1>3. /\ new.from = job[t].from /\ new.to = job[t].to
      /\ new.stage = s /\ new.result = how
  OBVIOUS
<1>4. job' = [job EXCEPT ![t] = new]
  BY DEF Ends
<1> HIDE DEF new
<1> QED BY <1>2, <1>3, <1>4, JobFields DEF Ended, TypeOK

\* and so is Goto.
LEMMA GotoEnded ==
    ASSUME TypeOK, NEW t \in Transfers, job[t] # NoJob, NEW s \in Stage, Goto(t, s)
    PROVE  Ended(t, s, job[t].result)
<1>1. job[t].result \in Result
  BY JobFields DEF TypeOK
<1> QED BY <1>1, EndsEnded DEF Goto

\* The page calls a command that has not been called.
Called(t, from, to) ==
    /\ job[t] = NoJob
    /\ job' \in [Transfers -> Job \cup {NoJob}]
    /\ job'[t] # NoJob
    /\ job'[t].from = from /\ job'[t].to = to
    /\ job'[t].stage = "start" /\ job'[t].result = "none"
    /\ \A u \in Transfers : u # t => job'[u] = job[u]

\* Call does that.
LEMMA CallCalled ==
    ASSUME TypeOK, NEW t \in Transfers, NEW from \in Exports \cup {None}, NEW to \in Places,
           Call(t, from, to)
    PROVE  Called(t, from, to)
<1> DEFINE new == [from |-> from, to |-> to, asked |-> "page", stage |-> "start", result |-> "none"]
<1>1. new \in Job
  <2>1. "page" \in Asker /\ "start" \in Stage /\ "none" \in Result
    BY DEF Stage, Result, Asker
  <2> QED BY <2>1, Zenon DEF Job
<1>2. /\ new.from = from /\ new.to = to /\ new.stage = "start" /\ new.result = "none"
  OBVIOUS
<1>3. job' = [job EXCEPT ![t] = new] /\ job[t] = NoJob
  BY DEF Call
<1> HIDE DEF new
<1> QED BY <1>1, <1>2, <1>3, JobFields DEF Called, TypeOK

\* The page forgets its calls, or all commands end with the desktop.
AllEnded ==
    /\ job' \in [Transfers -> Job \cup {NoJob}]
    /\ \A t \in Transfers :
          /\ job'[t] = NoJob <=> job[t] = NoJob
          /\ job[t] # NoJob => /\ job'[t].from = job[t].from /\ job'[t].to = job[t].to
                               /\ job'[t].result = job[t].result

\* Leaving and reloading the page set who waits, and nothing else.
LEMMA LeavePageEnded ==
    ASSUME TypeOK, LeavePage
    PROVE  AllEnded /\ \A t \in Transfers : job[t] # NoJob => job'[t].stage = job[t].stage
<1>1. ASSUME NEW t \in Transfers, job[t] # NoJob
      PROVE  LET new == [job[t] EXCEPT !.asked = "left"]
             IN  /\ new \in Job /\ new # NoJob /\ new.from = job[t].from /\ new.to = job[t].to
                 /\ new.stage = job[t].stage /\ new.result = job[t].result
  <2>1. job[t] \in Job /\ "left" \in Asker
    BY <1>1 DEF TypeOK, Asker
  <2> QED BY <2>1, SetAsked
<1>2. job' = [t \in Transfers |-> IF job[t] # NoJob /\ job[t].asked = "page"
                                  THEN [job[t] EXCEPT !.asked = "left"] ELSE job[t]]
  BY DEF LeavePage
<1> QED BY <1>1, <1>2 DEF AllEnded, TypeOK

\* A reload does so for every command.
LEMMA ReloadEnded ==
    ASSUME TypeOK, Reload
    PROVE  AllEnded /\ \A t \in Transfers : job[t] # NoJob => job'[t].stage = job[t].stage
<1>1. ASSUME NEW t \in Transfers, job[t] # NoJob
      PROVE  LET new == [job[t] EXCEPT !.asked = "gone"]
             IN  /\ new \in Job /\ new # NoJob /\ new.from = job[t].from /\ new.to = job[t].to
                 /\ new.stage = job[t].stage /\ new.result = job[t].result
  <2>1. job[t] \in Job /\ "gone" \in Asker
    BY <1>1 DEF TypeOK, Asker
  <2> QED BY <2>1, SetAsked
<1>2. job' = [t \in Transfers |-> IF job[t] = NoJob THEN NoJob
                                                   ELSE [job[t] EXCEPT !.asked = "gone"]]
  BY DEF Reload
<1> QED BY <1>1, <1>2 DEF AllEnded

\* After an exit no job is under way.
LEMMA ExitEnded ==
    ASSUME TypeOK, Exit
    PROVE  AllEnded /\ \A t \in Transfers : job[t] # NoJob => job'[t].stage = "done"
<1>1. ASSUME NEW t \in Transfers, job[t] # NoJob
      PROVE  /\ Over(job[t]) \in Job /\ Over(job[t]) # NoJob
             /\ Over(job[t]).from = job[t].from /\ Over(job[t]).to = job[t].to
             /\ Over(job[t]).stage = "done" /\ Over(job[t]).result = job[t].result
  <2>1. job[t] \in Job
    BY <1>1 DEF TypeOK
  <2> QED BY <2>1, OverLeaves
<1>2. job' = [t \in Transfers |-> IF job[t] = NoJob THEN NoJob ELSE Over(job[t])]
  BY DEF Exit
<1> QED BY <1>1, <1>2 DEF AllEnded

\* An answer ends its command.
LEMMA AnswerEnded ==
    ASSUME TypeOK, NEW t \in Transfers, Answer(t)
    PROVE  Ended(t, "done", job[t].result)
<1>1. job[t] \in Job
  BY DEF Answer, At, TypeOK
<1>2. job' = [job EXCEPT ![t] = Over(job[t])]
  BY DEF Answer
<1> QED BY <1>1, <1>2, OverLeaves DEF Ended, TypeOK

-----------------------------------------------------------------------------
(* Base is inductive *)

\* The copy is looked at before it begins.
LEMMA StartBase == ASSUME Base, NEW t \in Transfers, Start(t) PROVE Base'
<1> USE DEF Base
<1>1. TypeOK /\ job[t] # NoJob /\ InStage(t, {"start"}) /\ job[t].result = "none"
  BY DEF Start, At, InStage, Progress
<1>2. /\ UNCHANGED <<files, destinations, sources, tracked, page, late, history, counts>>
      /\ \A u \in Transfers : u # t => flag'[u] = flag[u]
      /\ flag' \in [Transfers -> {"none", "down", "up"}]
      /\ flag'[t] = "up" => flag[t] = "up"
      /\ flag[t] = "up" => flag'[t] = "up"
  BY <1>1 DEF Start, Registers, TypeOK
<1>3. (Ended(t, "copy", "none") /\ flag'[t] # "none") \/ Ended(t, "answer", "failed")
  BY <1>1, EndsEnded, GotoEnded DEF Start, Registers, Stage, Result, TypeOK
<1>4. TypeOK'
  BY <1>1, <1>2, <1>3 DEF TypeOK, Ended, At
<1>5. Progress'
  BY <1>1, <1>2, <1>3 DEF Progress, Ended, InStage, Saves
<1>6. Placed'
  BY <1>1, <1>2, <1>3 DEF Placed, Ended, InStage, Saves
<1>7. Stopped'
  BY <1>1, <1>2, <1>3 DEF Stopped, Ended, InStage
<1> QED BY <1>4, <1>5, <1>6, <1>7

\* The files are opened.
LEMMA OpenBase == ASSUME Base, NEW t \in Transfers, Open(t) PROVE Base'
<1> USE DEF Base
<1>1. TypeOK /\ job[t] # NoJob /\ InStage(t, {"copy"}) /\ job[t].result = "none" /\ flag[t] # "none"
  BY DEF Open, At, InStage, Progress
<1>2. /\ UNCHANGED <<staged, saved, tables, tracked, page, late, history, counts>>
      /\ partial' \subseteq Transfers
  BY <1>1 DEF Open, TypeOK
<1>3. Ended(t, "copying", "none") \/ Ended(t, "leave", "failed")
  BY <1>1, EndsEnded, GotoEnded DEF Open, Stage, Result
<1>4. TypeOK'
  BY <1>1, <1>2, <1>3 DEF TypeOK, Ended, At
<1>5. Progress'
  BY <1>1, <1>2, <1>3 DEF Progress, Ended, InStage, Saves
<1>6. Placed'
  BY <1>1, <1>2, <1>3 DEF Placed, Ended, InStage, Saves
<1>7. Stopped'
  BY <1>1, <1>2, <1>3 DEF Stopped, Ended, InStage
<1> QED BY <1>4, <1>5, <1>6, <1>7

\* A chunk, the end or an error of the copy.
LEMMA CopyBase == ASSUME Base, NEW t \in Transfers, Copy(t) PROVE Base'
<1> USE DEF Base
<1>1. /\ TypeOK /\ job[t] # NoJob /\ InStage(t, {"copying"})
      /\ job[t].result = "none" /\ flag[t] # "none"
  BY DEF Copy, At, InStage, Progress
<1>2. /\ UNCHANGED <<saved, tables, tracked, page, late, given, inTime, counts>>
      /\ partial' \subseteq Transfers /\ stuck' \subseteq Transfers /\ staged' \subseteq staged
  BY <1>1 DEF Copy, Removes, TypeOK
<1>3. \/ Ended(t, "rename", "none") /\ flag[t] = "down"
      \/ Ended(t, "leave", "stopped") \/ Ended(t, "leave", "failed")
  BY <1>1, EndsEnded, GotoEnded DEF Copy, Stage, Result
<1>4. TypeOK'
  BY <1>1, <1>2, <1>3 DEF TypeOK, Ended, At
<1>5. Progress'
  BY <1>1, <1>2, <1>3 DEF Progress, Ended, InStage, Saves
<1>6. Placed'
  BY <1>1, <1>2, <1>3 DEF Placed, Ended, InStage, Saves
<1>7. Stopped'
  BY <1>1, <1>2, <1>3 DEF Stopped, Ended, InStage
<1> QED BY <1>4, <1>5, <1>6, <1>7

\* The partial file takes its name.
LEMMA RenameBase == ASSUME Base, NEW t \in Transfers, Rename(t) PROVE Base'
<1> USE DEF Base
<1>1. /\ TypeOK /\ job[t] # NoJob /\ InStage(t, {"rename"})
      /\ job[t].result = "none" /\ flag[t] # "none"
  BY DEF Rename, At, InStage, Progress
<1>2. job[t].from \in Exports \cup {None} /\ job[t].to \in Places
  BY <1>1, JobFields DEF TypeOK
<1>3. /\ UNCHANGED <<tables, tracked, page, late, given, inTime, counts>>
      /\ partial' \subseteq Transfers /\ stuck' \subseteq Transfers
  BY <1>1 DEF Rename, Removes, TypeOK
<1>4. \/ /\ Saves(t) /\ saved' = [saved EXCEPT ![job[t].to] = job[t].from] /\ UNCHANGED staged
         /\ Ended(t, "tidy", "none") \/ Ended(t, "leave", "failed")
      \/ /\ ~Saves(t) /\ staged' = staged \cup {t} /\ UNCHANGED saved
         /\ Ended(t, "tidy", "none") \/ Ended(t, "leave", "failed")
      \/ UNCHANGED <<saved, staged>> /\ Ended(t, "leave", "failed")
  BY <1>1, EndsEnded, GotoEnded DEF Rename, Stage, Result
<1>5. /\ saved' \in [Places -> Exports \cup {None}] /\ staged' \subseteq Places
      /\ Ended(t, "tidy", "none") \/ Ended(t, "leave", "failed")
      /\ staged' \subseteq staged \cup {t}
  BY <1>1, <1>2, <1>4 DEF TypeOK, Saves, Places
<1>6. TypeOK'
  BY <1>1, <1>3, <1>5 DEF TypeOK, Ended, At
<1>7. Progress'
  BY <1>1, <1>3, <1>5 DEF Progress, Ended, InStage, Saves
<1>8. Placed'
  <2>1. /\ \A u \in Transfers : job'[u] # NoJob /\ Saves(u)' => job'[u].to \in {job'[u].from, u}
        /\ \A u \in Transfers : InStage(u, {"tidy"})' => u = t \/ InStage(u, {"tidy"})
        /\ \A u \in Transfers : job[u] # NoJob => job'[u] # NoJob /\ job'[u].from = job[u].from
    BY <1>1, <1>5 DEF Placed, Ended, InStage, Saves
  <2>2. CASE UNCHANGED saved /\ (~Saves(t) \/ Ended(t, "leave", "failed"))
    BY <1>1, <1>5, <2>1, <2>2 DEF Placed, Ended, InStage, Saves
  <2>3. CASE Saves(t) /\ saved' = [saved EXCEPT ![job[t].to] = job[t].from]
    <3>1. job[t].to \in {job[t].from, t} /\ job[t].from \in Exports /\ job[t].from # None
      BY <1>1, <1>2, <2>3 DEF Placed, Saves
    <3>2. \A d \in Places : saved'[d] = IF d = job[t].to THEN job[t].from ELSE saved[d]
      BY <1>1, <2>3 DEF TypeOK
    <3>3. \A x \in Exports : saved'[x] \in {None, x}
      BY <3>1, <3>2, PackageTransferAssumption DEF Placed, Places
    <3>4. \A u \in Transfers : saved'[u] # None => job'[u] # NoJob /\ saved'[u] = job'[u].from
      BY <1>1, <2>1, <3>1, <3>2, PackageTransferAssumption DEF Placed, Places
    <3>5. ASSUME NEW u \in Transfers, InStage(u, {"tidy"})', Saves(u)'
          PROVE  \E d \in Places : saved'[d] = job'[u].from
      <4>1. CASE u = t
        BY <1>1, <1>2, <2>1, <3>2, <4>1
      <4>2. CASE u # t
        <5>1. InStage(u, {"tidy"}) /\ Saves(u) /\ job'[u] = job[u]
          BY <1>5, <2>1, <3>5, <4>2 DEF Ended, Saves
        <5>2. PICK d \in Places : saved[d] = job[u].from
          BY <5>1 DEF Placed
        <5>3. d = job[t].to => saved[d] = job[t].from
          BY <1>1, <3>1, <5>1, <5>2, PackageTransferAssumption DEF Placed, Saves
        <5> QED BY <3>2, <5>1, <5>2, <5>3
      <4> QED BY <4>1, <4>2
    <3> QED BY <2>1, <3>3, <3>4, <3>5 DEF Placed
  <2> QED BY <1>4, <2>2, <2>3
<1>9. Stopped'
  BY <1>1, <1>3, <1>4, <1>5 DEF Stopped, Ended, InStage
<1> QED BY <1>6, <1>7, <1>8, <1>9

\* A failed copy is removed.
LEMMA TidyBase == ASSUME Base, NEW t \in Transfers, Tidy(t) PROVE Base'
<1> USE DEF Base
<1>1. TypeOK /\ job[t] # NoJob /\ InStage(t, {"tidy"}) /\ job[t].result = "none" /\ flag[t] # "none"
  BY DEF Tidy, At, InStage, Progress
<1>2. /\ UNCHANGED <<saved, partial, tables, tracked, page, late, history, counts>>
      /\ staged' \subseteq staged
  BY <1>1 DEF Tidy, TypeOK
<1>3. Ended(t, "leave", "saved") \/ Ended(t, "leave", "failed")
  BY <1>1, EndsEnded DEF Tidy, Stage, Result
<1>4. TypeOK'
  BY <1>1, <1>2, <1>3 DEF TypeOK, Ended, At
<1>5. Progress'
  BY <1>1, <1>2, <1>3 DEF Progress, Ended, InStage, Saves
<1>6. Placed'
  BY <1>1, <1>2, <1>3 DEF Placed, Ended, InStage, Saves
<1>7. Stopped'
  BY <1>1, <1>2, <1>3 DEF Stopped, Ended, InStage
<1> QED BY <1>4, <1>5, <1>6, <1>7

\* The transfer leaves the table.
LEMMA LeaveBase == ASSUME Base, NEW t \in Transfers, Leave(t) PROVE Base'
<1> USE DEF Base
<1>1. TypeOK /\ job[t] # NoJob /\ InStage(t, {"leave"})
  BY DEF Leave, At, InStage
<1>2. /\ UNCHANGED <<files, tracked, page, late, history, counts>>
      /\ flag' = [flag EXCEPT ![t] = "none"] /\ sources' \subseteq sources
      /\ destinations' \subseteq destinations
  BY DEF Leave
<1>3. Ended(t, "answer", job[t].result)
  BY <1>1, GotoEnded DEF Leave, Stage
<1>4. TypeOK'
  BY <1>1, <1>2, <1>3 DEF TypeOK, Ended, At
<1>5. Progress'
  BY <1>1, <1>2, <1>3 DEF TypeOK, Progress, Ended, InStage, Saves
<1>6. Placed'
  BY <1>1, <1>2, <1>3 DEF Placed, Ended, InStage, Saves
<1>7. Stopped'
  BY <1>1, <1>2, <1>3 DEF TypeOK, Stopped, Ended, InStage
<1> QED BY <1>4, <1>5, <1>6, <1>7

\* The answer reaches the page.
LEMMA AnswerBase == ASSUME Base, NEW t \in Transfers, Answer(t) PROVE Base'
<1> USE DEF Base
<1>1. TypeOK /\ job[t] # NoJob /\ InStage(t, {"answer"})
  BY DEF Answer, At, InStage
<1>2. /\ UNCHANGED <<files, sources, flag, tracked, handled, history, counts>>
      /\ destinations' \subseteq destinations
  BY DEF Answer
<1>3. Ended(t, "done", job[t].result)
  BY <1>1, AnswerEnded
<1>4. /\ pending' \in Exports \cup {None} /\ opened' \subseteq Transfers
      /\ active' \in Transfers \cup {None} /\ late' \subseteq Exports
  <2>1. job[t].from \in Exports \cup {None}
    BY <1>1, JobFields DEF TypeOK
  <2> QED BY <1>1, <2>1 DEF Answer, TypeOK, Saves, Automatic
<1>5. TypeOK'
  BY <1>1, <1>2, <1>3, <1>4 DEF TypeOK, Ended, At
<1>6. Progress'
  BY <1>1, <1>2, <1>3 DEF Progress, Ended, InStage, Saves
<1>7. Placed'
  BY <1>1, <1>2, <1>3 DEF Placed, Ended, InStage, Saves
<1>8. Stopped'
  BY <1>1, <1>2, <1>3 DEF Stopped, Ended, InStage
<1> QED BY <1>5, <1>6, <1>7, <1>8

\* A call gives a command to a transfer that has had no flag and no copy.
LEMMA CalledBase ==
    ASSUME Base, NEW t \in Transfers, NEW from \in Exports \cup {None}, NEW to \in {from, t},
           to \in Places, Called(t, from, to), active' = t,
           UNCHANGED <<files, flag, tracked, late, history, counts>>,
           destinations' \subseteq Places, sources' \subseteq Transfers,
           handled' \subseteq tracked, pending' = pending, opened' = opened
    PROVE  Base'
<1> USE DEF Base
<1>1. TypeOK'
  BY DEF TypeOK, Called, At
<1>2. Progress'
  BY DEF TypeOK, Progress, Called, InStage, Saves
<1>3. Placed'
  <2>1. \A u \in Transfers : job'[u] # NoJob /\ Saves(u)' => job'[u].to \in {job'[u].from, u}
    BY DEF Placed, Called, Saves
  <2>2. \A u \in Transfers : saved[u] # None => job'[u] # NoJob /\ saved[u] = job'[u].from
    BY DEF Placed, Called
  <2>3. \A u \in Transfers : InStage(u, {"tidy"})' => u # t
    BY DEF Called, InStage
  <2> QED BY <2>1, <2>2, <2>3 DEF Placed, Called, InStage, Saves
<1>4. Stopped'
  BY DEF Stopped, Called, InStage
<1> QED BY <1>1, <1>2, <1>3, <1>4

\* The user saves an export.
LEMMA SaveExportBase ==
    ASSUME Base, NEW t \in Transfers, NEW x \in Exports, SaveExport(t, x) PROVE Base'
<1> USE DEF Base
<1>1. x \in Exports \cup {None} /\ x \in Places
  BY DEF Places
<1>2. Called(t, x, x)
  BY <1>1, CallCalled DEF SaveExport
<1>3. /\ active' = t /\ UNCHANGED <<files, flag, tracked, late, history, counts>>
      /\ destinations' \subseteq Places /\ sources' \subseteq Transfers
      /\ handled' \subseteq tracked /\ pending' = pending /\ opened' = opened
  BY DEF SaveExport, Call, TypeOK
<1> QED BY <1>1, <1>2, <1>3, CalledBase

\* The user saves it again where it was to go.
LEMMA RetryExportBase ==
    ASSUME Base, NEW t \in Transfers, NEW x \in Exports, RetryExport(t, x) PROVE Base'
<1> USE DEF Base
<1>1. x \in Exports \cup {None} /\ t \in Places
  BY DEF Places
<1>2. Called(t, x, t)
  BY <1>1, CallCalled DEF RetryExport
<1>3. /\ active' = t /\ UNCHANGED <<files, flag, tracked, late, history, counts>>
      /\ destinations' \subseteq Places /\ sources' \subseteq Transfers
      /\ handled' \subseteq tracked /\ pending' = pending /\ opened' = opened
  BY <1>1 DEF RetryExport, Call, TypeOK
<1> QED BY <1>1, <1>2, <1>3, CalledBase

\* The user selects a file to import.
LEMMA SelectImportBase ==
    ASSUME Base, NEW t \in Transfers, SelectImport(t) PROVE Base'
<1> USE DEF Base
<1>1. None \in Exports \cup {None} /\ t \in Places
  BY DEF Places
<1>2. Called(t, None, t)
  BY <1>1, CallCalled DEF SelectImport
<1>3. /\ active' = t /\ UNCHANGED <<files, flag, tracked, late, history, counts>>
      /\ destinations' \subseteq Places /\ sources' \subseteq Transfers
      /\ handled' \subseteq tracked /\ pending' = pending /\ opened' = opened
  BY DEF SelectImport, Call, TypeOK
<1> QED BY <1>1, <1>2, <1>3, CalledBase

\* Steps that remove packages and forget things, and call nothing.
LEMMA LessBase ==
    ASSUME Base, UNCHANGED <<saved, flag, job, inTime, counts>>,
           staged' \subseteq staged, partial' \subseteq partial,
           destinations' \subseteq destinations, sources' \subseteq sources,
           handled' \subseteq tracked', tracked' \subseteq tracked,
           pending' \in {pending, None}, opened' \subseteq opened,
           late' \subseteq late, stuck' \subseteq stuck,
           active' \in {active, None}, given \subseteq given'
    PROVE  Base'
<1> USE DEF Base
<1>1. TypeOK'
  BY DEF TypeOK, At
<1>2. Progress'
  BY DEF Progress, InStage, Saves
<1>3. Placed'
  BY DEF Placed, InStage, Saves
<1>4. Stopped'
  BY DEF Stopped, InStage
<1> QED BY <1>1, <1>2, <1>3, <1>4

\* What is staged is removed: by the user, by the controller, by its start.
LEMMA RemovalsBase ==
    ASSUME Base,
           \/ \E t \in Transfers : CloseImport(t)
           \/ \E x \in Exports : DiscardExport(x) \/ ForgetOperation(x)
           \/ ControllerStarts
    PROVE  Base'
<1>1. TypeOK
  BY DEF Base
<1>2. ASSUME NEW t \in Transfers, CloseImport(t) PROVE Base'
  BY <1>1, <1>2, LessBase DEF CloseImport, TypeOK
<1>3. ASSUME NEW x \in Exports, DiscardExport(x) PROVE Base'
  BY <1>1, <1>3, LessBase DEF DiscardExport, TypeOK
<1>4. ASSUME NEW x \in Exports, ForgetOperation(x) PROVE Base'
  BY <1>1, <1>4, LessBase DEF ForgetOperation, TypeOK
<1>5. CASE ControllerStarts
  BY <1>1, <1>5, LessBase DEF ControllerStarts, TypeOK
<1> QED BY <1>2, <1>3, <1>4, <1>5

\* The user stops a transfer.
LEMMA CancelTransferBase ==
    ASSUME Base, NEW t \in Transfers, CancelTransfer(t) PROVE Base'
<1> USE DEF Base
<1>1. /\ TypeOK /\ job[t] # NoJob /\ flag' = [flag EXCEPT ![t] = "up"]
      /\ UNCHANGED <<files, destinations, sources, job, tracked, page, late, stuck, counts>>
      /\ given' = given \cup ({job[t].from} \ {None})
      /\ inTime' \in {inTime, inTime \cup {t}}
      /\ t \in inTime' \ inTime => InStage(t, {"start", "copy", "copying"})
  BY DEF CancelTransfer, Running, InStage
<1>2. TypeOK'
  BY <1>1 DEF TypeOK, At
<1>3. Progress'
  BY <1>1 DEF TypeOK, Progress, InStage, Saves
<1>4. Placed'
  BY <1>1 DEF Placed, InStage, Saves
<1>5. Stopped'
  <2>1. InStage(t, {"start", "copy", "copying"}) => job[t].result = "none"
    BY DEF Progress, InStage
  <2>2. t \in inTime' /\ InStage(t, {"start", "copy", "copying"}) => flag'[t] = "up"
    BY <1>1 DEF TypeOK
  <2>3. \A u \in Transfers : u # t => flag'[u] = flag[u]
    BY <1>1 DEF TypeOK
  <2> QED BY <1>1, <2>1, <2>2, <2>3 DEF Stopped, InStage
<1> QED BY <1>2, <1>3, <1>4, <1>5

\* The page is left, or loaded anew.
LEMMA ReloadBase == ASSUME Base, LeavePage \/ Reload PROVE Base'
<1> USE DEF Base
<1>1. /\ TypeOK /\ UNCHANGED <<files, tables, tracked, history, exits>>
      /\ Blank /\ late' \subseteq late /\ reloads' = reloads + 1
  BY DEF LeavePage, Reload
<1>2. AllEnded /\ \A t \in Transfers : job[t] # NoJob => job'[t].stage = job[t].stage
  BY LeavePageEnded, ReloadEnded
<1>3. TypeOK'
  BY <1>1, <1>2 DEF TypeOK, At, AllEnded, Blank
<1>4. Progress'
  BY <1>1, <1>2 DEF Progress, InStage, Saves, AllEnded
<1>5. Placed'
  BY <1>1, <1>2 DEF Placed, InStage, Saves, AllEnded
<1>6. Stopped'
  BY <1>1, <1>2 DEF Stopped, InStage, AllEnded
<1> QED BY <1>3, <1>4, <1>5, <1>6

\* The application exits.
LEMMA ExitBase == ASSUME Base, Exit PROVE Base'
<1> USE DEF Base
<1>1. /\ TypeOK /\ UNCHANGED <<files, tracked, history, reloads>> /\ Blank /\ late' = {}
      /\ destinations' = {} /\ sources' = {} /\ exits' = exits + 1
      /\ flag' = [t \in Transfers |-> "none"]
  BY DEF Exit
<1>2. AllEnded /\ \A t \in Transfers : job[t] # NoJob => job'[t].stage = "done"
  BY ExitEnded
<1>3. TypeOK'
  BY <1>1, <1>2 DEF TypeOK, At, AllEnded, Blank
<1>4. Progress'
  BY <1>1, <1>2 DEF Progress, InStage, Saves, AllEnded
<1>5. Placed'
  BY <1>1, <1>2 DEF Placed, InStage, Saves, AllEnded
<1>6. Stopped'
  BY <1>1, <1>2 DEF Stopped, InStage, AllEnded
<1> QED BY <1>3, <1>4, <1>5, <1>6

\* Nothing has been copied and no command is known at the start.
LEMMA InitBase == Init => Base
<1> SUFFICES ASSUME Init PROVE Base
  OBVIOUS
<1>1. TypeOK
  BY PackageTransferAssumption DEF Init, TypeOK, At, Places
<1>2. Progress /\ Placed /\ Stopped
  BY PackageTransferAssumption
     DEF Init, Progress, Placed, Stopped, InStage, Places
<1> QED BY <1>1, <1>2 DEF Base

\* Every step keeps Base.
LEMMA NextBase == Base /\ [Next]_vars => Base'
<1> SUFFICES ASSUME Base, [Next]_vars PROVE Base'
  OBVIOUS
<1>1. ASSUME NEW t \in Transfers, Step(t) PROVE Base'
  BY <1>1, StartBase, OpenBase, CopyBase, RenameBase, TidyBase, LeaveBase, AnswerBase DEF Step
<1>2. ASSUME NEW t \in Transfers, SelectImport(t) \/ CloseImport(t) \/ CancelTransfer(t)
      PROVE  Base'
  BY <1>2, SelectImportBase, RemovalsBase, CancelTransferBase
<1>3. ASSUME NEW t \in Transfers, NEW x \in Exports, SaveExport(t, x) \/ RetryExport(t, x)
      PROVE  Base'
  BY <1>3, SaveExportBase, RetryExportBase
<1>4. ASSUME NEW x \in Exports, DiscardExport(x) \/ ForgetOperation(x) PROVE Base'
  BY <1>4, RemovalsBase
<1>5. CASE LeavePage \/ Reload \/ Exit \/ ControllerStarts
  BY <1>5, ReloadBase, ExitBase, RemovalsBase
<1>6. CASE UNCHANGED vars
  BY <1>6 DEF vars, tables, Base, TypeOK, Progress, Placed, Stopped, InStage, At, Saves
<1> QED BY <1>1, <1>2, <1>3, <1>4, <1>5, <1>6 DEF Next

\* Base holds in every reachable state.
THEOREM BaseCorrect == Spec => []Base
BY InitBase, NextBase, PTL DEF Spec

\* The variables keep their types.
THEOREM TypeCorrect == Spec => []TypeOK
<1>1. Base => TypeOK
  BY DEF Base
<1> QED BY <1>1, BaseCorrect, PTL

\* StopIsHonoured: a transfer that was stopped before its rename is neither
\* saved nor staged, also when the stop overtook the command it was about.
THEOREM StopIsHonouredCorrect == Spec => []StopIsHonoured
<1>1. Base => StopIsHonoured
  BY DEF Base, Stopped, StopIsHonoured
<1> QED BY <1>1, BaseCorrect, PTL

-----------------------------------------------------------------------------
(* Exports are not lost *)

\* A package that a destination holds is not replaced there by another.
LEMMA SavedStays ==
    ASSUME Base, [Next]_vars, NEW d \in Places, saved[d] # None
    PROVE  saved'[d] = saved[d]
<1> USE DEF Base
<1>1. ASSUME NEW t \in Transfers, Rename(t) PROVE saved'[d] = saved[d]
  <2>1. saved' = saved \/ (Saves(t) /\ saved' = [saved EXCEPT ![job[t].to] = job[t].from])
    BY <1>1 DEF Rename
  <2>2. /\ job[t] # NoJob /\ saved \in [Places -> Exports \cup {None}]
        /\ job[t].from \in Exports \cup {None}
    BY <1>1, JobFields DEF Rename, At, TypeOK
  <2>3. Saves(t) /\ d = job[t].to => saved[d] = job[t].from
    BY <2>2 DEF Placed, Saves
  <2> QED BY <2>1, <2>2, <2>3
<1>2. ASSUME NEW t \in Transfers, Step(t), ~Rename(t) PROVE saved' = saved
  BY <1>2 DEF Step, Start, Open, Copy, Tidy, Leave, Answer
<1>3. ASSUME NEW t \in Transfers, SelectImport(t) \/ CloseImport(t) \/ CancelTransfer(t)
      PROVE  saved' = saved
  BY <1>3 DEF SelectImport, CloseImport, CancelTransfer
<1>4. ASSUME NEW t \in Transfers, NEW x \in Exports, SaveExport(t, x) \/ RetryExport(t, x)
      PROVE  saved' = saved
  BY <1>4 DEF SaveExport, RetryExport
<1>5. ASSUME NEW x \in Exports, DiscardExport(x) \/ ForgetOperation(x) PROVE saved' = saved
  BY <1>5 DEF DiscardExport, ForgetOperation
<1>6. LeavePage \/ Reload \/ Exit \/ ControllerStarts \/ UNCHANGED vars => saved' = saved
  BY DEF LeavePage, Reload, Exit, ControllerStarts, vars
<1> QED BY <1>1, <1>2, <1>3, <1>4, <1>5, <1>6 DEF Next

\* An export that leaves the staging root, in whatever step, was stopped or
\* discarded, or a destination holds it.
LEMMA LeavesForAReason ==
    ASSUME Base, [Next]_vars, NEW x \in Exports, x \in staged, x \notin staged'
    PROVE  x \in given' \/ \E d \in Places : saved'[d] = x
<1> USE DEF Base
<1>1. ASSUME NEW t \in Transfers, Copy(t) PROVE x \in given'
  <2>1. flag[t] = "up" /\ job[t].from = x /\ job[t] # NoJob
    BY <1>1 DEF Copy, At
  <2> QED BY <1>1, <2>1, PackageTransferAssumption DEF Copy, Progress, Saves
<1>2. ASSUME NEW t \in Transfers, Tidy(t) PROVE \E d \in Places : saved'[d] = x
  BY <1>2 DEF Tidy, At, Placed, InStage
<1>3. ASSUME NEW t \in Transfers, Step(t), ~Copy(t), ~Tidy(t) PROVE FALSE
  BY <1>3 DEF Step, Start, Open, Rename, Leave, Answer
<1>4. ASSUME NEW t \in Transfers, SelectImport(t) \/ CloseImport(t) \/ CancelTransfer(t)
      PROVE  FALSE
  BY <1>4, PackageTransferAssumption DEF SelectImport, CloseImport, CancelTransfer
<1>5. ASSUME NEW t \in Transfers, NEW y \in Exports, SaveExport(t, y) \/ RetryExport(t, y)
      PROVE  FALSE
  BY <1>5 DEF SaveExport, RetryExport
<1>6. ASSUME NEW y \in Exports, DiscardExport(y) \/ ForgetOperation(y) PROVE x \in given'
  BY <1>6 DEF DiscardExport, ForgetOperation
<1>7. ~(LeavePage \/ Reload \/ Exit \/ ControllerStarts \/ UNCHANGED vars)
  BY DEF LeavePage, Reload, Exit, ControllerStarts, vars
<1> QED BY <1>1, <1>2, <1>3, <1>4, <1>5, <1>6, <1>7 DEF Next

\* What the user has given up stays given up.
LEMMA GivenStays == ASSUME [Next]_vars PROVE given \subseteq given'
<1>1. ASSUME NEW t \in Transfers, Step(t) PROVE given' = given
  BY <1>1 DEF Step, Start, Open, Copy, Rename, Tidy, Leave, Answer
<1>2. ASSUME NEW t \in Transfers, SelectImport(t) \/ CloseImport(t) \/ CancelTransfer(t)
      PROVE  given \subseteq given'
  BY <1>2 DEF SelectImport, CloseImport, CancelTransfer
<1>3. ASSUME NEW t \in Transfers, NEW x \in Exports, SaveExport(t, x) \/ RetryExport(t, x)
      PROVE  given' = given
  BY <1>3 DEF SaveExport, RetryExport
<1>4. ASSUME NEW x \in Exports, DiscardExport(x) \/ ForgetOperation(x)
      PROVE  given \subseteq given'
  BY <1>4 DEF DiscardExport, ForgetOperation
<1>5. LeavePage \/ Reload \/ Exit \/ ControllerStarts \/ UNCHANGED vars => given' = given
  BY DEF LeavePage, Reload, Exit, ControllerStarts, vars
<1> QED BY <1>1, <1>2, <1>3, <1>4, <1>5 DEF Next

\* ExportIsSafe: an export is in the staging root, or a destination holds it, or
\* the user stopped or discarded it.
THEOREM ExportIsSafeCorrect == Spec => []ExportIsSafe
<1>1. Init => ExportIsSafe
  BY DEF Init, ExportIsSafe
<1>2. ASSUME Base, ExportIsSafe, [Next]_vars PROVE ExportIsSafe'
  <2> SUFFICES ASSUME NEW x \in Exports, x \notin staged', x \notin given'
               PROVE  \E d \in Places : saved'[d] = x
    BY DEF ExportIsSafe
  <2>1. CASE x \in staged
    BY <1>2, <2>1, LeavesForAReason
  <2>2. CASE x \notin staged
    <3>1. PICK d \in Places : saved[d] = x
      BY <1>2, <2>2, GivenStays DEF ExportIsSafe
    <3>2. x # None
      BY PackageTransferAssumption
    <3> QED BY <1>2, <3>1, <3>2, SavedStays
  <2> QED BY <2>1, <2>2
<1> QED BY <1>1, <1>2, BaseCorrect, PTL DEF Spec

-----------------------------------------------------------------------------
(* Temporary files *)

\* A command leaves no temporary file behind but one it could not remove.
LEMMA StepPartials ==
    ASSUME Base, NEW t \in Transfers, Step(t), PartialsAreRemoved
    PROVE  PartialsAreRemoved'
<1> USE DEF Base
<1>1. TypeOK /\ exits' = exits
  BY DEF Step, Start, Open, Copy, Rename, Tidy, Leave, Answer
<1>2. ASSUME NEW s, NEW how, Ended(t, s, how), partial' \subseteq partial \cup {t},
             stuck \subseteq stuck', t \in partial' => s \in {"copying", "rename"} \/ t \in stuck'
      PROVE  PartialsAreRemoved'
  BY <1>1, <1>2 DEF Ended, PartialsAreRemoved, TypeOK
<1>3. CASE Start(t)
  <2>1. Ended(t, "copy", job[t].result) \/ Ended(t, "answer", "failed")
    BY <1>1, <1>3, EndsEnded, GotoEnded DEF Start, At, Stage, Result
  <2>2. UNCHANGED <<partial, stuck>> /\ (exits = 0 /\ t \in partial => t \in stuck)
    BY <1>3 DEF Start, At, PartialsAreRemoved
  <2> QED BY <1>1, <1>2, <2>1, <2>2 DEF PartialsAreRemoved
<1>4. CASE Open(t)
  <2>1. \/ Ended(t, "copying", job[t].result) /\ partial' = partial \cup {t}
        \/ Ended(t, "leave", "failed") /\ partial' = partial
    BY <1>1, <1>4, EndsEnded, GotoEnded DEF Open, At, Stage, Result
  <2>2. stuck' = stuck /\ (exits = 0 /\ t \in partial => t \in stuck)
    BY <1>4 DEF Open, At, PartialsAreRemoved
  <2> QED BY <1>1, <1>2, <2>1, <2>2 DEF PartialsAreRemoved
<1>5. CASE Copy(t)
  <2>1. \/ Ended(t, "rename", job[t].result) /\ partial' = partial
        \/ /\ Ended(t, "leave", "stopped") \/ Ended(t, "leave", "failed")
           /\ t \notin partial' \/ t \in stuck'
    BY <1>1, <1>5, EndsEnded, GotoEnded DEF Copy, Removes, At, Stage, Result
  <2>2. partial' \subseteq partial /\ stuck \subseteq stuck'
    BY <1>5 DEF Copy, Removes
  <2> QED BY <1>2, <2>1, <2>2
<1>6. CASE Rename(t)
  <2>1. /\ partial' \subseteq partial /\ stuck \subseteq stuck'
        /\ t \notin partial' \/ t \in stuck'
        /\ Ended(t, "tidy", job[t].result) \/ Ended(t, "leave", "failed")
    BY <1>1, <1>6, EndsEnded, GotoEnded DEF Rename, Removes, At, Stage, Result
  <2> QED BY <1>2, <2>1
<1>7. CASE Tidy(t)
  <2>1. Ended(t, "leave", "saved") \/ Ended(t, "leave", "failed")
    BY <1>1, <1>7, EndsEnded DEF Tidy, At, Stage, Result
  <2>2. UNCHANGED <<partial, stuck>> /\ (exits = 0 /\ t \in partial => t \in stuck)
    BY <1>7 DEF Tidy, At, PartialsAreRemoved
  <2> QED BY <1>1, <1>2, <2>1, <2>2 DEF PartialsAreRemoved
<1>8. CASE Leave(t)
  <2>1. Ended(t, "answer", job[t].result)
    BY <1>1, <1>8, GotoEnded DEF Leave, At, Stage
  <2>2. UNCHANGED <<partial, stuck>> /\ (exits = 0 /\ t \in partial => t \in stuck)
    BY <1>8 DEF Leave, At, PartialsAreRemoved
  <2> QED BY <1>1, <1>2, <2>1, <2>2 DEF PartialsAreRemoved
<1>9. CASE Answer(t)
  <2>1. Ended(t, "done", job[t].result)
    BY <1>1, <1>9, AnswerEnded
  <2>2. UNCHANGED <<partial, stuck>> /\ (exits = 0 /\ t \in partial => t \in stuck)
    BY <1>9 DEF Answer, At, PartialsAreRemoved
  <2> QED BY <1>1, <1>2, <2>1, <2>2 DEF PartialsAreRemoved
<1> QED BY <1>3, <1>4, <1>5, <1>6, <1>7, <1>8, <1>9 DEF Step

\* The page adds no temporary file.
LEMMA CalledPartials ==
    ASSUME TypeOK, PartialsAreRemoved, NEW t \in Transfers, NEW from, NEW to,
           Called(t, from, to), UNCHANGED <<files, stuck, counts>>
    PROVE  PartialsAreRemoved'
BY DEF TypeOK, PartialsAreRemoved, Called, NoJob

\* PartialsAreRemoved: until the desktop ends, a temporary file belongs to a copy
\* that is under way, or removing it was tried and failed.
THEOREM PartialsAreRemovedCorrect == Spec => []PartialsAreRemoved
<1>1. Init => PartialsAreRemoved
  BY DEF Init, PartialsAreRemoved
<1>2. ASSUME Base, PartialsAreRemoved, [Next]_vars PROVE PartialsAreRemoved'
  <2> USE <1>2 DEF Base
  <2>1. ASSUME NEW t \in Transfers, SelectImport(t) PROVE PartialsAreRemoved'
    <3>1. None \in Exports \cup {None} /\ t \in Places
      BY DEF Places
    <3>2. Called(t, None, t)
      BY <2>1, <3>1, CallCalled DEF SelectImport
    <3> QED BY <2>1, <3>2, CalledPartials DEF SelectImport
  <2>2. ASSUME NEW t \in Transfers, NEW x \in Exports, SaveExport(t, x) \/ RetryExport(t, x)
        PROVE  PartialsAreRemoved'
    <3>1. x \in Exports \cup {None} /\ x \in Places /\ t \in Places
      BY DEF Places
    <3>2. Called(t, x, x) \/ Called(t, x, t)
      BY <2>2, <3>1, CallCalled DEF SaveExport, RetryExport
    <3>3. UNCHANGED <<files, stuck, counts>>
      BY <2>2 DEF SaveExport, RetryExport
    <3> QED BY <3>2, <3>3, CalledPartials
  <2>3. ASSUME NEW t \in Transfers, CloseImport(t) \/ CancelTransfer(t)
        PROVE  PartialsAreRemoved'
    BY <2>3 DEF CloseImport, CancelTransfer, PartialsAreRemoved
  <2>4. ASSUME NEW x \in Exports, DiscardExport(x) \/ ForgetOperation(x)
        PROVE  PartialsAreRemoved'
    BY <2>4 DEF DiscardExport, ForgetOperation, PartialsAreRemoved
  <2>5. CASE LeavePage \/ Reload
    <3>1. \A t \in Transfers : job'[t].stage = job[t].stage
      BY <2>5, LeavePageEnded, ReloadEnded DEF AllEnded
    <3> QED BY <2>5, <3>1 DEF LeavePage, Reload, PartialsAreRemoved, TypeOK
  <2>6. CASE Exit
    BY <2>6 DEF Exit, Progress, PartialsAreRemoved
  <2>7. CASE ControllerStarts \/ UNCHANGED vars
    BY <2>7 DEF ControllerStarts, vars, PartialsAreRemoved
  <2> QED BY <2>1, <2>2, <2>3, <2>4, <2>5, <2>6, <2>7, StepPartials DEF Next
<1> QED BY <1>1, <1>2, BaseCorrect, PTL DEF Spec
=============================================================================
