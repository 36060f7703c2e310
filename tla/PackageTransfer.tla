-------------------------- MODULE PackageTransfer --------------------------
(***************************************************************************)
(* Packages on their way between the staging root and the user's files     *)
(* (src-tauri/src/lib.rs, TemplatesPage.tsx).                              *)
(*                                                                         *)
(* The controller leaves an exported package in the staging root; the page *)
(* has the desktop save it where the user chose.  For an import the        *)
(* desktop first stages a copy of the user's file.  Both are copies to a   *)
(* temporary file that is then renamed, run beside each other on threads   *)
(* of their own, and are stopped through a flag in a table.  The tables    *)
(* of sources, destinations and flags live as long as the desktop, what    *)
(* the page knows until the user leaves or reloads it, and the ids of the  *)
(* operations it follows in localStorage for good.  A page that is left    *)
(* goes on with the calls it has made, but nobody sees what it learns.     *)
(*                                                                         *)
(* A transfer t stages the package t, and a transfer that saves an export  *)
(* once more does so at the destination t.  The destination chosen before  *)
(* the export of x is x.                                                   *)
(***************************************************************************)
EXTENDS Naturals, FiniteSets

CONSTANTS
    Exports,     \* packages that were exported
    Transfers,   \* transfers; each is used once
    None,        \* no package, no transfer
    MaxReloads,  \* bound on the times that the page is left or reloaded
    MaxExits,    \* bound on ends of the desktop
    Faulty       \* whether reading, writing and removing files may fail

ASSUME PackageTransferAssumption ==
    /\ Exports \cap Transfers = {}
    /\ None \notin Exports \cup Transfers
    /\ MaxReloads \in Nat /\ MaxExits \in Nat /\ Faulty \in BOOLEAN

Places == Exports \cup Transfers

VARIABLES
    staged,       \* packages in the staging root
    saved,        \* the package that each destination holds
    partial,      \* transfers whose temporary file exists
    destinations, \* TemplateExportDestinations
    sources,      \* TemplateImportSources
    flag,         \* TemplateTransferCancellations: "none" is no entry
    job,          \* the commands
    tracked,      \* the exports that localStorage knows
    handled,      \* those whose end the page has seen
    pending,      \* the export the page offers to save again
    opened,       \* imports the page asks about
    active,       \* the transfer the page can stop
    late,         \* exports that a page which was left is about to forget
    given,        \* exports that the user stopped or discarded
    inTime,       \* transfers that were stopped before their rename
    stuck,        \* those of partial whose removal was tried and failed
    reloads, exits

files   == <<staged, saved, partial>>
tables  == <<destinations, sources, flag>>
page    == <<handled, pending, opened, active>>
history == <<given, inTime, stuck>>
counts  == <<reloads, exits>>
vars    == <<files, tables, job, tracked, page, late, history, counts>>

Stage  == {"start", "copy", "copying", "rename", "tidy", "leave", "answer", "done"}
Result == {"none", "saved", "stopped", "failed"}
Asker  == {"page", "left", "gone"}  \* who waits: the open page, one that was left, none
Job    == [from : Exports \cup {None}, to : Places, asked : Asker,
           stage : Stage, result : Result]
NoJob  == [stage |-> "none"]

At(t, s)   == job[t] # NoJob /\ job[t].stage = s
Running(t) == job[t] # NoJob /\ job[t].stage # "done"
Saves(t)   == job[t].from # None

\* Saves called by the page itself, and those the user has asked for again.
Automatic(t) == Saves(t) /\ job[t].to = job[t].from
Retried(t)   == Saves(t) /\ job[t].to # job[t].from

\* A command of the page: from an export to a destination, or from a file.
Call(t, from, to) ==
    /\ job[t] = NoJob
    /\ job' = [job EXCEPT ![t] = [from |-> from, to |-> to, asked |-> "page",
                                  stage |-> "start", result |-> "none"]]
    /\ active' = t

Ends(t, s, how) ==
    job' = [job EXCEPT ![t] = [from |-> @.from, to |-> @.to, asked |-> @.asked,
                               stage |-> s, result |-> how]]
Goto(t, s) == Ends(t, s, job[t].result)

-----------------------------------------------------------------------------
(* stage_template_import and save_template_export *)

\* Mutant: the flag of a transfer is set when it starts.
RegistersAnew(f) == "down"

\* Mutant: the copy has a flag that is not in the table.
RegistersNothing(f) == f

\* entry().or_insert: a flag that was raised before stays up.
Registers(f) == IF f = "none" THEN "down" ELSE f

Start(t) ==
    /\ At(t, "start")
    /\ \/ /\ IF Saves(t) THEN job[t].from \in staged /\ job[t].to \in destinations
                         ELSE t \in sources
          /\ flag' = [flag EXCEPT ![t] = Registers(@)]
          /\ Goto(t, "copy")
       \/ /\ Faulty \/ (Saves(t) /\ ~(job[t].from \in staged /\ job[t].to \in destinations))
          /\ Ends(t, "answer", "failed")
          /\ UNCHANGED flag
    /\ UNCHANGED <<files, destinations, sources, tracked, page, late, history, counts>>

(* copy_atomic_0600 *)

Open(t) ==
    /\ At(t, "copy")
    /\ \/ /\ Saves(t) => job[t].from \in staged
          /\ partial' = partial \cup {t}
          /\ Goto(t, "copying")
       \/ /\ Faulty \/ (Saves(t) /\ job[t].from \notin staged)
          /\ Ends(t, "leave", "failed")
          /\ UNCHANGED partial
    /\ UNCHANGED <<staged, saved, tables, tracked, page, late, history, counts>>

\* Mutant: only a stopped copy removes its temporary file.
RemovesIfStopped(t) ==
    /\ partial' = IF flag[t] = "up" THEN partial \ {t} ELSE partial
    /\ UNCHANGED stuck

\* An error of the removal is ignored.
Removes(t) ==
    \/ partial' = partial \ {t} /\ UNCHANGED stuck
    \/ Faulty /\ t \in partial /\ stuck' = stuck \cup {t} /\ UNCHANGED partial

\* The flag is read before every block and before the rename.  The package of an
\* export that is stopped is removed as well, and again an error is ignored.
Copy(t) ==
    /\ At(t, "copying")
    /\ \/ /\ flag[t] = "down"
          /\ Goto(t, "rename")
          /\ UNCHANGED <<staged, partial, stuck>>
       \/ /\ flag[t] = "up"
          /\ Removes(t)
          /\ staged' \in {staged \ {job[t].from}} \cup IF Faulty THEN {staged} ELSE {}
          /\ Ends(t, "leave", "stopped")
       \/ /\ Faulty
          /\ Removes(t)
          /\ Ends(t, "leave", "failed")
          /\ UNCHANGED staged
    /\ UNCHANGED <<saved, tables, tracked, page, late, given, inTime, counts>>

\* Without its temporary file it fails; the directory may fail to be synced after.
Rename(t) ==
    /\ At(t, "rename")
    /\ \/ /\ t \in partial
          /\ partial' = partial \ {t}
          /\ IF Saves(t)
             THEN saved' = [saved EXCEPT ![job[t].to] = job[t].from] /\ UNCHANGED staged
             ELSE staged' = staged \cup {t} /\ UNCHANGED saved
          /\ UNCHANGED stuck
          /\ \/ Goto(t, "tidy")
             \/ Faulty /\ Ends(t, "leave", "failed")
       \/ /\ t \notin partial \/ Faulty
          /\ Removes(t)
          /\ Ends(t, "leave", "failed")
          /\ UNCHANGED <<staged, saved>>
    /\ UNCHANGED <<tables, tracked, page, late, given, inTime, counts>>

\* The package of a saved export is removed; when that fails, so does the command.
Tidy(t) ==
    /\ At(t, "tidy")
    /\ \/ /\ Saves(t) => job[t].from \in staged
          /\ staged' = staged \ (IF Saves(t) THEN {job[t].from} ELSE {})
          /\ Ends(t, "leave", "saved")
       \/ /\ Saves(t) /\ (Faulty \/ job[t].from \notin staged)
          /\ Ends(t, "leave", "failed")
          /\ UNCHANGED staged
    /\ UNCHANGED <<saved, partial, tables, tracked, page, late, history, counts>>

\* Mutant: the package of an export is removed whatever happened.
LeaveClean(t) ==
    /\ At(t, "leave")
    /\ flag' = [flag EXCEPT ![t] = "none"]
    /\ sources' = sources \ {t}
    /\ destinations' = IF job[t].result = "failed" THEN destinations
                                                   ELSE destinations \ {job[t].to}
    /\ staged' = staged \ {job[t].from}
    /\ Goto(t, "answer")
    /\ UNCHANGED <<saved, partial, tracked, page, late, history, counts>>

\* An error leaves the destination in its table.
Leave(t) ==
    /\ At(t, "leave")
    /\ flag' = [flag EXCEPT ![t] = "none"]
    /\ sources' = sources \ {t}
    /\ destinations' = IF job[t].result = "failed" THEN destinations
                                                   ELSE destinations \ {job[t].to}
    /\ Goto(t, "answer")
    /\ UNCHANGED <<files, tracked, page, late, history, counts>>

-----------------------------------------------------------------------------
(* The page *)

\* It sees that the export x has succeeded and saves it.
SaveExport(t, x) ==
    /\ x \in tracked \ handled
    /\ handled' = handled \cup {x}
    /\ Call(t, x, x)
    /\ UNCHANGED <<files, tables, tracked, pending, opened, late, history, counts>>

Asked(t) == Running(t) /\ job[t].asked = "page"

Retrying == \E t \in Transfers : Asked(t) /\ Retried(t)

\* retryExport, after select_template_export
RetryExport(t, x) ==
    /\ pending = x /\ ~Retrying
    /\ destinations' = destinations \cup {t}
    /\ Call(t, x, t)
    /\ UNCHANGED <<files, sources, flag, tracked, handled, pending, opened, late,
                   history, counts>>

\* discard_template_staging
DiscardExport(x) ==
    /\ pending = x /\ ~Retrying
    /\ staged' = staged \ {x}
    /\ pending' = None
    /\ given' = given \cup {x}
    /\ UNCHANGED <<saved, partial, tables, job, tracked, handled, opened, active, late,
                   inTime, stuck, counts>>

\* select_template_import and stage_template_import
SelectImport(t) ==
    /\ active = None
    /\ sources' = sources \cup {t}
    /\ Call(t, None, t)
    /\ UNCHANGED <<files, destinations, flag, tracked, handled, pending, opened, late,
                   history, counts>>

\* The import begins and takes the package, or the package is discarded.
CloseImport(t) ==
    /\ t \in opened
    /\ opened' = opened \ {t}
    /\ staged' \in {staged \ {t}} \cup IF Faulty THEN {staged} ELSE {}
    /\ UNCHANGED <<saved, partial, tables, job, tracked, handled, pending, active, late,
                   history, counts>>

\* cancel_template_transfer, which may overtake the command it is about
CancelTransfer(t) ==
    /\ t = active /\ Running(t)
    /\ flag' = [flag EXCEPT ![t] = "up"]
    /\ given' = given \cup ({job[t].from} \ {None})
    /\ inTime' = IF job[t].stage \in {"start", "copy", "copying"} THEN inTime \cup {t} ELSE inTime
    /\ UNCHANGED <<files, destinations, sources, job, tracked, page, late, stuck, counts>>

\* discard_template_export_destination
Discards(t) == {job[t].to}

Over(j) == [j EXCEPT !.stage = "done", !.asked = "gone"]

\* A page that was left still gives up the destination of a save that has failed,
\* and sets a timer to forget the export; the one that is open shows the rest.
Answer(t) ==
    /\ At(t, "answer")
    /\ job' = [job EXCEPT ![t] = Over(@)]
    /\ LET open   == job[t].asked = "page"
           failed == Saves(t) /\ job[t].asked # "gone" /\ job[t].result = "failed"
           saved_ == open /\ job[t].result = "saved"
       IN  /\ destinations' = destinations \ (IF failed THEN Discards(t) ELSE {})
           /\ active' = IF open /\ active = t THEN None ELSE active
           /\ pending' = IF open /\ failed /\ Automatic(t) THEN job[t].from ELSE
                         IF saved_ /\ Retried(t) THEN None ELSE pending
           /\ opened' = IF saved_ /\ ~Saves(t) THEN opened \cup {t} ELSE opened
    /\ late' = IF job[t].asked = "left" /\ Automatic(t) THEN late \cup {job[t].from} ELSE late
    /\ UNCHANGED <<files, sources, flag, tracked, handled, history, counts>>

\* The output of an operation that is over is cleared after a while.
ForgetOperation(x) ==
    /\ \/ x \in late
       \/ x \in handled /\ \A t \in Transfers : Asked(t) /\ Automatic(t) => job[t].from # x
    /\ tracked' = tracked \ {x}
    /\ handled' = handled \ {x}
    /\ late' = late \ {x}
    /\ UNCHANGED <<files, tables, job, pending, opened, active, history, counts>>

Blank == handled' = {} /\ pending' = None /\ opened' = {} /\ active' = None

\* The user goes to another page of the desktop and comes back.
LeavePage ==
    /\ reloads < MaxReloads
    /\ reloads' = reloads + 1
    /\ Blank
    /\ job' = [t \in Transfers |-> IF job[t] # NoJob /\ job[t].asked = "page"
                                   THEN [job[t] EXCEPT !.asked = "left"] ELSE job[t]]
    /\ UNCHANGED <<files, tables, tracked, late, history, exits>>

Reload ==
    /\ reloads < MaxReloads
    /\ reloads' = reloads + 1
    /\ Blank /\ late' = {}
    /\ job' = [t \in Transfers |-> IF job[t] = NoJob THEN NoJob
                                                     ELSE [job[t] EXCEPT !.asked = "gone"]]
    /\ UNCHANGED <<files, tables, tracked, history, exits>>

-----------------------------------------------------------------------------
(* The surroundings *)

Exit ==
    /\ exits < MaxExits
    /\ exits' = exits + 1
    /\ Blank /\ late' = {}
    /\ job' = [t \in Transfers |-> IF job[t] = NoJob THEN NoJob
                                                     ELSE Over(job[t])]
    /\ destinations' = {} /\ sources' = {}
    /\ flag' = [t \in Transfers |-> "none"]
    /\ UNCHANGED <<files, tracked, history, reloads>>

\* cleanup_partial_files, of a controller that starts beside the desktop.
ControllerStarts ==
    /\ \E t \in partial : ~Saves(t)
    /\ partial' = {t \in partial : Saves(t)}
    /\ stuck' = stuck \cap partial'
    /\ UNCHANGED <<staged, saved, tables, job, tracked, page, late, given, inTime, counts>>

\* The exports have just succeeded.
Init ==
    /\ staged = Exports /\ tracked = Exports /\ destinations = Exports
    /\ saved = [d \in Places |-> None]
    /\ partial = {} /\ sources = {}
    /\ flag = [t \in Transfers |-> "none"]
    /\ job = [t \in Transfers |-> NoJob]
    /\ handled = {} /\ pending = None /\ opened = {} /\ active = None /\ late = {}
    /\ given = {} /\ inTime = {} /\ stuck = {}
    /\ reloads = 0 /\ exits = 0

Step(t) ==
    Start(t) \/ Open(t) \/ Copy(t) \/ Rename(t) \/ Tidy(t) \/ Leave(t) \/ Answer(t)

Next ==
    \/ \E t \in Transfers : Step(t) \/ SelectImport(t) \/ CloseImport(t) \/ CancelTransfer(t)
    \/ \E t \in Transfers, x \in Exports : SaveExport(t, x) \/ RetryExport(t, x)
    \/ \E x \in Exports : DiscardExport(x) \/ ForgetOperation(x)
    \/ LeavePage \/ Reload \/ Exit \/ ControllerStarts

Spec == Init /\ [][Next]_vars

-----------------------------------------------------------------------------
(* Properties *)

TypeOK ==
    /\ staged \subseteq Places /\ saved \in [Places -> Exports \cup {None}]
    /\ partial \subseteq Transfers
    /\ destinations \subseteq Places /\ sources \subseteq Transfers
    /\ flag \in [Transfers -> {"none", "down", "up"}]
    /\ job \in [Transfers -> Job \cup {NoJob}]
    /\ \A t \in Transfers : At(t, "copying") => flag[t] # "none"
    /\ handled \subseteq tracked /\ tracked \subseteq Exports
    /\ pending \in Exports \cup {None} /\ opened \subseteq Transfers
    /\ late \subseteq Exports /\ stuck \subseteq Transfers
    /\ active \in Transfers \cup {None}

(* An exported package leaves the staging root only when a destination     *)
(* holds it whole, or because the user stopped or discarded it: also when  *)
(* a page that was reloaded, or left and opened again, saves it a second   *)
(* time beside the first.                                                  *)
ExportIsSafe ==
    \A x \in Exports \ (staged \cup given) : \E d \in Places : saved[d] = x

(* A temporary file outlives its copy only if removing it was tried and    *)
(* failed: no end of a copy forgets it.  docs/security.md promises more,   *)
(* that native copies "remove their partial destination before returning". *)
PartialsAreRemoved ==
    exits = 0 => \A t \in partial : job[t].stage \in {"copying", "rename"} \/ t \in stuck

(* A transfer that was stopped before its rename is neither saved nor      *)
(* staged, even if the stop came before the transfer itself.               *)
StopIsHonoured == \A t \in inTime : job[t].result # "saved" /\ t \notin staged

(* src/locales/en.ts, exportPending: "The export remains staged.  Choose   *)
(* another save location or discard it explicitly."  What the page offers  *)
(* to save again would be there, unless the user has given it up.  It does *)
(* not hold: a page that is left and opened again saves once more what it  *)
(* has just saved, fails, and offers it.                                   *)
PendingIsStaged == pending # None => Retrying \/ pending \in staged \cup given
=============================================================================
