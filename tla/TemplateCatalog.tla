-------------------------- MODULE TemplateCatalog --------------------------
(***************************************************************************)
(* What the template store promises to those who use a template: a         *)
(* template appears whole, it is taken apart only when nobody reads it,    *)
(* and what has been taken apart does not come back.                       *)
(***************************************************************************)
CONSTANTS Templates, Readers, Nothing

VARIABLES
    status,   \* what a user sees of each template
    reads     \* the template each export or restore reads

vars == <<status, reads>>

Init ==
    /\ status = [t \in Templates |-> "absent"]
    /\ reads = [o \in Readers |-> Nothing]

Unread(t) == \A o \in Readers : reads[o] # t

Publish(t) ==
    /\ status[t] = "absent"
    /\ status' = [status EXCEPT ![t] = "whole"]
    /\ UNCHANGED reads

Damage(t) ==
    /\ status[t] = "whole" /\ Unread(t)
    /\ status' = [status EXCEPT ![t] = "damaged"]
    /\ UNCHANGED reads

Remove(t) ==
    /\ status[t] = "damaged" /\ Unread(t)
    /\ status' = [status EXCEPT ![t] = "absent"]
    /\ UNCHANGED reads

BeginRead(o, t) ==
    /\ reads[o] = Nothing
    /\ reads' = [reads EXCEPT ![o] = t]
    /\ UNCHANGED status

EndRead(o) ==
    /\ reads' = [reads EXCEPT ![o] = Nothing]
    /\ UNCHANGED status

\* A restart ends every read.
Restart ==
    /\ reads' = [o \in Readers |-> Nothing]
    /\ UNCHANGED status

Next ==
    \/ \E t \in Templates :
          \/ Publish(t) \/ Damage(t) \/ Remove(t)
          \/ \E o \in Readers : BeginRead(o, t)
    \/ \E o \in Readers : EndRead(o)
    \/ Restart

Spec == Init /\ [][Next]_vars
=============================================================================
