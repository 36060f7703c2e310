----------------------- MODULE ReservationRefinement -----------------------
(***************************************************************************)
(* DurableOperations implements ExclusiveReservations: the owner of a name *)
(* is the handler or the task that is between reserving and releasing it.  *)
(***************************************************************************)
EXTENDS DurableOperations

CONSTANT Lost  \* reserved, and nobody is left to release it

Owners == Requests \cup Ops

ASSUME LostAssumption ==
    /\ Requests \cap Ops = {}
    /\ Lost \notin Owners \cup {NoOne}
    /\ NoOne \notin Owners

OwnedBy(a, x) ==
    \/ a \in Requests /\ x \in RequestHolds(a)
    \/ a \in Ops /\ x \in TaskHolds(a)

ownerOf ==
    [x \in Resources |->
        LET holders == {a \in Owners : OwnedBy(a, x)}
        IN  IF holders # {} THEN CHOOSE a \in holders : TRUE
            ELSE IF x \in active THEN Lost
            ELSE NoOne]

Reservations == INSTANCE ExclusiveReservations WITH
    Names <- Resources, Owners <- Owners, Nobody <- NoOne, Lost <- Lost,
    owner <- ownerOf

(* Every step of a handler, a task, a crash or a restart changes the       *)
(* reservations only by taking free names, by giving back or handing over  *)
(* one's own, or by losing those of a handler that disappears or fails.    *)
ReservationsAreExclusive == Reservations!Spec
=============================================================================
