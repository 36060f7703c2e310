----------------------- MODULE ExclusiveReservations -----------------------
(***************************************************************************)
(* What active_resources promises to the code that reserves names in it,   *)
(* whoever that is: a name has at most one owner; only free names are      *)
(* taken, all of a request or none; an owner gives back, or hands over to  *)
(* the task it spawns, what is its own; a name whose owner disappeared is  *)
(* lost until the controller restarts.  Each operation is stated as what   *)
(* it may do to the names, one by one.                                     *)
(***************************************************************************)
CONSTANTS Names, Owners, Nobody, Lost

VARIABLE owner

TypeOK == owner \in [Names -> Owners \cup {Nobody, Lost}]

Init == owner = [x \in Names |-> Nobody]

(* What changes hands goes from one of `from` to `to`. *)
Pass(from, to) ==
    \A x \in Names : owner'[x] # owner[x] => owner[x] \in from /\ owner'[x] = to
Owns(a) == \E x \in Names : owner[x] = a

Acquire(a)     == ~Owns(a) /\ Pass({Nobody}, a)
Release(a)     == Pass({a}, Nobody) /\ ~Owns(a)'
HandOver(a, b) == ~Owns(b) /\ Pass({a}, b) /\ ~Owns(a)'
Lose(a)        == Pass({a}, Lost) /\ ~Owns(a)'
Restart        == \A x \in Names : owner'[x] = Nobody

Next ==
    /\ owner' # owner
    /\ TypeOK'
    /\ \/ Restart
       \/ \E a \in Owners : Acquire(a) \/ Release(a) \/ Lose(a)
       \/ \E a, b \in Owners : HandOver(a, b)

Spec == Init /\ [][Next]_owner
=============================================================================
