--------------------------- MODULE MCPublication ---------------------------
(* Instances of Publication for TLC.                                       *)
EXTENDS Publication

CONSTANTS e1, e2, r1, r2

Private(runs) == [published |-> FALSE, automatic |-> TRUE, remote |-> 0,
                     desired |-> runs, local |-> 1]
Public(automatic, port, runs) == [published |-> TRUE, automatic |-> automatic,
                                     remote |-> port, desired |-> runs, local |-> 1]

(* Two published environments, one with a port the user chose; one that is *)
(* published and stopped beside one that is not published; a published one *)
(* alone.                                                                  *)
SomeTables ==
    {[e \in Envs |-> IF e = e1 THEN Public(TRUE, 1, TRUE)  ELSE Public(FALSE, 2, TRUE)],
     [e \in Envs |-> IF e = e1 THEN Public(TRUE, 1, FALSE) ELSE Private(TRUE)],
     [e \in Envs |-> IF e = e1 THEN Public(TRUE, 2, TRUE)  ELSE NoRow]}

Bounds(overlap, faults, requests, more, stops) ==
    [overlap |-> overlap, faults |-> faults,
     requests |-> requests, moves |-> more, crashes |-> stops]

(* One request after the other that changes environments, with a crash and *)
(* a container that moves; any two at a time; any two with faults.         *)
SomeModes == {Bounds(FALSE, {}, 2, 1, 1), Bounds(FALSE, {}, 3, 0, 0),
              Bounds(TRUE, {}, 2, 0, 1), Bounds(TRUE, Fault, 2, 0, 0)}

(* One request after the other, and nothing goes wrong.                    *)
Plain == {Bounds(FALSE, {}, 2, 0, 0)}
=============================================================================
