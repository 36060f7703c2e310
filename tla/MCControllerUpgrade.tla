------------------------ MODULE MCControllerUpgrade ------------------------
(* Instances of ControllerUpgrade for TLC.                                 *)
EXTENDS ControllerUpgrade

CONSTANTS c1, c2, c3

AnyUpdate == {u \in Versions \X Versions : u[1] # u[2]}
Upgrades  == {u \in Versions \X Versions : u[1] < u[2]}
=============================================================================
