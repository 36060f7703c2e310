-------------------------- MODULE MCTemplateStore --------------------------
(* Instances of TemplateStore for TLC, with the catalog it implements.     *)
EXTENDS CatalogRefinement

CONSTANTS c1, c2, i1, x1, r1, r2, d1, e1

Bounds(work, first, faults, stops) ==
    [jobs |-> work, envs |-> first, faults |-> faults, crashes |-> stops]

(* A template of an environment, an environment of it, a template of that; *)
(* transfers beside a restore and a delete; every kind of job, undisturbed.*)
SomeModes == {Bounds({c1, c2, r1, d1}, {e1}, Fault, 1),
              Bounds({i1, x1, r1, d1}, {}, Fault, 1),
              Bounds({c1, i1, x1, r1, d1}, {e1}, {}, 0)}

(* One template of one environment, undisturbed.                           *)
OneCreate == {Bounds({c1}, {e1}, {}, 0)}
=============================================================================
