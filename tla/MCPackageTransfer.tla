------------------------- MODULE MCPackageTransfer -------------------------
(* The instance of PackageTransfer for TLC.                                *)
EXTENDS PackageTransfer, TLC

CONSTANTS x1, t1, t2, t3

TransferSymmetry == Permutations(Transfers)
=============================================================================
