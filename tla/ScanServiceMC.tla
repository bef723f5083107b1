--------------------------- MODULE ScanServiceMC ---------------------------
(* ScanService with interchangeable request threads. *)
EXTENDS ScanService, TLC

Symmetry == Permutations(Requests)
=============================================================================
