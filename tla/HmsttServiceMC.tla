--------------------------- MODULE HmsttServiceMC ---------------------------
(***************************************************************************)
(* Small instances of HmsttService.                                        *)
(***************************************************************************)
EXTENDS HmsttService, TLC

CONSTANTS r1, r2

\* The goroutines that serve requests are interchangeable.
RequestSymmetry == Permutations({r1, r2})
=============================================================================
