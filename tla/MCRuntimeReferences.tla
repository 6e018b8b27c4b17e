------------------------- MODULE MCRuntimeReferences -------------------------
(* Small instances of RuntimeReferences for TLC. *)
EXTENDS RuntimeReferences

CONSTANTS c1, f1, r1

=============================================================================
