--------------------------- MODULE MCRootRotation ---------------------------
(* Small instances of RootRotation for TLC. *)
EXTENDS RootRotation

CONSTANTS q1, q2

=============================================================================
