------------------------------ MODULE MCIdentity ------------------------------
(***************************************************************************)
(* Identity for TLC.                                                       *)
(***************************************************************************)
EXTENDS Identity, TLC

\* Identifiers are interchangeable.
Symmetry == Permutations(Authenticators) \cup Permutations(Browsers)
            \cup Permutations(Restricteds) \cup Permutations(Requests)
            \cup Permutations(Steps)
=============================================================================
