---------------------------- MODULE MCOAuthGrants ----------------------------
(***************************************************************************)
(* OAuthGrants for TLC.                                                    *)
(***************************************************************************)
EXTENDS OAuthGrants, TLC

\* A generous and a tight choice of lifetimes.
MCSettings == {[access |-> 1, idle |-> 2, max |-> 3],
               [access |-> 1, idle |-> 1, max |-> 2]}

\* Grants and redirect URIs are interchangeable.
Symmetry == Permutations(Grants) \cup Permutations(Redirects)
=============================================================================
