---------------------------- MODULE MCOAuthGrant ----------------------------
(***************************************************************************)
(* OAuthGrant for TLC.                                                     *)
(***************************************************************************)
EXTENDS OAuthGrant, TLC

Symmetry == Permutations(User) \cup Permutations(Browser) \cup Permutations(Caller)
=============================================================================
