----------------------------- MODULE MCResolver -----------------------------
(***************************************************************************)
(* Instances of Resolver for TLC.  Request slots are interchangeable when  *)
(* all of them are JSON slots or none is.                                  *)
(***************************************************************************)
EXTENDS ResolverStore, TLC

Symmetry == Permutations(Req)
=============================================================================
