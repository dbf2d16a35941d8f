------------------------- MODULE MCMembershipTable --------------------------
EXTENDS MembershipTable, TLC

(* Silos are interchangeable.                                              *)
Symmetry == Permutations(Silos)
=============================================================================
