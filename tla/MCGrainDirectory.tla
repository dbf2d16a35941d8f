-------------------------- MODULE MCGrainDirectory --------------------------
(* Instances of GrainDirectory: activation identities are pairs of a grain *)
(* and a number.                                                           *)
EXTENDS GrainDirectory, TLC

CONSTANT Lives  \* bound: activations of each grain

MCActs == Grains \X (1..Lives)
MCGrainOf == [a \in MCActs |-> a[1]]
Symmetry == Permutations(Callers)
=============================================================================
