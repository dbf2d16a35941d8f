------------------------ MODULE MCPersistentMailbox -------------------------
EXTENDS PersistentMailbox, TLC

(* Messages are interchangeable: no action or property tells them apart.   *)
Symmetry == Permutations(Messages)
=============================================================================
