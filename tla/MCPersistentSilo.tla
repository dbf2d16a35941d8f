-------------------------- MODULE MCPersistentSilo --------------------------
EXTENDS PersistentSilo, TLC

MCProgram == <<<<1, 2>>, <<3>>>>
MCStores == {"memory", "sqlite", "redis", "file"} \X {"bincode"} \cup {<<"postgres", "json">>}
Symmetry == Permutations(TSlots)
=============================================================================
