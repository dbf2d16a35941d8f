--------------------------- MODULE PersistentSilo ---------------------------
(***************************************************************************)
(* A PersistentSilo and one grain it hosts: a journaled one, a              *)
(* transactional one or a replicated one.  Grains of different kinds share   *)
(* nothing (their keys differ in the store, the journal and the log), so a   *)
(* behaviour of the silo is watched at one grain at a time.                  *)
(***************************************************************************)
EXTENDS Journal, Transactions, Replication

VARIABLE kind       \* which get_ref made the grain

svars == <<kind, jvars, tvars, rvars>>

AnyStore == CHOOSE store \in Stores : TRUE
AnyLog == CHOOSE log \in LogKinds : TRUE

SiloInit ==
    /\ kind \in {"journaled", "transactional", "replicated"}
    /\ JournalInit
    /\ IF kind = "transactional" THEN TxInit ELSE TxStart(AnyStore)
    /\ IF kind = "replicated" THEN ReplicationInit ELSE ReplicationStart(FALSE, FALSE, AnyLog)

SiloNext ==
    \/ kind = "journaled" /\ JournalNext /\ UNCHANGED <<kind, tvars, rvars>>
    \/ kind = "transactional" /\ TxNext /\ UNCHANGED <<kind, jvars, rvars>>
    \/ kind = "replicated" /\ ReplicationNext /\ UNCHANGED <<kind, jvars, tvars>>

SiloSpec == SiloInit /\ [][SiloNext]_svars
=============================================================================
