-------------------------------- MODULE Silo --------------------------------
(***************************************************************************)
(* Three sides of a silo that share no state: its directory, the calls      *)
(* between its grains, and its worker pools.  A behaviour is watched at one *)
(* of them.                                                                 *)
(***************************************************************************)
EXTENDS GrainDirectory, CallChain, WorkerPool

VARIABLE side

SiloInit == side \in {"directory", "chains", "pools"} /\ Init /\ ChainInit /\ PoolInit

SiloNext ==
    \/ side = "directory" /\ Next /\ UNCHANGED <<side, hvars, pvars>>
    \/ side = "chains" /\ ChainNext /\ UNCHANGED <<side, vars, pvars>>
    \/ side = "pools" /\ PoolNext /\ UNCHANGED <<side, vars, hvars>>

SiloSpec == SiloInit /\ [][SiloNext]_<<side, vars, hvars, pvars>>
=============================================================================
