---------------------------- MODULE CrossCluster ----------------------------
(***************************************************************************)
(* Several clusters that share one cross-cluster directory: the transport  *)
(* of each decides where a grain call is handled, its health checker       *)
(* probes the peers, and its failover manager promotes the grains of a     *)
(* peer it holds for dead.  A cluster is one silo here; what happens       *)
(* inside it is GrainDirectory's subject.                                  *)
(***************************************************************************)
EXTENDS Naturals, FiniteSets

CONSTANTS
    Clusters,
    Peers,       \* [Clusters -> SUBSET Clusters]: the peers each is configured with
    Grains,
    Allowed,     \* [Grains -> SUBSET Clusters]: allowed_clusters (data residency)
    Calls,       \* grain calls entering some cluster's transport, each once
    None,
    Flaky,       \* TRUE: probes of a live peer may fail
    LiveHealth,  \* FALSE: the wiring of ClusterSilo::serve; TRUE: see ManagerSees
    MaxEpoch,    \* bound: epochs
    MaxErrors,   \* bound: failing directory calls
    MaxCrashes,  \* bound: crashes
    MaxReleases  \* bound: deregistrations

ASSUME ClusterAssumption ==
    /\ Peers \in [Clusters -> SUBSET Clusters] /\ \A c \in Clusters : c \notin Peers[c]
    /\ Allowed \in [Grains -> SUBSET Clusters] /\ \A g \in Grains : Allowed[g] # {}
    /\ None \notin Clusters \cup Grains /\ {Flaky, LiveHealth} \subseteq BOOLEAN
    /\ MaxEpoch \in Nat /\ MaxErrors \in Nat /\ MaxCrashes \in Nat /\ MaxReleases \in Nat

VARIABLES
    entries,   \* the directory
    up,        \* clusters that run
    active,    \* <<cluster, grain>>: the grain is activated there
    cpc,       \* where each call is
    where,     \* the cluster whose transport handles it
    grain,     \* the grain it is for
    statuses,  \* ClusterHealth::statuses of each cluster
    phase,     \* FailoverPhase of each cluster for each peer
    sweep,     \* the peer whose grains the cluster is promoting
    todo,      \* ownerships listed and not yet handled by the sweep
    errors,    \* failed directory calls
    crashes,   \* crashes
    released,  \* history: grains that were deregistered
    grants,    \* history: <<grain, epoch, cluster>>: promote_grain told the
               \* cluster that it owns the grain
    fallback,  \* history: the activations made by a local dispatch though the
               \* directory had not named this cluster
    missed     \* history: some promote_grain failed

netVars  == <<up, crashes>>
callVars == <<cpc, where, grain>>
failVars == <<phase, sweep, todo>>
histVars == <<released, grants, fallback, missed>>
vars == <<netVars, entries, active, callVars, statuses, failVars, errors, histVars>>

Ownerships == [cluster : Clusters, epoch : 1..MaxEpoch]

TypeOK ==
    /\ entries \in [Grains -> Ownerships \cup {None}]
    /\ up \subseteq Clusters /\ active \subseteq up \X Grains
    /\ cpc \in [Calls -> {"new", "lookup", "register", "forward", "dispatch", "fallback", "done"}]
    /\ where \in [Calls -> Clusters \cup {None}]
    /\ grain \in [Calls -> Grains \cup {None}]
    /\ \A c \in Clusters :
          /\ statuses[c] \in [Peers[c] -> {"Unknown", "Healthy", "Unreachable"}]
          /\ phase[c] \in [Peers[c] ->
               {"Monitoring", "PrimaryUnreachable", "Promoting", "Promoted"}]
    /\ sweep \in [Clusters -> Clusters \cup {None}]
    /\ todo \in [Clusters -> SUBSET (Grains \X (1..MaxEpoch))]
    /\ errors \in 0..MaxErrors /\ crashes \in 0..MaxCrashes /\ released \subseteq Grains
    /\ grants \subseteq Grains \X (1..MaxEpoch) \X Clusters
    /\ fallback \subseteq active /\ missed \in BOOLEAN

Unknowns(c) == [p \in Peers[c] |-> "Unknown"]
Monitors(c) == [p \in Peers[c] |-> "Monitoring"]

Init ==
    /\ entries = [g \in Grains |-> None]
    /\ up = Clusters /\ active = {}
    /\ cpc = [r \in Calls |-> "new"]
    /\ where = [r \in Calls |-> None] /\ grain = [r \in Calls |-> None]
    /\ statuses = [c \in Clusters |-> Unknowns(c)]
    /\ phase = [c \in Clusters |-> Monitors(c)]
    /\ sweep = [c \in Clusters |-> None] /\ todo = [c \in Clusters |-> {}]
    /\ errors = 0 /\ crashes = 0 /\ released = {} /\ grants = {}
    /\ fallback = {} /\ missed = FALSE
-----------------------------------------------------------------------------
(***************************************************************************)
(* InMemoryCrossClusterDirectory.                                          *)
(***************************************************************************)

(* Variant of Registered: an equal epoch takes over too.                   *)
RegisteredTie(g, c, e) ==
    IF entries[g] # None /\ e < entries[g].epoch
    THEN entries[g]
    ELSE [cluster |-> c, epoch |-> e]

(* register: first writer wins, a higher epoch takes over.  The entry that *)
(* stands afterwards is also what the call returns.                        *)
Registered(g, c, e) ==
    IF entries[g] # None /\ e <= entries[g].epoch
    THEN entries[g]
    ELSE [cluster |-> c, epoch |-> e]

(* deregister, called by the application that owns the grain.              *)
Deregister(c, g) ==
    /\ c \in up /\ entries[g] # None /\ entries[g].cluster = c
    /\ Cardinality(released) < MaxReleases
    /\ entries' = [entries EXCEPT ![g] = None]
    /\ released' = released \cup {g}
    /\ UNCHANGED <<netVars, active, callVars, statuses, failVars, errors, grants,
                   fallback, missed>>

DirectoryFails == errors < MaxErrors /\ errors' = errors + 1
-----------------------------------------------------------------------------
(***************************************************************************)
(* GrainTransportService::invoke, the cross-cluster part.                  *)
(***************************************************************************)

Invoke(r, c, g) ==
    /\ cpc[r] = "new" /\ c \in up
    /\ cpc' = [cpc EXCEPT ![r] = "lookup"]
    /\ where' = [where EXCEPT ![r] = c]
    /\ grain' = [grain EXCEPT ![r] = g]
    /\ UNCHANGED <<netVars, entries, active, statuses, failVars, errors, histVars>>

(* ClusterSilo::get_ref on the silo that places the grain on itself: it    *)
(* activates without asking the cross-cluster directory.                   *)
LocalActivate(r, c, g) ==
    /\ cpc[r] = "new" /\ c \in up
    /\ cpc' = [cpc EXCEPT ![r] = "done"]
    /\ active' = active \cup {<<c, g>>}
    /\ fallback' = fallback \cup {<<c, g>>}
    /\ UNCHANGED <<netVars, entries, where, grain, statuses, failVars, errors, released, grants,
                   missed>>

Go(r, label, to) ==
    /\ cpc' = [cpc EXCEPT ![r] = label]
    /\ where' = [where EXCEPT ![r] = to]

End(r) ==
    /\ cpc' = [cpc EXCEPT ![r] = "done"]
    /\ where' = [where EXCEPT ![r] = None]
    /\ grain' = [grain EXCEPT ![r] = None]

(* check_cross_cluster up to its next await.                               *)
(* lookup failed, or the owner is not a configured peer: dispatch here.    *)
FallBack(r) ==
    /\ \/ DirectoryFails
       \/ /\ entries[grain[r]] # None
          /\ entries[grain[r]].cluster \notin Peers[where[r]] \cup {where[r]}
          /\ UNCHANGED errors
    /\ Go(r, "fallback", where[r])
    /\ UNCHANGED grain

(* This cluster owns the grain, or a peer does.                            *)
FollowOwner(r) ==
    LET owner == entries[grain[r]].cluster IN
    /\ entries[grain[r]] # None
    /\ \/ owner = where[r] /\ Go(r, "dispatch", owner)
       \/ owner \in Peers[where[r]] /\ Go(r, "forward", owner)
    /\ UNCHANGED <<grain, errors>>


(* Nobody owns it: claim it where it is allowed; elsewhere forward to an   *)
(* allowed peer, or reject when none is known.                             *)
ClaimOrRedirect(r) ==
    LET known == Allowed[grain[r]] \cap Peers[where[r]] IN
    /\ entries[grain[r]] = None
    /\ \/ where[r] \in Allowed[grain[r]] /\ Go(r, "register", where[r]) /\ UNCHANGED grain
       \/ /\ where[r] \notin Allowed[grain[r]]
          /\ \/ \E p \in known : Go(r, "forward", p) /\ UNCHANGED grain
             \/ known = {} /\ End(r)
    /\ UNCHANGED errors

CheckCrossCluster(r) ==
    /\ cpc[r] = "lookup"
    /\ FallBack(r) \/ FollowOwner(r) \/ ClaimOrRedirect(r)
    /\ UNCHANGED <<netVars, entries, active, statuses, failVars, histVars>>

(* let _ = dir.register(&grain_id, local_cid, 1).await: whatever it says.  *)
ClaimOwnership(r) ==
    /\ cpc[r] = "register"
    /\ \/ /\ entries' = [entries EXCEPT ![grain[r]] = Registered(grain[r], where[r], 1)]
          /\ UNCHANGED errors
       \/ DirectoryFails /\ UNCHANGED entries
    /\ cpc' = [cpc EXCEPT ![r] = "dispatch"]
    /\ UNCHANGED <<netVars, active, where, grain, statuses, failVars, histVars>>

(* Local dispatch activates the grain.                                     *)
Dispatch(r) ==
    /\ cpc[r] \in {"dispatch", "fallback"}
    /\ active' = active \cup {<<where[r], grain[r]>>}
    /\ fallback' = IF cpc[r] = "fallback" THEN fallback \cup {<<where[r], grain[r]>>} ELSE fallback
    /\ End(r)
    /\ UNCHANGED <<netVars, entries, statuses, failVars, errors, released, grants, missed>>

(* forward_to_cluster: the gateway of the other cluster (forward_invoke)   *)
(* dispatches without looking at the directory; a dead one is an error.    *)
ForwardInvoke(r) ==
    /\ cpc[r] = "forward"
    /\ active' = IF where[r] \in up THEN active \cup {<<where[r], grain[r]>>} ELSE active
    /\ End(r)
    /\ UNCHANGED <<netVars, entries, statuses, failVars, errors, histVars>>

(* The activation goes idle; its entry in the directory stays.             *)
Deactivate(c, g) ==
    /\ <<c, g>> \in active
    /\ active' = active \ {<<c, g>>} /\ fallback' = fallback \ {<<c, g>>}
    /\ UNCHANGED <<netVars, entries, callVars, statuses, failVars, errors, released, grants, missed>>
-----------------------------------------------------------------------------
(***************************************************************************)
(* ClusterHealth and FailoverManager of cluster c.                         *)
(***************************************************************************)

(* One round of probes; the new statuses are stored together.  A probe of  *)
(* a dead peer fails; one of a live peer may, when the network is flaky.   *)
HealthCheck(c) ==
    /\ c \in up
    /\ \E st \in [Peers[c] -> {"Healthy", "Unreachable"}] :
         /\ \A p \in Peers[c] : st[p] = "Healthy" => p \in up
         /\ \A p \in Peers[c] : st[p] = "Unreachable" => Flaky \/ p \notin up
         /\ statuses' = [statuses EXCEPT ![c] = st]
    /\ UNCHANGED <<netVars, entries, active, callVars, failVars, errors, histVars>>

(* What the failover manager reads.  ClusterSilo::serve gives it a         *)
(* ClusterHealth of its own, which nobody runs: all peers stay Unknown.    *)
(* LiveHealth checks the manager as a component, against the statuses it   *)
(* is written for; those behaviours include the ones of the real wiring.   *)
ManagerSees(c, p) == IF LiveHealth THEN statuses[c][p] ELSE "Unknown"

SetPhase(c, p, ph) == phase' = [phase EXCEPT ![c][p] = ph]

MonitorPeer(c, p) ==
    /\ c \in up /\ p \in Peers[c] /\ sweep[c] = None
    /\ \/ ManagerSees(c, p) = "Healthy" /\ SetPhase(c, p, "Monitoring")
       \/ /\ ManagerSees(c, p) = "Unreachable" /\ phase[c][p] = "Monitoring"
          /\ SetPhase(c, p, "PrimaryUnreachable")
       \/ /\ ManagerSees(c, p) = "Unreachable" /\ phase[c][p] = "PrimaryUnreachable"
          /\ SetPhase(c, p, "Promoting")
    /\ UNCHANGED <<netVars, entries, active, callVars, statuses, sweep, todo, errors, histVars>>


(* Promoting: list the grains of the failed peer (after an error, again in *)
(* the next cycle) ...                                                     *)
ListOwnedBy(c, p) ==
    /\ c \in up /\ p \in Peers[c] /\ sweep[c] = None
    /\ ManagerSees(c, p) = "Unreachable" /\ phase[c][p] = "Promoting"
    /\ \/ /\ sweep' = [sweep EXCEPT ![c] = p]
          /\ todo' = [todo EXCEPT ![c] =
               {<<g, entries[g].epoch>> :
                  g \in {g \in Grains : entries[g] # None /\ entries[g].cluster = p}}]
          /\ UNCHANGED errors
       \/ DirectoryFails /\ UNCHANGED <<sweep, todo>>
    /\ UNCHANGED <<netVars, entries, active, callVars, statuses, phase, histVars>>

(* Variant of PromoteGrain: reads the epoch again instead of using the     *)
(* listed one.                                                             *)
PromoteGrainReread(c, g, e) ==
    /\ c \in up /\ <<g, e>> \in todo[c] /\ entries[g] # None /\ entries[g].epoch < MaxEpoch
    /\ todo' = [todo EXCEPT ![c] = @ \ {<<g, e>>}]
    /\ entries' = [entries EXCEPT ![g] = Registered(g, c, @.epoch + 1)]
    /\ grants' = grants \cup {<<g, entries'[g].epoch, c>>}
    /\ UNCHANGED <<netVars, active, callVars, statuses, phase, sweep, errors, released, fallback,
                   missed>>

(* ... register each with the epoch after the listed one ...               *)
PromoteGrain(c, g, e) ==
    LET result == Registered(g, c, e + 1) IN
    /\ c \in up /\ <<g, e>> \in todo[c] /\ e < MaxEpoch
    /\ todo' = [todo EXCEPT ![c] = @ \ {<<g, e>>}]
    /\ \/ /\ entries' = [entries EXCEPT ![g] = result]
          /\ grants' = IF result.cluster = c THEN grants \cup {<<g, result.epoch, c>>} ELSE grants
          /\ UNCHANGED <<errors, missed>>
       \/ DirectoryFails /\ missed' = TRUE /\ UNCHANGED <<entries, grants>>
    /\ UNCHANGED <<netVars, active, callVars, statuses, phase, sweep, released, fallback>>

(* ... and, whatever failed, be done.                                      *)
SweepComplete(c) ==
    /\ c \in up /\ sweep[c] # None /\ todo[c] = {}
    /\ SetPhase(c, sweep[c], "Promoted")
    /\ sweep' = [sweep EXCEPT ![c] = None]
    /\ UNCHANGED <<netVars, entries, active, callVars, statuses, todo, errors, histVars>>
-----------------------------------------------------------------------------
(* A cluster dies with its activations, its managers and the calls it is   *)
(* handling (a call forwarded to it is still the other cluster's).         *)
Crash(c) ==
    /\ c \in up /\ crashes < MaxCrashes
    /\ up' = up \ {c} /\ crashes' = crashes + 1
    /\ active' = {x \in active : x[1] # c} /\ fallback' = {x \in fallback : x[1] # c}
    /\ LET dead == {r \in Calls : where[r] = c /\ cpc[r] # "forward"} IN
       /\ cpc' = [r \in Calls |-> IF r \in dead THEN "done" ELSE cpc[r]]
       /\ where' = [r \in Calls |-> IF r \in dead THEN None ELSE where[r]]
       /\ grain' = [r \in Calls |-> IF r \in dead THEN None ELSE grain[r]]
    /\ statuses' = [statuses EXCEPT ![c] = Unknowns(c)]
    /\ phase' = [phase EXCEPT ![c] = Monitors(c)]
    /\ sweep' = [sweep EXCEPT ![c] = None]
    /\ todo' = [todo EXCEPT ![c] = {}]
    /\ UNCHANGED <<entries, errors, released, grants, missed>>

Restart(c) ==
    /\ c \notin up
    /\ up' = up \cup {c}
    /\ UNCHANGED <<crashes, entries, active, callVars, statuses, failVars, errors,
                   histVars>>

CallStep(r) ==
    \/ \E c \in Clusters, g \in Grains : Invoke(r, c, g) \/ LocalActivate(r, c, g)
    \/ CheckCrossCluster(r) \/ ClaimOwnership(r) \/ Dispatch(r) \/ ForwardInvoke(r)

FailoverStep(c) ==
    \/ HealthCheck(c) \/ SweepComplete(c)
    \/ \E p \in Clusters : MonitorPeer(c, p) \/ ListOwnedBy(c, p)
    \/ \E g \in Grains, e \in 1..MaxEpoch : PromoteGrain(c, g, e)

Next ==
    \/ \E r \in Calls : CallStep(r)
    \/ \E c \in Clusters : FailoverStep(c) \/ Crash(c) \/ Restart(c)
    \/ \E c \in Clusters, g \in Grains : Deregister(c, g) \/ Deactivate(c, g)

Spec == Init /\ [][Next]_vars

(* The health checker and the failover manager of a running cluster are    *)
(* loops on timers: they go on.                                            *)
Fairness ==
    \A c \in Clusters :
        /\ WF_vars(HealthCheck(c)) /\ WF_vars(SweepComplete(c))
        /\ \A p \in Clusters : WF_vars(MonitorPeer(c, p)) /\ WF_vars(ListOwnedBy(c, p))
        /\ \A g \in Grains, e \in 1..MaxEpoch : WF_vars(PromoteGrain(c, g, e))

FairSpec == Spec /\ Fairness
-----------------------------------------------------------------------------
(* Epochs fence: at most one cluster is told by promote_grain that it owns *)
(* a grain at an epoch, and what it was told stays true of the directory   *)
(* until a later epoch takes over.  Any number of managers may sweep the   *)
(* grains of the same peer from lists they read earlier.  (deregister      *)
(* forgets the epoch; nothing is said of a grain once it was released.)    *)
UniqueOwner ==
    \A x \in grants : x[1] \notin released =>
        /\ entries[x[1]] # None /\ x[2] <= entries[x[1]].epoch
        /\ x[2] = entries[x[1]].epoch => entries[x[1]].cluster = x[3]
        /\ \A y \in grants : x[1] = y[1] /\ x[2] = y[2] => x[3] = y[3]

(* A failover takes a grain only from the peer it holds for dead: an entry *)
(* that is replaced gets the next epoch and belonged to the peer that the  *)
(* new owner is sweeping, though the sweep works from an old list and      *)
(* other clusters claim and promote meanwhile.                             *)
TakesOnlyFromSwept ==
    [][\A g \in Grains :
         entries[g] # None /\ entries'[g] # entries[g] /\ g \notin released' =>
            /\ entries'[g].epoch = entries[g].epoch + 1
            /\ sweep[entries'[g].cluster] = entries[g].cluster]_vars


(* Failover happens (README: FailoverManager "promotes grains via epoch    *)
(* increment on cluster failure"): once a cluster stays down and one that  *)
(* watches it stays up, it ends up owning no grain, if no promote_grain    *)
(* call fails.  (With Flaky probes it does not hold: a sweep of a live     *)
(* peer ends in Promoted, and what that peer claims before it dies is      *)
(* never looked at.)                                                       *)
FailoverHappens ==
    \A p \in Clusters :
        ([]~missed /\ \E c \in Clusters : p \in Peers[c] /\ <>[](p \notin up /\ c \in up)) =>
            <>[](\A g \in Grains : entries[g] = None \/ entries[g].cluster # p)

(* README: "Cross-cluster directory ensures one activation per grain       *)
(* globally."  Stated for grains reached through the transport while the   *)
(* directory answers, no cluster crashed and nothing was promoted.         *)
GlobalSingleInstance ==
    errors = 0 /\ crashes = 0 /\ grants = {} /\ released = {} /\ fallback = {} =>
        \A x, y \in active : x[2] = y[2] => x = y
=============================================================================
