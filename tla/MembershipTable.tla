-------------------------- MODULE MembershipTable ---------------------------
(***************************************************************************)
(* The versioned membership table and the silos that read it and change it *)
(* by compare-and-swap.  Both backends are here: InMemoryMembershipTable,  *)
(* whose operations hold one mutex, and SqliteMembershipTable, whose       *)
(* try_update is one transaction but whose read_all is two statements: the *)
(* version row, then the member rows.                                      *)
(*                                                                         *)
(* What the silos write is not part of the table: Proposals is the use the *)
(* table's documentation describes (join, become active, suspect, declare  *)
(* dead), each row computed from the view the silo last read.              *)
(***************************************************************************)
EXTENDS Naturals, FiniteSets

CONSTANTS
    Silos,
    Absent,         \* no row for a silo
    MaxVersion,     \* bound: membership changes
    MaxGeneration,  \* bound: restarts of one silo
    MaxBeats        \* bound: rows with a heartbeat since they were written

ASSUME TableAssumption ==
    MaxVersion \in Nat /\ MaxGeneration \in Nat \ {0} /\ MaxBeats \in Nat

Statuses == {"Joining", "Active", "Suspect", "Dead"}

Rows == [status : Statuses, generation : 1..MaxGeneration,
         suspectors : SUBSET Silos, alive : {0, 1}]

ASSUME AbsentIsNoRow == Absent \notin Rows

Members == [Silos -> Rows \cup {Absent}]
Views == [version : 0..MaxVersion, members : Members]

VARIABLES
    backend,  \* "memory" or "sqlite", fixed
    version,  \* the table's version
    members,  \* its rows
    pc,       \* each silo: about to read, between the two reads, holding a view
    seen,     \* the version read by a silo between the two reads
    view,     \* the view each silo last obtained
    rings     \* history: the active silos at every version

vars == <<backend, version, members, pc, seen, view, rings>>

ActiveSilos(ms) == {s \in Silos : ms[s] # Absent /\ ms[s].status = "Active"}

NoMembers == [s \in Silos |-> Absent]

TypeOK ==
    /\ backend \in {"memory", "sqlite"}
    /\ version \in 0..MaxVersion
    /\ members \in Members
    /\ pc \in [Silos -> {"read", "rows", "view"}]
    /\ seen \in [Silos -> 0..MaxVersion]
    /\ view \in [Silos -> Views]
    /\ rings \in [0..version -> SUBSET Silos]

Init ==
    /\ backend \in {"memory", "sqlite"}
    /\ version = 0 /\ members = NoMembers
    /\ pc = [s \in Silos |-> "read"]
    /\ seen = [s \in Silos |-> 0]
    /\ view = [s \in Silos |-> [version |-> 0, members |-> NoMembers]]
    /\ rings = [v \in 0..0 |-> {}]
-----------------------------------------------------------------------------
(* snapshot                                                                *)
Snapshot == [version |-> version, members |-> members]

(* InMemoryMembershipTable::read_all                                       *)
ReadAll(s) ==
    /\ backend = "memory" /\ pc[s] # "rows"
    /\ view' = [view EXCEPT ![s] = Snapshot]
    /\ pc' = [pc EXCEPT ![s] = "view"]
    /\ UNCHANGED <<backend, version, members, seen, rings>>

(* SqliteMembershipTable::read_all, SELECT version                         *)
ReadVersion(s) ==
    /\ backend = "sqlite" /\ pc[s] # "rows"
    /\ seen' = [seen EXCEPT ![s] = version]
    /\ pc' = [pc EXCEPT ![s] = "rows"]
    /\ UNCHANGED <<backend, version, members, view, rings>>

(* SqliteMembershipTable::read_all, SELECT ... FROM membership_member      *)
ReadRows(s) ==
    /\ pc[s] = "rows"
    /\ view' = [view EXCEPT ![s] = [version |-> seen[s], members |-> members]]
    /\ seen' = [seen EXCEPT ![s] = 0]
    /\ pc' = [pc EXCEPT ![s] = "view"]
    /\ UNCHANGED <<backend, version, members, rings>>

(* Variant of JoiningRow: the generation of the previous life.             *)
JoiningRowStale(g) == [status |-> "Joining", generation |-> g - 1, suspectors |-> {}, alive |-> 0]

JoiningRow(g) == [status |-> "Joining", generation |-> g, suspectors |-> {}, alive |-> 0]

(* The rows silo s may write for t, given the rows ms of its view.         *)
Proposals(s, t, ms) ==
    {JoiningRow(g) : g \in {g \in 1..MaxGeneration :
                              t = s /\ g = IF ms[t] = Absent THEN 1 ELSE ms[t].generation + 1}}
    \cup {[r EXCEPT !.status = "Active"] :
             r \in {r \in {ms[t]} \ {Absent} : t = s /\ r.status = "Joining"}}
    \cup {[r EXCEPT !.status = "Suspect", !.suspectors = @ \cup {s}] :
             r \in {r \in {ms[t]} \ {Absent} : t # s /\ r.status \in {"Active", "Suspect"}}}
    \cup {[r EXCEPT !.status = "Dead"] :
             r \in {r \in {ms[t]} \ {Absent} : t # s /\ r.status = "Suspect"}}

(* Variants of TryUpdate: no comparison of versions; a write that leaves   *)
(* the version alone.                                                      *)
TryUpdateUnchecked(s, t, row) ==
    /\ pc[s] = "view" /\ row \in Proposals(s, t, view[s].members) /\ version < MaxVersion
    /\ members' = [members EXCEPT ![t] = row]
    /\ version' = version + 1
    /\ rings' = [v \in 0..version' |-> IF v = version' THEN ActiveSilos(members') ELSE rings[v]]
    /\ pc' = [pc EXCEPT ![s] = "read"]
    /\ UNCHANGED <<backend, seen, view>>

TryUpdateNoBump(s, t, row) ==
    /\ pc[s] = "view" /\ row \in Proposals(s, t, view[s].members)
    /\ view[s].version = version
    /\ members' = [members EXCEPT ![t] = row]
    /\ pc' = [pc EXCEPT ![s] = "read"]
    /\ UNCHANGED <<backend, version, seen, view, rings>>

(* try_update with the version of the silo's view: the row goes in and the *)
(* version up, together, and the new view is returned (SQLite reads it     *)
(* back after the commit) ...                                              *)
TryUpdate(s, t, row) ==
    /\ pc[s] = "view" /\ row \in Proposals(s, t, view[s].members)
    /\ view[s].version = version /\ version < MaxVersion
    /\ members' = [members EXCEPT ![t] = row]
    /\ version' = version + 1
    /\ rings' = [v \in 0..version' |-> IF v = version' THEN ActiveSilos(members') ELSE rings[v]]
    /\ \/ /\ backend = "memory"
          /\ view' = [view EXCEPT ![s] = [version |-> version', members |-> members']]
          /\ UNCHANGED pc
       \/ /\ backend = "sqlite"
          /\ pc' = [pc EXCEPT ![s] = "read"]
          /\ UNCHANGED view
    /\ UNCHANGED <<backend, seen>>

(* ... or VersionConflict: the silo has to read the table again.           *)
VersionConflict(s) ==
    /\ pc[s] = "view" /\ view[s].version # version
    /\ pc' = [pc EXCEPT ![s] = "read"]
    /\ UNCHANGED <<backend, version, members, seen, view, rings>>

UpdateIAmAlive(s) ==
    /\ members[s] # Absent
    /\ Cardinality({t \in Silos : members[t] # Absent /\ members[t].alive = 1}) < MaxBeats
    /\ members' = [members EXCEPT ![s].alive = 1]
    /\ UNCHANGED <<backend, version, pc, seen, view, rings>>

Next ==
    \E s \in Silos :
        \/ ReadAll(s) \/ ReadVersion(s) \/ ReadRows(s)
        \/ \E t \in Silos : \E row \in Proposals(s, t, view[s].members) : TryUpdate(s, t, row)
        \/ VersionConflict(s) \/ UpdateIAmAlive(s)

Spec == Init /\ [][Next]_vars
-----------------------------------------------------------------------------
(***************************************************************************)
(* Properties.                                                             *)
(***************************************************************************)

(* membership_table.rs: every silo that has observed the same version      *)
(* builds a byte-identical ring.  Every view of the in-memory table shows  *)
(* the active silos of its version, no matter when it was read.            *)
AgreedRing ==
    backend = "memory" =>
        \A s \in Silos : /\ view[s].version <= version
                         /\ ActiveSilos(view[s].members) = rings[view[s].version]

Rank == [Joining |-> 0, Active |-> 1, Suspect |-> 2, Dead |-> 3]

(* No membership change is lost, with either backend: although every silo  *)
(* writes whole rows computed from a view that may be old or, with SQLite, *)
(* mixed, a row never goes back to an earlier generation, and within one   *)
(* generation never to an earlier status or to fewer suspectors.           *)
NoLostUpdate ==
    [][ \A s \in Silos : members[s] # Absent =>
          /\ members'[s] # Absent
          /\ members'[s].generation >= members[s].generation
          /\ members'[s].generation = members[s].generation =>
               /\ Rank[members'[s].status] >= Rank[members[s].status]
               /\ members[s].suspectors \subseteq members'[s].suspectors ]_vars
=============================================================================
