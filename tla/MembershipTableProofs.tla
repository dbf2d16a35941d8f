----------------------- MODULE MembershipTableProofs ------------------------
(***************************************************************************)
(* AgreedRing and NoLostUpdate for any set of silos and any number of      *)
(* changes.  The strengthening is that a view whose version is the table's *)
(* shows the table's rows (up to the heartbeats, which do not change the   *)
(* version): what makes a compare-and-swap on the version alone a          *)
(* compare-and-swap on all rows, even with SQLite's two reads.             *)
(***************************************************************************)
EXTENDS MembershipTable, TLAPS

SameRow(p, q) ==
    IF p = Absent \/ q = Absent
    THEN p = q
    ELSE p.status = q.status /\ p.generation = q.generation /\ p.suspectors = q.suspectors

CurrentInv ==
    \A s \in Silos :
        /\ seen[s] <= version /\ view[s].version <= version
        /\ view[s].version = version =>
             \A t \in Silos : SameRow(view[s].members[t], members[t])

RingInv ==
    /\ rings[version] = ActiveSilos(members)
    /\ backend = "memory" => \A s \in Silos : pc[s] # "rows"

Later(old, new) ==
    /\ new # Absent
    /\ new.generation >= old.generation
    /\ new.generation = old.generation =>
         /\ Rank[new.status] >= Rank[old.status]
         /\ old.suspectors \subseteq new.suspectors

(* What a silo writes is a row, and a later one than the one it saw.       *)
LEMMA ProposalLater ==
    ASSUME NEW s \in Silos, NEW t \in Silos, NEW ms \in Members,
           NEW row \in Proposals(s, t, ms)
    PROVE  /\ row \in Rows
           /\ ms[t] # Absent => Later(ms[t], row)
<1> DEFINE r == ms[t]
<1>0. r \in Rows \cup {Absent}
  BY DEF Members
<1>1. CASE \E g \in 1..MaxGeneration :
              row = JoiningRow(g) /\ g = IF r = Absent THEN 1 ELSE r.generation + 1
  <2>1. PICK g \in 1..MaxGeneration :
              row = JoiningRow(g) /\ g = IF r = Absent THEN 1 ELSE r.generation + 1
    BY <1>1
  <2>2. row \in Rows
    BY <2>1, TableAssumption DEF JoiningRow, Rows, Statuses
  <2>3. row # Absent
    BY <2>2, AbsentIsNoRow
  <2>4. ASSUME r # Absent  PROVE row.generation > r.generation
    BY <1>0, <2>1, <2>4 DEF JoiningRow, Rows
  <2>5. r # Absent => r.generation \in Nat /\ row.generation \in Nat
    BY <1>0, <2>2 DEF Rows
  <2>6. QED  BY <2>2, <2>3, <2>4, <2>5 DEF Later
<1>2. CASE r \in Rows /\ r.status = "Joining" /\ row = [r EXCEPT !.status = "Active"]
  <2>1. row \in Rows  BY <1>2 DEF Rows, Statuses
  <2>2. Rank["Active"] >= Rank["Joining"]  BY DEF Rank
  <2>3. QED  BY <1>2, <2>1, <2>2, AbsentIsNoRow DEF Later, Rows
<1>3. CASE r \in Rows /\ r.status \in {"Active", "Suspect"}
             /\ row = [r EXCEPT !.status = "Suspect", !.suspectors = @ \cup {s}]
  <2>1. row \in Rows  BY <1>3 DEF Rows, Statuses
  <2>2. Rank["Suspect"] >= Rank["Active"] /\ Rank["Suspect"] >= Rank["Suspect"]  BY DEF Rank
  <2>3. row.status = "Suspect" /\ row.generation = r.generation
          /\ r.suspectors \subseteq row.suspectors /\ r.generation \in Nat
    BY <1>3 DEF Rows
  <2>4. Rank[row.status] >= Rank[r.status]
    BY <1>3, <2>2, <2>3
  <2>5. QED  BY <2>1, <2>3, <2>4, AbsentIsNoRow DEF Later
<1>4. CASE r \in Rows /\ r.status = "Suspect" /\ row = [r EXCEPT !.status = "Dead"]
  <2>1. row \in Rows  BY <1>4 DEF Rows, Statuses
  <2>2. Rank["Dead"] >= Rank["Suspect"]  BY DEF Rank
  <2>3. QED  BY <1>4, <2>1, <2>2, AbsentIsNoRow DEF Later, Rows
<1>5. QED  BY <1>0, <1>1, <1>2, <1>3, <1>4 DEF Proposals

(* A row computed from a current view is later than the table's own row.   *)
LEMMA LaterSame ==
    ASSUME NEW p \in Rows \cup {Absent}, NEW q \in Rows \cup {Absent}, SameRow(p, q),
           q # Absent, NEW row \in Rows, Later(p, row)
    PROVE  Later(q, row)
BY DEF SameRow, Later

(* A heartbeat changes no row as far as SameRow and the ring can tell.     *)
LEMMA BeatSame ==
    ASSUME TypeOK, NEW s \in Silos, UpdateIAmAlive(s)
    PROVE  /\ members' \in Members
           /\ \A t \in Silos : SameRow(members[t], members'[t])
<1>1. members[s] \in Rows
  BY DEF TypeOK, UpdateIAmAlive, Members
<1>2. [members[s] EXCEPT !.alive = 1] \in Rows
  BY <1>1 DEF Rows
<1>3. members' = [members EXCEPT ![s] = [members[s] EXCEPT !.alive = 1]]
  BY DEF UpdateIAmAlive
<1>4. members' \in Members
  BY <1>2, <1>3 DEF TypeOK, Members
<1>5. ASSUME NEW t \in Silos  PROVE SameRow(members[t], members'[t])
  <2>1. CASE t = s
    <3>1. members'[t] = [members[s] EXCEPT !.alive = 1]
      BY <1>3, <2>1 DEF TypeOK, Members
    <3>2. QED  BY <1>1, <1>2, <2>1, <3>1, AbsentIsNoRow DEF SameRow, Rows
  <2>2. CASE t # s
    BY <1>3, <2>2 DEF TypeOK, Members, SameRow
  <2>3. QED  BY <2>1, <2>2
<1>6. QED  BY <1>4, <1>5

LEMMA SameActive ==
    ASSUME NEW ms \in Members, NEW ns \in Members, \A t \in Silos : SameRow(ms[t], ns[t])
    PROVE  ActiveSilos(ms) = ActiveSilos(ns)
BY DEF ActiveSilos, SameRow

LEMMA SameTrans ==
    ASSUME NEW p, NEW q, NEW r, SameRow(p, q), SameRow(q, r)
    PROVE  SameRow(p, r)
BY DEF SameRow

LEMMA InitInv == Init => TypeOK /\ CurrentInv /\ RingInv /\ AgreedRing
<1> SUFFICES ASSUME Init  PROVE TypeOK /\ CurrentInv /\ RingInv /\ AgreedRing
  OBVIOUS
<1>1. NoMembers \in Members /\ ActiveSilos(NoMembers) = {}
  BY DEF NoMembers, Members, ActiveSilos
<1>2. TypeOK
  BY <1>1, TableAssumption DEF Init, TypeOK, Views
<1>3. CurrentInv
  BY DEF Init, CurrentInv, SameRow, NoMembers
<1>4. RingInv /\ AgreedRing
  BY <1>1 DEF Init, RingInv, AgreedRing
<1>5. QED  BY <1>2, <1>3, <1>4

LEMMA UpdateInv ==
    ASSUME TypeOK, CurrentInv, RingInv, AgreedRing, NEW s \in Silos, NEW t \in Silos,
           NEW row \in Proposals(s, t, view[s].members), TryUpdate(s, t, row)
    PROVE  /\ TypeOK' /\ CurrentInv' /\ RingInv' /\ AgreedRing'
           /\ members[t] # Absent => Later(members[t], row)
<1> USE TableAssumption
<1>0. view[s].members \in Members /\ view[s].version \in 0..MaxVersion /\ row \in Rows
  BY ProposalLater DEF TypeOK, Views
<1>1. version' = version + 1 /\ version \in 0..MaxVersion /\ version' \in 0..MaxVersion
  BY DEF TypeOK, TryUpdate
<1>2. members' \in Members
  BY <1>0 DEF TypeOK, TryUpdate, Members
<1>3. rings' \in [0..version' -> SUBSET Silos]
  BY <1>1 DEF TypeOK, TryUpdate, ActiveSilos
<1>4. rings'[version'] = ActiveSilos(members')
      /\ \A v \in 0..version : rings'[v] = rings[v]
  BY <1>1 DEF TryUpdate
<1>5. view' \in [Silos -> Views]
  <2>1. [version |-> version', members |-> members'] \in Views
    BY <1>1, <1>2 DEF Views
  <2>2. QED  BY <2>1 DEF TypeOK, TryUpdate
<1>6. TypeOK'
  BY <1>1, <1>2, <1>3, <1>5 DEF TypeOK, TryUpdate
<1>7. \A u \in Silos : view'[u] = view[u] \/ view'[u] = [version |-> version', members |-> members']
  BY DEF TypeOK, TryUpdate
<1>8. \A u \in Silos : view[u].version \in 0..version
  BY DEF TypeOK, CurrentInv, Views
<1>9. CurrentInv'
  <2>1. \A u \in Silos : seen'[u] <= version'
    BY <1>1 DEF TypeOK, CurrentInv, TryUpdate
  <2>2. \A q : SameRow(q, q)
    BY DEF SameRow
  <2>3. QED  BY <1>1, <1>7, <1>8, <2>1, <2>2 DEF CurrentInv
<1>10. RingInv'
  BY <1>4 DEF RingInv, TryUpdate, TypeOK
<1>11. AgreedRing'
  <2> SUFFICES ASSUME backend' = "memory", NEW u \in Silos
               PROVE  /\ view'[u].version <= version'
                      /\ ActiveSilos(view'[u].members) = rings'[view'[u].version]
    BY DEF AgreedRing, ActiveSilos
  <2>1. CASE view'[u] = view[u]
    <3>1. backend = "memory"  BY DEF TryUpdate
    <3>2. QED  BY <1>1, <1>4, <1>8, <2>1, <3>1 DEF AgreedRing
  <2>2. CASE view'[u] = [version |-> version', members |-> members']
    BY <1>1, <1>4, <2>2
  <2>3. QED  BY <1>7, <2>1, <2>2
<1>12. ASSUME members[t] # Absent  PROVE Later(members[t], row)
  <2>1. SameRow(view[s].members[t], members[t])
    BY DEF TryUpdate, CurrentInv
  <2>2. view[s].members[t] # Absent
    BY <1>12, <2>1 DEF SameRow
  <2>3. view[s].members[t] \in Rows \cup {Absent} /\ members[t] \in Rows \cup {Absent}
    BY <1>0 DEF TypeOK, Members
  <2>4. Later(view[s].members[t], row)
    BY <1>0, <2>2, ProposalLater
  <2>5. QED  BY <1>0, <1>12, <2>1, <2>3, <2>4, LaterSame
<1>13. QED  BY <1>6, <1>9, <1>10, <1>11, <1>12

IInv == TypeOK /\ CurrentInv /\ RingInv /\ AgreedRing

(* Every step keeps the invariant, and makes every row later.              *)
LEMMA StepInv ==
    ASSUME IInv, [Next]_vars
    PROVE  /\ IInv'
           /\ \A u \in Silos : members[u] # Absent /\ members'[u] # members[u]
                 => Later(members[u], members'[u])
<1> USE TableAssumption DEF IInv
<1>0. \A q : SameRow(q, q)
  BY DEF SameRow
<1>1. CASE UNCHANGED vars
  BY <1>1 DEF vars, TypeOK, CurrentInv, RingInv, AgreedRing, ActiveSilos
<1>2. ASSUME NEW s \in Silos, ReadAll(s)  PROVE IInv' /\ members' = members
  <2>1. Snapshot \in Views
    BY DEF TypeOK, Snapshot, Views
  <2>2. TypeOK'
    BY <1>2, <2>1 DEF TypeOK, ReadAll
  <2>3. \A u \in Silos : view'[u] = IF u = s THEN Snapshot ELSE view[u]
    BY <1>2 DEF TypeOK, ReadAll
  <2>4. CurrentInv'
    BY <1>0, <1>2, <2>3 DEF TypeOK, CurrentInv, ReadAll, Snapshot
  <2>5. RingInv'
    BY <1>2 DEF TypeOK, RingInv, ReadAll
  <2>6. AgreedRing'
    BY <1>2, <2>3 DEF TypeOK, RingInv, AgreedRing, ReadAll, Snapshot
  <2>7. QED  BY <1>2, <2>2, <2>4, <2>5, <2>6 DEF ReadAll
<1>3. ASSUME NEW s \in Silos, ReadVersion(s)  PROVE IInv' /\ members' = members
  BY <1>3 DEF ReadVersion, TypeOK, CurrentInv, RingInv, AgreedRing
<1>4. ASSUME NEW s \in Silos, ReadRows(s)  PROVE IInv' /\ members' = members
  <2> DEFINE mixed == [version |-> seen[s], members |-> members]
  <2>1. mixed \in Views /\ seen[s] <= version
    BY DEF TypeOK, Views, CurrentInv
  <2>2. TypeOK'
    BY <1>4, <2>1 DEF TypeOK, ReadRows
  <2>3. \A u \in Silos : view'[u] = IF u = s THEN mixed ELSE view[u]
    BY <1>4 DEF TypeOK, ReadRows
  <2>4. \A u \in Silos : seen'[u] <= version
    BY <1>4 DEF TypeOK, CurrentInv, ReadRows
  <2>5. CurrentInv'
    BY <1>0, <1>4, <2>1, <2>3, <2>4 DEF CurrentInv, ReadRows
  <2>6. backend # "memory"
    BY <1>4 DEF RingInv, ReadRows
  <2>7. RingInv' /\ AgreedRing'
    BY <1>4, <2>6 DEF RingInv, AgreedRing, ReadRows
  <2>8. QED  BY <1>4, <2>2, <2>5, <2>7 DEF ReadRows
<1>5. ASSUME NEW s \in Silos, NEW t \in Silos, NEW row \in Proposals(s, t, view[s].members),
             TryUpdate(s, t, row)
      PROVE  IInv' /\ \A u \in Silos : members[u] # Absent /\ members'[u] # members[u]
                                          => Later(members[u], members'[u])
  <2>1. \A u \in Silos : members'[u] = IF u = t THEN row ELSE members[u]
    BY <1>5 DEF TypeOK, Members, TryUpdate
  <2>2. QED  BY <1>5, <2>1, UpdateInv
<1>6. ASSUME NEW s \in Silos, VersionConflict(s)  PROVE IInv' /\ members' = members
  BY <1>6 DEF VersionConflict, TypeOK, CurrentInv, RingInv, AgreedRing
<1>7. ASSUME NEW s \in Silos, UpdateIAmAlive(s)
      PROVE  IInv' /\ \A u \in Silos : members[u] # Absent => Later(members[u], members'[u])
  <2>1. members \in Members /\ members' \in Members
        /\ \A u \in Silos : SameRow(members[u], members'[u])
    BY <1>7, BeatSame DEF TypeOK
  <2>2. TypeOK'
    BY <1>7, <2>1 DEF TypeOK, UpdateIAmAlive
  <2>3. CurrentInv'
    BY <1>7, <2>1, SameTrans DEF CurrentInv, UpdateIAmAlive
  <2>4. ActiveSilos(members) = ActiveSilos(members')
    BY <2>1, SameActive
  <2>5. RingInv' /\ AgreedRing'
    BY <1>7, <2>4 DEF RingInv, AgreedRing, UpdateIAmAlive
  <2>6. ASSUME NEW u \in Silos, members[u] # Absent  PROVE Later(members[u], members'[u])
    <3>1. members[u] \in Rows /\ members'[u] \in Rows
      BY <2>1, <2>6 DEF Members, SameRow
    <3>2. Rank[members[u].status] >= Rank[members[u].status]
      BY <3>1 DEF Rank, Rows, Statuses
    <3>3. QED  BY <2>1, <2>6, <3>1, <3>2, AbsentIsNoRow DEF SameRow, Later, Rows
  <2>7. QED  BY <2>2, <2>3, <2>5, <2>6
<1>8. QED  BY <1>1, <1>2, <1>3, <1>4, <1>5, <1>6, <1>7 DEF Next

(* Every variable keeps its type, for any set of silos and any bounds.     *)
THEOREM TableTypeCorrect == Spec => []TypeOK
<1>1. Init => IInv  BY InitInv DEF IInv
<1>2. IInv /\ [Next]_vars => IInv'  BY StepInv
<1>3. IInv => TypeOK  BY DEF IInv
<1>4. QED  BY <1>1, <1>2, <1>3, PTL DEF Spec

(* Silos that observed the same version of the in-memory table build the   *)
(* same ring, for any number of silos and changes.                         *)
THEOREM RingAgreement == Spec => []AgreedRing
<1>1. Init => IInv  BY InitInv DEF IInv
<1>2. IInv /\ [Next]_vars => IInv'  BY StepInv
<1>3. IInv => AgreedRing  BY DEF IInv
<1>4. QED  BY <1>1, <1>2, <1>3, PTL DEF Spec

(* No membership change is lost, with either backend: although SQLite's    *)
(* read_all may return rows newer than its version, the compare-and-swap   *)
(* of such a view fails.                                                   *)
THEOREM UpdatesKept == Spec => NoLostUpdate
<1>1. Init => IInv  BY InitInv DEF IInv
<1>2. IInv /\ [Next]_vars => IInv'  BY StepInv
<1> DEFINE Kept == \A s \in Silos : members[s] # Absent =>
          /\ members'[s] # Absent
          /\ members'[s].generation >= members[s].generation
          /\ members'[s].generation = members[s].generation =>
               /\ Rank[members'[s].status] >= Rank[members[s].status]
               /\ members[s].suspectors \subseteq members'[s].suspectors
<1>3. IInv /\ [Next]_vars => [Kept]_vars
  <2> SUFFICES ASSUME IInv, [Next]_vars  PROVE Kept
    OBVIOUS
  <2> SUFFICES ASSUME NEW s \in Silos, members[s] # Absent
               PROVE  Later(members[s], members'[s])
    BY DEF Later
  <2>1. CASE members'[s] # members[s]
    BY <2>1, StepInv
  <2>2. CASE members'[s] = members[s]
    <3>1. members[s] \in Rows  BY DEF IInv, TypeOK, Members
    <3>2. Rank[members[s].status] >= Rank[members[s].status]
      BY <3>1 DEF Rank, Rows, Statuses
    <3>3. QED  BY <2>2, <3>1, <3>2 DEF Later, Rows
  <2>3. QED  BY <2>1, <2>2
<1>4. QED  BY <1>1, <1>2, <1>3, PTL DEF Spec, NoLostUpdate
=============================================================================
