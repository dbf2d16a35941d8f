-------------------------------- MODULE Swim --------------------------------
(***************************************************************************)
(* Membership inside one cluster: the SWIM protocol loop of every silo, the *)
(* membership service that answers it, and the way a silo joins.            *)
(*                                                                         *)
(* A silo keeps, under one mutex, its member table, its own incarnation and *)
(* a queue of gossip; the hash ring is stored next to it, always while that *)
(* mutex is held.  One action is one critical section, or several with      *)
(* nothing but the lock between them that commute with what others do.  A   *)
(* silo's id is a fresh UUID unless configured, so a silo that crashed does *)
(* not come back under its name.  The ring is the set of silos on it: hashes*)
(* and virtual nodes are abstracted.                                        *)
(***************************************************************************)
EXTENDS Integers, Sequences, FiniteSets, SequencesExt

CONSTANTS
    Silos,          \* every silo that ever runs
    Founders,       \* silos that formed the cluster before the model starts
    Seeds,          \* silos a newcomer may contact
    Probers,        \* silos whose protocol loop runs (a bound)
    Fanout,         \* gossip_fanout: updates per message
    MaxPending,     \* MAX_PENDING_GOSSIP
    PingReqCount,   \* ping_req_count: peers asked for an indirect ping
    MaxLosses,      \* bound: requests or replies that time out
    MaxCrashes,     \* bound: silos that crash
    MaxLeaves,      \* bound: NotifyLeave calls
    None

ASSUME SwimAssumption ==
    /\ Founders \subseteq Silos /\ Seeds \subseteq Founders /\ Probers \subseteq Silos
    /\ None \notin Silos
    /\ Fanout \in Nat \ {0} /\ MaxPending \in Nat \ {0} /\ PingReqCount \in Nat
    /\ MaxLosses \in Nat /\ MaxCrashes \in Nat /\ MaxLeaves \in Nat

VARIABLES
    up,         \* silo -> it runs
    node,       \* silo -> its SwimState and its ring
    loop,       \* silo -> where its protocol loop is
    joining,    \* silo -> how far its join_cluster is
    notices,    \* NotifyJoin and NotifyLeave calls under way
    losses, crashes, leaves,
    missed      \* history: running silos a ping to which timed out

vars == <<up, node, loop, joining, notices, losses, crashes, leaves, missed>>

-----------------------------------------------------------------------------
(* The state of one silo. *)

\* Gossip of kind "alive", "suspect", "dead" or "join".
Update(k, x, i) == [kind |-> k, silo |-> x, inc |-> i]

\* A member is "alive", "suspect", or "overdue" when its suspicion has timed out.
NewMember == [status |-> "alive", inc |-> 0]

IsMember(v, x) == x \in DOMAIN v.members

AddMember(v, x) ==
    [v EXCEPT !.members = [y \in DOMAIN @ \cup {x} |-> IF y = x THEN NewMember ELSE @[y]]]

RemoveMember(v, x) ==
    [v EXCEPT !.members = [y \in DOMAIN @ \ {x} |-> @[y]]]

RingAdd(v, S) == [v EXCEPT !.ring = @ \cup S]

RingRemove(v, S) == [v EXCEPT !.ring = @ \ S]

EnqueueGossip(v, u) ==
    [v EXCEPT !.gossip = Append(IF Len(@) >= MaxPending THEN Tail(@) ELSE @, u)]

Drained(v) == SubSeq(v.gossip, 1, IF Len(v.gossip) < Fanout THEN Len(v.gossip) ELSE Fanout)

DrainGossip(v) == [v EXCEPT !.gossip = SubSeq(@, Len(Drained(v)) + 1, Len(@))]

-----------------------------------------------------------------------------
(* apply_gossip.  The updates of a batch change the table one by one; the   *)
(* ring changes at the end, all removals before all additions.              *)

\* A variant of Refute that forgets to raise the silo's own incarnation.
RefuteNotKept(v, u) == EnqueueGossip(v, Update("alive", u.silo, u.inc + 1))

Refute(v, u) ==
    EnqueueGossip([v EXCEPT !.inc = u.inc + 1], Update("alive", u.silo, u.inc + 1))

ApplyAlive(a, u) ==
    IF IsMember(a.v, u.silo) /\ u.inc > a.v.members[u.silo].inc
    THEN [a EXCEPT !.v.members[u.silo] = [status |-> "alive", inc |-> u.inc]]
    ELSE a

ApplySuspect(a, u) ==
    IF /\ IsMember(a.v, u.silo)
       /\ u.inc >= a.v.members[u.silo].inc
       /\ a.v.members[u.silo].status = "alive"
    THEN [a EXCEPT !.v.members[u.silo] = [status |-> "suspect", inc |-> u.inc]]
    ELSE a

ApplyDead(a, u) ==
    IF IsMember(a.v, u.silo) /\ u.inc >= a.v.members[u.silo].inc
    THEN [a EXCEPT !.v = RemoveMember(@, u.silo), !.removes = @ \cup {u.silo}]
    ELSE a

ApplyJoin(a, u) ==
    IF IsMember(a.v, u.silo)
    THEN a
    ELSE [a EXCEPT !.v = AddMember(@, u.silo), !.adds = @ \cup {u.silo}]

ApplyAboutSelf(a, u) ==
    IF u.kind = "suspect" /\ u.inc >= a.v.inc THEN [a EXCEPT !.v = Refute(@, u)] ELSE a

ApplyUpdate(s, a, u) ==
    CASE u.silo = s -> ApplyAboutSelf(a, u)
      [] u.silo # s /\ u.kind = "alive"   -> ApplyAlive(a, u)
      [] u.silo # s /\ u.kind = "suspect" -> ApplySuspect(a, u)
      [] u.silo # s /\ u.kind = "dead"    -> ApplyDead(a, u)
      [] u.silo # s /\ u.kind = "join"    -> ApplyJoin(a, u)

\* A variant of ApplyGossip that stores the ring only when silos were removed.
ApplyGossipNoAdds(s, v, batch) ==
    LET end == FoldLeft(LAMBDA a, u : ApplyUpdate(s, a, u),
                        [v |-> v, adds |-> {}, removes |-> {}], batch)
    IN  RingRemove(end.v, end.removes)

ApplyGossip(s, v, batch) ==
    LET end == FoldLeft(LAMBDA a, u : ApplyUpdate(s, a, u),
                        [v |-> v, adds |-> {}, removes |-> {}], batch)
    IN  RingAdd(RingRemove(end.v, end.removes), end.adds)

\* A variant of SuspectMember that restarts the timeout at every failed probe.
SuspectMemberAgain(v, x) ==
    IF IsMember(v, x)
    THEN EnqueueGossip([v EXCEPT !.members[x].status = "suspect"],
                       Update("suspect", x, v.members[x].inc))
    ELSE v

\* suspect_member: a failed probe.
SuspectMember(v, x) ==
    IF IsMember(v, x) /\ v.members[x].status = "alive"
    THEN EnqueueGossip([v EXCEPT !.members[x].status = "suspect"],
                       Update("suspect", x, v.members[x].inc))
    ELSE v

\* declare_dead: whatever the member's status is by now.
DeclareDead(v, x) ==
    IF IsMember(v, x)
    THEN EnqueueGossip(RingRemove(RemoveMember(v, x), {x}),
                       Update("dead", x, v.members[x].inc))
    ELSE v

MarkAlive(v, x) ==
    IF IsMember(v, x) THEN [v EXCEPT !.members[x].status = "alive"] ELSE v

-----------------------------------------------------------------------------
(* The protocol loop of silo s, run_swim_protocol. *)

Asleep == [pc |-> "sleep", target |-> None, batch |-> <<>>, peers |-> {}, expired |-> {}]

Running(s, where) == up[s] /\ loop[s].pc = where

\* A request or a reply times out although both silos run.
Lose == losses < MaxLosses /\ losses' = losses + 1

\* Pick a member at random and drain the gossip the ping will carry.
Probe(s, t) ==
    /\ Running(s, "sleep") /\ s \in Probers
    /\ IsMember(node[s], t)
    /\ node' = [node EXCEPT ![s] = DrainGossip(@)]
    /\ loop' = [loop EXCEPT ![s] = [Asleep EXCEPT !.pc = "ping", !.target = t,
                                                  !.batch = Drained(node[s])]]
    /\ UNCHANGED <<up, joining, notices, losses, crashes, leaves, missed>>

\* The membership service of the target: apply the gossip, answer with its own.
Ping(s) ==
    LET t == loop[s].target
        w == ApplyGossip(t, node[t], loop[s].batch)
    IN  /\ Running(s, "ping") /\ up[t]
        /\ node' = [node EXCEPT ![t] = DrainGossip(w)]
        /\ loop' = [loop EXCEPT ![s].pc = "pong", ![s].batch = Drained(w)]
        /\ UNCHANGED <<up, joining, notices, losses, crashes, leaves, missed>>

Pong(s) ==
    /\ Running(s, "pong")
    /\ node' = [node EXCEPT ![s] = MarkAlive(ApplyGossip(s, @, loop[s].batch), loop[s].target)]
    /\ loop' = [loop EXCEPT ![s] = [Asleep EXCEPT !.pc = "expire"]]
    /\ UNCHANGED <<up, joining, notices, losses, crashes, leaves, missed>>

\* The direct ping failed; its gossip is gone.  Choose peers for indirect ones.
PingTimeout(s) ==
    LET t == loop[s].target
        candidates == DOMAIN node[s].members \ {t}
    IN  /\ up[s] /\ loop[s].pc \in {"ping", "pong"}
        /\ \/ ~up[t] /\ UNCHANGED <<losses, missed>>
           \/ up[t] /\ Lose /\ missed' = missed \cup {t}
        /\ \E P \in SUBSET candidates :
              /\ Cardinality(P) = IF Cardinality(candidates) < PingReqCount
                                  THEN Cardinality(candidates) ELSE PingReqCount
              /\ loop' = [loop EXCEPT ![s] = [Asleep EXCEPT !.pc = "indirect", !.target = t,
                                                            !.peers = P]]
        /\ UNCHANGED <<up, node, joining, notices, crashes, leaves>>

\* Peer p reaches the target.  Both answers carry drained gossip nobody reads.
IndirectPing(s, p) ==
    LET t == loop[s].target
    IN  /\ Running(s, "indirect") /\ p \in loop[s].peers
        /\ up[p] /\ up[t]
        /\ node' = [x \in Silos |-> CASE x = s -> MarkAlive(node[s], t)
                                      [] x \in {p, t} -> DrainGossip(node[x])
                                      [] OTHER -> node[x]]
        /\ loop' = [loop EXCEPT ![s] = [Asleep EXCEPT !.pc = "expire"]]
        /\ UNCHANGED <<up, joining, notices, losses, crashes, leaves, missed>>

\* The peer or the target is down, or a message between the three is lost:
\* how far the calls got decides who drained gossip for nothing.
IndirectTimeout(s, p) ==
    LET t == loop[s].target
    IN  /\ Running(s, "indirect") /\ p \in loop[s].peers
        /\ \E D \in SUBSET {p, t} :
              /\ \/ ~up[p] /\ D = {} /\ UNCHANGED <<losses, missed>>
                 \/ up[p] /\ ~up[t] /\ D = {p} /\ UNCHANGED <<losses, missed>>
                 \/ /\ up[p] /\ up[t] /\ D # {t}
                    /\ Lose /\ missed' = missed \cup {t}
              /\ node' = [x \in Silos |-> IF x \in D THEN DrainGossip(node[x]) ELSE node[x]]
        /\ loop' = [loop EXCEPT ![s].peers = @ \ {p}]
        /\ UNCHANGED <<up, joining, notices, crashes, leaves>>

Suspect(s) ==
    /\ Running(s, "indirect") /\ loop[s].peers = {}
    /\ node' = [node EXCEPT ![s] = SuspectMember(@, loop[s].target)]
    /\ loop' = [loop EXCEPT ![s] = [Asleep EXCEPT !.pc = "expire"]]
    /\ UNCHANGED <<up, joining, notices, losses, crashes, leaves, missed>>

\* suspect_timeout passes for a suspect of s.
SuspectTimeout(s, x) ==
    /\ up[s]
    /\ IsMember(node[s], x) /\ node[s].members[x].status = "suspect"
    /\ node' = [node EXCEPT ![s].members[x].status = "overdue"]
    /\ UNCHANGED <<up, loop, joining, notices, losses, crashes, leaves, missed>>

\* A variant of Overdue that takes every member for a suspect.
AllOverdue(v) == DOMAIN v.members

Overdue(v) == {x \in DOMAIN v.members : v.members[x].status = "overdue"}

\* expire_suspects collects under one lock ...
ExpireCollect(s) ==
    LET expired == Overdue(node[s])
    IN  /\ Running(s, "expire")
        /\ loop' = [loop EXCEPT ![s] = IF expired = {} THEN Asleep
                                       ELSE [Asleep EXCEPT !.pc = "declare", !.expired = expired]]
        /\ UNCHANGED <<up, node, joining, notices, losses, crashes, leaves, missed>>

\* ... and declares under another: what happened in between is not looked at.
ExpireDeclare(s) ==
    /\ Running(s, "declare")
    /\ \E q \in SetToSeqs(loop[s].expired) :
          node' = [node EXCEPT ![s] = FoldLeft(DeclareDead, @, q)]
    /\ loop' = [loop EXCEPT ![s] = Asleep]
    /\ UNCHANGED <<up, joining, notices, losses, crashes, leaves, missed>>

-----------------------------------------------------------------------------
(* Joining, join_cluster and the handlers it calls. *)

\* The seed's join handler.  Its answer is the ring it has afterwards.
Join(j, d) ==
    LET w == IF IsMember(node[d], j) THEN RingAdd(node[d], {j})
             ELSE EnqueueGossip(AddMember(RingAdd(node[d], {j}), j), Update("join", j, 0))
    IN  /\ up[j] /\ joining[j].st = "out"
        /\ d \in Seeds \ {j} /\ up[d]
        /\ node' = [node EXCEPT ![d] = w]
        /\ joining' = [joining EXCEPT ![j] = [st |-> "reply", seed |-> d, list |-> w.ring]]
        /\ UNCHANGED <<up, loop, notices, losses, crashes, leaves, missed>>

\* The answer is lost: join_cluster fails, discover_and_join tries again.
JoinLost(j) ==
    /\ up[j] /\ joining[j].st = "reply"
    /\ Lose
    /\ joining' = [joining EXCEPT ![j] = [st |-> "out", seed |-> None, list |-> {}]]
    /\ UNCHANGED <<up, node, loop, notices, crashes, leaves, missed>>

Notice(k, x, d, stage) == [kind |-> k, silo |-> x, dest |-> d, stage |-> stage]

PeersOf(j, list) == list \ {j}

\* Take over the seed's list, overwriting what is known, and announce.
JoinApply(j) ==
    LET list == joining[j].list
        peers == PeersOf(j, list)
    IN  /\ up[j] /\ joining[j].st = "reply"
        /\ node' = [node EXCEPT ![j] = [RingAdd(@, list) EXCEPT !.members =
              [x \in DOMAIN @ \cup peers |-> IF x \in peers THEN NewMember ELSE @[x]]]]
        /\ notices' = notices \cup
              {Notice("join", j, d, "sent") : d \in list \ {j, joining[j].seed}}
        /\ joining' = [joining EXCEPT ![j].st = "in", ![j].list = {}]
        /\ UNCHANGED <<up, loop, losses, crashes, leaves, missed>>

\* notify_leave is part of the service; nothing in the framework calls it.
SendLeave(x, d) ==
    /\ ~up[x] /\ up[d]
    /\ leaves < MaxLeaves /\ leaves' = leaves + 1
    /\ notices' = notices \cup {Notice("leave", x, d, "sent")}
    /\ UNCHANGED <<up, node, loop, joining, losses, crashes, missed>>

\* notify_join and notify_leave look at the ring before they take the lock.
NotifyCheck(n) ==
    /\ n.stage = "sent" /\ up[n.dest]
    /\ notices' = IF (n.silo \in node[n.dest].ring) = (n.kind = "join")
                  THEN notices \ {n}
                  ELSE (notices \ {n}) \cup {[n EXCEPT !.stage = "checked"]}
    /\ UNCHANGED <<up, node, loop, joining, losses, crashes, leaves, missed>>

Joined(v, x) == AddMember(RingAdd(v, {x}), x)

Left(v, x) == RemoveMember(RingRemove(v, {x}), x)

NotifyApply(n) ==
    /\ n.stage = "checked" /\ up[n.dest]
    /\ node' = [node EXCEPT ![n.dest] = IF n.kind = "join" THEN Joined(@, n.silo) ELSE Left(@, n.silo)]
    /\ notices' = notices \ {n}
    /\ UNCHANGED <<up, loop, joining, losses, crashes, leaves, missed>>

\* The call fails, or the rate limiter refuses it; the caller does not mind.
NotifyLost(n) ==
    /\ \/ ~up[n.dest] /\ UNCHANGED losses
       \/ up[n.dest] /\ n.stage = "sent" /\ Lose
    /\ notices' = notices \ {n}
    /\ UNCHANGED <<up, node, loop, joining, crashes, leaves, missed>>

\* A silo stops, by a crash or by shutdown, which announces nothing.
Crash(s) ==
    /\ up[s]
    /\ crashes < MaxCrashes /\ crashes' = crashes + 1
    /\ up' = [up EXCEPT ![s] = FALSE]
    /\ loop' = [loop EXCEPT ![s] = Asleep]
    /\ UNCHANGED <<node, joining, notices, losses, leaves, missed>>

-----------------------------------------------------------------------------
NewNode(s) == [members |-> [x \in {} |-> NewMember], ring |-> {s}, inc |-> 0, gossip |-> <<>>]

Founder == [members |-> [x \in Founders |-> NewMember], ring |-> Founders, inc |-> 0, gossip |-> <<>>]

Init ==
    /\ up = [s \in Silos |-> TRUE]
    /\ node = [s \in Silos |-> IF s \in Founders THEN RemoveMember(Founder, s) ELSE NewNode(s)]
    /\ loop = [s \in Silos |-> Asleep]
    /\ joining = [s \in Silos |-> [st |-> IF s \in Founders THEN "in" ELSE "out",
                                   seed |-> None, list |-> {}]]
    /\ notices = {}
    /\ losses = 0 /\ crashes = 0 /\ leaves = 0
    /\ missed = {}

LoopStep(s) ==
    \/ Ping(s) \/ Pong(s) \/ PingTimeout(s)
    \/ \E p \in Silos : IndirectPing(s, p) \/ IndirectTimeout(s, p)
    \/ Suspect(s) \/ ExpireCollect(s) \/ ExpireDeclare(s)

JoinStep(j) == (\E d \in Seeds : Join(j, d)) \/ JoinLost(j) \/ JoinApply(j)

NotifyStep(n) == NotifyCheck(n) \/ NotifyApply(n) \/ NotifyLost(n)

Next ==
    \/ \E s \in Silos : LoopStep(s) \/ JoinStep(s) \/ Crash(s)
    \/ \E s, x \in Silos : Probe(s, x) \/ SuspectTimeout(s, x) \/ SendLeave(x, s)
    \/ \E n \in notices : NotifyStep(n)

Spec == Init /\ [][Next]_vars

\* The loop of a running silo goes on, timers fire, and a random choice picks
\* every member again and again.
Fairness ==
    \A s \in Probers :
        /\ WF_vars(LoopStep(s))
        /\ \A x \in Silos \ {s} : SF_vars(Probe(s, x)) /\ WF_vars(SuspectTimeout(s, x))

FairSpec == Spec /\ Fairness

-----------------------------------------------------------------------------
\* Every member a silo probes is on its ring, and so is the silo itself, at
\* every moment another task can read the ring: each critical section of the
\* loop, of the gossip and of the membership handlers changes both together.  No
\* silo becomes a member of its own table, so none probes or buries itself.
MembersRouted ==
    \A s \in Silos :
        /\ DOMAIN node[s].members \cup {s} \subseteq node[s].ring
        /\ s \notin DOMAIN node[s].members

\* The converse, as membership.rs:176-178 has it: readers "never see the ring
\* out of sync with the membership table".
RingInSync == \A s \in Silos : node[s].ring = DOMAIN node[s].members \cup {s}

\* Gossip about x, wherever it waits or travels.
Heard(x) ==
    UNION {{u \in Range(node[s].gossip) \cup Range(loop[s].batch) : u.silo = x} : s \in Silos}

\* Only a silo raises its own incarnation: no table and no gossip, however old,
\* shows a higher one, so a silo's refutation outranks every suspicion of it.
IncarnationOwned ==
    \A x \in Silos :
        /\ \A u \in Heard(x) : u.inc <= node[x].inc
        /\ \A s \in Silos : IsMember(node[s], x) => node[s].members[x].inc <= node[x].inc

\* A running silo to which no ping was ever lost is suspected by no one and is
\* never removed by anyone, whatever gossip says about others and whoever crashes.
NoFalseDeath ==
    [][\A s, x \in Silos :
          /\ IsMember(node[s], x)
          /\ ~IsMember(node'[s], x) \/ node'[s].members[x].status # "alive"
          => x \in missed' \/ ~up'[x]]_vars

\* A silo that stopped is sooner or later forgotten for good by every silo that
\* probes: late joins, gossip and announcements bring it back only for a while.
CrashedForgotten ==
    \A s \in Probers, x \in Silos :
        s # x => <>[](up[s] /\ ~up[x] => ~IsMember(node[s], x))
=============================================================================
