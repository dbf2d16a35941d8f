------------------------------ MODULE CallPath ------------------------------
(***************************************************************************)
(* A grain call on its way through one cluster, for one grain: the          *)
(* reference or client that makes it and retries it, the transport of each  *)
(* silo it visits, the cluster-wide lookup, and the rebalancer that moves   *)
(* the activation when the silos' rings change under the call.              *)
(*                                                                         *)
(* Silos are numbers.  The ring of a silo is the set of silos it knows of;  *)
(* the hash of the one grain fixes an order on silos, the number, and the   *)
(* ring's owner is the greatest: a newcomer may take the grain over.        *)
(* The membership protocol (module Swim) is reduced to silos that learn of  *)
(* the newcomer, or of a crash, each at its own time.  The mailbox          *)
(* (module GrainDirectory) is reduced to a handler that runs at once.       *)
(***************************************************************************)
EXTENDS Integers, Sequences, FiniteSets, SequencesExt

CONSTANTS
    Silos,       \* numbers: the order of the silos on the ring, for this grain
    Newcomer,    \* the silo that joins
    Gossiped,    \* bound: the silos that may learn of changes by gossip or by joining
    Mixes,       \* the grain's placement strategy and the kinds of the calls made:
                 \* "ask", "tell", "read": ClusterGrainRef; "client"; "tcp"
    TcpPeers,    \* bound: the silos called over TCP
    MaxRetries,  \* RetryPolicy.max_retries
    MaxHops,     \* MAX_HOPS
    MaxFaults    \* bound: requests or replies lost, callers that give up, crashes

ASSUME CallPathAssumption ==
    /\ Silos \subseteq Nat /\ Newcomer \in Silos /\ Silos # {Newcomer} /\ Gossiped \cup TcpPeers \subseteq Silos
    /\ Mixes \subseteq [placement : {"hash", "prefer_local", "random"},
                        calls : Seq({"ask", "tell", "read", "client", "tcp"})]
    /\ {MaxRetries, MaxHops, MaxFaults} \subseteq Nat

VARIABLES
    up,         \* silos that run
    ring,       \* silo -> the silos on its ring
    arriving,   \* silo -> the ring it is about to store
    notified,   \* silos whose rebalancer has a membership change to look at
    active,     \* silos with a live activation of the grain
    placement,  \* the grain's placement strategy
    clientRing, \* the ring of the client outside the cluster
    call,       \* call -> what its caller knows
    req,        \* <<call, attempt>> -> the request of that attempt
    conn,       \* silo -> attempts sent on the TCP connection to it and not read
    runs,       \* history: <<call, attempt>> -> times the handler ran
    failed,     \* history: <<call, attempt, error>>: the attempts the caller saw fail
    late,       \* history: silos that activated after the owner check went stale
    raced,      \* history: silos whose rebalancer ran before the ring was stored
    gaveUp,     \* history: a caller dropped a TCP call under way
    cfaults

ringvars == <<ring, arriving, notified>>
callvars == <<call, req, conn, clientRing, runs, failed, gaveUp>>
cvars == <<up, ringvars, active, placement, callvars, late, raced, cfaults>>

Calls == 1..(CHOOSE n \in {Len(m.calls) : m \in Mixes} : \A m \in Mixes : Len(m.calls) <= n)
Tries == 1..(IF MaxRetries > 1 THEN MaxRetries + 1 ELSE 2)
Attempts == Calls \X Tries
-----------------------------------------------------------------------------
(* The ring and where a reference points. *)

Owner(r) == CHOOSE s \in r : \A t \in r : t <= s

Placed(s) ==
    CASE placement = "hash" -> {Owner(ring[s])}
      [] placement = "prefer_local" -> ring[s] \cap {s}
      [] placement = "random" -> ring[s]

CFault == cfaults < MaxFaults /\ cfaults' = cfaults + 1

FromSilo(c) == call[c].kind \in {"ask", "tell", "read"}

\* The caller's own process runs.
CallerUp(c) == FromSilo(c) => call[c].home \in up

Try(c) == <<c, call[c].try>>

Waiting(c, a) == call[c].pc = "wait" /\ a = Try(c) /\ CallerUp(c)

\* ClusterSilo::get_ref: on the silo itself the grain is activated at once, and
\* nobody asks whether it is active elsewhere.
GetRef(c) ==
    /\ call[c].pc = "new" /\ FromSilo(c)
    /\ \E s \in up, t \in Silos :
        /\ t \in (IF Placed(s) = {} THEN {s} ELSE Placed(s))
        /\ active' = IF t = s THEN active \cup {s} ELSE active
        /\ call' = [call EXCEPT ![c] = [@ EXCEPT !.pc = "ready", !.home = s, !.target = t]]
    /\ UNCHANGED <<up, ringvars, placement, req, conn, clientRing, runs, failed, gaveUp,
                   late, raced, cfaults>>

\* TcpConnectionPool::get_client, and a client's handle: no ring is asked yet.
GetClient(c) ==
    /\ call[c].pc = "new" /\ ~FromSilo(c)
    /\ \E t \in (IF call[c].kind = "tcp" THEN TcpPeers ELSE {call[c].target}) :
        call' = [call EXCEPT ![c] = [@ EXCEPT !.pc = "ready", !.target = t]]
    /\ UNCHANGED <<up, ringvars, active, placement, req, conn, clientRing, runs, failed, gaveUp,
                   late, raced, cfaults>>
-----------------------------------------------------------------------------
(* The end of an attempt: return, or try again. *)

\* A variant of Again that retries errors the grain answered with, in the client.
AgainAfterAnswer(c, res) ==
    IF call[c].kind \in {"ask", "read"}
    THEN res # "ok" /\ call[c].try <= MaxRetries
    ELSE call[c].kind # "tell" /\ res # "ok" /\ call[c].try = 1

\* ClusterGrainRef::ask retries whatever remote_invoke reports: an error the
\* silo answered with is a RemoteCallFailed like any other.  The client retries
\* once, and the TCP client reconnects once, when the transport failed.
Again(c, res) ==
    IF call[c].kind \in {"ask", "read"}
    THEN res # "ok" /\ call[c].try <= MaxRetries
    ELSE call[c].kind # "tell" /\ res = "net" /\ call[c].try = 1

GetMembers(s) == ring[s]

\* The rings a client may get from refresh_membership: the first silo of its own
\* ring that answers, or the ring it has.
Refreshed ==
    IF clientRing \cap up = {} THEN {clientRing} ELSE {GetMembers(s) : s \in clientRing \cap up}

Return(c, res, of) == [call[c] EXCEPT !.pc = "done", !.got = res, !.of = of]

Retry(c) == [call[c] EXCEPT !.pc = "ready", !.try = @ + 1]

Finish(c, res, of) ==
    /\ failed' = IF res = "ok" THEN failed ELSE failed \cup {<<c, call[c].try, res>>}
    /\ call' = [call EXCEPT ![c] = IF Again(c, res) THEN Retry(c) ELSE Return(c, res, of)]
    /\ IF call[c].kind = "client" /\ Again(c, res)
       THEN clientRing' \in Refreshed
       ELSE UNCHANGED clientRing
-----------------------------------------------------------------------------
(* Making an attempt. *)

Idle == [pc |-> "none", entry |-> Newcomer, at |-> Newcomer, hops |-> 0, path |-> {}, ask |-> {}, tcp |-> FALSE, res |-> "none"]

\* The request of the attempt, as it arrives at silo t.
Request(c, t) ==
    [Idle EXCEPT !.pc = "invoke", !.entry = t, !.at = t, !.tcp = call[c].kind = "tcp"]

\* The attempt leaves for silo t, or finds that it cannot connect.
SendTo(c, t) ==
    IF t \in up
    THEN /\ req' = [req EXCEPT ![Try(c)] = Request(c, t)]
         /\ call' = [call EXCEPT ![c] = [@ EXCEPT !.pc = "wait", !.target = t]]
         /\ UNCHANGED <<clientRing, failed>>
    ELSE Finish(c, "net", c) /\ UNCHANGED req

\* The reference points to another silo: to the one get_ref found, whatever the
\* ring says by now.
Remote(c) == call[c].pc = "ready" /\ FromSilo(c) /\ CallerUp(c) /\ call[c].target # call[c].home

\* remote_invoke, for ask and read_only_ask.
RemoteAttempt(c) ==
    /\ Remote(c) /\ call[c].kind # "tell"
    /\ SendTo(c, call[c].target)
    /\ UNCHANGED <<up, ringvars, active, placement, conn, runs, gaveUp, late, raced, cfaults>>

\* remote_invoke_oneway: an error is logged.
Oneway(c) ==
    req' = IF call[c].target \in up THEN [req EXCEPT ![Try(c)] = Request(c, call[c].target)] ELSE req

\* tell returns at once, whatever becomes of the call it spawned.
Tell(c) ==
    /\ Remote(c) /\ call[c].kind = "tell"
    /\ Oneway(c)
    /\ call' = [call EXCEPT ![c] = Return(c, "sent", c)]
    /\ UNCHANGED <<up, ringvars, active, placement, conn, clientRing, runs, failed, gaveUp,
                   late, raced, cfaults>>

\* OrlandoClient::invoke asks its ring before every attempt.
ClientAttempt(c) ==
    /\ call[c].pc = "ready" /\ call[c].kind = "client"
    /\ SendTo(c, Owner(clientRing))
    /\ UNCHANGED <<up, ringvars, active, placement, conn, runs, gaveUp, late, raced, cfaults>>

\* A variant of TcpAttempt that does not wait for the connection's mutex.
TcpAttemptUnlocked(c) ==
    LET t == call[c].target
    IN  /\ call[c].pc = "ready" /\ call[c].kind = "tcp"
        /\ IF t \in up
           THEN /\ SendTo(c, t)
                /\ conn' = [conn EXCEPT ![t] = IF call[c].try = 1 THEN Append(@, Try(c)) ELSE <<Try(c)>>]
           ELSE /\ call' = [call EXCEPT ![c] = Return(c, "net", c)]
                /\ failed' = failed \cup {<<c, call[c].try, "net">>}
                /\ UNCHANGED <<req, conn, clientRing>>
        /\ UNCHANGED <<up, ringvars, active, placement, runs, gaveUp, late, raced, cfaults>>

\* TcpTransportClient::invoke holds the connection's mutex until it returns; the
\* second attempt is made on a new connection.  Connecting fails for good.
TcpAttempt(c) ==
    LET t == call[c].target
    IN  /\ call[c].pc = "ready" /\ call[c].kind = "tcp"
        /\ \A d \in Calls \ {c} : ~(call[d].kind = "tcp" /\ call[d].target = t
                                    /\ (call[d].pc = "wait" \/ (call[d].try = 2 /\ call[d].pc = "ready")))
        /\ IF t \in up
           THEN /\ SendTo(c, t)
                /\ conn' = [conn EXCEPT ![t] = IF call[c].try = 1 THEN Append(@, Try(c)) ELSE <<Try(c)>>]
           ELSE /\ call' = [call EXCEPT ![c] = Return(c, "net", c)]
                /\ failed' = failed \cup {<<c, call[c].try, "net">>}
                /\ UNCHANGED <<req, conn, clientRing>>
        /\ UNCHANGED <<up, ringvars, active, placement, runs, gaveUp, late, raced, cfaults>>

\* A local reference: GrainRef::ask, whose error is returned as it is.
LocalCall(c) ==
    /\ call[c].pc = "ready" /\ FromSilo(c) /\ CallerUp(c) /\ call[c].target = call[c].home
    /\ \E res \in (IF call[c].home \in active THEN {"ok", "app"} ELSE {"app"}) :
        call' = [call EXCEPT ![c] = Return(c, res, c)]
    /\ runs' = [runs EXCEPT ![Try(c)] = IF call[c].home \in active THEN @ + 1 ELSE @]
    /\ UNCHANGED <<up, ringvars, active, placement, req, conn, clientRing, failed, gaveUp,
                   late, raced, cfaults>>

\* read_only_ask on a remote reference whose replica is fresh and decodes.
ReplicaRead(c) ==
    /\ call[c].pc = "ready" /\ call[c].kind = "read" /\ call[c].try = 1
    /\ CallerUp(c) /\ call[c].target # call[c].home
    /\ call' = [call EXCEPT ![c] = Return(c, "replica", c)]
    /\ UNCHANGED <<up, ringvars, active, placement, req, conn, clientRing, runs, failed, gaveUp,
                   late, raced, cfaults>>
-----------------------------------------------------------------------------
(* The transport of a silo. *)

At(a, pc) == req[a].pc = pc /\ req[a].at \in up

\* Over TCP every error of the silo is a response; over gRPC it is a Status.
Respond(a, res) ==
    req' = [req EXCEPT ![a].pc = "reply", ![a].res = IF call[a[1]].kind = "tcp" /\ res = "net" THEN "app" ELSE res]

\* A variant of Forward that does not count the hop.
ForwardUncounted(a, t) ==
    LET r == req[a]
    IN  IF (~r.tcp /\ r.hops >= MaxHops) \/ t \notin up
        THEN Respond(a, "net")
        ELSE req' = [req EXCEPT ![a] = [r EXCEPT !.pc = "invoke", !.at = t, !.ask = {}, !.tcp = FALSE,
                                                 !.path = @ \cup {r.at}]]

\* The request moves on to silo t.  The TCP server passes the context on as it
\* is; gRPC counts the hop, and gives up at MAX_HOPS.
Forward(a, t) ==
    LET r == req[a]
    IN  IF (~r.tcp /\ r.hops >= MaxHops) \/ t \notin up
        THEN Respond(a, "net")
        ELSE req' = [req EXCEPT ![a] = [r EXCEPT !.pc = "invoke", !.at = t, !.ask = {}, !.tcp = FALSE,
                                                 !.hops = IF r.tcp THEN @ ELSE @ + 1,
                                                 !.path = @ \cup {r.at}]]

\* The frames of a TCP connection are answered one after the other.
InOrder(a) ==
    req[a].tcp =>
        LET q == conn[req[a].at]
        IN  \A i, j \in DOMAIN q : i < j /\ q[j] = a => req[q[i]].pc = "reply"

\* TcpTransportServer::dispatch: forward to the ring's owner, or dispatch.
TcpDispatch(a) ==
    LET s == req[a].at
    IN  /\ At(a, "invoke") /\ req[a].tcp /\ InOrder(a)
        /\ IF Owner(ring[s]) # s THEN Forward(a, Owner(ring[s]))
           ELSE req' = [req EXCEPT ![a].pc = "dispatch"]
        /\ UNCHANGED <<up, ringvars, active, placement, call, conn, clientRing, runs, failed, gaveUp,
                       late, raced, cfaults>>

\* GrainTransportService::invoke: forward to the ring's owner; as the owner, ask
\* the other silos first whether the grain is active there.
Invoke(a) ==
    LET s == req[a].at
    IN  /\ At(a, "invoke") /\ ~req[a].tcp
        /\ IF Owner(ring[s]) # s THEN Forward(a, Owner(ring[s]))
           ELSE IF s \in active THEN req' = [req EXCEPT ![a].pc = "dispatch"]
           ELSE req' = [req EXCEPT ![a].pc = "lookup", ![a].ask = ring[s] \ {s}]
        /\ UNCHANGED <<up, ringvars, active, placement, call, conn, clientRing, runs, failed, gaveUp,
                       late, raced, cfaults>>

\* lookup_grain of silo s: it runs and has the grain in its directory.
LookupGrain(s) == s \in up \cap active

\* lookup_grain_cluster_wide: the silos answer one by one; the first that has
\* the grain gets the request, one that has not, or does not answer, is passed.
LookupAnswer(a, s) ==
    /\ At(a, "lookup") /\ s \in req[a].ask
    /\ \/ /\ LookupGrain(s)
          /\ Forward(a, s) /\ UNCHANGED cfaults
       \/ /\ IF LookupGrain(s) THEN CFault ELSE UNCHANGED cfaults
          /\ req' = [req EXCEPT ![a].ask = @ \ {s}]
    /\ UNCHANGED <<up, ringvars, active, placement, call, conn, clientRing, runs, failed, gaveUp,
                   late, raced>>

\* An unknown grain or message type, or a newer message version.
Refused(a) == Respond(a, "app") /\ UNCHANGED <<active, runs, late>>

\* The registered closure: a payload that does not decode is refused; otherwise
\* the grain is activated if need be and asked, and it or the encoding of its
\* result may fail.
Handled(a) ==
    LET s == req[a].at
    IN  /\ \E res \in {"ok", "app"} : Respond(a, res)
        /\ active' = active \cup {s}
        /\ runs' = [runs EXCEPT ![a] = @ + 1]
        /\ late' = IF s \notin active /\ Owner(ring[s]) # s THEN late \cup {s} ELSE late

\* MessageRegistry::dispatch.  Either way the silo answers.
Dispatch(a) ==
    /\ At(a, "dispatch") \/ (At(a, "lookup") /\ req[a].ask = {})
    /\ Refused(a) \/ Handled(a)
    /\ UNCHANGED <<up, ringvars, placement, call, conn, clientRing, failed, gaveUp, raced, cfaults>>

\* A silo the request was forwarded to is gone: the silo that forwarded it
\* answers for it.
RelayFails(a) ==
    /\ req[a].pc # "none" /\ req[a].entry \in up
    /\ (req[a].path \cup {req[a].at}) \ up # {}
    /\ req' = [req EXCEPT ![a] = [@ EXCEPT !.pc = "reply", !.at = req[a].entry, !.path = {},
                                           !.res = IF call[a[1]].kind = "tcp" THEN "app" ELSE "net"]]
    /\ UNCHANGED <<up, ringvars, active, placement, call, conn, clientRing, runs, failed, gaveUp,
                   late, raced, cfaults>>
-----------------------------------------------------------------------------
(* The answer, and what can happen to it. *)

Deliver(c) ==
    LET a == Try(c)
    IN  /\ Waiting(c, a) /\ call[c].kind # "tcp" /\ req[a].pc = "reply"
        /\ Finish(c, req[a].res, c)
        /\ req' = [req EXCEPT ![a] = Idle]
        /\ UNCHANGED <<up, ringvars, active, placement, conn, runs, gaveUp, late, raced,
                       cfaults>>

\* The next frame on the connection is taken for the answer: request ids are
\* not compared.
TcpRead(c) ==
    LET q == conn[call[c].target]
    IN  /\ Waiting(c, Try(c)) /\ call[c].kind = "tcp"
        /\ q # <<>> /\ req[Head(q)].pc = "reply"
        /\ Finish(c, req[Head(q)].res, Head(q)[1])
        /\ conn' = [conn EXCEPT ![call[c].target] = Tail(@)]
        /\ UNCHANGED <<up, ringvars, active, placement, req, runs, gaveUp, late, raced, cfaults>>

\* The transport fails the attempt.
Broken(c) ==
    /\ Waiting(c, Try(c))
    /\ Finish(c, "net", c)
    /\ conn' = IF call[c].kind = "tcp" THEN [conn EXCEPT ![call[c].target] = <<>>] ELSE conn
    /\ UNCHANGED <<up, ringvars, active, placement, req, runs, gaveUp, late, raced>>

\* A loss or a deadline, while the request goes on.
Lost(c) == CFault /\ Broken(c)

\* The silo the request was sent to is gone.
PeerGone(c) ==
    /\ call[c].target \notin up
    /\ Broken(c) /\ UNCHANGED cfaults

\* The caller drops its call, for instance in a select or a timeout of its own.
GiveUp(c) ==
    /\ Waiting(c, Try(c)) /\ CFault
    /\ call' = [call EXCEPT ![c] = Return(c, "none", c)]
    /\ gaveUp' = (gaveUp \/ call[c].kind = "tcp")
    /\ UNCHANGED <<up, ringvars, active, placement, req, conn, clientRing, runs, failed, late, raced>>
-----------------------------------------------------------------------------
(* Rings change, and the rebalancer follows. *)

NewRing(s) ==
    IF Newcomer \in ring[s] THEN ring[s] \cap up
    ELSE ring[s] \cup {Newcomer}


\* Membership::join, notify_join, notify_leave and declare_dead store the ring
\* and then announce the change.
StoreRing(s) ==
    /\ s \in up /\ arriving[s] = {} /\ NewRing(s) # ring[s] /\ Newcomer \in up \cup ring[s]
    /\ ring' = [ring EXCEPT ![s] = NewRing(s)]
    /\ notified' = notified \cup {s}
    /\ UNCHANGED <<up, arriving, active, placement, callvars, late, raced, cfaults>>

\* apply_gossip and join_cluster announce the change ...
AnnounceRing(s) ==
    /\ s \in up \cap Gossiped /\ arriving[s] = {} /\ NewRing(s) # ring[s] /\ Newcomer \in up \cup ring[s]
    /\ arriving' = [arriving EXCEPT ![s] = NewRing(s)]
    /\ notified' = notified \cup {s}
    /\ UNCHANGED <<up, ring, active, placement, callvars, late, raced, cfaults>>

\* ... and then store the ring.
StoreAnnounced(s) ==
    /\ s \in up /\ arriving[s] # {}
    /\ ring' = [ring EXCEPT ![s] = arriving[s]]
    /\ arriving' = [arriving EXCEPT ![s] = {}]
    /\ UNCHANGED <<up, notified, active, placement, callvars, late, raced, cfaults>>

\* Rebalancer::rebalance: what the ring places elsewhere is deactivated.
Rebalance(s) ==
    /\ s \in up \cap notified
    /\ notified' = notified \ {s}
    /\ active' = IF Owner(ring[s]) = s THEN active ELSE active \ {s}
    /\ late' = late \cap active'
    /\ raced' = IF arriving[s] = {} THEN raced \ {s} ELSE raced \cup {s}
    /\ UNCHANGED <<up, ring, arriving, placement, callvars, cfaults>>

\* The idle timeout of the mailbox.
IdleTimeout(s) ==
    /\ s \in active
    /\ active' = active \ {s} /\ late' = late \ {s}
    /\ raced' = IF arriving[s] = {} THEN raced \ {s} ELSE raced
    /\ UNCHANGED <<up, ringvars, placement, callvars, cfaults>>

CrashSilo(s) ==
    /\ s \in up /\ up # {s} /\ CFault
    /\ up' = up \ {s} /\ active' = active \ {s} /\ notified' = notified \ {s}
    /\ late' = late \ {s} /\ raced' = raced \ {s}
    /\ UNCHANGED <<ring, arriving, placement, callvars>>
-----------------------------------------------------------------------------
CallPathInit ==
    /\ up = Silos
    /\ \E told \in {Silos} \cup {{s, Newcomer} : s \in Silos \ {Newcomer}} :
        /\ ring = [s \in Silos |-> IF s \in told THEN Silos ELSE Silos \ {Newcomer}]
        /\ notified = IF told = Silos THEN {} ELSE told
    /\ arriving = [s \in Silos |-> {}]
    /\ active \in {{}, {Owner(Silos \ {Newcomer})}}
    /\ notified = {} => active = {}
    /\ clientRing = Silos \ {Newcomer}
    /\ \E mix \in Mixes :
        /\ Len(mix.calls) > 1 => notified = {}
        /\ placement = mix.placement
        /\ call = [c \in Calls |-> [kind |-> IF c <= Len(mix.calls) THEN mix.calls[c] ELSE "none",
                                   pc |-> IF c <= Len(mix.calls) THEN "new" ELSE "done",
                                   try |-> 1, home |-> Newcomer, target |-> Newcomer,
                                   got |-> "none", of |-> c]]
    /\ req = [a \in Attempts |-> Idle]
    /\ conn = [s \in Silos |-> <<>>]
    /\ runs = [a \in Attempts |-> 0]
    /\ failed = {} /\ late = {} /\ raced = {} /\ gaveUp = FALSE /\ cfaults = 0

CallStep(c) ==
    \/ GetRef(c) \/ GetClient(c) \/ RemoteAttempt(c) \/ Tell(c) \/ ClientAttempt(c) \/ TcpAttempt(c)
    \/ LocalCall(c) \/ Deliver(c) \/ TcpRead(c) \/ PeerGone(c)

ServeStep(a) ==
    RelayFails(a) \/ TcpDispatch(a) \/ Invoke(a) \/ Dispatch(a) \/ \E s \in Silos : LookupAnswer(a, s)

RingStep(s) == StoreRing(s) \/ AnnounceRing(s) \/ StoreAnnounced(s) \/ Rebalance(s)

CallPathNext ==
    \/ \E c \in Calls : CallStep(c) \/ ReplicaRead(c) \/ Lost(c) \/ GiveUp(c)
    \/ \E a \in Attempts : ServeStep(a)
    \/ \E s \in Silos : RingStep(s) \/ IdleTimeout(s) \/ CrashSilo(s)

CallPathSpec == CallPathInit /\ [][CallPathNext]_cvars

\* Tasks that can run do, and a connection to a silo that is gone is noticed.
CallFairness ==
    /\ \A c \in Calls : WF_cvars(CallStep(c))
    /\ \A a \in Attempts : WF_cvars(ServeStep(a))
-----------------------------------------------------------------------------
\* A caller that is told Ok is told what the handler returned to this very call,
\* through whatever forwards, retries, refreshed rings and reused connections;
\* the exception is a TCP connection on which a call was dropped half way, whose
\* answer the next call reads.
OwnAnswer ==
    \A c \in Calls : call[c].got = "ok" /\ ~gaveUp =>
        call[c].of = c /\ \E i \in Tries : runs[<<c, i>>] = 1

\* A handler runs at most once for an attempt, however often the request is
\* forwarded, and a second attempt is made only after the first was seen to
\* fail; the client and the TCP client send a message again only when the
\* transport failed, never because the grain answered with an error.
RunPerAttempt ==
    \A c \in Calls, i \in Tries :
        /\ runs[<<c, i>>] <= 1
        /\ runs[<<c, i>>] = 1 /\ i > 1 =>
            \/ <<c, i - 1, "net">> \in failed
            \/ <<c, i - 1, "app">> \in failed /\ call[c].kind \in {"ask", "read"}


\* README: "Automatic rebalancing - Grains migrate gracefully on node
\* join/leave": as above, without the exception for the order in which a
\* change is announced and stored.
RebalancerSeesRing ==
    placement = "hash" =>
        \A s \in active : Owner(ring[s]) # s => s \in notified \cup late

\* retry.rs: "Application errors (handler failures, type mismatches) are not"
\* retried: an attempt the grain answered with an error is the last one.
AppErrorsFinal ==
    \A c \in Calls, i \in Tries : <<c, i, "app">> \in failed => call[c].try = i

\* Every call returns, also when the silos' rings send it in circles and while
\* silos crash and join.
CallReturns ==
    \A c \in Calls : (call[c].pc # "new") ~> (call[c].pc = "done" \/ ~CallerUp(c))
=============================================================================
