--------------------------- MODULE GrainDirectory ---------------------------
(***************************************************************************)
(* One silo: the directory of live activations, the mailbox task of every  *)
(* activation, the callers that look grains up and send to them, and the   *)
(* two parties that evict grains, drain (shutdown) and the rebalancer.     *)
(*                                                                         *)
(* An activation is known to the rest of the silo only through the sender  *)
(* half of its mailbox channel.  The directory holds one sender per grain  *)
(* key; every caller that looked the grain up holds another.               *)
(*                                                                         *)
(* Grains in Persistent run persistent_mailbox::run, the others            *)
(* run_mailbox.  What tells them apart here is when the receiver is        *)
(* dropped: run_mailbox owns it until the function returns, after the      *)
(* directory entry is removed, while sequential_loop owns it in the        *)
(* persistent mailbox and drops it when the loop ends, before              *)
(* on_deactivate, the final save and the removal.                          *)
(***************************************************************************)
EXTENDS Naturals, Sequences, FiniteSets, ActivationState

CONSTANTS
    Grains,      \* grain ids
    Persistent,  \* the grains with a persistent mailbox
    Acts,        \* identities of activations: each is used at most once
    GrainOf,     \* the grain an activation identity belongs to
    None,        \* no directory entry, no reference, no grain
    Closed,      \* the sender of a channel whose receiver is already dropped
    Callers,     \* tasks that look grains up and send to them
    MaxSends,    \* bound: messages one caller sends
    Capacity,    \* MAILBOX_CAPACITY
    Limit,       \* max_activations, 0 = no limit
    Evictors     \* which of "drain" (a silo that shuts down) and "rebalancer"
                 \* (a silo of a cluster) this silo has

ASSUME ConstantsAssumption ==
    /\ Persistent \subseteq Grains
    /\ GrainOf \in [Acts -> Grains]
    /\ None \notin Acts \cup Grains /\ Closed \notin Acts /\ None # Closed
    /\ MaxSends \in Nat /\ Capacity \in Nat \ {0} /\ Limit \in Nat
    /\ Evictors \subseteq {"drain", "rebalancer"}

VARIABLES
    activations,  \* GrainDirectory::activations, by key
    draining,     \* GrainDirectory::draining
    fsm,          \* the activation's FSM state
    task,         \* the mailbox task: running, past its removal, finished
    rxOpen,       \* the receiver of the mailbox channel is not dropped
    queue,        \* the mailbox channel
    current,      \* the envelope being handled
    cpc,          \* where each caller is
    target,       \* the grain it looks up
    ref,          \* the sender it holds
    sent,         \* messages it has sent: <<caller, sent>> names an envelope
    outcome,      \* what its last ask returned
    drain,        \* where GrainDirectory::drain is
    drainKeys,    \* keys collected by drain and not yet removed
    drainTasks,   \* tasks drain waits for
    aborting,     \* tasks on which abort() was called
    completed,    \* history: envelopes whose handler returned
    evicted       \* history: grains removed by drain or the rebalancer

dirVars    == <<activations, draining>>
boxVars    == <<fsm, task, rxOpen, queue, current, completed>>
callerVars == <<cpc, target, ref, sent, outcome>>
drainVars  == <<drain, drainKeys, drainTasks>>
vars == <<dirVars, boxVars, callerVars, drainVars, aborting, evicted>>

Envelopes == Callers \X (1..MaxSends)
NoEnvelope == <<>>

TypeOK ==
    /\ activations \in [Grains -> Acts \cup {None}]
    /\ draining \in BOOLEAN
    /\ fsm \in [Acts -> ActivationStates]
    /\ task \in [Acts -> {"unborn", "running", "removed", "finished"}]
    /\ rxOpen \in [Acts -> BOOLEAN]
    /\ queue \in [Acts -> Seq(Envelopes)]
    /\ current \in [Acts -> Envelopes \cup {NoEnvelope}]
    /\ cpc \in [Callers -> {"idle", "limit", "lookup", "entry", "ready", "waiting"}]
    /\ target \in [Callers -> Grains \cup {None}]
    /\ ref \in [Callers -> Acts \cup {None, Closed}]
    /\ sent \in [Callers -> 0..MaxSends]
    /\ outcome \in [Callers -> {"none", "Ok", "MailboxClosed", "MailboxFull", "Timeout"}]
    /\ drain \in {"off", "collect", "remove", "await", "done"}
    /\ drainKeys \subseteq Grains
    /\ drainTasks \subseteq Acts
    /\ aborting \subseteq Acts
    /\ completed \subseteq Envelopes
    /\ evicted \subseteq Grains

Init ==
    /\ activations = [g \in Grains |-> None]
    /\ draining = FALSE
    /\ fsm = [a \in Acts |-> "Activating"]
    /\ task = [a \in Acts |-> "unborn"]
    /\ rxOpen = [a \in Acts |-> FALSE]
    /\ queue = [a \in Acts |-> <<>>]
    /\ current = [a \in Acts |-> NoEnvelope]
    /\ cpc = [c \in Callers |-> "idle"]
    /\ target = [c \in Callers |-> None]
    /\ ref = [c \in Callers |-> None]
    /\ sent = [c \in Callers |-> 0]
    /\ outcome = [c \in Callers |-> "none"]
    /\ drain = "off" /\ drainKeys = {} /\ drainTasks = {}
    /\ aborting = {} /\ completed = {} /\ evicted = {}
-----------------------------------------------------------------------------
(***************************************************************************)
(* The channel.                                                            *)
(***************************************************************************)

IsClosed(s) == s \notin {a \in Acts : rxOpen[a]}

HasSender(a) == (\E g \in Grains : activations[g] = a) \/ (\E c \in Callers : ref[c] = a)

(* Dropping the receiver drops every envelope still queued.                *)
DropReceiver(a) ==
    /\ rxOpen' = [rxOpen EXCEPT ![a] = FALSE]
    /\ queue' = [queue EXCEPT ![a] = <<>>]

(* Variant of LeaveLoop: every mailbox gives its receiver away.            *)
LeaveLoopDropped(a) == DropReceiver(a)

(* The receiver at the end of the message loop: see the header.            *)
LeaveLoop(a) ==
    IF GrainOf[a] \in Persistent
    THEN DropReceiver(a)
    ELSE UNCHANGED <<rxOpen, queue>>
-----------------------------------------------------------------------------
(***************************************************************************)
(* get_or_insert: three reads of shared state, each on its own, and the    *)
(* entry() call, which holds the shard lock.                               *)
(***************************************************************************)

GetOrInsertDraining(c, g) ==
    /\ cpc[c] = "idle"
    /\ target' = [target EXCEPT ![c] = g]
    /\ cpc' = [cpc EXCEPT ![c] = IF draining THEN "lookup"
                                  ELSE IF Limit > 0 THEN "limit" ELSE "entry"]
    /\ UNCHANGED <<dirVars, boxVars, ref, sent, outcome, drainVars, aborting, evicted>>


ActivationCount == Cardinality({g \in Grains : activations[g] # None})

GetOrInsertLimit(c) ==
    /\ cpc[c] = "limit"
    /\ cpc' = [cpc EXCEPT ![c] =
                 IF ActivationCount >= Limit THEN "lookup" ELSE "entry"]
    /\ UNCHANGED <<dirVars, boxVars, target, ref, sent, outcome, drainVars, aborting, evicted>>

(* While draining or at the limit: the existing open sender, or that of a  *)
(* channel made and closed on the spot.                                    *)
GetOrInsertLookup(c) ==
    /\ cpc[c] = "lookup"
    /\ cpc' = [cpc EXCEPT ![c] = "ready"]
    /\ ref' = [ref EXCEPT ![c] =
                 IF IsClosed(activations[target[c]]) THEN Closed ELSE activations[target[c]]]
    /\ target' = [target EXCEPT ![c] = None]
    /\ UNCHANGED <<dirVars, boxVars, sent, outcome, drainVars, aborting, evicted>>

Fresh(g) == {a \in Acts : GrainOf[a] = g /\ task[a] = "unborn"}

(* create(...) spawns the mailbox task a, which becomes the entry of g.    *)
Spawn(c, g, a) ==
    /\ activations' = [activations EXCEPT ![g] = a]
    /\ ref' = [ref EXCEPT ![c] = a]
    /\ task' = [task EXCEPT ![a] = "running"]
    /\ rxOpen' = [rxOpen EXCEPT ![a] = TRUE]

(* Occupied and open: clone the sender.  Occupied and closed, or vacant:   *)
(* a fresh activation.                                                     *)
GetOrInsertEntry(c) ==
    LET g == target[c] IN
    /\ cpc[c] = "entry"
    /\ cpc' = [cpc EXCEPT ![c] = "ready"]
    /\ \/ /\ ~IsClosed(activations[g])
          /\ ref' = [ref EXCEPT ![c] = activations[g]]
          /\ UNCHANGED <<activations, task, rxOpen>>
       \/ /\ IsClosed(activations[g])
          /\ Fresh(g) # {}
          /\ Spawn(c, g, CHOOSE a \in Fresh(g) : TRUE)
    /\ target' = [target EXCEPT ![c] = None]
    /\ UNCHANGED <<draining, fsm, queue, current, completed, sent, outcome,
                   drainVars, aborting, evicted>>

DropRef(c) ==
    /\ cpc[c] = "ready"
    /\ cpc' = [cpc EXCEPT ![c] = "idle"]
    /\ ref' = [ref EXCEPT ![c] = None]
    /\ outcome' = [outcome EXCEPT ![c] = "none"]
    /\ UNCHANGED <<dirVars, boxVars, target, sent, drainVars, aborting, evicted>>
-----------------------------------------------------------------------------
(***************************************************************************)
(* Sending: GrainRef::ask, tell and try_ask.  send() on a full channel     *)
(* waits, so ask and tell have no step for it.                             *)
(***************************************************************************)

Deliver(c, next) ==
    /\ sent' = [sent EXCEPT ![c] = @ + 1]
    /\ queue' = [queue EXCEPT ![ref[c]] = Append(@, <<c, sent[c] + 1>>)]
    /\ cpc' = [cpc EXCEPT ![c] = next]
    /\ outcome' = [outcome EXCEPT ![c] = "none"]

Refuse(c, why) ==
    /\ sent' = [sent EXCEPT ![c] = @ + 1]
    /\ outcome' = [outcome EXCEPT ![c] = why]
    /\ UNCHANGED <<queue, cpc>>

CanSend(c) == cpc[c] = "ready" /\ sent[c] < MaxSends

AskSend(c) ==
    /\ CanSend(c)
    /\ \/ IsClosed(ref[c]) /\ Refuse(c, "MailboxClosed")
       \/ ~IsClosed(ref[c]) /\ Len(queue[ref[c]]) < Capacity /\ Deliver(c, "waiting")
    /\ UNCHANGED <<dirVars, fsm, task, rxOpen, current, completed, target, ref,
                   drainVars, aborting, evicted>>

Tell(c) ==
    /\ CanSend(c)
    /\ \/ IsClosed(ref[c]) /\ Refuse(c, "MailboxClosed")
       \/ ~IsClosed(ref[c]) /\ Len(queue[ref[c]]) < Capacity /\ Deliver(c, "ready")
    /\ UNCHANGED <<dirVars, fsm, task, rxOpen, current, completed, target, ref,
                   drainVars, aborting, evicted>>

TryAskSend(c) ==
    /\ CanSend(c)
    /\ \/ IsClosed(ref[c]) /\ Refuse(c, "MailboxClosed")
       \/ ~IsClosed(ref[c]) /\ Len(queue[ref[c]]) >= Capacity /\ Refuse(c, "MailboxFull")
       \/ ~IsClosed(ref[c]) /\ Len(queue[ref[c]]) < Capacity /\ Deliver(c, "waiting")
    /\ UNCHANGED <<dirVars, fsm, task, rxOpen, current, completed, target, ref,
                   drainVars, aborting, evicted>>

(* The reply half of envelope e is still held by a mailbox.                *)
Held(e) == \E a \in Acts : current[a] = e \/ \E i \in DOMAIN queue[a] : queue[a][i] = e

(* recv_ask_response: the reply, or the error of a reply half that was     *)
(* dropped unused.                                                         *)
RecvReply(c) ==
    LET e == <<c, sent[c]>> IN
    /\ cpc[c] = "waiting"
    /\ \/ e \in completed /\ outcome' = [outcome EXCEPT ![c] = "Ok"]
       \/ e \notin completed /\ ~Held(e) /\ outcome' = [outcome EXCEPT ![c] = "MailboxClosed"]
    /\ cpc' = [cpc EXCEPT ![c] = "ready"]
    /\ UNCHANGED <<dirVars, boxVars, target, ref, sent, drainVars, aborting, evicted>>

(* Variant of AskTimeout: a timed out call reports MailboxClosed.          *)
AskTimeoutAsClosed(c) ==
    /\ cpc[c] = "waiting"
    /\ outcome' = [outcome EXCEPT ![c] = "MailboxClosed"]
    /\ cpc' = [cpc EXCEPT ![c] = "ready"]
    /\ UNCHANGED <<dirVars, boxVars, target, ref, sent, drainVars, aborting, evicted>>

AskTimeout(c) ==
    /\ cpc[c] = "waiting"
    /\ outcome' = [outcome EXCEPT ![c] = "Timeout"]
    /\ cpc' = [cpc EXCEPT ![c] = "ready"]
    /\ UNCHANGED <<dirVars, boxVars, target, ref, sent, drainVars, aborting, evicted>>
-----------------------------------------------------------------------------
(***************************************************************************)
(* The mailbox task.  Each action runs from one await point to the next.   *)
(***************************************************************************)

restVars == <<callerVars, drainVars, aborting, evicted>>

Step(a, e) == fsm' = [fsm EXCEPT ![a] = NextState(@, e)]

(* on_activate returns or panics; a persistent mailbox loads state first.  *)
Activate(a) ==
    /\ task[a] = "running" /\ fsm[a] = "Activating"
    /\ \/ Step(a, "ActivateSucceeded") /\ UNCHANGED <<rxOpen, queue>>
       \/ Step(a, "ActivateFailed") /\ LeaveLoop(a)
    /\ UNCHANGED <<dirVars, task, current, completed, restVars>>

Receive(a) ==
    /\ task[a] = "running" /\ fsm[a] = "Idle" /\ queue[a] # <<>>
    /\ Step(a, "MessageReceived")
    /\ current' = [current EXCEPT ![a] = Head(queue[a])]
    /\ queue' = [queue EXCEPT ![a] = Tail(@)]
    /\ UNCHANGED <<dirVars, task, rxOpen, completed, restVars>>

(* The reply is sent by the handler future itself, before the mailbox sees *)
(* the handler return.  A persistent grain whose strategy writes this turn *)
(* then waits for the store.                                               *)
HandlerCompleted(a) ==
    /\ task[a] = "running" /\ fsm[a] = "Processing"
    /\ completed' = completed \cup {current[a]}
    /\ current' = [current EXCEPT ![a] = NoEnvelope]
    /\ \/ Step(a, "HandlerCompleted")
       \/ GrainOf[a] \in Persistent /\ Step(a, "PersistStarted")
    /\ UNCHANGED <<dirVars, task, rxOpen, queue, restVars>>

(* Variants of HandlerPanicked: the panic unwinds the mailbox task; the    *)
(* reply half survives the unwinding.                                      *)
HandlerPanickedUncaught(a) ==
    /\ task[a] = "running" /\ fsm[a] = "Processing"
    /\ fsm' = [fsm EXCEPT ![a] = "Closed"]
    /\ task' = [task EXCEPT ![a] = "finished"]
    /\ current' = [current EXCEPT ![a] = NoEnvelope]
    /\ DropReceiver(a)
    /\ UNCHANGED <<dirVars, completed, restVars>>

HandlerPanickedKeepsReply(a) ==
    /\ task[a] = "running" /\ fsm[a] = "Processing"
    /\ Step(a, "HandlerPanicked")
    /\ LeaveLoop(a)
    /\ UNCHANGED <<dirVars, task, current, completed, restVars>>

HandlerPanicked(a) ==
    /\ task[a] = "running" /\ fsm[a] = "Processing"
    /\ Step(a, "HandlerPanicked")
    /\ current' = [current EXCEPT ![a] = NoEnvelope]
    /\ LeaveLoop(a)
    /\ UNCHANGED <<dirVars, task, completed, restVars>>

PersistReturned(a) ==
    /\ task[a] = "running" /\ fsm[a] = "Persisting"
    /\ \/ Step(a, "PersistSucceeded") /\ UNCHANGED <<rxOpen, queue>>
       \/ Step(a, "PersistFailed") /\ LeaveLoop(a)
    /\ UNCHANGED <<dirVars, task, current, completed, restVars>>

(* Variant of StopReceiving: the loop has no idle timeout.                 *)
StopReceivingClosedOnly(a) ==
    /\ task[a] = "running" /\ fsm[a] = "Idle" /\ queue[a] = <<>>
    /\ ~HasSender(a)
    /\ fsm' = [fsm EXCEPT ![a] = NextState(NextState(@, "ChannelClosed"), "DrainComplete")]
    /\ LeaveLoop(a)
    /\ UNCHANGED <<dirVars, task, current, completed, restVars>>

(* recv() yields nothing for idle_timeout, or there is no sender left.     *)
(* The loop ends and on_deactivate starts.                                 *)
StopReceiving(a) ==
    /\ task[a] = "running" /\ fsm[a] = "Idle" /\ queue[a] = <<>>
    /\ \E e \in {"IdleTimeout", "ChannelClosed"} :
         /\ e = "ChannelClosed" => ~HasSender(a)
         /\ fsm' = [fsm EXCEPT ![a] = NextState(NextState(@, e), "DrainComplete")]
    /\ LeaveLoop(a)
    /\ UNCHANGED <<dirVars, task, current, completed, restVars>>

(* on_deactivate (and a persistent grain's final save) ended, or a faulted *)
(* activation skips them.                                                  *)
Deactivated(a) ==
    /\ task[a] = "running" /\ fsm[a] \in {"Deactivating", "Faulted"}
    /\ Step(a, "DeactivateComplete")
    /\ UNCHANGED <<dirVars, task, rxOpen, queue, current, completed, restVars>>

(* activator().remove(&grain_id): whatever entry stands under the key.     *)
RemoveEntry(a) ==
    /\ task[a] = "running" /\ fsm[a] = "Closed"
    /\ activations' = [activations EXCEPT ![GrainOf[a]] = None]
    /\ task' = [task EXCEPT ![a] = "removed"]
    /\ UNCHANGED <<draining, fsm, rxOpen, queue, current, completed, restVars>>

Return(a) ==
    /\ task[a] = "removed"
    /\ task' = [task EXCEPT ![a] = "finished"]
    /\ aborting' = aborting \ {a}
    /\ DropReceiver(a)
    /\ UNCHANGED <<dirVars, fsm, current, completed, callerVars, drainVars, evicted>>

(* A task on which abort() was called is dropped at an await point: no     *)
(* on_deactivate, no directory removal.                                    *)
Cancelled(a) ==
    /\ a \in aborting /\ task[a] = "running"
    /\ fsm[a] \in {"Activating", "Idle", "Processing", "Persisting", "Deactivating"}
    /\ task' = [task EXCEPT ![a] = "finished"]
    /\ fsm' = [fsm EXCEPT ![a] = "Closed"]
    /\ current' = [current EXCEPT ![a] = NoEnvelope]
    /\ aborting' = aborting \ {a}
    /\ DropReceiver(a)
    /\ UNCHANGED <<dirVars, completed, callerVars, drainVars, evicted>>
-----------------------------------------------------------------------------
(***************************************************************************)
(* GrainDirectory::drain, called once at shutdown.                         *)
(***************************************************************************)

DrainStart ==
    /\ "drain" \in Evictors /\ drain = "off"
    /\ draining' = TRUE
    /\ drain' = "collect"
    /\ UNCHANGED <<activations, boxVars, callerVars, drainKeys, drainTasks, aborting, evicted>>

DrainCollect ==
    /\ drain = "collect"
    /\ drainKeys' = {g \in Grains : activations[g] # None}
    /\ drain' = IF drainKeys' = {} THEN "await" ELSE "remove"
    /\ UNCHANGED <<dirVars, boxVars, callerVars, drainTasks, aborting, evicted>>

(* Variants of DrainRemove: a key that vanished since the collection is    *)
(* taken for an activation; it is waited for.                              *)
DrainRemoveVanished(g) ==
    /\ drain = "remove" /\ g \in drainKeys
    /\ drainKeys' = drainKeys \ {g}
    /\ drain' = IF drainKeys' = {} THEN "await" ELSE "remove"
    /\ activations' = [activations EXCEPT ![g] = None]
    /\ drainTasks' = drainTasks \cup {activations[g]}
    /\ evicted' = evicted \cup {g}
    /\ UNCHANGED <<draining, boxVars, callerVars, aborting>>

DrainRemovePresent(g) ==
    /\ drain = "remove" /\ g \in drainKeys /\ activations[g] # None
    /\ drainKeys' = drainKeys \ {g}
    /\ drain' = IF drainKeys' = {} THEN "await" ELSE "remove"
    /\ activations' = [activations EXCEPT ![g] = None]
    /\ drainTasks' = drainTasks \cup {activations[g]}
    /\ evicted' = evicted \cup {g}
    /\ UNCHANGED <<draining, boxVars, callerVars, aborting>>

DrainRemove(g) ==
    /\ drain = "remove" /\ g \in drainKeys
    /\ drainKeys' = drainKeys \ {g}
    /\ drain' = IF drainKeys' = {} THEN "await" ELSE "remove"
    /\ activations' = [activations EXCEPT ![g] = None]
    /\ drainTasks' = drainTasks \cup ({activations[g]} \ {None})
    /\ evicted' = IF activations[g] = None THEN evicted ELSE evicted \cup {g}
    /\ UNCHANGED <<draining, boxVars, callerVars, aborting>>

(* The 5 s grace period is over.                                           *)
DrainAbort(a) ==
    /\ drain = "await" /\ a \in drainTasks \ aborting /\ task[a] # "finished"
    /\ aborting' = aborting \cup {a}
    /\ UNCHANGED <<dirVars, boxVars, callerVars, drainVars, evicted>>

DrainDone ==
    /\ drain = "await" /\ \A a \in drainTasks : task[a] = "finished"
    /\ drain' = "done"
    /\ drainTasks' = {}
    /\ UNCHANGED <<dirVars, boxVars, callerVars, drainKeys, aborting, evicted>>
-----------------------------------------------------------------------------
(***************************************************************************)
(* Rebalancer::rebalance for one grain that the ring now places elsewhere: *)
(* the entry and its sender go at once; the task is awaited and, past the  *)
(* deadline, left running, or aborted when the deadline is already over.   *)
(***************************************************************************)

Rebalance(g) ==
    /\ "rebalancer" \in Evictors /\ activations[g] # None
    /\ activations' = [activations EXCEPT ![g] = None]
    /\ evicted' = evicted \cup {g}
    /\ aborting' \in {aborting, aborting \cup {activations[g]}}
    /\ UNCHANGED <<draining, boxVars, callerVars, drainVars>>
-----------------------------------------------------------------------------
CallerStep(c) ==
    \/ \E g \in Grains : GetOrInsertDraining(c, g)
    \/ GetOrInsertLimit(c) \/ GetOrInsertLookup(c) \/ GetOrInsertEntry(c) \/ DropRef(c)
    \/ AskSend(c) \/ Tell(c) \/ TryAskSend(c) \/ RecvReply(c) \/ AskTimeout(c)

MailboxStep(a) ==
    \/ Activate(a) \/ Receive(a) \/ HandlerCompleted(a) \/ HandlerPanicked(a)
    \/ PersistReturned(a) \/ StopReceiving(a) \/ Deactivated(a) \/ RemoveEntry(a)
    \/ Return(a) \/ Cancelled(a)

DrainStep ==
    \/ DrainStart \/ DrainCollect \/ DrainDone
    \/ \E g \in Grains : DrainRemove(g)
    \/ \E a \in Acts : DrainAbort(a)

Next ==
    \/ \E c \in Callers : CallerStep(c)
    \/ \E a \in Acts : MailboxStep(a)
    \/ DrainStep
    \/ \E g \in Grains : Rebalance(g)

Spec == Init /\ [][Next]_vars

(* The runtime polls every ready task, handlers and lifecycle hooks        *)
(* return, an armed idle timer fires, and a call in progress goes on.      *)
(* Nothing obliges a caller to send, to time out or to drop a reference,   *)
(* a handler to panic, or anyone to start a drain or a rebalance.          *)
Fairness ==
    /\ \A a \in Acts :
         /\ WF_vars(Activate(a)) /\ WF_vars(Receive(a)) /\ WF_vars(HandlerCompleted(a))
         /\ WF_vars(PersistReturned(a)) /\ WF_vars(StopReceiving(a))
         /\ WF_vars(Deactivated(a)) /\ WF_vars(RemoveEntry(a)) /\ WF_vars(Return(a))
         /\ WF_vars(Cancelled(a)) /\ WF_vars(DrainAbort(a))
    /\ \A c \in Callers :
         /\ WF_vars(RecvReply(c)) /\ WF_vars(GetOrInsertLimit(c))
         /\ WF_vars(GetOrInsertLookup(c)) /\ WF_vars(GetOrInsertEntry(c))
    /\ WF_vars(DrainCollect) /\ WF_vars(DrainDone)
    /\ \A g \in Grains : WF_vars(DrainRemove(g))

FairSpec == Spec /\ Fairness
-----------------------------------------------------------------------------
(***************************************************************************)
(* Properties.                                                             *)
(***************************************************************************)

Running(a) == task[a] = "running"

(* README.md: a grain owns its state exclusively.  Two mailbox tasks of    *)
(* one non-persistent grain never run side by side, as long as nobody but  *)
(* its own mailbox removed the grain from the directory.                   *)
SingleActivation ==
    \A a, b \in Acts :
        /\ GrainOf[a] = GrainOf[b]
        /\ GrainOf[a] \notin Persistent \cup evicted
        /\ Running(a) /\ Running(b)
        => a = b

(* mailbox.rs: a panicking handler can never leave a stale directory entry *)
(* pointing at a dead mailbox.  The entry of a non-persistent grain always *)
(* leads to a running mailbox task whose channel is open, also when drain, *)
(* the rebalancer and lookups interleave.                                  *)
NoStaleEntry ==
    \A g \in Grains \ Persistent :
        activations[g] # None => Running(activations[g]) /\ rxOpen[activations[g]]

(* What ask's result says of the handler: Ok, it ran to its end; the error *)
(* MailboxClosed, it did not and will not, so that the call may be made    *)
(* again.                                                                  *)
AskOutcome ==
    \A c \in Callers :
        LET e == <<c, sent[c]>> IN
        /\ outcome[c] = "Ok" => e \in completed
        /\ outcome[c] = "MailboxClosed" => e \notin completed /\ ~Held(e)


(* An ask always returns, without the ask timeout's help: an envelope is   *)
(* handled or dropped with its mailbox.                                    *)
AskReturns == \A c \in Callers : cpc[c] = "waiting" ~> cpc[c] # "waiting"

(* Every mailbox task ends, whether or not it can still be reached through *)
(* the directory.                                                          *)
NoLeakedTask == \A a \in Acts : Running(a) ~> task[a] = "finished"

(* drain returns, whatever its 5 s grace period catches the grains at.     *)
DrainReturns == draining ~> drain = "done"

(* README.md: each grain processes exactly one message at a time.  Stated  *)
(* of every grain that only its own mailbox removed from the directory,    *)
(* persistent ones included.                                               *)
OneMessageAtATime ==
    \A a, b \in Acts :
        /\ GrainOf[a] = GrainOf[b] /\ GrainOf[a] \notin evicted
        /\ Running(a) /\ fsm[a] = "Processing"
        /\ Running(b) /\ fsm[b] = "Processing"
        => a = b
=============================================================================
