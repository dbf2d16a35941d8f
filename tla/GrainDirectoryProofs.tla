------------------------ MODULE GrainDirectoryProofs ------------------------
(***************************************************************************)
(* GrainDirectory for any number of grains, activations and callers:       *)
(* non-persistent grains have one running mailbox and no stale directory   *)
(* entry, and what an ask returned tells what became of its message.       *)
(***************************************************************************)
EXTENDS GrainDirectory, TLAPS

(* The FSM never leaves its state space.                                   *)
LEMMA NextStateType ==
    ASSUME NEW s \in ActivationStates, NEW e
    PROVE  NextState(s, e) \in ActivationStates
BY DEF NextState, ActivationStates

LEMMA DropReceiverType ==
    ASSUME NEW a \in Acts, TypeOK, DropReceiver(a)
    PROVE  /\ rxOpen' \in [Acts -> BOOLEAN]
           /\ queue' \in [Acts -> Seq(Envelopes)]
BY DEF DropReceiver, TypeOK

LEMMA LeaveLoopType ==
    ASSUME NEW a \in Acts, TypeOK, LeaveLoop(a)
    PROVE  /\ rxOpen' \in [Acts -> BOOLEAN]
           /\ queue' \in [Acts -> Seq(Envelopes)]
BY DropReceiverType DEF LeaveLoop, TypeOK

(* The transitions the mailbox loops take.                                 *)
LEMMA Transitions ==
    /\ NextState("Activating", "ActivateSucceeded") = "Idle"
    /\ NextState("Activating", "ActivateFailed") = "Faulted"
    /\ NextState("Idle", "MessageReceived") = "Processing"
    /\ NextState("Idle", "ChannelClosed") = "Draining"
    /\ NextState("Idle", "IdleTimeout") = "Draining"
    /\ NextState("Processing", "HandlerCompleted") = "Idle"
    /\ NextState("Processing", "PersistStarted") = "Persisting"
    /\ NextState("Processing", "HandlerPanicked") = "Faulted"
    /\ NextState("Persisting", "PersistSucceeded") = "Idle"
    /\ NextState("Persisting", "PersistFailed") = "Faulted"
    /\ NextState("Draining", "DrainComplete") = "Deactivating"
    /\ NextState("Deactivating", "DeactivateComplete") = "Closed"
    /\ NextState("Faulted", "DeactivateComplete") = "Closed"
BY Zenon DEF NextState

(* Turns are on real envelopes: the message loop is Processing only        *)
(* between a dequeue and the end of that handler.                          *)
TurnInv ==
    \A a \in Acts : fsm[a] = "Processing" => current[a] \in Envelopes

TypeInv == TypeOK /\ TurnInv

LEMMA DeliverType ==
    ASSUME NEW c \in Callers, NEW next \in {"ready", "waiting"},
           TypeOK, CanSend(c), ~IsClosed(ref[c]), Deliver(c, next)
    PROVE  /\ sent' \in [Callers -> 0..MaxSends]
           /\ queue' \in [Acts -> Seq(Envelopes)]
           /\ cpc' \in [Callers -> {"idle", "limit", "lookup", "entry", "ready", "waiting"}]
           /\ outcome' \in [Callers -> {"none", "Ok", "MailboxClosed", "MailboxFull", "Timeout"}]
<1>1. ref[c] \in Acts  BY DEF IsClosed
<1>2. sent[c] + 1 \in 1..MaxSends
  BY ConstantsAssumption DEF TypeOK, CanSend
<1>3. <<c, sent[c] + 1>> \in Envelopes  BY <1>2 DEF Envelopes
<1>4. Append(queue[ref[c]], <<c, sent[c] + 1>>) \in Seq(Envelopes)
  BY <1>1, <1>3 DEF TypeOK
<1>5. sent' \in [Callers -> 0..MaxSends]
  BY <1>2 DEF TypeOK, Deliver
<1>6. queue' \in [Acts -> Seq(Envelopes)]
  BY <1>1, <1>4 DEF TypeOK, Deliver
<1>7. cpc' \in [Callers -> {"idle", "limit", "lookup", "entry", "ready", "waiting"}]
  BY DEF TypeOK, Deliver
<1>8. QED  BY <1>5, <1>6, <1>7 DEF TypeOK, Deliver

LEMMA RefuseType ==
    ASSUME NEW c \in Callers, NEW why \in {"MailboxClosed", "MailboxFull"},
           TypeOK, CanSend(c), Refuse(c, why)
    PROVE  /\ sent' \in [Callers -> 0..MaxSends]
           /\ queue' \in [Acts -> Seq(Envelopes)]
           /\ cpc' \in [Callers -> {"idle", "limit", "lookup", "entry", "ready", "waiting"}]
           /\ outcome' \in [Callers -> {"none", "Ok", "MailboxClosed", "MailboxFull", "Timeout"}]
<1>1. sent[c] + 1 \in 0..MaxSends
  BY ConstantsAssumption DEF TypeOK, CanSend
<1>2. sent' \in [Callers -> 0..MaxSends]  BY <1>1 DEF TypeOK, Refuse
<1>3. QED  BY <1>2 DEF TypeOK, Refuse

LEMMA CallerStepType ==
    ASSUME NEW c \in Callers, TypeOK, CallerStep(c)
    PROVE  TypeOK'
<1> USE DEF dirVars, boxVars, drainVars
<1>1. ASSUME NEW g \in Grains, GetOrInsertDraining(c, g)  PROVE TypeOK'
  BY <1>1 DEF TypeOK, GetOrInsertDraining
<1>2. CASE GetOrInsertLimit(c)
  BY <1>2 DEF TypeOK, GetOrInsertLimit
<1>3. CASE GetOrInsertLookup(c)
  <2>1. ref' \in [Callers -> Acts \cup {None, Closed}]
    BY <1>3 DEF TypeOK, GetOrInsertLookup, IsClosed
  <2>2. QED  BY <1>3, <2>1 DEF TypeOK, GetOrInsertLookup
<1>4. CASE GetOrInsertEntry(c)
  <2>1. CASE ~IsClosed(activations[target[c]])
    BY <1>4, <2>1 DEF TypeOK, GetOrInsertEntry, IsClosed
  <2>2. CASE IsClosed(activations[target[c]])
    <3>1. PICK a \in Fresh(target[c]) : Spawn(c, target[c], a)
      BY <1>4, <2>2 DEF GetOrInsertEntry
    <3>2. a \in Acts  BY <3>1 DEF Fresh
    <3>3. QED  BY <1>4, <3>1, <3>2 DEF TypeOK, GetOrInsertEntry, Spawn
  <2>3. QED  BY <2>1, <2>2
<1>5. CASE DropRef(c)
  BY <1>5 DEF TypeOK, DropRef
<1>6. CASE AskSend(c)
  BY <1>6, DeliverType, RefuseType DEF TypeOK, AskSend
<1>7. CASE Tell(c)
  BY <1>7, DeliverType, RefuseType DEF TypeOK, Tell
<1>8. CASE TryAskSend(c)
  BY <1>8, DeliverType, RefuseType DEF TypeOK, TryAskSend
<1>9. CASE RecvReply(c)
  BY <1>9 DEF TypeOK, RecvReply
<1>10. CASE AskTimeout(c)
  BY <1>10 DEF TypeOK, AskTimeout
<1>11. QED
  BY <1>1, <1>2, <1>3, <1>4, <1>5, <1>6, <1>7, <1>8, <1>9, <1>10 DEF CallerStep

LEMMA MailboxStepType ==
    ASSUME NEW a \in Acts, TypeInv, MailboxStep(a)
    PROVE  TypeOK'
<1> USE DEF dirVars, restVars, callerVars, drainVars
<1>0. TypeOK  BY DEF TypeInv
<1>1. ASSUME NEW e, Step(a, e)  PROVE fsm' \in [Acts -> ActivationStates]
  BY <1>0, <1>1, NextStateType DEF TypeOK, Step
<1>2. CASE Activate(a)
  <2>1. rxOpen' \in [Acts -> BOOLEAN] /\ queue' \in [Acts -> Seq(Envelopes)]
    BY <1>0, <1>2, LeaveLoopType DEF TypeOK, Activate
  <2>2. fsm' \in [Acts -> ActivationStates]  BY <1>1, <1>2 DEF Activate
  <2>3. QED  BY <1>0, <1>2, <2>1, <2>2 DEF TypeOK, Activate
<1>3. CASE Receive(a)
  <2>1. fsm' \in [Acts -> ActivationStates]  BY <1>1, <1>3 DEF Receive
  <2>2. Head(queue[a]) \in Envelopes /\ Tail(queue[a]) \in Seq(Envelopes)
    BY <1>0, <1>3 DEF TypeOK, Receive
  <2>3. QED  BY <1>0, <1>3, <2>1, <2>2 DEF TypeOK, Receive
<1>4. CASE HandlerCompleted(a)
  <2>1. fsm' \in [Acts -> ActivationStates]  BY <1>1, <1>4 DEF HandlerCompleted
  <2>2. current[a] \in Envelopes
    BY <1>4 DEF TypeInv, TurnInv, HandlerCompleted
  <2>3. QED  BY <1>0, <1>4, <2>1, <2>2 DEF TypeOK, HandlerCompleted
<1>5. CASE HandlerPanicked(a)
  <2>1. fsm' \in [Acts -> ActivationStates]  BY <1>1, <1>5 DEF HandlerPanicked
  <2>2. QED  BY <1>0, <1>5, <2>1, LeaveLoopType DEF TypeOK, HandlerPanicked
<1>6. CASE PersistReturned(a)
  <2>1. rxOpen' \in [Acts -> BOOLEAN] /\ queue' \in [Acts -> Seq(Envelopes)]
    BY <1>0, <1>6, LeaveLoopType DEF TypeOK, PersistReturned
  <2>2. fsm' \in [Acts -> ActivationStates]  BY <1>1, <1>6 DEF PersistReturned
  <2>3. QED  BY <1>0, <1>6, <2>1, <2>2 DEF TypeOK, PersistReturned
<1>7. CASE StopReceiving(a)
  <2>1. PICK e \in {"IdleTimeout", "ChannelClosed"} :
          fsm' = [fsm EXCEPT ![a] = NextState(NextState(@, e), "DrainComplete")]
    BY <1>7 DEF StopReceiving
  <2>2. fsm[a] \in ActivationStates  BY <1>0 DEF TypeOK
  <2>3. NextState(NextState(fsm[a], e), "DrainComplete") \in ActivationStates
    BY <2>2, NextStateType
  <2>4. fsm' \in [Acts -> ActivationStates]  BY <1>0, <2>1, <2>3 DEF TypeOK
  <2>5. QED  BY <1>0, <1>7, <2>4, LeaveLoopType DEF TypeOK, StopReceiving
<1>8. CASE Deactivated(a)
  <2>1. fsm' \in [Acts -> ActivationStates]  BY <1>1, <1>8 DEF Deactivated
  <2>2. QED  BY <1>0, <1>8, <2>1 DEF TypeOK, Deactivated
<1>9. CASE RemoveEntry(a)
  BY <1>0, <1>9 DEF TypeOK, RemoveEntry
<1>10. CASE Return(a)
  BY <1>0, <1>10, DropReceiverType DEF TypeOK, Return
<1>11. CASE Cancelled(a)
  BY <1>0, <1>11, DropReceiverType DEF TypeOK, Cancelled, ActivationStates
<1>12. QED
  BY <1>2, <1>3, <1>4, <1>5, <1>6, <1>7, <1>8, <1>9, <1>10, <1>11 DEF MailboxStep

LEMMA EvictionType ==
    ASSUME TypeOK, DrainStep \/ \E g \in Grains : Rebalance(g)
    PROVE  TypeOK'
<1> USE DEF TypeOK, dirVars, boxVars, callerVars, drainVars
<1>1. CASE DrainStart  BY <1>1 DEF DrainStart
<1>2. CASE DrainCollect  BY <1>2 DEF DrainCollect
<1>3. ASSUME NEW g \in Grains, DrainRemove(g)  PROVE TypeOK'
  <2>1. activations' \in [Grains -> Acts \cup {None}]  BY <1>3 DEF DrainRemove
  <2>2. drainTasks' \subseteq Acts  BY <1>3 DEF DrainRemove
  <2>3. QED  BY <1>3, <2>1, <2>2 DEF DrainRemove
<1>4. ASSUME NEW a \in Acts, DrainAbort(a)  PROVE TypeOK'
  BY <1>4 DEF DrainAbort
<1>5. CASE DrainDone  BY <1>5 DEF DrainDone
<1>6. ASSUME NEW g \in Grains, Rebalance(g)  PROVE TypeOK'
  <2>1. activations[g] \in Acts  BY <1>6 DEF Rebalance
  <2>2. QED  BY <1>6, <2>1 DEF Rebalance
<1>7. QED  BY <1>1, <1>2, <1>3, <1>4, <1>5, <1>6 DEF DrainStep

(* Only Receive makes an activation Processing, with the envelope it       *)
(* dequeued.                                                               *)
LEMMA TurnStep ==
    ASSUME TypeInv, [Next]_vars
    PROVE  TurnInv'
<1> USE DEF TypeInv, TypeOK, TurnInv
<1>1. CASE fsm' = fsm /\ current' = current
  BY <1>1
<1>2. ASSUME NEW a \in Acts, fsm' \in [Acts -> ActivationStates], fsm'[a] # "Processing",
             \A b \in Acts \ {a} : fsm'[b] = fsm[b] /\ current'[b] = current[b]
      PROVE  TurnInv'
  BY <1>2
<1>3. ASSUME NEW c \in Callers, CallerStep(c)  PROVE TurnInv'
  BY <1>1, <1>3 DEF CallerStep, GetOrInsertDraining, GetOrInsertLimit, GetOrInsertLookup,
       GetOrInsertEntry, DropRef, AskSend, Tell, TryAskSend, RecvReply, AskTimeout, boxVars
<1>4. ASSUME NEW a \in Acts, MailboxStep(a)  PROVE TurnInv'
  <2>0. fsm' \in [Acts -> ActivationStates]
    BY <1>4, MailboxStepType
  <2>1. CASE Activate(a)
    BY <1>2, <2>0, <2>1, Transitions DEF Activate, Step
  <2>2. CASE Receive(a)
    <3>1. Head(queue[a]) \in Envelopes  BY <2>2 DEF Receive
    <3>2. QED  BY <2>2, <3>1 DEF Receive, Step
  <2>3. CASE HandlerCompleted(a)
    BY <1>2, <2>0, <2>3, Transitions DEF HandlerCompleted, Step
  <2>4. CASE HandlerPanicked(a)
    BY <1>2, <2>0, <2>4, Transitions DEF HandlerPanicked, Step
  <2>5. CASE PersistReturned(a)
    BY <1>2, <2>0, <2>5, Transitions DEF PersistReturned, Step
  <2>6. CASE StopReceiving(a)
    <3>1. fsm'[a] = "Deactivating"  BY <2>6, Transitions DEF StopReceiving
    <3>2. QED  BY <1>2, <2>0, <2>6, <3>1 DEF StopReceiving
  <2>7. CASE Deactivated(a)
    BY <1>2, <2>0, <2>7, Transitions DEF Deactivated, Step
  <2>8. CASE RemoveEntry(a) \/ Return(a)
    BY <1>1, <2>8 DEF RemoveEntry, Return
  <2>9. CASE Cancelled(a)
    BY <1>2, <2>0, <2>9 DEF Cancelled
  <2>10. QED
    BY <1>4, <2>1, <2>2, <2>3, <2>4, <2>5, <2>6, <2>7, <2>8, <2>9 DEF MailboxStep
<1>5. CASE DrainStep
  BY <1>1, <1>5 DEF DrainStep, DrainStart, DrainCollect, DrainRemove, DrainAbort, DrainDone, boxVars
<1>6. ASSUME NEW g \in Grains, Rebalance(g)  PROVE TurnInv'
  BY <1>1, <1>6 DEF Rebalance, boxVars
<1>7. CASE UNCHANGED vars
  BY <1>1, <1>7 DEF vars, boxVars
<1>8. QED  BY <1>3, <1>4, <1>5, <1>6, <1>7 DEF Next

(* Every variable keeps its type: GrainDirectory's steps are well defined  *)
(* for any number of grains, callers, activations and messages.            *)
THEOREM TypeCorrect == Spec => []TypeOK
<1>1. Init => TypeInv
  <2> SUFFICES ASSUME Init  PROVE TypeInv
    OBVIOUS
  <2>1. <<>> \in Seq(Envelopes)  OBVIOUS
  <2>2. 0 \in 0..MaxSends  BY ConstantsAssumption
  <2>3. TurnInv  BY DEF Init, TurnInv
  <2>4. TypeOK  BY <2>1, <2>2 DEF Init, TypeOK, ActivationStates
  <2>5. QED  BY <2>3, <2>4 DEF TypeInv
<1>2. TypeInv /\ [Next]_vars => TypeInv'
  <2> SUFFICES ASSUME TypeInv, [Next]_vars  PROVE TypeInv'
    OBVIOUS
  <2>1. TurnInv'  BY TurnStep
  <2>2. TypeOK'
    <3>1. CASE UNCHANGED vars
      BY <3>1 DEF TypeInv, TypeOK, vars, dirVars, boxVars, callerVars, drainVars
    <3>2. QED
      BY <3>1, CallerStepType, MailboxStepType, EvictionType DEF TypeInv, Next
  <2>3. QED  BY <2>1, <2>2 DEF TypeInv
<1>3. TypeInv => TypeOK  BY DEF TypeInv
<1>4. QED  BY <1>1, <1>2, <1>3, PTL DEF Spec
-----------------------------------------------------------------------------
(***************************************************************************)
(* Safety of the directory.  DirInv is the inductive strengthening: an     *)
(* entry leads to an activation of its own grain; a running non-persistent *)
(* activation has an open channel and, unless its grain was evicted, is    *)
(* the entry of its grain; a task that is or may be aborted is no entry.   *)
(***************************************************************************)
EntryInv ==
    \A g \in Grains : activations[g] # None =>
        GrainOf[activations[g]] = g /\ task[activations[g]] # "unborn"

PlainInv ==
    \A a \in Acts : GrainOf[a] \notin Persistent =>
        /\ Running(a) => rxOpen[a]
        /\ Running(a) /\ GrainOf[a] \notin evicted => activations[GrainOf[a]] = a
        /\ activations[GrainOf[a]] = a => Running(a)

AbortInv ==
    \A a \in aborting \cup drainTasks :
        activations[GrainOf[a]] # a /\ task[a] # "unborn" /\ GrainOf[a] \in evicted

TargetInv ==
    \A c \in Callers : cpc[c] \in {"limit", "lookup", "entry"} => target[c] \in Grains

DirInv == EntryInv /\ PlainInv /\ AbortInv

(* The properties follow from the invariant.                               *)
LEMMA DirInvImplies ==
    ASSUME TypeOK, DirInv
    PROVE  SingleActivation /\ NoStaleEntry
<1> USE ConstantsAssumption DEF TypeOK, DirInv
<1>1. SingleActivation
  BY DEF SingleActivation, PlainInv, Running
<1>2. NoStaleEntry
  BY DEF NoStaleEntry, PlainInv, EntryInv, Running
<1>3. QED  BY <1>1, <1>2

(* A step that leaves alone what DirInv reads preserves it.                *)
LEMMA DirInvFrame ==
    ASSUME DirInv, UNCHANGED <<activations, task, rxOpen, drainTasks, aborting, evicted>>
    PROVE  DirInv'
BY DEF DirInv, EntryInv, PlainInv, AbortInv, Running

(* Only a closed or missing entry is replaced; for a non-persistent grain  *)
(* DirInv says that it is missing, so nothing else of that grain runs.     *)
LEMMA SpawnDirInv ==
    ASSUME TypeOK, DirInv, NEW c \in Callers, NEW g \in Grains, NEW a \in Fresh(g),
           IsClosed(activations[g]), Spawn(c, g, a),
           UNCHANGED <<drainTasks, aborting, evicted>>
    PROVE  DirInv'
<1> USE ConstantsAssumption DEF TypeOK, DirInv, Spawn, Fresh
<1>1. EntryInv'
  BY DEF EntryInv
<1>2. PlainInv'
  <2> SUFFICES ASSUME NEW b \in Acts, GrainOf[b] \notin Persistent
               PROVE  /\ Running(b)' => rxOpen'[b]
                      /\ Running(b)' /\ GrainOf[b] \notin evicted => activations'[GrainOf[b]] = b
                      /\ activations'[GrainOf[b]] = b => Running(b)'
    BY DEF PlainInv
  <2>1. CASE b = a
    BY <2>1 DEF Running
  <2>2. CASE b # a /\ GrainOf[b] # g
    BY <2>2 DEF PlainInv, Running
  <2>3. CASE b # a /\ GrainOf[b] = g
    <3>1. activations[g] = None
      <4> SUFFICES ASSUME activations[g] # None  PROVE FALSE
        OBVIOUS
      <4>1. activations[g] \in Acts /\ GrainOf[activations[g]] = g
        BY DEF EntryInv
      <4>2. Running(activations[g]) /\ rxOpen[activations[g]]
        BY <2>3, <4>1 DEF PlainInv
      <4>3. QED  BY <4>1, <4>2 DEF IsClosed
    <3>2. QED  BY <2>3, <3>1 DEF PlainInv, Running
  <2>4. QED  BY <2>1, <2>2, <2>3
<1>3. AbortInv'
  BY DEF AbortInv
<1>4. QED  BY <1>1, <1>2, <1>3

LEMMA CallerDirInv ==
    ASSUME TypeOK, DirInv, TargetInv, NEW c \in Callers, CallerStep(c)
    PROVE  DirInv'
<1>1. CASE GetOrInsertEntry(c)
  <2> DEFINE g == target[c]
  <2>1. CASE UNCHANGED <<activations, task, rxOpen>>
    BY <1>1, <2>1, DirInvFrame DEF GetOrInsertEntry, drainVars
  <2>2. CASE g \in Grains /\ IsClosed(activations[g]) /\ Fresh(g) # {}
                /\ Spawn(c, g, CHOOSE a \in Fresh(g) : TRUE)
    <3>1. PICK a \in Fresh(g) : Spawn(c, g, a)
      BY <2>2
    <3>2. QED
      BY <1>1, <2>2, <3>1, SpawnDirInv DEF GetOrInsertEntry, drainVars
  <2>3. QED  BY <1>1, <2>1, <2>2 DEF GetOrInsertEntry, TargetInv
<1>2. CASE ~GetOrInsertEntry(c)
  BY <1>2, DirInvFrame DEF CallerStep, GetOrInsertDraining, GetOrInsertLimit, GetOrInsertLookup,
       DropRef, AskSend, Tell, TryAskSend, RecvReply, AskTimeout, boxVars, dirVars, drainVars
<1>3. QED  BY <1>1, <1>2

LEMMA MailboxDirInv ==
    ASSUME TypeOK, DirInv, NEW a \in Acts, MailboxStep(a)
    PROVE  DirInv'
<1> USE ConstantsAssumption DEF TypeOK, restVars, drainVars, dirVars, callerVars
<1>1. CASE UNCHANGED <<activations, task, drainTasks, aborting, evicted>>
            /\ (rxOpen' = rxOpen \/ LeaveLoop(a))
  <2>1. EntryInv' /\ AbortInv'
    BY <1>1 DEF DirInv, EntryInv, AbortInv
  <2>2. \A b \in Acts : GrainOf[b] \notin Persistent => rxOpen'[b] = rxOpen[b]
    BY <1>1 DEF LeaveLoop, DropReceiver
  <2>3. PlainInv'
    BY <1>1, <2>2 DEF DirInv, PlainInv, Running
  <2>4. QED  BY <2>1, <2>3 DEF DirInv
<1>2. CASE RemoveEntry(a)
  BY <1>2 DEF DirInv, EntryInv, PlainInv, AbortInv, Running, RemoveEntry
<1>3. CASE Return(a)
  BY <1>3 DEF DirInv, EntryInv, PlainInv, AbortInv, Running, Return, DropReceiver
<1>4. CASE Cancelled(a)
  BY <1>4 DEF DirInv, EntryInv, PlainInv, AbortInv, Running, Cancelled, DropReceiver
<1>5. QED
  BY <1>1, <1>2, <1>3, <1>4 DEF MailboxStep, Activate, Receive, HandlerCompleted,
       HandlerPanicked, PersistReturned, StopReceiving, Deactivated

LEMMA EvictionDirInv ==
    ASSUME TypeOK, DirInv, DrainStep \/ \E g \in Grains : Rebalance(g)
    PROVE  DirInv'
<1> USE ConstantsAssumption DEF TypeOK, boxVars, drainVars, dirVars
<1>1. CASE DrainStart \/ DrainCollect
  BY <1>1, DirInvFrame DEF DrainStart, DrainCollect
<1>2. ASSUME NEW g \in Grains, DrainRemove(g)  PROVE DirInv'
  BY <1>2 DEF DirInv, EntryInv, PlainInv, AbortInv, Running, DrainRemove
<1>3. ASSUME NEW a \in Acts, DrainAbort(a)  PROVE DirInv'
  BY <1>3 DEF DirInv, EntryInv, PlainInv, AbortInv, Running, DrainAbort
<1>4. CASE DrainDone
  BY <1>4 DEF DirInv, EntryInv, PlainInv, AbortInv, Running, DrainDone
<1>5. ASSUME NEW g \in Grains, Rebalance(g)  PROVE DirInv'
  BY <1>5 DEF DirInv, EntryInv, PlainInv, AbortInv, Running, Rebalance
<1>6. QED  BY <1>1, <1>2, <1>3, <1>4, <1>5 DEF DrainStep

LEMMA TargetStep ==
    ASSUME TypeOK, TargetInv, [Next]_vars
    PROVE  TargetInv'
<1> USE DEF TypeOK, TargetInv
<1>1. CASE cpc' = cpc /\ target' = target
  BY <1>1
<1>2. ASSUME NEW c \in Callers, CallerStep(c)  PROVE TargetInv'
  BY <1>2 DEF CallerStep, GetOrInsertDraining, GetOrInsertLimit, GetOrInsertLookup,
       GetOrInsertEntry, DropRef, AskSend, Tell, TryAskSend, RecvReply, AskTimeout,
       Deliver, Refuse, CanSend
<1>3. ASSUME NEW a \in Acts, MailboxStep(a)  PROVE TargetInv'
  BY <1>1, <1>3 DEF MailboxStep, Activate, Receive, HandlerCompleted, HandlerPanicked,
       PersistReturned, StopReceiving, Deactivated, RemoveEntry, Return, Cancelled,
       restVars, callerVars
<1>4. CASE DrainStep \/ \E g \in Grains : Rebalance(g)
  BY <1>1, <1>4 DEF DrainStep, DrainStart, DrainCollect, DrainRemove, DrainAbort, DrainDone,
       Rebalance, callerVars
<1>5. CASE UNCHANGED vars
  BY <1>1, <1>5 DEF vars, callerVars
<1>6. QED  BY <1>2, <1>3, <1>4, <1>5 DEF Next

(* A non-persistent grain that only its own mailbox removes from the       *)
(* directory never has two running mailbox tasks, and a directory entry of *)
(* a non-persistent grain always leads to a running task with an open      *)
(* channel: for any number of grains, callers, activations and messages,   *)
(* any mailbox capacity and any activation limit.                          *)
THEOREM DirectorySafe == Spec => [](SingleActivation /\ NoStaleEntry)
<1>1. Init => TargetInv /\ DirInv
  BY ConstantsAssumption DEF Init, TargetInv, DirInv, EntryInv, PlainInv, AbortInv, Running
<1>2. TypeOK /\ TargetInv /\ DirInv /\ [Next]_vars => TargetInv' /\ DirInv'
  <2> SUFFICES ASSUME TypeOK, TargetInv, DirInv, [Next]_vars  PROVE TargetInv' /\ DirInv'
    OBVIOUS
  <2>1. CASE UNCHANGED vars
    BY <2>1, DirInvFrame, TargetStep DEF vars, dirVars, boxVars, drainVars
  <2>2. QED
    BY <2>1, TargetStep, CallerDirInv, MailboxDirInv, EvictionDirInv DEF Next
<1>3. TypeOK /\ DirInv => SingleActivation /\ NoStaleEntry
  BY DirInvImplies
<1>4. QED  BY <1>1, <1>2, <1>3, TypeCorrect, PTL DEF Spec
-----------------------------------------------------------------------------
(***************************************************************************)
(* What an ask's result says of its handler.  The strengthening is that no *)
(* mailbox holds, and no handler completed, an envelope not yet sent.      *)
(***************************************************************************)
Calls == Callers \X Nat

SentInv == \A e \in Calls : e \in completed \/ Held(e) => e[2] <= sent[e[1]]

LEMMA CallNotEmpty == \A e \in Calls : e # NoEnvelope
<1> SUFFICES ASSUME NEW c \in Callers, NEW n \in Nat  PROVE <<c, n>> # NoEnvelope
  BY DEF Calls
<1>1. Len(<<c, n>>) = 2 /\ Len(NoEnvelope) = 0  BY DEF NoEnvelope
<1>2. QED  BY <1>1

LEMMA ReplyFrame ==
    ASSUME UNCHANGED <<queue, current, completed, sent>>, AskOutcome, SentInv, TypeOK,
           \A c \in Callers : outcome'[c] = outcome[c] \/ outcome'[c] \notin {"Ok", "MailboxClosed"}
    PROVE  AskOutcome' /\ SentInv'
<1>1. \A e : Held(e)' <=> Held(e)
  BY DEF Held
<1>2. QED  BY <1>1 DEF AskOutcome, SentInv

(* A mailbox holds no envelope that it or another mailbox did not hold     *)
(* before, and completes only one that it held.                            *)
LEMMA MailboxHolds ==
    ASSUME TypeOK, NEW a \in Acts, MailboxStep(a), NEW e \in Calls
    PROVE  /\ Held(e)' => Held(e)
           /\ e \in completed' => e \in completed \/ Held(e)
<1> USE DEF TypeOK
<1>0. e # NoEnvelope
  BY CallNotEmpty
<1>1. CASE Receive(a)
  <2>1. completed' = completed  BY <1>1 DEF Receive
  <2>2. ASSUME NEW b \in Acts, current'[b] = e  PROVE Held(e)
    <3>1. CASE b = a
      <4>1. e = queue[a][1] /\ 1 \in DOMAIN queue[a]  BY <1>1, <2>2, <3>1 DEF Receive
      <4>2. QED  BY <4>1 DEF Held
    <3>2. CASE b # a
      BY <1>1, <2>2, <3>2 DEF Receive, Held
    <3>3. QED  BY <3>1, <3>2
  <2>3. ASSUME NEW b \in Acts, NEW i \in DOMAIN queue'[b], queue'[b][i] = e  PROVE Held(e)
    <3>1. CASE b = a
      <4>1. queue'[a] = Tail(queue[a]) /\ queue[a] \in Seq(Envelopes) /\ queue[a] # <<>>
        BY <1>1 DEF Receive
      <4>2. i + 1 \in DOMAIN queue[a] /\ queue[a][i + 1] = e
        BY <2>3, <3>1, <4>1
      <4>3. QED  BY <4>2 DEF Held
    <3>2. CASE b # a
      BY <1>1, <2>3, <3>2 DEF Receive, Held
    <3>3. QED  BY <3>1, <3>2
  <2>4. QED  BY <2>1, <2>2, <2>3 DEF Held
<1>2. ASSUME \A b \in Acts : queue'[b] \in {queue[b], <<>>},
             \A b \in Acts : current'[b] \in {current[b], NoEnvelope},
             completed' \subseteq completed \cup {current[a]}
      PROVE  /\ Held(e)' => Held(e)
             /\ e \in completed' => e \in completed \/ Held(e)
  <2>1. \A b \in Acts : \A i \in DOMAIN queue'[b] :
          queue'[b] = queue[b] /\ i \in DOMAIN queue[b]
    BY <1>2
  <2>2. Held(e)' => Held(e)
    BY <1>0, <1>2, <2>1 DEF Held
  <2>3. e \in completed' => e \in completed \/ Held(e)
    BY <1>2 DEF Held
  <2>4. QED  BY <2>2, <2>3
<1>3. CASE ~Receive(a)
  <2>1. \A b \in Acts : queue'[b] \in {queue[b], <<>>}
    BY <1>3 DEF MailboxStep, Activate, HandlerCompleted, HandlerPanicked, PersistReturned,
         StopReceiving, Deactivated, RemoveEntry, Return, Cancelled, LeaveLoop, DropReceiver
  <2>2. \A b \in Acts : current'[b] \in {current[b], NoEnvelope}
    BY <1>3 DEF MailboxStep, Activate, HandlerCompleted, HandlerPanicked, PersistReturned,
         StopReceiving, Deactivated, RemoveEntry, Return, Cancelled
  <2>3. completed' \subseteq completed \cup {current[a]}
    BY <1>3 DEF MailboxStep, Activate, HandlerCompleted, HandlerPanicked, PersistReturned,
         StopReceiving, Deactivated, RemoveEntry, Return, Cancelled
  <2>4. QED  BY <1>2, <2>1, <2>2, <2>3
<1>4. QED  BY <1>1, <1>3

LEMMA MailboxReply ==
    ASSUME TypeOK, AskOutcome, SentInv, NEW a \in Acts, MailboxStep(a)
    PROVE  AskOutcome' /\ SentInv'
<1>1. UNCHANGED <<sent, outcome>> /\ completed \subseteq completed'
  BY DEF MailboxStep, Activate, Receive, HandlerCompleted, HandlerPanicked, PersistReturned,
       StopReceiving, Deactivated, RemoveEntry, Return, Cancelled, restVars, callerVars
<1>2. \A c \in Callers : <<c, sent[c]>> \in Calls
  BY ConstantsAssumption DEF TypeOK, Calls
<1>3. QED  BY <1>1, <1>2, MailboxHolds DEF AskOutcome, SentInv

LEMMA DeliverReply ==
    ASSUME TypeOK, AskOutcome, SentInv, NEW c \in Callers, NEW next, ~IsClosed(ref[c]),
           Deliver(c, next), UNCHANGED <<current, completed>>
    PROVE  AskOutcome' /\ SentInv'
<1> DEFINE s == <<c, sent[c] + 1>>
<1> USE ConstantsAssumption DEF TypeOK
<1>0. ref[c] \in Acts  BY DEF IsClosed
<1>1. ASSUME NEW e \in Calls, Held(e)'  PROVE Held(e) \/ e = s
  <2>1. CASE \E b \in Acts : current'[b] = e
    BY <2>1 DEF Held
  <2>2. ASSUME NEW b \in Acts, NEW i \in DOMAIN queue'[b], queue'[b][i] = e
        PROVE  Held(e) \/ e = s
    <3>1. CASE b = ref[c]
      <4>1. queue'[b] = Append(queue[b], s) /\ queue[b] \in Seq(Envelopes)
        BY <3>1 DEF Deliver
      <4>2. (i \in DOMAIN queue[b] /\ queue[b][i] = e) \/ e = s
        BY <2>2, <4>1
      <4>3. QED  BY <4>2 DEF Held
    <3>2. CASE b # ref[c]
      BY <1>0, <2>2, <3>2 DEF Deliver, Held
    <3>3. QED  BY <3>1, <3>2
  <2>3. QED  BY <1>1, <2>1, <2>2 DEF Held
<1>2. \A d \in Callers : <<d, sent[d]>> \in Calls
  BY DEF Calls
<1>3. AskOutcome'
  BY <1>1, <1>2 DEF AskOutcome, Deliver
<1>4. SentInv'
  BY <1>1 DEF SentInv, Deliver, Calls
<1>5. QED  BY <1>3, <1>4

LEMMA RefuseReply ==
    ASSUME TypeOK, AskOutcome, SentInv, NEW c \in Callers,
           NEW why \in {"MailboxClosed", "MailboxFull"}, Refuse(c, why),
           UNCHANGED <<current, completed>>
    PROVE  AskOutcome' /\ SentInv'
<1> USE ConstantsAssumption DEF TypeOK, Refuse
<1>1. \A e : Held(e)' <=> Held(e)
  BY DEF Held
<1>2. <<c, sent[c] + 1>> \in Calls
  BY DEF Calls
<1>3. <<c, sent[c] + 1>> \notin completed /\ ~Held(<<c, sent[c] + 1>>)
  BY <1>2 DEF SentInv
<1>4. AskOutcome'
  BY <1>1, <1>3 DEF AskOutcome
<1>5. SentInv'
  BY <1>1 DEF SentInv, Calls
<1>6. QED  BY <1>4, <1>5

LEMMA CallerReply ==
    ASSUME TypeOK, AskOutcome, SentInv, NEW c \in Callers, CallerStep(c)
    PROVE  AskOutcome' /\ SentInv'
<1>1. CASE AskSend(c) \/ Tell(c) \/ TryAskSend(c)
  BY <1>1, DeliverReply, RefuseReply DEF AskSend, Tell, TryAskSend
<1>2. CASE RecvReply(c)
  <2>1. \A e : Held(e)' <=> Held(e)
    BY <1>2 DEF RecvReply, boxVars, Held
  <2>2. QED
    BY <1>2, <2>1 DEF RecvReply, boxVars, AskOutcome, SentInv, TypeOK
<1>3. CASE DropRef(c) \/ AskTimeout(c)
  BY <1>3, ReplyFrame DEF DropRef, AskTimeout, boxVars, TypeOK
<1>4. CASE \/ \E g \in Grains : GetOrInsertDraining(c, g)
           \/ GetOrInsertLimit(c) \/ GetOrInsertLookup(c) \/ GetOrInsertEntry(c)
  BY <1>4, ReplyFrame DEF GetOrInsertDraining, GetOrInsertLimit, GetOrInsertLookup,
       GetOrInsertEntry, boxVars
<1>5. QED  BY <1>1, <1>2, <1>3, <1>4 DEF CallerStep

(* What an ask returns is true of its handler: after Ok the handler ran to *)
(* its end, and after MailboxClosed it did not and never will, whatever    *)
(* mailboxes, evictions and other callers do in between.                   *)
THEOREM AskOutcomeCorrect == Spec => []AskOutcome
<1>1. Init => AskOutcome /\ SentInv
  <2> SUFFICES ASSUME Init  PROVE AskOutcome /\ SentInv
    OBVIOUS
  <2>1. AskOutcome  BY DEF Init, AskOutcome
  <2>3. SentInv  BY CallNotEmpty DEF Init, SentInv, Held
  <2>4. QED  BY <2>1, <2>3
<1>2. TypeOK /\ AskOutcome /\ SentInv /\ [Next]_vars => AskOutcome' /\ SentInv'
  <2> SUFFICES ASSUME TypeOK, AskOutcome, SentInv, [Next]_vars  PROVE AskOutcome' /\ SentInv'
    OBVIOUS
  <2>1. CASE UNCHANGED vars
    BY <2>1, ReplyFrame DEF vars, boxVars, callerVars
  <2>2. CASE DrainStep \/ \E g \in Grains : Rebalance(g)
    BY <2>2, ReplyFrame DEF DrainStep, DrainStart, DrainCollect, DrainRemove, DrainAbort,
         DrainDone, Rebalance, boxVars, callerVars
  <2>3. QED  BY <2>1, <2>2, CallerReply, MailboxReply DEF Next
<1>3. QED  BY <1>1, <1>2, TypeCorrect, PTL DEF Spec
=============================================================================
