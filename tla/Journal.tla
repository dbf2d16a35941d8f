------------------------------- MODULE Journal -------------------------------
(***************************************************************************)
(* One journaled (event-sourced) grain: its activations, and the journal    *)
(* they share.  A handler reads the state and returns events; the envelope  *)
(* of JournaledGrainRef::ask appends them, applies them, takes a snapshot   *)
(* when one is due, and then replies.  A new activation loads the snapshot  *)
(* and replays the events after it.                                         *)
(*                                                                         *)
(* An event is <<message, i>>, the i-th event the message's handler gave.   *)
(* The grain's state is the sequence of events applied to it.  The journal  *)
(* store numbers events from 1 and never removes any, so the number of an   *)
(* event is its index.  Each await is a step; the code between two awaits   *)
(* is one.  A store call may fail before it did anything; LostAcks adds     *)
(* stores that fail after they did their work.                              *)
(***************************************************************************)
EXTENDS Integers, Sequences, FiniteSets, SequencesExt

CONSTANTS
    JMessages,          \* messages, each sent once
    JSlots,             \* activations that may run at a time
    SnapshotInterval,   \* snapshot_interval(); 0 disables snapshots in turns
    MaxBatch,           \* bound: events a handler returns
    MaxJFaults,         \* bound: failing calls, panics and crashes
    LostAcks            \* a failing append may have appended

ASSUME JournalAssumption ==
    /\ SnapshotInterval \in Nat /\ MaxBatch \in Nat /\ MaxJFaults \in Nat
    /\ LostAcks \in BOOLEAN

VARIABLES
    journal,    \* the events, in the order of their sequence numbers
    snapshot,   \* [seq, state]; seq = 0 and the empty state: none
    jact,       \* slot -> the activation in it
    answered,   \* events of messages that were answered Ok
    unsent,     \* messages not yet received by an activation
    jfaults,    \* faults so far
    harm        \* history: faults that may cost or repeat an event

jvars == <<journal, snapshot, jact, answered, unsent, jfaults, harm>>

-----------------------------------------------------------------------------
Gone == [pc |-> "none", state |-> <<>>, seq |-> 0, since |-> 0, events |-> <<>>]

NoSnapshot == [seq |-> 0, state |-> <<>>]

JFault == jfaults < MaxJFaults /\ jfaults' = jfaults + 1

\* A variant of EventsAfter that takes the given event along.
EventsFrom(n) == SubSeq(journal, IF n = 0 THEN 1 ELSE n, Len(journal))

\* load_events_after of the store.
EventsAfter(n) == SubSeq(journal, n + 1, Len(journal))

\* G::apply for every event of a list.
ApplyAll(state, events) == state \o events

-----------------------------------------------------------------------------
(* Activation: load_state. *)

\* get_or_insert makes a new activation.  On one silo there is one at a time;
\* when the ring moves the grain, the old silo's may still run.
JActivate(a) ==
    /\ jact[a].pc = "none"
    /\ unsent # {}
    /\ jact' = [jact EXCEPT ![a].pc = "snapshot"]
    /\ harm' = IF \E b \in JSlots \ {a} : jact[b].pc # "none"
               THEN harm \cup {"overlap"} ELSE harm
    /\ UNCHANGED <<journal, snapshot, answered, unsent, jfaults>>

LoadSnapshot(a) ==
    /\ jact[a].pc = "snapshot"
    /\ \/ /\ jact' = [jact EXCEPT ![a] = [Gone EXCEPT !.pc = "events", !.state = snapshot.state,
                                                      !.seq = snapshot.seq]]
          /\ UNCHANGED <<jfaults, harm>>
       \/ \* The store fails, or the bytes cannot be decoded: start fresh.
          /\ JFault
          /\ jact' = [jact EXCEPT ![a] = [Gone EXCEPT !.pc = "events"]]
          /\ harm' = harm
    /\ UNCHANGED <<journal, snapshot, answered, unsent>>

\* Replay.  A failing store gives no events; an event that cannot be decoded
\* is skipped and does not move the sequence.  on_activate follows.
LoadEvents(a) ==
    LET tail == EventsAfter(jact[a].seq)
        Replayed(kept) == [jact[a] EXCEPT !.pc = "idle",
                              !.state = ApplyAll(@, SelectSeq(tail, LAMBDA e : e \in kept)),
                              !.seq = IF \E i \in DOMAIN tail : tail[i] \in kept
                                      THEN CHOOSE n \in (@ + 1)..Len(journal) :
                                              /\ journal[n] \in kept
                                              /\ \A i \in (n + 1)..Len(journal) : journal[i] \notin kept
                                      ELSE @]
    IN  /\ jact[a].pc = "events"
        /\ \/ /\ jact' = [jact EXCEPT ![a] = Replayed(Range(tail))]
              /\ UNCHANGED <<jfaults, harm>>
           \/ /\ tail # <<>> /\ JFault
              /\ \E kept \in {{}} \cup {Range(tail) \ {e} : e \in Range(tail)} :
                    jact' = [jact EXCEPT ![a] = Replayed(kept)]
              /\ harm' = harm \cup {"replay"}
        /\ UNCHANGED <<journal, snapshot, answered, unsent>>

-----------------------------------------------------------------------------
(* A turn: the envelope of JournaledGrainRef::ask. *)

\* A variant of Handle that replies before anything is appended.
HandleReplies(a, m) ==
    /\ jact[a].pc = "idle"
    /\ m \in unsent
    /\ unsent' = unsent \ {m}
    /\ \E k \in 0..MaxBatch :
          LET events == [i \in 1..k |-> <<m, i>>]
          IN  /\ jact' = [jact EXCEPT ![a].pc = "append", ![a].events = events]
              /\ answered' = answered \cup Range(events)
    /\ UNCHANGED <<journal, snapshot, jfaults, harm>>

\* The handler returns its events, or panics and faults the activation.
Handle(a, m) ==
    /\ jact[a].pc = "idle"
    /\ m \in unsent
    /\ unsent' = unsent \ {m}
    /\ \/ /\ \E k \in 0..MaxBatch :
                jact' = [jact EXCEPT ![a].pc = "append",
                                     ![a].events = [i \in 1..k |-> <<m, i>>]]
          /\ UNCHANGED jfaults
       \/ JFault /\ jact' = [jact EXCEPT ![a].pc = "faulted"]
    /\ UNCHANGED <<journal, snapshot, answered, harm>>

Answer(a) == answered' = answered \cup Range(jact[a].events)

\* What follows the append: apply the events, then a snapshot if one is due,
\* else the reply.
Applied(a, seq, since) ==
    LET due == jact[a].events # <<>> /\ SnapshotInterval > 0 /\ since >= SnapshotInterval
    IN  /\ jact' = [jact EXCEPT ![a] =
              [pc |-> IF due THEN "save" ELSE "idle", state |-> ApplyAll(@.state, @.events),
               seq |-> seq, since |-> since, events |-> IF due THEN @.events ELSE <<>>]]
        /\ IF due THEN UNCHANGED answered ELSE Answer(a)

AppendOk(a) ==
    /\ journal' = journal \o jact[a].events
    /\ Applied(a, IF jact[a].events = <<>> THEN jact[a].seq ELSE Len(journal'),
               jact[a].since + Len(jact[a].events))
    /\ UNCHANGED <<snapshot, unsent, jfaults, harm>>

\* The append fails, or an event cannot be encoded and is left out of it: an
\* error is logged, the events are applied and the caller is answered.
AppendFails(a) ==
    /\ jact[a].events # <<>> /\ JFault
    /\ \/ /\ journal' = journal /\ harm' = harm \cup {"append"}
          /\ Applied(a, jact[a].seq, jact[a].since)
       \/ /\ Len(jact[a].events) > 1
          /\ journal' = journal \o Tail(jact[a].events) /\ harm' = harm \cup {"append"}
          /\ Applied(a, Len(journal'), jact[a].since + Len(jact[a].events) - 1)
       \/ /\ LostAcks
          /\ journal' = journal \o jact[a].events /\ harm' = harm \cup {"ack"}
          /\ Applied(a, jact[a].seq, jact[a].since)
    /\ UNCHANGED <<snapshot, unsent>>

\* apply panics after the append: the activation faults without a reply, with
\* a part of the events applied.
ApplyPanics(a) ==
    /\ jact[a].events # <<>> /\ JFault
    /\ journal' = journal \o jact[a].events
    /\ jact' = [jact EXCEPT ![a].pc = "faulted", ![a].seq = Len(journal'),
                            ![a].state = ApplyAll(@, Front(jact[a].events))]
    /\ UNCHANGED <<snapshot, answered, unsent, harm>>

AppendEvents(a) ==
    /\ jact[a].pc = "append"
    /\ AppendOk(a) \/ AppendFails(a) \/ ApplyPanics(a)

Snapshot(a) == [seq |-> jact[a].seq, state |-> jact[a].state]

SaveSnapshot(a) ==
    /\ jact[a].pc = "save"
    /\ \/ /\ snapshot' = Snapshot(a)
          /\ jact' = [jact EXCEPT ![a].pc = "idle", ![a].since = 0, ![a].events = <<>>]
          /\ UNCHANGED jfaults
       \/ /\ JFault /\ snapshot' = snapshot
          /\ jact' = [jact EXCEPT ![a].pc = "idle", ![a].events = <<>>]
    /\ Answer(a)
    /\ UNCHANGED <<journal, unsent, harm>>

-----------------------------------------------------------------------------
(* The end of an activation. *)

\* Idle timeout or closed channel: Draining, on_deactivate, the last snapshot.
Stop(a) ==
    /\ jact[a].pc = "idle"
    /\ jact' = [jact EXCEPT ![a].pc = "final"]
    /\ UNCHANGED <<journal, snapshot, answered, unsent, jfaults, harm>>

\* A variant of Removed that saves the state of a faulted activation too.
FaultedSaves(a) ==
    /\ jact[a].pc \in {"final", "faulted"}
    /\ \/ snapshot' = Snapshot(a) /\ UNCHANGED jfaults
       \/ JFault /\ snapshot' = snapshot
    /\ jact' = [jact EXCEPT ![a] = Gone]
    /\ UNCHANGED <<journal, answered, unsent, harm>>

\* A faulted activation skips on_deactivate and the snapshot.
Removed(a) ==
    /\ \/ jact[a].pc = "final" /\ snapshot' = Snapshot(a) /\ UNCHANGED jfaults
       \/ jact[a].pc = "final" /\ JFault /\ snapshot' = snapshot
       \/ jact[a].pc = "faulted" /\ UNCHANGED <<snapshot, jfaults>>
    /\ jact' = [jact EXCEPT ![a] = Gone]
    /\ UNCHANGED <<journal, answered, unsent, harm>>

\* The process dies, or drain aborts the task, at an await.
JCrash(a) ==
    /\ jact[a].pc # "none"
    /\ JFault
    /\ jact' = [jact EXCEPT ![a] = Gone]
    /\ UNCHANGED <<journal, snapshot, answered, unsent, harm>>

-----------------------------------------------------------------------------
JournalInit ==
    /\ journal = <<>> /\ snapshot = NoSnapshot
    /\ jact = [a \in JSlots |-> Gone]
    /\ answered = {} /\ unsent = JMessages
    /\ jfaults = 0 /\ harm = {}

JournalNext ==
    \E a \in JSlots :
        \/ JActivate(a) \/ LoadSnapshot(a) \/ LoadEvents(a)
        \/ \E m \in JMessages : Handle(a, m)
        \/ AppendEvents(a) \/ SaveSnapshot(a)
        \/ Stop(a) \/ Removed(a) \/ JCrash(a)

JournalSpec == JournalInit /\ [][JournalNext]_jvars

-----------------------------------------------------------------------------
\* The state the next activation would start from.
Rebuilt == ApplyAll(snapshot.state, EventsAfter(snapshot.seq))

\* As long as no event was left out of an append or of a replay and activations
\* did not overlap, snapshot and replay rebuild exactly the journal, in order,
\* and an activation holds a prefix of it: crashes, panics and failing snapshots
\* at any await, and starting fresh when the snapshot cannot be read, lose,
\* repeat and reorder nothing, and what was answered survives them.
ReplayIsJournal ==
    harm = {} =>
        /\ Rebuilt = journal
        /\ answered \subseteq Range(Rebuilt)
        /\ \A a \in JSlots : jact[a].pc \in {"idle", "append", "save", "final"} =>
              IsPrefix(jact[a].state, journal)

\* No event is ever applied twice, neither in an activation nor in what the next
\* one rebuilds, whatever fails and even when activations overlap.  The one
\* exception is an append that reports failure after it appended.
AppliedOnce ==
    "ack" \notin harm =>
        /\ IsInjective(Rebuilt)
        /\ \A a \in JSlots : IsInjective(jact[a].state)

\* persistent_silo.rs:615 says that events are "persisted to the journal and
\* applied to state atomically": an answered event is in the journal.
AnsweredIsJournaled == answered \subseteq Range(journal)
=============================================================================
