----------------------------- MODULE Replication -----------------------------
(***************************************************************************)
(* One replicated persistent grain, sequential or reentrant, and the way of  *)
(* its state to a replica in another cluster: every turn gives its state to  *)
(* a ReplicationSink, which numbers it and puts it in a bounded channel; a   *)
(* pump appends it to the replication log; the consumer of the other         *)
(* cluster polls the log and keeps the latest state.                         *)
(*                                                                         *)
(* A reentrant grain spawns a task per message.  The tasks take turns at     *)
(* the state, but save and send what they serialized after they let go of    *)
(* it.  The grain's state is the sequence of messages handled; 0 stands for  *)
(* the part a panicking handler did.                                         *)
(***************************************************************************)
EXTENDS Integers, Sequences, FiniteSets, SequencesExt

CONSTANTS
    RMessages,      \* messages, each sent once
    LogKinds,       \* ReplicationLog implementations in use
    MaxConcurrent,  \* MAX_CONCURRENT: tasks of a reentrant activation
    Capacity,       \* of the sink's channel
    BatchLimit,     \* entries a poll of the consumer reads
    MaxRFaults      \* bound: failing calls, panics, crashes and restarts

ASSUME ReplicationAssumption ==
    /\ LogKinds \subseteq {"memory", "sqlite", "postgres"}
    /\ {MaxConcurrent, Capacity, BatchLimit} \subseteq Nat \ {0} /\ MaxRFaults \in Nat

VARIABLES
    reentrant, writeThrough, logKind,   \* what the grain and its log are
    ract,       \* the activation: [pc, state]
    turn,       \* message -> [pc, bytes, seq]
    rstore,     \* the state in the store
    nextSeq,    \* next_sequence of the sink
    chan,       \* the entries in the sink's channel
    rlog,       \* the replication log
    lastSeq,    \* last_sequence of the consumer
    replica,    \* the consumer's copy: [seq, state]
    rfaults,    \* faults so far
    rharm       \* history: entries that were dropped, saves that failed, ...

kindvars == <<reentrant, writeThrough, logKind>>
rvars == <<kindvars, ract, turn, rstore, nextSeq, chan, rlog, lastSeq, replica, rfaults, rharm>>

-----------------------------------------------------------------------------
RFault == rfaults < MaxRFaults /\ rfaults' = rfaults + 1

FinalTurn == 0      \* the last save of the activation, as a turn of its own
Turns == RMessages \cup {FinalTurn}

At(pcs) == {m \in Turns : turn[m].pc \in pcs}
InFlight == At({"spawned", "flush", "sequence", "send"})

To(m, pc) == [turn EXCEPT ![m].pc = pc]

-----------------------------------------------------------------------------
(* The log: whether an entry is accepted, what a poll reads. *)

SeqsOf(log) == {log[i].seq : i \in DOMAIN log}

InMemoryAccepts(e) == rlog = <<>> \/ e.seq > Last(rlog).seq
SqliteAccepts(e) == \A n \in SeqsOf(rlog) : e.seq > n
PostgresAccepts(e) == \A n \in SeqsOf(rlog) : e.seq > n

Accepts(e) ==
    CASE logKind = "memory"   -> InMemoryAccepts(e)
      [] logKind = "sqlite"   -> SqliteAccepts(e)
      [] logKind = "postgres" -> PostgresAccepts(e)

\* read_from: in log order, or ORDER BY sequence.
Limited(s) == SubSeq(s, 1, IF Len(s) < BatchLimit THEN Len(s) ELSE BatchLimit)
After(n) == SelectSeq(rlog, LAMBDA e : e.seq > n)
InMemoryReads(n) == Limited(After(n))
SqliteReads(n) == Limited(SortSeq(After(n), LAMBDA e, f : e.seq < f.seq))
PostgresReads(n) == Limited(SortSeq(After(n), LAMBDA e, f : e.seq < f.seq))

ReadFrom(n) ==
    CASE logKind = "memory"   -> InMemoryReads(n)
      [] logKind = "sqlite"   -> SqliteReads(n)
      [] logKind = "postgres" -> PostgresReads(n)

\* latest_sequence; a new sink starts one above it.
LatestSequence == IF rlog = <<>> THEN 0 ELSE Last(rlog).seq

-----------------------------------------------------------------------------
(* The activation. *)

\* load_or_default, on_activate, and a sink for the activation, which starts for
\* a message and receives that first.
RActivate(m) ==
    /\ ract.pc = "none"
    /\ turn[m].pc = "new"
    /\ ract' = [pc |-> "run", state |-> rstore]
    /\ nextSeq' = LatestSequence + 1
    /\ turn' = [turn EXCEPT ![m].pc = "spawned", ![FinalTurn] = [pc |-> "new", bytes |-> <<>>, seq |-> 0]]
    /\ rharm' = IF chan # <<>> THEN rharm \cup {"number"} ELSE rharm
    /\ UNCHANGED <<kindvars, rstore, chan, rlog, lastSeq, replica, rfaults>>

\* The loops: a sequential one handles a message to its end, a reentrant one
\* spawns a task unless it has MAX_CONCURRENT already.
Receive(m) ==
    /\ ract.pc = "run"
    /\ turn[m].pc = "new"
    /\ Cardinality(InFlight) < (IF reentrant THEN MaxConcurrent ELSE 1)
    /\ turn' = To(m, "spawned")
    /\ UNCHANGED <<kindvars, ract, rstore, nextSeq, chan, rlog, lastSeq, replica, rfaults, rharm>>

\* The handler, under the lock of the state, and the serialization.
RunTurn(m) ==
    /\ turn[m].pc = "spawned"
    /\ ract' = [ract EXCEPT !.state = Append(@, m)]
    /\ turn' = [turn EXCEPT ![m] = [pc |-> IF writeThrough THEN "flush" ELSE "sequence",
                                    bytes |-> ract'.state, seq |-> 0]]
    /\ UNCHANGED <<kindvars, rstore, nextSeq, chan, rlog, lastSeq, replica, rfaults, rharm>>

\* A panic faults a sequential activation.  A reentrant one logs it and goes on
\* with what the handler left behind.
TurnPanic(m) ==
    /\ turn[m].pc = "spawned" /\ RFault
    /\ turn' = To(m, "done")
    /\ ract' = [pc |-> IF reentrant THEN ract.pc ELSE "faulted", state |-> Append(ract.state, 0)]
    /\ rharm' = rharm \cup {"panic"}
    /\ UNCHANGED <<kindvars, rstore, nextSeq, chan, rlog, lastSeq, replica>>


\* flush_bytes, or save_with_retry at the end.  A failure faults a sequential
\* activation, ends the last save, and is ignored by a reentrant task.
Flush(m) ==
    /\ turn[m].pc = "flush"
    /\ \/ /\ rstore' = turn[m].bytes
          /\ turn' = To(m, "sequence")
          /\ UNCHANGED <<ract, rfaults, rharm>>
       \/ /\ RFault /\ rstore' = rstore /\ rharm' = rharm \cup {"save"}
          /\ turn' = To(m, IF m # FinalTurn /\ reentrant THEN "sequence" ELSE "done")
          /\ ract' = IF m # FinalTurn /\ ~reentrant THEN [ract EXCEPT !.pc = "faulted"] ELSE ract
    /\ UNCHANGED <<kindvars, nextSeq, chan, rlog, lastSeq, replica>>

\* ReplicationSink::send: take a number, then put the entry in the channel.
TakeSequence(m) ==
    /\ turn[m].pc = "sequence"
    /\ turn' = [turn EXCEPT ![m].pc = "send", ![m].seq = nextSeq]
    /\ nextSeq' = nextSeq + 1
    /\ UNCHANGED <<kindvars, ract, rstore, chan, rlog, lastSeq, replica, rfaults, rharm>>

TrySend(m) ==
    /\ turn[m].pc = "send"
    /\ turn' = To(m, "done")
    /\ IF Len(chan) < Capacity
       THEN chan' = Append(chan, [seq |-> turn[m].seq, state |-> turn[m].bytes]) /\ rharm' = rharm
       ELSE chan' = chan /\ rharm' = rharm \cup {"full"}
    /\ UNCHANGED <<kindvars, ract, rstore, nextSeq, rlog, lastSeq, replica, rfaults>>

\* Idle timeout or closed mailbox.
EndLoop ==
    /\ ract.pc = "run"
    /\ ~reentrant => InFlight = {}
    /\ ract' = [ract EXCEPT !.pc = "drain"]
    /\ UNCHANGED <<kindvars, turn, rstore, nextSeq, chan, rlog, lastSeq, replica, rfaults, rharm>>

FinalSaveFrom(waitsFor) ==
    /\ ract.pc = "drain"
    /\ waitsFor = {}
    /\ ract' = [ract EXCEPT !.pc = "final"]
    /\ turn' = [turn EXCEPT ![FinalTurn] = [pc |-> "flush", bytes |-> ract.state, seq |-> 0]]
    /\ UNCHANGED <<kindvars, rstore, nextSeq, chan, rlog, lastSeq, replica, rfaults, rharm>>


\* The rest of the tasks, on_deactivate, then the last save.
FinalSave == FinalSaveFrom(InFlight)

RRemoved ==
    /\ \/ ract.pc = "final" /\ turn[FinalTurn].pc = "done"
       \/ ract.pc = "faulted"
    /\ ract' = [pc |-> "none", state |-> <<>>]
    /\ UNCHANGED <<kindvars, turn, rstore, nextSeq, chan, rlog, lastSeq, replica, rfaults, rharm>>

\* The primary's process dies, and with it the tasks, the sink and the pump.
RCrash ==
    /\ ract.pc # "none" /\ RFault
    /\ ract' = [pc |-> "none", state |-> <<>>]
    /\ turn' = [m \in Turns |-> IF m \in InFlight THEN [turn[m] EXCEPT !.pc = "done"] ELSE turn[m]]
    /\ chan' = <<>>
    /\ rharm' = rharm \cup {"crash"}
    /\ UNCHANGED <<kindvars, rstore, nextSeq, rlog, lastSeq, replica>>

-----------------------------------------------------------------------------
(* The pump, the log's compaction, and the consumer. *)

Pump ==
    /\ chan # <<>> /\ chan' = Tail(chan)
    /\ \/ /\ rlog' = IF Accepts(Head(chan)) THEN Append(rlog, Head(chan)) ELSE rlog
          /\ rharm' = IF Accepts(Head(chan)) THEN rharm ELSE rharm \cup {"conflict"}
          /\ UNCHANGED rfaults
       \/ RFault /\ rlog' = rlog /\ rharm' = rharm \cup {"append"}
    /\ UNCHANGED <<kindvars, ract, turn, rstore, nextSeq, lastSeq, replica>>

\* truncate(before_sequence), up to the latest entry.
Truncate ==
    /\ Len(rlog) > 1
    /\ \E n \in SeqsOf(rlog) : rlog' = SelectSeq(rlog, LAMBDA e : e.seq >= n)
    /\ rlog' # rlog
    /\ UNCHANGED <<kindvars, ract, turn, rstore, nextSeq, chan, lastSeq, replica, rfaults, rharm>>

Poll ==
    LET entries == ReadFrom(lastSeq)
    IN  /\ entries # <<>>
        /\ replica' = Last(entries)
        /\ lastSeq' = Last(entries).seq
        /\ UNCHANGED <<kindvars, ract, turn, rstore, nextSeq, chan, rlog, rfaults, rharm>>

NoReplica == [seq |-> 0, state |-> <<>>]


\* The secondary restarts: the ReplicaStore is in memory.
ConsumerRestart ==
    /\ replica # NoReplica /\ RFault
    /\ replica' = NoReplica /\ lastSeq' = 0
    /\ UNCHANGED <<kindvars, ract, turn, rstore, nextSeq, chan, rlog, rharm>>

-----------------------------------------------------------------------------
ReplicationStart(re, through, kind) ==
    /\ reentrant = re /\ writeThrough = through /\ logKind = kind
    /\ ract = [pc |-> "none", state |-> <<>>]
    /\ turn = [m \in Turns |-> [pc |-> "new", bytes |-> <<>>, seq |-> 0]]
    /\ rstore = <<>> /\ nextSeq = 1 /\ chan = <<>> /\ rlog = <<>>
    /\ lastSeq = 0 /\ replica = NoReplica
    /\ rfaults = 0 /\ rharm = {}

ReplicationInit ==
    \E re, through \in BOOLEAN, kind \in LogKinds : ReplicationStart(re, through, kind)

ReplicationNext ==
    \/ EndLoop \/ FinalSave \/ RRemoved \/ RCrash
    \/ \E m \in RMessages : RActivate(m) \/ Receive(m) \/ RunTurn(m) \/ TurnPanic(m)
    \/ \E m \in Turns : Flush(m) \/ TakeSequence(m) \/ TrySend(m)
    \/ Pump \/ Truncate \/ Poll \/ ConsumerRestart

ReplicationSpec == ReplicationInit /\ [][ReplicationNext]_rvars

-----------------------------------------------------------------------------


=============================================================================
