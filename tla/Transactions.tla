---------------------------- MODULE Transactions ----------------------------
(***************************************************************************)
(* One transactional grain of a PersistentSilo, the store its state is in,  *)
(* and the coordinators that call it.  A handler may checkpoint, re-read,   *)
(* clear and conditionally save the state through its TransactionContext;   *)
(* when it fails, the envelope restores the state it found, in memory only. *)
(*                                                                         *)
(* The grain's state is the set of messages whose handlers changed it.  A   *)
(* row is what the store holds: the state, its encoding, its ETag (0: none) *)
(* and, as history, the number of the write that put it there (0: no row).  *)
(* A call of a database or of the in-memory store is one step; the file     *)
(* store keeps state and ETag in two files and awaits each.                 *)
(***************************************************************************)
EXTENDS Integers, Sequences, FiniteSets, SequencesExt

CONSTANTS
    Stores,         \* <<StateStore implementation, encoding it was given>>
    TSlots,         \* activations that may run at a time
    Program,        \* Program[t]: the messages coordinator t asks, in order
    MaxOps,         \* bound: store calls of a turn
    MaxTFaults      \* bound: failing calls, panics and crashes

ASSUME TransactionsAssumption ==
    /\ Stores \subseteq {"memory", "sqlite", "postgres", "redis", "file"} \X {"bincode", "json"}
    /\ MaxOps \in Nat /\ MaxTFaults \in Nat

VARIABLES
    backend, format,    \* the grain's store and its encoding
    row,                \* the grain's row
    version,            \* the AtomicU64 of the in-memory and the file store
    tact,               \* slot -> the activation in it
    tx,                 \* coordinator -> what it is doing
    okd, failed,        \* messages whose handlers returned Ok, Err
    durable,            \* messages that were checkpointed and then returned Ok
    leaked,             \* messages some checkpoint was taken with
    writes,             \* history: number of the last write
    tfaults,            \* faults so far
    tharm               \* history: what may cost an acknowledged checkpoint

tvars == <<backend, format, row, version, tact, tx, okd, failed, durable, leaked,
           writes, tfaults, tharm>>

Txs == DOMAIN Program
TMessages == UNION {Range(Program[t]) : t \in Txs}

-----------------------------------------------------------------------------
(* The stores: the row after a call, or whether a conditional save goes on. *)

NoRow == [write |-> 0, state |-> {}, fmt |-> "bincode", tag |-> 0]
NoTag == [write |-> 0, tag |-> 0]

Row(state, fmt, tag) == [write |-> writes + 1, state |-> state, fmt |-> fmt, tag |-> tag]

\* next_etag hands out numbers that were never used; the databases count the
\* writes of the row, from 1.
MemoryTag == version
SqliteTag == IF row = NoRow THEN 1 ELSE row.tag + 1
PostgresTag == IF row = NoRow THEN 1 ELSE row.tag + 1
RedisTag == row.tag + 1     \* HINCRBY of an absent field counts from 0

SaveTag ==
    CASE backend = "memory"   -> MemoryTag
      [] backend = "sqlite"   -> SqliteTag
      [] backend = "postgres" -> PostgresTag
      [] backend = "redis"    -> RedisTag

\* save_with_etag, by the ETag h the caller expects: the condition, the new tag.
MemoryMatches(h) == IF h.tag = 0 THEN row = NoRow ELSE row # NoRow /\ h.tag = row.tag
SqliteMatches(h) == IF h.tag = 0 THEN row = NoRow ELSE row.tag = h.tag
PostgresMatches(h) == IF h.tag = 0 THEN row = NoRow ELSE row.tag = h.tag
RedisMatches(h) == IF h.tag = 0 THEN row = NoRow ELSE row # NoRow /\ row.tag = h.tag
FileMatches(h) == h.tag = row.tag


Matches(h) ==
    CASE backend = "memory"   -> MemoryMatches(h)
      [] backend = "sqlite"   -> SqliteMatches(h)
      [] backend = "postgres" -> PostgresMatches(h)
      [] backend = "redis"    -> RedisMatches(h)
      [] backend = "file"     -> FileMatches(h)

SaveIfTag(h) == IF backend = "memory" THEN MemoryTag ELSE h.tag + 1

\* The counter moves on a save and on every conditional save, even a refused one.
Counted == version' = IF backend \in {"memory", "file"} THEN version + 1 ELSE version

TFault == tfaults < MaxTFaults /\ tfaults' = tfaults + 1

-----------------------------------------------------------------------------
(* Activations: the persistent mailbox with WriteOnDeactivate. *)

Idle == [pc |-> "none", state |-> {}, base |-> {}, cur |-> 0, ops |-> 0,
         saved |-> FALSE, cond |-> FALSE, held |-> NoTag, queue |-> <<>>]

\* JSON bytes may pass for bincode, as anything; bincode bytes are no JSON.
\* 0 stands for a state nobody wrote.
Decodes(fmt) ==
    IF row.fmt = fmt THEN {row.state}
    ELSE IF row.fmt = "json" THEN {{0}} ELSE {}

Ending(a) == tact[a].pc \in {"data", "tag"} /\ tact[a].cur = 0

Overlap(a) == IF \E b \in TSlots \ {a} : tact[b].pc # "none" THEN {"overlap"} ELSE {}

\* load_or_default: three attempts, then the default state.  A second activation
\* starts while the first one ends, or in another silo that shares the store (the
\* file store is one silo's).  An activation starts for an ask, whose message waits in the mailbox meanwhile.
TActivate(a, t) ==
    /\ tact[a].pc = "none"
    /\ backend = "file" => \A b \in TSlots : tact[b].pc = "none" \/ Ending(b)
    /\ tx[t].st = "asking" /\ tx' = [tx EXCEPT ![t].st = "waiting"]
    /\ LET Loads(s, harm) ==
              /\ tact' = [tact EXCEPT ![a] = [Idle EXCEPT !.pc = "idle", !.state = s,
                                                        !.queue = <<Program[t][tx[t].at]>>]]
              /\ tharm' = tharm \cup Overlap(a) \cup harm
       IN  \/ row.write = 0 /\ Loads({}, {}) /\ UNCHANGED tfaults
           \/ row.write # 0 /\ (\E s \in Decodes(format) : Loads(s, {})) /\ UNCHANGED tfaults
           \/ row.write # 0 /\ Decodes(format) = {} /\ Loads({}, {"format"}) /\ UNCHANGED tfaults
           \/ row.write # 0 /\ TFault /\ Loads({}, {"load"})
    /\ UNCHANGED <<backend, format, row, version, okd, failed, durable, leaked, writes>>

Begins(a, base) ==
    /\ tact[a].pc = "idle" /\ tact[a].queue # <<>>
    /\ LET m == Head(tact[a].queue)
       IN  tact' = [tact EXCEPT ![a] = [@ EXCEPT !.pc = "turn", !.cur = m, !.ops = 0, !.saved = FALSE,
                       !.base = base, !.state = @ \cup {m}, !.queue = Tail(@)]]
    /\ UNCHANGED <<backend, format, row, version, tx, okd, failed, durable, leaked, writes, tfaults, tharm>>

\* A variant of Begin that takes its snapshot after the handler's first change.
BeginLate(a) == tact[a].queue # <<>> /\ Begins(a, tact[a].state \cup {Head(tact[a].queue)})

\* The envelope's closure: snapshot the state, then the handler changes it.
Begin(a) == Begins(a, tact[a].state)

-----------------------------------------------------------------------------
(* TransactionContext: the store calls of a turn. *)

InTurn(a) == tact[a].pc = "turn" /\ tact[a].ops < MaxOps

Goes(a, pc) == [tact[a] EXCEPT !.pc = pc, !.ops = @ + 1]

Checkpointed(a) == leaked' = leaked \cup tact[a].state

\* save_state writes bincode, whatever the store was given.
SaveState(a) ==
    /\ InTurn(a) /\ backend # "file"
    /\ row' = Row(tact[a].state, "bincode", SaveTag)
    /\ writes' = writes + 1 /\ Counted /\ Checkpointed(a)
    /\ tact' = [tact EXCEPT ![a] = [Goes(a, "turn") EXCEPT !.saved = TRUE]]
    /\ UNCHANGED <<backend, format, tx, okd, failed, durable, tfaults, tharm>>

\* read_state decodes bincode.  The handler may take the state it gets.
ReadState(a) ==
    /\ InTurn(a) /\ row.write # 0
    /\ \E s \in Decodes("bincode") :
          tact' = [tact EXCEPT ![a] = [Goes(a, "turn") EXCEPT !.state = s \cup {tact[a].cur}]]
    /\ tharm' = IF row.fmt = "json" THEN tharm \cup {"format"} ELSE tharm
    /\ UNCHANGED <<backend, format, row, version, tx, okd, failed, durable, leaked, writes, tfaults>>

ClearState(a) ==
    /\ InTurn(a) /\ backend # "file"
    /\ row' = NoRow
    /\ tharm' = IF row = NoRow THEN tharm ELSE tharm \cup {"clear"}
    /\ tact' = [tact EXCEPT ![a] = Goes(a, "turn")]
    /\ UNCHANGED <<backend, format, version, tx, okd, failed, durable, leaked, writes, tfaults>>

LoadEtag(a) ==
    /\ InTurn(a) /\ backend # "file"
    /\ tact' = [tact EXCEPT ![a] = [Goes(a, "turn") EXCEPT !.held = [write |-> row.write, tag |-> row.tag]]]
    /\ UNCHANGED <<backend, format, row, version, tx, okd, failed, durable, leaked, writes, tfaults, tharm>>

SaveWithEtag(a) ==
    /\ InTurn(a) /\ backend # "file"
    /\ Counted
    /\ IF Matches(tact[a].held)
       THEN /\ row' = Row(tact[a].state, "bincode", SaveIfTag(tact[a].held))
            /\ writes' = writes + 1 /\ Checkpointed(a)
            /\ tact' = [tact EXCEPT ![a] = [Goes(a, "turn") EXCEPT !.saved = TRUE,
                           !.held = [write |-> row'.write, tag |-> row'.tag]]]
       ELSE /\ tact' = [tact EXCEPT ![a] = Goes(a, "turn")]
            /\ UNCHANGED <<row, writes, leaked>>
    /\ UNCHANGED <<backend, format, tx, okd, failed, durable, tfaults, tharm>>

\* A call that fails changes nothing: the handler gets the error and goes on or
\* returns Err, which it may do anyway.

-----------------------------------------------------------------------------
(* The same calls of the file store: <key>.bin, then <key>.etag. *)

\* save, delete, load_with_etag, save_with_etag start.
FileCall(a) ==
    /\ InTurn(a) /\ backend = "file"
    /\ \/ \E pc \in {"data", "remove", "read"} :
             tact' = [tact EXCEPT ![a] = [Goes(a, pc) EXCEPT !.cond = FALSE]]
       \/ tact' = [tact EXCEPT ![a] = [Goes(a, IF Matches(@.held) THEN "data" ELSE "turn") EXCEPT !.cond = TRUE]]
    /\ UNCHANGED <<backend, format, row, version, tx, okd, failed, durable, leaked, writes, tfaults, tharm>>

\* A turn's save is bincode; the last save of the activation is in the store's
\* format.
Encoding(a) == IF tact[a].cur = 0 THEN format ELSE "bincode"

FileData(a) ==
    /\ tact[a].pc = "data"
    /\ row' = Row(tact[a].state, Encoding(a), row.tag)
    /\ writes' = writes + 1
    /\ IF tact[a].cur = 0 THEN leaked' = leaked ELSE Checkpointed(a)
    /\ tact' = [tact EXCEPT ![a].pc = "tag", ![a].held.write = IF tact[a].cond THEN row'.write ELSE @]
    /\ UNCHANGED <<backend, format, version, tx, okd, failed, durable, tfaults, tharm>>

FileTag(a) ==
    /\ tact[a].pc = "tag"
    /\ row' = [row EXCEPT !.tag = version] /\ Counted
    /\ tact' = [tact EXCEPT ![a] =
          IF @.cur = 0 THEN Idle
          ELSE [@ EXCEPT !.pc = "turn", !.saved = TRUE,
                         !.held.tag = IF tact[a].cond THEN version ELSE @]]
    /\ UNCHANGED <<backend, format, tx, okd, failed, durable, leaked, writes, tfaults, tharm>>

FileRemove(a) ==
    /\ \/ /\ tact[a].pc = "remove"
          /\ row' = [NoRow EXCEPT !.tag = row.tag]
          /\ tact' = [tact EXCEPT ![a].pc = "untag"]
       \/ /\ tact[a].pc = "untag"
          /\ row' = [row EXCEPT !.tag = 0]
          /\ tact' = [tact EXCEPT ![a].pc = "turn"]
    /\ tharm' = IF row = NoRow THEN tharm ELSE tharm \cup {"clear"}
    /\ UNCHANGED <<backend, format, version, tx, okd, failed, durable, leaked, writes, tfaults>>

\* load_with_etag gives state without an ETag a new one.
FileRead(a) ==
    /\ \/ /\ tact[a].pc = "read"
          /\ tact' = [tact EXCEPT ![a] = IF row.write = 0 THEN [@ EXCEPT !.pc = "turn", !.held = NoTag]
                                         ELSE [@ EXCEPT !.pc = "etag", !.held = [write |-> row.write, tag |-> 0]]]
          /\ UNCHANGED <<row, version>>
       \/ /\ tact[a].pc = "etag"
          /\ IF row.tag = 0 THEN row' = [row EXCEPT !.tag = version] /\ Counted
             ELSE UNCHANGED <<row, version>>
          /\ tact' = [tact EXCEPT ![a].pc = "turn", ![a].held.tag = row'.tag]
    /\ UNCHANGED <<backend, format, tx, okd, failed, durable, leaked, writes, tfaults, tharm>>

-----------------------------------------------------------------------------
(* The end of a turn, and of an activation. *)

\* A variant of Answered that drops the `?`.
AnsweredAnyway(t, ok) ==
    IF tx[t].at = Len(Program[t]) THEN [tx[t] EXCEPT !.st = "committed"]
    ELSE [at |-> tx[t].at + 1, st |-> "asking"]

\* TransactionCoordinator::execute, over a closure that asks in order: `?` on an
\* answer gives the next ask, Ok after the last one, or Aborted.
Answered(t, ok) ==
    IF ~ok THEN [tx[t] EXCEPT !.st = "aborted"]
    ELSE IF tx[t].at = Len(Program[t]) THEN [tx[t] EXCEPT !.st = "committed"]
    ELSE [at |-> tx[t].at + 1, st |-> "asking"]

\* The answer reaches the coordinator that still waits for it.
Reply(S, ok) ==
    tx' = [t \in Txs |-> IF tx[t].st = "waiting" /\ Program[t][tx[t].at] \in S
                         THEN Answered(t, ok) ELSE tx[t]]

EndTurn(a, state) ==
    tact' = [tact EXCEPT ![a] = [@ EXCEPT !.pc = "idle", !.cur = 0, !.ops = 0, !.state = state, !.base = {},
                                          !.saved = FALSE, !.cond = FALSE]]

TurnOk(a) ==
    /\ tact[a].pc = "turn"
    /\ EndTurn(a, tact[a].state)
    /\ Reply({tact[a].cur}, TRUE)
    /\ okd' = okd \cup {tact[a].cur}
    /\ durable' = IF tact[a].saved THEN durable \cup {tact[a].cur} ELSE durable
    /\ UNCHANGED <<backend, format, row, version, failed, leaked, writes, tfaults, tharm>>

\* A variant of TurnErr that rolls back to the default state.
TurnErrDefault(a) ==
    /\ tact[a].pc = "turn"
    /\ EndTurn(a, {})
    /\ Reply({tact[a].cur}, FALSE)
    /\ failed' = failed \cup {tact[a].cur}
    /\ UNCHANGED <<backend, format, row, version, okd, durable, leaked, writes, tfaults, tharm>>

\* Rollback: *state = snapshot.  What the handler wrote to the store stays.
TurnErr(a) ==
    /\ tact[a].pc = "turn"
    /\ EndTurn(a, tact[a].base)
    /\ Reply({tact[a].cur}, FALSE)
    /\ failed' = failed \cup {tact[a].cur}
    /\ UNCHANGED <<backend, format, row, version, okd, durable, leaked, writes, tfaults, tharm>>

Holding(a) == Range(tact[a].queue) \cup {tact[a].cur}

\* A panic faults the activation: no rollback, no last save, the mailbox goes.
TurnPanics(a) ==
    /\ tact[a].pc = "turn" /\ TFault
    /\ Reply(Holding(a), FALSE)
    /\ tact' = [tact EXCEPT ![a] = Idle]
    /\ UNCHANGED <<backend, format, row, version, okd, failed, durable, leaked, writes, tharm>>

\* Idle timeout, then save_with_retry in the store's format.
Deactivate(a) ==
    /\ tact[a].pc = "idle" /\ tact[a].queue = <<>>
    /\ \/ /\ backend = "file" /\ tact' = [tact EXCEPT ![a].pc = "data"]
          /\ UNCHANGED <<row, version, writes, tfaults>>
       \/ /\ backend # "file"
          /\ row' = Row(tact[a].state, format, SaveTag) /\ writes' = writes + 1 /\ Counted
          /\ tact' = [tact EXCEPT ![a] = Idle] /\ tfaults' = tfaults
       \/ /\ TFault /\ tact' = [tact EXCEPT ![a] = Idle]
          /\ UNCHANGED <<row, version, writes>>
    /\ UNCHANGED <<backend, format, tx, okd, failed, durable, leaked, tharm>>

\* The silo's process dies.  The in-memory store dies with it, the file store
\* counts ETags from 1 again, and a file that is being written may be cut off.
TCrash ==
    /\ TFault
    /\ \E a \in TSlots : tact[a].pc # "none"
    /\ Reply(UNION {Holding(a) : a \in TSlots}, FALSE)
    /\ tact' = [a \in TSlots |-> Idle]
    /\ version' = 1
    /\ \/ row' = (IF backend = "memory" THEN NoRow ELSE row)
          /\ tharm' = tharm \cup (IF backend \in {"memory", "file"} THEN {"restart"} ELSE {})
       \/ /\ backend = "file" /\ \E a \in TSlots : tact[a].pc = "data"
          /\ row' = [row EXCEPT !.write = writes + 1, !.fmt = "torn"]
          /\ tharm' = tharm \cup {"restart", "load"}
    /\ writes' = IF row'.write > writes THEN row'.write ELSE writes
    /\ UNCHANGED <<backend, format, okd, failed, durable, leaked>>

-----------------------------------------------------------------------------
(* The coordinators. *)

\* The next ask: the message is put in an activation's mailbox.
TAsk(t, a) ==
    /\ tx[t].st = "asking" /\ tact[a].pc \notin {"none"}
    /\ tact[a].cur # 0 \/ tact[a].pc = "idle"
    /\ tact' = [tact EXCEPT ![a].queue = Append(@, Program[t][tx[t].at])]
    /\ tx' = [tx EXCEPT ![t].st = "waiting"]
    /\ UNCHANGED <<backend, format, row, version, okd, failed, durable, leaked, writes, tfaults, tharm>>

\* The timeout, of the coordinator or of the ask: the closure is dropped, the
\* message it asked stays in the mailbox.
TTimeout(t) ==
    /\ tx[t].st \in {"asking", "waiting"}
    /\ tx' = [tx EXCEPT ![t].st = "timeout"]
    /\ UNCHANGED <<backend, format, row, version, tact, okd, failed, durable, leaked, writes, tfaults, tharm>>

-----------------------------------------------------------------------------
TxStart(store) ==
    /\ backend = store[1] /\ format = store[2]
    /\ row = NoRow /\ version = 1
    /\ tact = [a \in TSlots |-> Idle]
    /\ tx = [t \in Txs |-> [at |-> 1, st |-> "asking"]]
    /\ okd = {} /\ failed = {} /\ durable = {} /\ leaked = {}
    /\ writes = 0 /\ tfaults = 0 /\ tharm = {}

TxInit == \E store \in Stores : TxStart(store)

TxNext ==
    \/ \E a \in TSlots :
          \/ Begin(a)
          \/ SaveState(a) \/ ReadState(a) \/ ClearState(a) \/ LoadEtag(a) \/ SaveWithEtag(a)
          \/ FileCall(a) \/ FileData(a) \/ FileTag(a) \/ FileRemove(a) \/ FileRead(a)
          \/ TurnOk(a) \/ TurnErr(a) \/ TurnPanics(a) \/ Deactivate(a)
          \/ \E t \in Txs : TActivate(a, t) \/ TAsk(t, a)
    \/ TCrash
    \/ \E t \in Txs : TTimeout(t)

TxSpec == TxInit /\ [][TxNext]_tvars

-----------------------------------------------------------------------------
\* Rollback: between turns no activation holds the change of a handler that
\* returned Err, unless some checkpoint was taken with it in the state, which
\* rollback does not undo.
FailedLeavesNoTrace ==
    \A a \in TSlots : tact[a].pc = "idle" => tact[a].state \cap failed \subseteq leaked

\* A message that was checkpointed and answered Ok is in the store from then on,
\* through rollbacks, panics and crashes.  Exempt are grains whose activations
\* overlap, that clear their state, whose load failed, or whose store writes
\* another format than save_state, and the in-memory store after a restart.
CheckpointKept ==
    tharm \subseteq (IF backend = "file" THEN {"restart"} ELSE {}) => durable \subseteq row.state

\* A coordinator's handlers succeed in the order of its program, also when it
\* timed out and its last message runs later, and a committed transaction had
\* all of them succeed: an abort leaves a prefix to compensate for.
SagaPrefix ==
    \A t \in Txs :
        /\ \A i, j \in DOMAIN Program[t] : i < j /\ Program[t][j] \in okd \cup failed => Program[t][i] \in okd
        /\ tx[t].st = "committed" => Range(Program[t]) \subseteq okd

\* The promise of StateStore, and where it ends: the databases count a row's
\* ETags from 1 again once it was deleted, the file store checks the ETag some
\* awaits before it writes and forgets its counter with the process.
Promised ==
    \/ backend = "memory"
    \/ backend \in {"sqlite", "postgres", "redis"} /\ "clear" \notin tharm
    \/ backend = "file" /\ tharm \subseteq {"load", "format"}

Cell == INSTANCE VersionedCell WITH
    Writers <- TSlots, cell <- row.write, last <- writes,
    seen <- [a \in TSlots |-> tact[a].held.write], trusted <- Promised

=============================================================================
