------------------------- MODULE PersistentMailbox --------------------------
(***************************************************************************)
(* One persistent grain: its successive mailbox tasks (persistent_mailbox  *)
(* run and run_versioned, sequential loop), the state each holds in        *)
(* memory, the store they load it from and save it to, and the crashes and *)
(* store failures in between.                                              *)
(*                                                                         *)
(* A grain state is the set of messages whose handlers changed it, plus a  *)
(* mark for every panic that may have torn it.  Bytes in the store also    *)
(* have a format, the state_version of the build that serialized them.     *)
(* The directory is reduced to this grain's entry, get_or_insert to one    *)
(* step: GrainDirectory has the detail of both.                            *)
(***************************************************************************)
EXTENDS Naturals, Sequences, FiniteSets

CONSTANTS
    Messages,    \* the messages sent to the grain, each once
    MaxActs,     \* bound: activations
    MaxFaults,   \* bound: failing store calls
    MaxCrashes,  \* bound: crashes of the silo
    Builds,      \* the state_version of the builds that are deployed
    NoState      \* no row in the store

ASSUME MailboxAssumption ==
    /\ MaxActs \in Nat /\ MaxFaults \in Nat /\ MaxCrashes \in Nat
    /\ Builds \subseteq Nat \ {0} /\ Builds # {}

Acts == 1..MaxActs
Strategies == {"WriteThrough", "WriteBack", "WriteOnDeactivate"}
Attempts == 3

VARIABLES
    strategy,   \* PersistenceStrategy of the grain, fixed
    versioned,  \* it is a VersionedGrain (run_versioned), fixed
    build,      \* G::state_version() of the running build
    store,      \* the saved state, or NoState
    format,     \* the format of the saved bytes
    meta,       \* the version metadata row, 0 when there is none
    entry,      \* the directory entry, 0 when there is none
    lives,      \* activations spawned
    pc,         \* where each mailbox task is
    open,       \* its receiver is not dropped
    box,        \* its channel
    mem,        \* its in-memory state
    loaded,     \* the state it started from
    version,    \* run_versioned: the metadata it read
    tries,      \* failed attempts of the load or save in progress
    ask,        \* each message: new, ref, sent, acked or refused
    ref,        \* the sender its caller holds
    faults,     \* failed store calls
    crashes,    \* crashes
    history     \* what happened: "overlap", two activations were alive at once;
                \* "misread", migrate(v, _) was given bytes not of format v;
                \* "fault", an activation faulted

storeVars  == <<store, format, meta>>
callVars   == <<ask, ref>>
configVars == <<strategy, versioned, build, crashes>>
vars == <<configVars, storeVars, entry, lives, pc, open, box, mem, loaded, version, tries,
          callVars, faults, history>>

Tears == {"on_activate", "handler", "on_deactivate", "misread"}
States == SUBSET (Messages \cup Tears)

TypeOK ==
    /\ strategy \in Strategies /\ versioned \in BOOLEAN /\ build \in Builds
    /\ store \in States \cup {NoState} /\ format \in Builds \cup {0} /\ meta \in Builds \cup {0}
    /\ entry \in Acts \cup {0} /\ lives \in 0..MaxActs
    /\ pc \in [Acts -> {"unborn", "version", "load", "activate", "idle", "handle", "flush",
                        "deactivate", "save", "save_version", "remove", "gone"}]
    /\ open \in [Acts -> BOOLEAN] /\ box \in [Acts -> Seq(Messages)]
    /\ mem \in [Acts -> States] /\ loaded \in [Acts -> States]
    /\ version \in [Acts -> Builds \cup {0}] /\ tries \in [Acts -> 0..Attempts - 1]
    /\ ask \in [Messages -> {"new", "ref", "sent", "acked", "refused"}]
    /\ ref \in [Messages -> Acts \cup {0}]
    /\ faults \in 0..MaxFaults /\ crashes \in 0..MaxCrashes
    /\ history \subseteq {"overlap", "misread", "fault"}

Init ==
    /\ strategy \in Strategies /\ versioned \in BOOLEAN /\ build \in Builds
    /\ store = NoState /\ format = 0 /\ meta = 0
    /\ entry = 0 /\ lives = 0
    /\ pc = [a \in Acts |-> "unborn"]
    /\ open = [a \in Acts |-> FALSE] /\ box = [a \in Acts |-> <<>>]
    /\ mem = [a \in Acts |-> {}] /\ loaded = [a \in Acts |-> {}]
    /\ version = [a \in Acts |-> 0] /\ tries = [a \in Acts |-> 0]
    /\ ask = [m \in Messages |-> "new"] /\ ref = [m \in Messages |-> 0]
    /\ faults = 0 /\ crashes = 0 /\ history = {}

Alive(a) == pc[a] \notin {"unborn", "gone"}

IsOpen(a) == a \in {b \in Acts : open[b]}

Goto(a, label) == pc' = [pc EXCEPT ![a] = label]

(* A store call fails.                                                     *)
StoreFails == faults < MaxFaults /\ faults' = faults + 1

DropReceiver(a) ==
    /\ open' = [open EXCEPT ![a] = FALSE]
    /\ box' = [box EXCEPT ![a] = <<>>]
-----------------------------------------------------------------------------
(***************************************************************************)
(* Callers.                                                                *)
(***************************************************************************)

(* persistent_get_ref: the open entry, or a fresh activation in its place. *)
GetRef(m) ==
    /\ ask[m] = "new"
    /\ ask' = [ask EXCEPT ![m] = "ref"]
    /\ \/ /\ IsOpen(entry)
          /\ ref' = [ref EXCEPT ![m] = entry]
          /\ UNCHANGED <<entry, lives, pc, open, history>>
       \/ /\ ~IsOpen(entry)
          /\ lives < MaxActs
          /\ LET a == lives + 1 IN
             /\ lives' = a
             /\ entry' = a
             /\ ref' = [ref EXCEPT ![m] = a]
             /\ open' = [open EXCEPT ![a] = TRUE]
             /\ Goto(a, IF versioned THEN "version" ELSE "load")
          /\ history' = history \cup {"overlap" : b \in {b \in Acts : Alive(b)}}
    /\ UNCHANGED <<configVars, storeVars, box, mem, loaded, version, tries, faults>>

Ask(m) ==
    /\ ask[m] = "ref"
    /\ ref' = [ref EXCEPT ![m] = 0]
    /\ \/ /\ IsOpen(ref[m])
          /\ ask' = [ask EXCEPT ![m] = "sent"]
          /\ box' = [box EXCEPT ![ref[m]] = Append(@, m)]
       \/ /\ ~IsOpen(ref[m])
          /\ ask' = [ask EXCEPT ![m] = "refused"]
          /\ UNCHANGED box
    /\ UNCHANGED <<configVars, storeVars, entry, lives, pc, open, mem, loaded, version, tries,
                   faults, history>>
-----------------------------------------------------------------------------
(***************************************************************************)
(* Loading.                                                                *)
(***************************************************************************)

StartFrom(a, s) ==
    /\ mem' = [mem EXCEPT ![a] = s]
    /\ loaded' = [loaded EXCEPT ![a] = s]
    /\ tries' = [tries EXCEPT ![a] = 0]
    /\ Goto(a, "activate")

(* The saved state, or Default.                                            *)
Saved == IF store = NoState THEN {} ELSE store

(* Variant of LoadOrDefault: no retry.                                     *)
LoadOrDefaultOnce(a) ==
    /\ pc[a] = "load" /\ ~versioned
    /\ \/ StartFrom(a, Saved) /\ UNCHANGED faults
       \/ StoreFails /\ StartFrom(a, {})
    /\ UNCHANGED <<configVars, storeVars, entry, lives, open, box, version, callVars,
                   history>>

(* load_or_default: up to three attempts, then Default.                    *)
LoadOrDefault(a) ==
    /\ pc[a] = "load" /\ ~versioned
    /\ \/ StartFrom(a, Saved) /\ UNCHANGED faults
       \/ StoreFails /\ tries[a] = Attempts - 1 /\ StartFrom(a, {})
       \/ /\ StoreFails /\ tries[a] < Attempts - 1
          /\ tries' = [tries EXCEPT ![a] = @ + 1]
          /\ UNCHANGED <<pc, mem, loaded>>
    /\ UNCHANGED <<configVars, storeVars, entry, lives, open, box, version, callVars,
                   history>>

(* load_versioned_state reads the version metadata, then the state; an     *)
(* error of either, or a stored version newer than the build, means        *)
(* Default.                                                                *)
LoadVersion(a) ==
    /\ pc[a] = "version"
    /\ \/ /\ version' = [version EXCEPT ![a] = meta]
          /\ Goto(a, "load")
          /\ UNCHANGED <<mem, loaded, tries, faults>>
       \/ StoreFails /\ StartFrom(a, {}) /\ UNCHANGED version
    /\ UNCHANGED <<configVars, storeVars, entry, lives, open, box, callVars, history>>

(* migrate runs for every version from the one read to the build's.  Given *)
(* bytes of another format it fails to decode them, or misreads them.      *)
LoadVersioned(a) ==
    LET old == version[a] < build
        wrong == store # NoState /\ version[a] <= build /\ format # version[a]
    IN
    /\ pc[a] = "load" /\ versioned
    /\ \/ StoreFails /\ StartFrom(a, {}) /\ UNCHANGED history
       \/ /\ UNCHANGED faults
          /\ history' = IF wrong /\ old THEN history \cup {"misread"} ELSE history
          /\ \/ store = NoState /\ StartFrom(a, {})
             \/ store # NoState /\ version[a] > build /\ StartFrom(a, {})
             \/ store # NoState /\ version[a] <= build /\ ~wrong /\ StartFrom(a, Saved)
             \/ wrong /\ (StartFrom(a, {}) \/ StartFrom(a, {"misread"}))
    /\ UNCHANGED <<configVars, storeVars, entry, lives, open, box, version, callVars>>
-----------------------------------------------------------------------------
(***************************************************************************)
(* The mailbox task.  The sequential loop owns the receiver, and drops it  *)
(* when it ends: before on_deactivate, the final save and the removal.     *)
(***************************************************************************)

(* A faulted activation skips on_deactivate and the final save.            *)
Fault(a) ==
    /\ Goto(a, "remove")
    /\ DropReceiver(a)
    /\ history' = history \cup {"fault"}

OnActivate(a) ==
    /\ pc[a] = "activate"
    /\ \/ Goto(a, "idle") /\ UNCHANGED <<open, box, mem, history>>
       \/ Fault(a) /\ mem' = [mem EXCEPT ![a] = @ \cup {"on_activate"}]
    /\ UNCHANGED <<configVars, storeVars, entry, lives, loaded, version, tries, callVars, faults>>

Receive(a) ==
    /\ pc[a] = "idle" /\ box[a] # <<>>
    /\ Goto(a, "handle")
    /\ UNCHANGED <<configVars, storeVars, entry, lives, open, box, mem, loaded, version, tries,
                   callVars, faults, history>>

(* prepare_persist: whether a turn ends with a write.                      *)
PlansWrite ==
    [WriteThrough |-> {TRUE}, WriteBack |-> BOOLEAN, WriteOnDeactivate |-> {FALSE}][strategy]

(* The handler changes the state and sends the reply; then the write.      *)
Handle(a) ==
    LET m == Head(box[a]) IN
    /\ pc[a] = "handle"
    /\ box' = [box EXCEPT ![a] = Tail(@)]
    /\ mem' = [mem EXCEPT ![a] = @ \cup {m}]
    /\ ask' = [ask EXCEPT ![m] = "acked"]
    /\ \E write \in PlansWrite : Goto(a, IF write THEN "flush" ELSE "idle")
    /\ UNCHANGED <<configVars, storeVars, entry, lives, open, loaded, version, tries, ref, faults,
                   history>>

(* Variant of HandlerPanics: the activation closes as if nothing happened. *)
HandlerPanicsSaves(a) ==
    /\ pc[a] = "handle"
    /\ mem' = [mem EXCEPT ![a] = @ \cup {"handler"}]
    /\ Goto(a, "deactivate")
    /\ DropReceiver(a)
    /\ UNCHANGED <<configVars, storeVars, entry, lives, loaded, version, tries, callVars, faults,
                   history>>

HandlerPanics(a) ==
    /\ pc[a] = "handle"
    /\ mem' = [mem EXCEPT ![a] = @ \cup {"handler"}]
    /\ Fault(a)
    /\ UNCHANGED <<configVars, storeVars, entry, lives, loaded, version, tries, callVars, faults>>

Write(a) == store' = mem[a] /\ format' = build

(* Variant of FlushBytes: a failed write is only logged.                   *)
FlushBytesIgnored(a) ==
    /\ pc[a] = "flush"
    /\ Goto(a, "idle")
    /\ \/ Write(a) /\ UNCHANGED faults
       \/ StoreFails /\ UNCHANGED <<store, format>>
    /\ UNCHANGED <<configVars, meta, entry, lives, open, box, mem, loaded, version, tries,
                   callVars, history>>

(* flush_bytes, one attempt; a failed one (or state that does not          *)
(* serialize) faults the activation.  A call that fails may have written.  *)
FlushBytes(a) ==
    /\ pc[a] = "flush"
    /\ \/ Write(a) /\ Goto(a, "idle") /\ UNCHANGED <<open, box, faults, history>>
       \/ StoreFails /\ Fault(a) /\ (Write(a) \/ UNCHANGED <<store, format>>)
    /\ UNCHANGED <<configVars, meta, entry, lives, mem, loaded, version, tries, callVars>>

(* idle_timeout, or no sender left.                                        *)
StopReceiving(a) ==
    /\ pc[a] = "idle" /\ box[a] = <<>>
    /\ Goto(a, "deactivate")
    /\ DropReceiver(a)
    /\ UNCHANGED <<configVars, storeVars, entry, lives, mem, loaded, version, tries, callVars,
                   faults, history>>

(* A panic of on_deactivate is caught and otherwise ignored.               *)
OnDeactivate(a) ==
    /\ pc[a] = "deactivate"
    /\ mem' \in {mem, [mem EXCEPT ![a] = @ \cup {"on_deactivate"}]}
    /\ Goto(a, "save")
    /\ UNCHANGED <<configVars, storeVars, entry, lives, open, box, loaded, version, tries,
                   callVars, faults, history>>

(* save_with_retry: up to three attempts, or none for state that does not  *)
(* serialize.                                                              *)
SaveWithRetry(a) ==
    /\ pc[a] = "save"
    /\ \/ /\ Write(a) /\ Goto(a, IF versioned THEN "save_version" ELSE "remove")
          /\ UNCHANGED <<tries, faults>>
       \/ /\ StoreFails /\ (Write(a) \/ UNCHANGED <<store, format>>)
          /\ \/ tries[a] = Attempts - 1 /\ Goto(a, "remove") /\ UNCHANGED tries
             \/ /\ tries[a] < Attempts - 1
                /\ tries' = [tries EXCEPT ![a] = @ + 1]
                /\ UNCHANGED pc
       \/ /\ StoreFails /\ tries[a] = 0 /\ Goto(a, "remove")
          /\ UNCHANGED <<store, format, tries>>
    /\ UNCHANGED <<configVars, meta, entry, lives, open, box, mem, loaded, version, callVars,
                   history>>

(* Variant of SaveVersion: writes back the version that was loaded.        *)
SaveVersionLoaded(a) ==
    /\ pc[a] = "save_version"
    /\ Goto(a, "remove")
    /\ meta' = version[a]
    /\ UNCHANGED <<configVars, store, format, entry, lives, open, box, mem, loaded, version,
                   tries, callVars, faults, history>>

SaveVersion(a) ==
    /\ pc[a] = "save_version"
    /\ Goto(a, "remove")
    /\ \/ meta' = build /\ UNCHANGED faults
       \/ StoreFails /\ UNCHANGED meta
    /\ UNCHANGED <<configVars, store, format, entry, lives, open, box, mem, loaded, version,
                   tries, callVars, history>>

(* What the tasks in A held in memory is gone.                             *)
Forget(A) ==
    /\ mem' = [a \in Acts |-> IF a \in A THEN {} ELSE mem[a]]
    /\ loaded' = [a \in Acts |-> IF a \in A THEN {} ELSE loaded[a]]
    /\ version' = [a \in Acts |-> IF a \in A THEN 0 ELSE version[a]]
    /\ tries' = [a \in Acts |-> IF a \in A THEN 0 ELSE tries[a]]

(* activator().remove(&grain_id): whatever entry stands under the key.     *)
Remove(a) ==
    /\ pc[a] = "remove"
    /\ entry' = 0
    /\ Goto(a, "gone")
    /\ Forget({a})
    /\ UNCHANGED <<configVars, storeVars, lives, open, box, callVars, faults, history>>

(* The silo dies with everything in memory and restarts, perhaps with      *)
(* another build.                                                          *)
Crash ==
    /\ crashes < MaxCrashes
    /\ crashes' = crashes + 1
    /\ build' \in IF versioned THEN Builds ELSE {build}
    /\ entry' = 0
    /\ pc' = [a \in Acts |-> IF Alive(a) THEN "gone" ELSE pc[a]]
    /\ open' = [a \in Acts |-> FALSE]
    /\ box' = [a \in Acts |-> <<>>]
    /\ ask' = [m \in Messages |-> IF ask[m] = "ref" THEN "refused" ELSE ask[m]]
    /\ ref' = [m \in Messages |-> 0]
    /\ Forget(Acts)
    /\ UNCHANGED <<strategy, versioned, storeVars, lives, faults, history>>
-----------------------------------------------------------------------------
MailboxStep(a) ==
    \/ LoadOrDefault(a) \/ LoadVersion(a) \/ LoadVersioned(a) \/ OnActivate(a)
    \/ Receive(a) \/ Handle(a) \/ HandlerPanics(a) \/ FlushBytes(a)
    \/ StopReceiving(a) \/ OnDeactivate(a) \/ SaveWithRetry(a) \/ SaveVersion(a) \/ Remove(a)

Next ==
    \/ \E m \in Messages : GetRef(m) \/ Ask(m)
    \/ \E a \in Acts : MailboxStep(a)
    \/ Crash

Spec == Init /\ [][Next]_vars
-----------------------------------------------------------------------------
(***************************************************************************)
(* Properties.                                                             *)
(***************************************************************************)

(* persistent_mailbox.rs: a faulted activation skips the final save, so    *)
(* that the last good persisted state is preserved.  State that a handler  *)
(* or on_activate panic may have torn never reaches the store.             *)
NoTornState == store # NoState => store \cap {"on_activate", "handler"} = {}

(* WriteThrough: an activation back in its loop after a turn has its whole *)
(* state in the store, so that a crash costs at most the turn in progress; *)
(* provided no other activation of the grain ran beside it.                *)
WriteThroughDurable ==
    \A a \in Acts :
        /\ strategy = "WriteThrough" /\ "overlap" \notin history
        /\ pc[a] = "idle" /\ mem[a] # loaded[a]
        => store = mem[a]

(* load_or_default and save_with_retry retry three times: fewer failing    *)
(* store calls than that, and any panics and crashes, never lose a message *)
(* that once was in the store (activations that do not overlap).           *)
SavedIsKept ==
    [][ ~versioned /\ "overlap" \notin history' /\ faults' < Attempts /\ store # NoState
        => store \subseteq store' ]_vars

(* Versioned grains: with no crash, fault or panic, the version metadata   *)
(* is in step with the saved bytes whenever the grain is inactive, so that *)
(* the next activation migrates from the right version.                    *)
VersionInStep ==
    /\ versioned /\ history = {} /\ faults = 0 /\ crashes = 0 /\ store # NoState
    /\ \A a \in Acts : ~Alive(a)
    => format = meta

(* store.rs: WriteThrough persists state before the reply, so a crash      *)
(* loses nothing already acknowledged.  Once no activation is left, every  *)
(* acknowledged message is in the store.                                   *)
AckedIsPersisted ==
    strategy = "WriteThrough" /\ (\A a \in Acts : ~Alive(a)) =>
        \A m \in Messages : ask[m] = "acked" => m \in Saved

(* versioned_grain.rs: migrate(v, bytes) is given bytes of version v.      *)
(* Stated for activations that do not overlap.                             *)
MigratesRightVersion == "overlap" \notin history => "misread" \notin history
=============================================================================
