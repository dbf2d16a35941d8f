----------------------------- MODULE WorkerPool -----------------------------
(***************************************************************************)
(* The pool of one stateless worker grain: its entry in the directory, the  *)
(* mailbox tasks of its workers, the references that spread asks over them, *)
(* and the drain of the silo, which treats pools after the activations.     *)
(*                                                                         *)
(* Pools are numbered in the order of their creation; a worker's channel is *)
(* open until its task returned.                                            *)
(***************************************************************************)
EXTENDS Integers, FiniteSets

CONSTANTS
    PoolSize,       \* max_activations of the grain
    Handles,        \* tasks that hold a WorkerGrainRef
    MaxPools,       \* bounds: pools created,
    MaxQueued       \* and messages in the mailbox of a worker

ASSUME PoolAssumption == PoolSize \in Nat \ {0}

VARIABLES
    pool,           \* the entry of worker_pools: a pool, or 0
    worker,         \* pool, index -> where the worker's task is
    box,            \* pool, index -> messages queued
    handle,         \* task -> the pool its reference is of (0: none), and next
    drained,        \* the silo's drain has come to the pools
    doomed          \* the pool whose tasks drain aborts

pvars == <<pool, worker, box, handle, drained, doomed>>

Pools == 1 .. MaxPools
Workers == Pools \X (0 .. PoolSize - 1)

WorkersOf(p) == {w \in Workers : w[1] = p}
Open(w) == worker[w] \notin {"none", "dead"}
AnyAlive(p) == \E w \in WorkersOf(p) : Open(w)
Created == {w[1] : w \in {v \in Workers : worker[v] # "none"}}

\* The task ends and its receiver is dropped, with what is queued.
Dead(w) == worker' = [worker EXCEPT ![w] = "dead"] /\ box' = [box EXCEPT ![w] = 0]

\* A fresh pool, which takes the place of a dead one.
InsertPool(p) ==
    /\ p \notin Created /\ \A q \in Pools : q < p => q \in Created
    /\ worker' = [w \in Workers |-> IF w[1] = p THEN "run" ELSE worker[w]]
    /\ pool' = p

\* Variant: a pool is replaced as soon as one of its workers is gone.
GetOrInsertPoolAllAlive(h) ==
    /\ \/ /\ pool # 0 /\ \A w \in WorkersOf(pool) : Open(w)
          /\ UNCHANGED <<pool, worker>>
       \/ /\ pool # 0 => \E w \in WorkersOf(pool) : ~Open(w)
          /\ \E p \in Pools : InsertPool(p)
    /\ handle' = [handle EXCEPT ![h] = [pool |-> pool', next |-> 0]]
    /\ UNCHANGED <<box, drained, doomed>>

\* get_worker_ref: looks at neither the limit nor the draining flag.
GetOrInsertPool(h) ==
    /\ \/ /\ pool # 0 /\ AnyAlive(pool)
          /\ UNCHANGED <<pool, worker>>
       \/ /\ pool # 0 => ~AnyAlive(pool)
          /\ \E p \in Pools : InsertPool(p)
    /\ handle' = [handle EXCEPT ![h] = [pool |-> pool', next |-> 0]]
    /\ UNCHANGED <<box, drained, doomed>>

\* Round robin; a worker that is gone answers MailboxClosed.
AskWorker(h) ==
    LET w == <<handle[h].pool, handle[h].next>> IN
    /\ handle[h].pool # 0
    /\ IF Open(w) THEN box[w] < MaxQueued /\ box' = [box EXCEPT ![w] = @ + 1] ELSE UNCHANGED box
    /\ handle' = [handle EXCEPT ![h].next = (@ + 1) % PoolSize]
    /\ UNCHANGED <<pool, worker, drained, doomed>>

DropWorkerRef(h) ==
    /\ handle[h].pool # 0
    /\ handle' = [handle EXCEPT ![h] = [pool |-> 0, next |-> 0]]
    /\ UNCHANGED <<pool, worker, box, drained, doomed>>

\* One turn of a worker: its handler returns, or panics.
WorkerTurn(w) ==
    /\ worker[w] = "run" /\ box[w] > 0
    /\ box' = [box EXCEPT ![w] = @ - 1]
    /\ \/ UNCHANGED worker
       \/ worker' = [worker EXCEPT ![w] = "ending"]
    /\ UNCHANGED <<pool, handle, drained, doomed>>

\* No message for the idle timeout, or no sender left.
WorkerStops(w) ==
    /\ worker[w] = "run" /\ box[w] = 0
    /\ worker' = [worker EXCEPT ![w] = "ending"]
    /\ UNCHANGED <<pool, box, handle, drained, doomed>>

\* The mailbox calls remove, which looks at the pool and then lets go of it.
RemoveCheck(w) ==
    /\ worker[w] = "ending"
    /\ worker' = [worker EXCEPT ![w] =
                     IF pool # 0 /\ ~AnyAlive(pool) THEN "evicting" ELSE "closing"]
    /\ UNCHANGED <<pool, box, handle, drained, doomed>>

EvictPool(w) ==
    /\ worker[w] = "evicting"
    /\ pool' = 0
    /\ worker' = [worker EXCEPT ![w] = "closing"]
    /\ UNCHANGED <<box, handle, drained, doomed>>

WorkerCloses(w) ==
    /\ worker[w] = "closing"
    /\ Dead(w)
    /\ UNCHANGED <<pool, handle, drained, doomed>>

DrainPools ==
    /\ ~drained /\ drained' = TRUE
    /\ doomed' = pool /\ pool' = 0
    /\ UNCHANGED <<worker, box, handle>>

\* Tasks are aborted one after the other; one that is past its last await ends
\* by itself.
AbortWorker(w) ==
    /\ w[1] = doomed /\ worker[w] \in {"run", "ending"}
    /\ \A v \in WorkersOf(doomed) : v[2] < w[2] => ~Open(v)
    /\ Dead(w)
    /\ UNCHANGED <<pool, handle, drained, doomed>>

PoolInit ==
    /\ pool = 0 /\ doomed = 0 /\ drained = FALSE
    /\ worker = [w \in Workers |-> "none"] /\ box = [w \in Workers |-> 0]
    /\ handle = [h \in Handles |-> [pool |-> 0, next |-> 0]]

PoolNext ==
    \/ \E h \in Handles : GetOrInsertPool(h) \/ AskWorker(h) \/ DropWorkerRef(h)
    \/ \E w \in Workers :
        WorkerTurn(w) \/ WorkerStops(w) \/ RemoveCheck(w) \/ EvictPool(w) \/ WorkerCloses(w) \/ AbortWorker(w)
    \/ DrainPools

PoolSpec == PoolInit /\ [][PoolNext]_pvars

-----------------------------------------------------------------------------
\* grain.rs:106, "Maximum number of concurrent activations per grain key": until
\* the silo drains, every worker whose mailbox is open is one of the pool the
\* directory hands out, however idle timeouts, panics, removals and lookups
\* meet, so there are never more than max_activations of them.
PoolBounded == ~drained => \A w \in Workers : Open(w) => w[1] = pool
=============================================================================
