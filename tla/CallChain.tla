----------------------------- MODULE CallChain ------------------------------
(***************************************************************************)
(* Grains of one silo that call each other.  A handler runs while its grain *)
(* is locked: a sequential mailbox awaits it, a reentrant one spawns a task *)
(* that holds the mutex of the state.  Its context carries the chain of     *)
(* grains that led to it, as text, and GrainRef::ask refuses to wait for a  *)
(* grain on that chain.                                                     *)
(*                                                                         *)
(* Frame i is the i-th message sent.  A handler awaits one ask at a time.   *)
(* References are looked up for every call, so that a panicked grain is     *)
(* activated again (see GrainDirectory); mailboxes are never full here.     *)
(***************************************************************************)
EXTENDS Integers, FiniteSets, Sequences, SequencesExt

CONSTANTS
    ChainEntries,   \* grain -> its chain entry, split at the commas of its key
    Reentrant,      \* grains with a reentrant mailbox
    MaxFrames,      \* bounds: messages,
    MaxRoots,       \* calls from outside at a time,
    MaxAsks         \* and calls made by one handler

VARIABLES
    frame           \* the messages so far, each with where its handler is

hvars == frame

Frames == 1 .. Len(frame)

\* Frame 0 is the task outside that makes the root calls; it never waits here.
Captured(p) == IF p = 0 THEN <<>> ELSE frame[p].chain

\* is_in_call_chain compares the whole entry with each piece between two commas.
IsInCallChain(chain, g) == \E i \in DOMAIN chain : ChainEntries[g] = <<chain[i]>>

\* Variant: the entry replaces the chain.
WithCallChainEntryOnly(chain, g) == ChainEntries[g]

WithCallChainEntry(chain, g) == chain \o ChainEntries[g]

NewFrame(p, g, via) ==
    [st |-> "queued", at |-> g, by |-> p, via |-> via,
     root |-> IF p = 0 THEN Len(frame) + 1 ELSE frame[p].root,
     chain |-> WithCallChainEntry(Captured(p), g),
     for |-> 0, left |-> FALSE, asks |-> 0, refused |-> <<>>]

MayCall(p) ==
    IF p = 0 THEN Cardinality({frame[i].root : i \in Frames} \ {0}) < MaxRoots
    ELSE frame[p].st = "running" /\ frame[p].asks < MaxAsks

Enqueue(p, g, via) ==
    /\ Len(frame) < MaxFrames
    /\ frame' = Append(
          IF p = 0 THEN frame
          ELSE IF via = "tell" THEN [frame EXCEPT ![p].asks = @ + 1]
          ELSE [frame EXCEPT ![p].asks = @ + 1, ![p].st = "waiting", ![p].for = Len(frame) + 1],
          NewFrame(p, g, via))

\* The handler that holds grain g, if any.
Holders(g) == {i \in Frames : frame[i].at = g /\ frame[i].st \in {"running", "waiting"}}

\* refused is history: whether the grain asked did wait for p.
RefuseAsk(p, g) ==
    LET waits[i \in Frames] == i = p \/ (frame[i].for # 0 /\ waits[frame[i].for])
    IN  frame' = [frame EXCEPT ![p].asks = @ + 1,
                               ![p].refused = Append(@, \E i \in Holders(g) : waits[i])]

Ask(p, g) ==
    /\ MayCall(p)
    /\ IF IsInCallChain(Captured(p), g) THEN RefuseAsk(p, g) ELSE Enqueue(p, g, "ask")

\* try_ask and tell look at no chain.
TryAsk(p, g) == MayCall(p) /\ Enqueue(p, g, "try_ask")

TellGrain(p, g) == MayCall(p) /\ Enqueue(p, g, "tell")

AskTimesOut(p) ==
    /\ frame[p].st = "waiting"
    /\ frame' = [frame EXCEPT ![p].st = "running", ![p].for = 0, ![frame[p].for].left = TRUE]

-----------------------------------------------------------------------------
Queued(g) == {i \in Frames : frame[i].at = g /\ frame[i].st = "queued"}

\* Messages start in order, except that the tasks of a reentrant grain may
\* reach its mutex in any order.
StartHandler(i) ==
    LET g == frame[i].at IN
    /\ frame[i].st = "queued" /\ Holders(g) = {}
    /\ g \in Reentrant \/ \A j \in Queued(g) : i <= j
    /\ frame' = [frame EXCEPT ![i].st = "running"]

\* Nothing of a handler is left once it ended.
Ended == [NewFrame(0, CHOOSE g \in DOMAIN ChainEntries : TRUE, "ask") EXCEPT !.st = "done", !.root = 0]

\* The reply channels of the frames S are used or dropped, and those who wait
\* for them go on.
Settled(S) ==
    [i \in Frames |->
        IF i \in S THEN Ended
        ELSE IF frame[i].for \in S THEN [frame[i] EXCEPT !.st = "running", !.for = 0]
        ELSE frame[i]]

HandlerReturns(i) == frame[i].st = "running" /\ frame' = Settled({i})

\* A panic takes a sequential mailbox down with all that is queued in it, but
\* only the one task of a reentrant one.
HandlerPanics(i) ==
    /\ frame[i].st = "running"
    /\ frame' = Settled({i} \cup IF frame[i].at \in Reentrant THEN {} ELSE Queued(frame[i].at))

ChainInit == frame = <<>>

ChainNext ==
    \/ \E p \in Frames \cup {0}, g \in DOMAIN ChainEntries : Ask(p, g)
    \/ \E p \in Frames, g \in DOMAIN ChainEntries : TryAsk(p, g) \/ TellGrain(p, g)
    \/ \E i \in Frames : AskTimesOut(i) \/ StartHandler(i) \/ HandlerReturns(i) \/ HandlerPanics(i)

ChainSpec == ChainInit /\ [][ChainNext]_hvars

-----------------------------------------------------------------------------
\* What frame i has to wait for: the reply it awaits, or the handler that holds
\* its grain.
BlockedBy(i) ==
    ({frame[i].for} \cap Frames) \cup IF frame[i].st = "queued" THEN Holders(frame[i].at) ELSE {}

\* Asks that are still awaited, at grains whose key has no comma.
Tracked(i) == frame[i].via = "ask" /\ ~frame[i].left /\ Len(ChainEntries[frame[i].at]) = 1

\* Frames the chain of which holds only grains that wait for them.
Attached(i) ==
    LET attached[j \in 0 .. i] ==
            j = 0 \/ (frame[j].via # "tell" /\ ~frame[j].left /\ attached[frame[j].by])
    IN  attached[i]

\* DeadlockDetected is neither missed nor raised in vain.  Calls that wait for
\* each other in a circle never all come from one call from outside: what is
\* left for the timeouts are circles of two callers, and of messages that
\* try_ask or a grain with a comma in its key kept off the check, or whose
\* caller timed out.  And an ask is refused only while the grain it asks waits
\* for the asker, unless a tell or a timeout cut the chain in between.
DeadlockVerdict ==
    /\ \A S \in SUBSET {i \in Frames : Tracked(i)} :
          (\A i \in S : BlockedBy(i) \cap S # {}) => Cardinality({frame[i].root : i \in S}) # 1
    /\ \A i \in Frames : Attached(i) => FALSE \notin Range(frame[i].refused)

\* README: "Circular grain call chains (A calls B calls A) are detected and
\* return GrainError::DeadlockDetected instead of hanging": as above, for asks
\* to grains with any key.
CircleDetected ==
    \A S \in SUBSET {i \in Frames : frame[i].via = "ask" /\ ~frame[i].left} :
        (\A i \in S : BlockedBy(i) \cap S # {}) => Cardinality({frame[i].root : i \in S}) # 1
=============================================================================
