----------------------------- MODULE Reminders ------------------------------
(***************************************************************************)
(* The reminder service of a silo and its store.  The poll loop notes the   *)
(* time, loads the reminders due by then, and for each one spawns a task    *)
(* that delivers the tick and moves the due time on; every store call is an *)
(* await during which reminders are registered again or removed.            *)
(*                                                                         *)
(* Time is relative: a due time is the number of ticks left until it, down  *)
(* to -MaxLag, and the loop's note of the time is the ticks since it.       *)
(***************************************************************************)
EXTENDS Integers, FiniteSets

CONSTANTS
    Names,      \* the reminders of one grain
    Periods,    \* the periods they are registered with
    MaxLag,     \* bound: ticks one round of the poll loop may take
    MaxChanges, \* bound: calls of register_reminder and unregister_reminder
    MaxSFaults  \* bound: store calls and deliveries that fail, restarts

ASSUME RemindersAssumption ==
    /\ Periods \subseteq Nat \ {0} /\ IsFiniteSet(Periods)
    /\ MaxLag \in Nat \ {0} /\ MaxChanges \in Nat /\ MaxSFaults \in Nat

VARIABLES
    rows,       \* the store: name -> [period, due], or NoReminder
    poll,       \* the poll loop: [pc, lag, todo: the registrations loaded]
    tasks,      \* names with a tick that some spawned task is delivering
    clock,      \* history: name -> ticks since it was registered or fired
    promised,   \* history: name -> the period its due time was computed from
    excused,    \* history: names whose due time is out of step
    changes, sfaults

svars == <<rows, poll, tasks, clock, promised, excused, changes, sfaults>>

NoReminder == [period |-> 0, due |-> 0]

MaxPeriod == CHOOSE p \in Periods : \A q \in Periods : q <= p

SFault == sfaults < MaxSFaults /\ sfaults' = sfaults + 1

Loaded(n) == \E reg \in poll.todo : reg.name = n
-----------------------------------------------------------------------------
\* register_reminder: the row is inserted or replaced.
RegisterReminder(n, p) ==
    /\ changes < MaxChanges /\ changes' = changes + 1
    /\ rows' = [rows EXCEPT ![n] = [period |-> p, due |-> p]]
    /\ clock' = [clock EXCEPT ![n] = 0]
    /\ promised' = [promised EXCEPT ![n] = p]
    /\ excused' = IF Loaded(n) THEN excused \cup {n} ELSE excused \ {n}
    /\ UNCHANGED <<poll, tasks, sfaults>>

UnregisterReminder(n) ==
    /\ rows[n] # NoReminder
    /\ changes < MaxChanges /\ changes' = changes + 1
    /\ rows' = [rows EXCEPT ![n] = NoReminder]
    /\ UNCHANGED <<poll, tasks, clock, promised, excused, sfaults>>

TimePasses ==
    /\ poll.pc # "sleep" => poll.lag < MaxLag
    /\ rows' = [n \in Names |-> IF rows[n] # NoReminder /\ rows[n].due > -MaxLag
                                THEN [rows[n] EXCEPT !.due = @ - 1] ELSE rows[n]]
    /\ clock' = [n \in Names |-> IF clock[n] < MaxPeriod + MaxLag THEN clock[n] + 1 ELSE clock[n]]
    /\ poll' = [poll EXCEPT !.lag = IF poll.pc = "sleep" THEN 0 ELSE @ + 1]
    /\ UNCHANGED <<tasks, promised, excused, changes, sfaults>>
-----------------------------------------------------------------------------
(* The poll loop. *)

\* The interval ticks; the loop notes the time.
Wake ==
    /\ poll.pc = "sleep"
    /\ poll' = [poll EXCEPT !.pc = "load", !.lag = 0]
    /\ UNCHANGED <<rows, tasks, clock, promised, excused, changes, sfaults>>

\* load_due, as of the noted time.
DueBy(lag) ==
    {[name |-> n, period |-> rows[n].period] :
        n \in {m \in Names : rows[m] # NoReminder /\ rows[m].due <= -lag}}

Turn(todo) == IF todo = {} THEN "sleep" ELSE "fire"

\* A variant of LoadDue in which an error ends the loop.
LoadDueOrStop ==
    /\ poll.pc = "load"
    /\ \/ /\ poll' = [poll EXCEPT !.pc = Turn(DueBy(poll.lag)), !.todo = DueBy(poll.lag)]
          /\ UNCHANGED sfaults
       \/ SFault /\ poll' = [poll EXCEPT !.pc = "stopped"]
    /\ UNCHANGED <<rows, tasks, clock, promised, excused, changes>>

LoadDue ==
    /\ poll.pc = "load"
    /\ \/ /\ poll' = [poll EXCEPT !.pc = Turn(DueBy(poll.lag)), !.todo = DueBy(poll.lag)]
          /\ UNCHANGED sfaults
       \/ SFault /\ poll' = [poll EXCEPT !.pc = "sleep"]
    /\ UNCHANGED <<rows, tasks, clock, promised, excused, changes>>

\* One registration: the dispatch is spawned, nobody waits for it.
Fire(reg) ==
    /\ poll.pc = "fire" /\ reg \in poll.todo
    /\ tasks' = tasks \cup {reg.name}
    /\ poll' = [poll EXCEPT !.pc = "update", !.now = reg]
    /\ clock' = [clock EXCEPT ![reg.name] = poll.lag]
    /\ excused' = excused \ {reg.name}
    /\ UNCHANGED <<rows, promised, changes, sfaults>>

\* A variant of UpdateDue that leaves the due time as it is.
UpdateDueForgotten ==
    /\ poll.pc = "update"
    /\ poll' = [poll EXCEPT !.pc = Turn(poll.todo \ {poll.now}), !.todo = @ \ {poll.now}]
    /\ UNCHANGED <<rows, tasks, clock, promised, excused, changes, sfaults>>

\* update_due_at: the noted time plus the period that was loaded; a row that is
\* gone stays gone, and an error is only logged.
UpdateDue ==
    LET reg == poll.now
        n == reg.name
    IN  /\ poll.pc = "update"
        /\ poll' = [poll EXCEPT !.pc = Turn(poll.todo \ {reg}), !.todo = @ \ {reg}]
        /\ \/ /\ rows[n] # NoReminder
              /\ rows' = [rows EXCEPT ![n].due = reg.period - poll.lag]
              /\ clock' = [clock EXCEPT ![n] = poll.lag]
              /\ promised' = [promised EXCEPT ![n] = reg.period]
              /\ excused' = excused \ {n} /\ UNCHANGED sfaults
           \/ /\ rows[n] = NoReminder
              /\ UNCHANGED <<rows, clock, promised, excused, sfaults>>
           \/ /\ SFault /\ excused' = excused \cup {n}
              /\ UNCHANGED <<rows, clock, promised>>
        /\ UNCHANGED <<tasks, changes>>

\* The spawned task activates the grain if need be and sends the tick; a closed
\* mailbox, or the end of the process, loses it.
DeliverTick(n) ==
    /\ n \in tasks
    /\ tasks' = tasks \ {n}
    /\ UNCHANGED <<rows, poll, clock, promised, excused, changes, sfaults>>

\* The silo restarts on the same store.
RestartService ==
    /\ SFault
    /\ tasks' = {} /\ poll' = [poll EXCEPT !.pc = "sleep", !.lag = 0, !.todo = {}]
    /\ excused' = IF poll.pc = "update" THEN excused \cup {poll.now.name} ELSE excused
    /\ UNCHANGED <<rows, clock, promised, changes>>
-----------------------------------------------------------------------------
RemindersInit ==
    /\ rows = [n \in Names |-> NoReminder]
    /\ poll = [pc |-> "sleep", lag |-> 0, todo |-> {}, now |-> [name |-> "none", period |-> 0]]
    /\ tasks = {} /\ excused = {}
    /\ clock = [n \in Names |-> 0] /\ promised = [n \in Names |-> 0]
    /\ changes = 0 /\ sfaults = 0

PollStep == Wake \/ LoadDue \/ UpdateDue \/ \E reg \in poll.todo : Fire(reg)

RemindersNext ==
    \/ \E n \in Names :
        \/ \E p \in Periods : RegisterReminder(n, p)
        \/ UnregisterReminder(n) \/ DeliverTick(n)
    \/ TimePasses \/ PollStep \/ RestartService

RemindersSpec == RemindersInit /\ [][RemindersNext]_svars

\* Time passes, and the loop, which only waits for the interval and the store,
\* goes on.
RemindersFairness == WF_svars(TimePasses) /\ WF_svars(PollStep)
-----------------------------------------------------------------------------
\* A reminder fires only when the whole period is over that its due time was
\* computed from, counted from its registration or from the round that fired it
\* last, whatever was registered, removed or slow in between.  Two things break
\* the spacing: a due time that could not be moved on, and a registration that
\* comes between the load and the dispatch.
TicksSpaced ==
    [][\A n \in Names : poll.pc = "fire" /\ poll'.pc = "update" /\ poll'.now.name = n =>
          clock[n] - poll.lag >= promised[n] \/ n \in excused]_svars

\* A reminder that stays registered fires, again and again, though store calls
\* fail and the silo restarts now and then.
ReminderFires ==
    \A n \in Names :
        (rows[n] # NoReminder) ~> (rows[n] = NoReminder \/ (poll.pc = "update" /\ poll.now.name = n))
=============================================================================
