------------------------------ MODULE Debounce ------------------------------
(***************************************************************************)
(* The leading-edge debouncer behind MarkDirty, for one list               *)
(* (internal/publisher/debounce.go).  Time is kept relative to what the    *)
(* code compares: the age of lastFired, which stops mattering at the       *)
(* floor, and the time left on the timer.  A timer may run late.           *)
(***************************************************************************)
EXTENDS Integers

CONSTANTS
    Floor,          \* the minimum time between fires, in clock ticks
    Null,
    MaxStarting     \* bound on the fires scheduled but not yet running

ASSUME DebounceAssumption == Floor \in Nat /\ MaxStarting \in Nat /\ Null \notin Nat

VARIABLES
    age,            \* now() - lastFired, up to Floor; Floor when never fired
    pending,        \* d.pending[key]
    timer,          \* time left on the armed AfterFunc timer, or Null
    starting,       \* fires whose goroutine has not begun yet
    owed            \* history: a trigger that no fire has begun after

vars == <<age, pending, timer, starting, owed>>

Init ==
    /\ age = Floor
    /\ pending = FALSE
    /\ timer = Null
    /\ starting = 0
    /\ owed = FALSE

\* Trigger while an earlier one has the window covered.
TriggerCoalesced ==
    /\ pending
    /\ owed' = TRUE
    /\ UNCHANGED <<age, pending, timer, starting>>

\* Trigger when the floor has passed: stamp and fire at once.
TriggerIdle ==
    /\ ~pending
    /\ age >= Floor
    /\ starting < MaxStarting
    /\ age' = 0
    /\ starting' = starting + 1
    /\ owed' = TRUE
    /\ UNCHANGED <<pending, timer>>

\* Mutant: the trigger is dropped, without a trailing fire.
TriggerDropped ==
    /\ ~pending
    /\ age < Floor
    /\ owed' = TRUE
    /\ UNCHANGED <<age, pending, timer, starting>>

\* Mutant: the timer is armed with elapsed instead of floor - elapsed.
TriggerElapsed ==
    /\ ~pending
    /\ age < Floor
    /\ starting < MaxStarting
    /\ pending' = TRUE
    /\ timer' = age
    /\ owed' = TRUE
    /\ UNCHANGED <<age, starting>>

\* Trigger inside the window: one deferred fire for when it reopens.
TriggerDeferred ==
    /\ ~pending
    /\ age < Floor
    /\ starting < MaxStarting
    /\ pending' = TRUE
    /\ timer' = Floor - age
    /\ owed' = TRUE
    /\ UNCHANGED <<age, starting>>

\* Mutant: the callback does not delete d.pending[key].
TimerFiresKeepsPending ==
    /\ timer # Null
    /\ timer = 0
    /\ timer' = Null
    /\ age' = 0
    /\ starting' = starting + 1
    /\ UNCHANGED <<pending, owed>>

\* The timer's callback up to the unlock; fire() is still to begin.
TimerFires ==
    /\ timer # Null
    /\ timer = 0
    /\ timer' = Null
    /\ pending' = FALSE
    /\ age' = 0
    /\ starting' = starting + 1
    /\ UNCHANGED owed

\* fire() begins: whatever was written before is in the publish.
FireBegins ==
    /\ starting > 0
    /\ starting' = starting - 1
    /\ owed' = FALSE
    /\ UNCHANGED <<age, pending, timer>>

Tick ==
    /\ age' = IF age < Floor THEN age + 1 ELSE age
    /\ timer' = IF timer # Null /\ timer > 0 THEN timer - 1 ELSE timer
    /\ UNCHANGED <<pending, starting, owed>>

Trigger == TriggerCoalesced \/ TriggerIdle \/ TriggerDeferred

Next == Trigger \/ TimerFires \/ FireBegins \/ Tick

Spec == Init /\ [][Next]_vars

\* Timers expire, scheduled goroutines run, the clock goes on.
FairSpec == Spec /\ WF_vars(TimerFires) /\ WF_vars(FireBegins) /\ WF_vars(Tick)

-----------------------------------------------------------------------------
TypeOK ==
    /\ age \in 0 .. Floor
    /\ pending \in BOOLEAN
    /\ timer \in (0 .. Floor) \cup {Null}
    /\ starting \in Nat
    /\ owed \in BOOLEAN

\* "respecting floor as the minimum time between fires for that key"
\* (debounce.go:37-38): lastFired is stamped again only when the floor has
\* passed, by a trigger or by a timer armed under an earlier stamp.
FloorRespected == [][age' < age => age = Floor]_vars

\* "Trigger requests that fire eventually run" (debounce.go:37): after any
\* trigger, coalesced ones included, a fire begins.
EveryTriggerFires == owed ~> ~owed

\* The reason: a trigger not yet followed by a fire has one scheduled or a
\* timer armed, and a timer runs out exactly when the floor has passed.
Scheduled ==
    /\ pending <=> timer # Null
    /\ owed => pending \/ starting > 0
    /\ timer # Null => timer + age = Floor
=============================================================================
