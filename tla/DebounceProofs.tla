--------------------------- MODULE DebounceProofs ---------------------------
(***************************************************************************)
(* Debounce keeps its schedule and its floor for every floor, by itself    *)
(* and in a process that publishes, fails and restarts.                    *)
(***************************************************************************)
EXTENDS Publishing, TLAPS

\* What every state of the debouncer satisfies.
DebounceInv == TypeOK /\ Scheduled

\* The schedule at the start: never fired, nothing owed.
LEMMA ScheduleInit == Init => DebounceInv
<1> SUFFICES ASSUME Init PROVE DebounceInv
    OBVIOUS
<1>0. pending \in BOOLEAN /\ owed \in BOOLEAN
    BY Zenon DEF Init
<1>1. TypeOK
    BY <1>0, DebounceAssumption DEF Init, TypeOK
<1>2. Scheduled
    BY Zenon DEF Init, Scheduled
<1> QED
    BY <1>1, <1>2 DEF DebounceInv

\* Every branch of Trigger, the timer's callback and the passing of time keep
\* the schedule; the arithmetic is in how the timer is armed and runs down.
LEMMA ScheduleStep == DebounceInv /\ [Next]_vars => DebounceInv'
<1> SUFFICES ASSUME DebounceInv, [Next]_vars PROVE DebounceInv'
    OBVIOUS
<1> USE DebounceAssumption DEF DebounceInv, TypeOK, Scheduled
<1>1. CASE TriggerCoalesced
    BY <1>1 DEF TriggerCoalesced
<1>2. CASE TriggerIdle
    BY <1>2 DEF TriggerIdle
<1>3. CASE TriggerDeferred
    BY <1>3 DEF TriggerDeferred
<1>4. CASE TimerFires
    <2>0. pending' \in BOOLEAN
        BY <1>4, Zenon DEF TimerFires
    <2>1. TypeOK'
        BY <1>4, <2>0 DEF TimerFires
    <2>2. starting' > 0
        BY <1>4 DEF TimerFires
    <2>3. Scheduled'
        BY <1>4, <2>2, Zenon DEF TimerFires
    <2> QED
        BY <2>1, <2>3
<1>5. CASE FireBegins
    <2>0. owed' \in BOOLEAN
        BY <1>5, Zenon DEF FireBegins
    <2>1. TypeOK'
        BY <1>5, <2>0 DEF FireBegins
    <2>2. Scheduled'
        BY <1>5, Zenon DEF FireBegins
    <2> QED
        BY <2>1, <2>2
<1>6. CASE Tick
    BY <1>6 DEF Tick
<1>7. CASE UNCHANGED vars
    BY <1>7 DEF vars
<1> QED
    BY <1>1, <1>2, <1>3, <1>4, <1>5, <1>6, <1>7 DEF Next, Trigger

\* A trigger that no fire has followed always has one scheduled
\* (debounce.go:41-65), whatever the floor.
THEOREM AlwaysScheduled == Spec => []Scheduled
<1>1. DebounceInv => Scheduled
    BY DEF DebounceInv
<1> QED
    BY <1>1, ScheduleInit, ScheduleStep, PTL DEF Spec

\* A stamp is replaced only when the floor has passed.
LEMMA FloorStep == DebounceInv /\ [Next]_vars => [age' < age => age = Floor]_vars
<1> SUFFICES ASSUME DebounceInv, Next PROVE age' < age => age = Floor
    BY DEF vars
<1> USE DebounceAssumption DEF DebounceInv, TypeOK, Scheduled
<1>1. CASE Trigger
    BY <1>1 DEF Trigger, TriggerCoalesced, TriggerIdle, TriggerDeferred
<1>2. CASE TimerFires
    BY <1>2 DEF TimerFires
<1>3. CASE FireBegins
    BY <1>3 DEF FireBegins
<1>4. CASE Tick
    BY <1>4 DEF Tick
<1> QED
    BY <1>1, <1>2, <1>3, <1>4 DEF Next

\* Two stamps of lastFired are never closer than the floor
\* (debounce.go:49-64): the timer armed under the earlier one has run out
\* exactly when the floor has passed.
THEOREM FloorKept == Spec => FloorRespected
BY FloorStep, ScheduleInit, ScheduleStep, PTL DEF Spec, FloorRespected

-----------------------------------------------------------------------------
(* In a publishing process.                                                 *)

\* The process is back where a debouncer starts.
Restarted == <<age, pending, timer, starting, owed>>' = <<Floor, FALSE, Null, 0, FALSE>>

\* A process does nothing to its debouncer but what Debounce does, until it
\* stops (publisher.go:109-124).
LEMMA PublishingSteps ==
    ASSUME [PublishingNext]_publishingVars
    PROVE  [Next]_vars \/ Restarted
<1>1. ASSUME NEW w \in Writers, Write(w) \/ MarkDirty(w) PROVE [Next]_vars
  BY <1>1, Zenon DEF Write, MarkDirty, Next
<1>2. ASSUME NEW r \in Readers, Publish(r) \/ PublishDone(r) PROVE [Next]_vars
  BY <1>2, Zenon DEF Publish, PublishDone
<1>3. CASE FireStep
  BY <1>3, Zenon DEF FireStep, FireFails, Fire, Next
<1>4. CASE PollTick \/ TimerStep \/ ClockStep
  BY <1>4, Zenon DEF PollTick, TimerStep, ClockStep, Next
<1>5. ASSUME NEW p \in Processes, RestartProcess(p) PROVE Restarted
  BY <1>5, Zenon DEF RestartProcess, Restarted
<1>6. CASE UNCHANGED publishingVars
  BY <1>6, Zenon DEF publishingVars
<1>7. QED
  BY <1>1, <1>2, <1>3, <1>4, <1>5, <1>6, Zenon DEF PublishingNext

LEMMA PublishingScheduleStep ==
    DebounceInv /\ [PublishingNext]_publishingVars => DebounceInv'
<1> SUFFICES ASSUME DebounceInv, [PublishingNext]_publishingVars PROVE DebounceInv'
  OBVIOUS
<1>1. CASE Restarted
  <2>1. Init'
    BY <1>1, Zenon DEF Restarted, Init
  <2>2. Init' => DebounceInv'
    BY ScheduleInit, PTL
  <2>3. QED
    BY <2>1, <2>2, Zenon
<1>2. QED
  BY <1>1, PublishingSteps, ScheduleStep, Zenon

\* A write that was marked dirty and that no fire has followed has one
\* scheduled, in a process that publishes and restarts: a restart loses the
\* schedule and with it what was owed, which is left to the poll loop
\* (publisher.go:18-20, debounce.go:41-65).
THEOREM PublishingScheduled == PublishingSpec => []Scheduled
<1>1. DebounceInv => Scheduled
  BY Zenon DEF DebounceInv
<1>2. PublishingInit => DebounceInv
  BY ScheduleInit, Zenon DEF PublishingInit
<1>3. QED
  BY <1>1, <1>2, PublishingScheduleStep, PTL DEF PublishingSpec

\* Two fires of a process are stamped at least the floor apart
\* (debounce.go:49-64), whatever its writers, fires and polls do.
THEOREM PublishingFloorKept == PublishingSpec => FloorRespected
<1>1. ASSUME DebounceInv, [PublishingNext]_publishingVars
      PROVE  [age' < age => age = Floor]_vars
  <2>1. CASE Restarted
    <3>1. age' = Floor /\ age \in 0 .. Floor
      BY <1>1, <2>1, Zenon DEF Restarted, DebounceInv, TypeOK
    <3>2. QED
      BY <3>1, DebounceAssumption
  <2>2. QED
    BY <1>1, <2>1, PublishingSteps, FloorStep, Zenon
<1>2. PublishingInit => DebounceInv
  BY ScheduleInit, Zenon DEF PublishingInit
<1>3. QED
  BY <1>1, <1>2, PublishingScheduleStep, PTL DEF PublishingSpec, FloorRespected
=============================================================================
