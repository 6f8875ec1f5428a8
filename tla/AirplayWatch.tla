---------------------------- MODULE AirplayWatch ----------------------------
(***************************************************************************)
(* AppleTvAirPlay: the Apple TV's mDNS record, the tasks that resolve it,  *)
(* and the debounced watch signal.                                         *)
(*                                                                         *)
(* A resolve is answered with the record as it stands then.  The Apple TV  *)
(* is one service; records of other devices end as resolves that come to   *)
(* nothing.  Time passes in ticks; a timer fires when it is due or later.  *)
(***************************************************************************)
EXTENDS Naturals

CONSTANTS
    Debounce,   \* debounce_s, in ticks
    MaxTasks,   \* bound: debounce tasks at one time
    MaxEvents   \* bound: mDNS changes

ASSUME AirplayBounds == Debounce \in Nat /\ MaxTasks \in Nat /\ MaxEvents \in Nat

Tasks == 1..MaxTasks
None == 0

VARIABLES
    record,     \* what the Apple TV says on mDNS: "active", "idle" or "gone"
    resolves, removals,  \* tasks of _resolve_service and _handle_service_removed
    known,      \* service_name is set
    flag,       \* the session bit of the last flags read
    session,    \* connected_session
    received, settled,   \* initial
    asleep, left,        \* debounce tasks that sleep, with the ticks they have left
    calling,    \* debounce tasks in their callback
    pending,    \* _pending_watch_task
    life,       \* "on", "stopping" and waiting for a task, "off"
    awaited,    \* the task stop waits for
    stood,      \* history: ticks the readings have been active without a break
    shortest,   \* history: the least of them at a signal
    owed,       \* history: an active reading that has not been signalled
    events

tv == <<record, events>>
readings == <<known, flag, session, received, settled>>
tasks == <<asleep, left, calling, pending>>
stops == <<life, awaited>>
past == <<stood, shortest, owed>>
watch == <<tv, resolves, removals, readings, tasks, stops, past>>

\* start, with the Apple TV on the network or not.
WatchInit ==
    /\ record \in {"active", "idle", "gone"} /\ events = 0
    /\ resolves = (IF record = "gone" THEN 0 ELSE 1) /\ removals = 0
    /\ known = FALSE /\ flag = FALSE /\ session = FALSE /\ received = FALSE /\ settled = FALSE
    /\ asleep = {} /\ left = [t \in Tasks |-> 0] /\ calling = {} /\ pending = None
    /\ life = "on" /\ awaited = None
    /\ stood = 0 /\ shortest = Debounce /\ owed = FALSE

(***************************************************************************)
(* mDNS.                                                                   *)
(***************************************************************************)
Changes(to) == events < MaxEvents /\ events' = events + 1 /\ record' = to

\* Added, or Updated: also when only another flag has changed.
Advertised ==
    /\ life = "on"
    /\ \E to \in {"active", "idle"} : Changes(to)
    /\ resolves' = resolves + 1
    /\ UNCHANGED <<removals, readings, tasks, stops, past>>

Removed ==
    /\ life = "on" /\ record # "gone"
    /\ Changes("gone")
    /\ removals' = removals + 1
    /\ UNCHANGED <<resolves, readings, tasks, stops, past>>

(***************************************************************************)
(* Readings.                                                               *)
(***************************************************************************)
\* A task that is cancelled in its callback may go on: the runtime shields a flow.
Cancelled(task) ==
    /\ asleep' = asleep \ {task}
    /\ calling' \in {calling, calling \ {task}}

CancelPendingWatchSignal ==
    /\ Cancelled(pending) /\ pending' = None
    /\ UNCHANGED left

ScheduleWatchSignal ==
    /\ \E calls \in {calling, calling \ {pending}}, t \in Tasks :
           /\ t \notin calls \cup asleep
           /\ calling' = calls
           /\ asleep' = (asleep \ {pending}) \cup {t}
           /\ left' = [left EXCEPT ![t] = Debounce]
           /\ pending' = t

\* Variant: a reading is the first until one was received, start-up over or not.
FirstReading_Faulty == ~received

FirstReading == ~settled

ResolveDone == resolves > 0 /\ resolves' = resolves - 1 /\ UNCHANGED <<tv, removals, stops>>

\* No answer in time, an address of another device, or no flags.
ResolveFails ==
    /\ ResolveDone
    /\ UNCHANGED <<readings, tasks, past>>

Read(active) ==
    /\ known' = TRUE /\ flag' = active /\ session' = active
    /\ received' = TRUE /\ settled' = TRUE
    /\ UNCHANGED shortest

ReadsIdle ==
    /\ ResolveDone /\ record = "idle" /\ Read(FALSE)
    /\ CancelPendingWatchSignal
    /\ stood' = 0 /\ owed' = FALSE

ReadsActive ==
    /\ ResolveDone /\ record = "active" /\ Read(TRUE)
    /\ IF FirstReading THEN UNCHANGED tasks ELSE ScheduleWatchSignal
    /\ owed' = (owed \/ settled) /\ UNCHANGED stood

\* Only the service that was read, and the flags of that reading stay.
HandleServiceRemoved ==
    /\ removals > 0 /\ removals' = removals - 1
    /\ IF known
       THEN /\ CancelPendingWatchSignal
            /\ session' = FALSE /\ stood' = 0 /\ owed' = FALSE
       ELSE UNCHANGED <<tasks, session, stood, owed>>
    /\ UNCHANGED <<tv, resolves, known, flag, received, settled, stops, shortest>>

InitialDeadline ==
    /\ life # "off" /\ ~settled
    /\ settled' = TRUE
    /\ UNCHANGED <<tv, resolves, removals, known, flag, session, received, tasks, stops, past>>

(***************************************************************************)
(* The debounce.                                                           *)
(***************************************************************************)
\* A tick less, and a tick more of an active session; none of them beyond its end.
Tick ==
    /\ left' = [t \in Tasks |-> IF t \in asleep /\ left[t] > 0 THEN left[t] - 1 ELSE left[t]]
    /\ stood' = (IF session /\ stood < Debounce THEN stood + 1 ELSE stood)
    /\ <<left, stood>>' # <<left, stood>>
    /\ UNCHANGED <<tv, resolves, removals, readings, asleep, calling, pending, stops, shortest, owed>>

\* The finally of _emit_watch_after_debounce
Forgets(t) == pending' = (IF pending = t THEN None ELSE pending)

\* The readings are looked at once more before the signal.
SleepOver(t) ==
    /\ t \in asleep /\ left[t] = 0 /\ asleep' = asleep \ {t}
    /\ IF flag /\ session
       THEN /\ calling' = calling \cup {t} /\ UNCHANGED pending
            /\ shortest' = (IF stood < shortest THEN stood ELSE shortest) /\ owed' = FALSE
       ELSE Forgets(t) /\ UNCHANGED <<calling, shortest, owed>>
    /\ UNCHANGED <<tv, resolves, removals, readings, left, stops, stood>>

\* Variant: whoever ends forgets the pending task, its own or not.
CallEnds_Faulty(t) ==
    /\ t \in calling /\ calling' = calling \ {t}
    /\ pending' = None /\ UNCHANGED <<asleep, left>>
    /\ UNCHANGED <<tv, resolves, removals, readings, stops, past>>

CallEnds(t) ==
    /\ t \in calling /\ calling' = calling \ {t}
    /\ Forgets(t) /\ UNCHANGED <<asleep, left>>
    /\ UNCHANGED <<tv, resolves, removals, readings, stops, past>>

(***************************************************************************)
(* stop.                                                                   *)
(***************************************************************************)
\* The other tasks are cancelled, and whatever is pending by now is forgotten.
LetsGo ==
    /\ life' = "off" /\ pending' = None /\ resolves' = 0 /\ removals' = 0 /\ owed' = FALSE
    /\ UNCHANGED <<tv, readings, asleep, left, calling, awaited, stood, shortest>>

StopWithNothingPending ==
    /\ life = "on" /\ pending = None
    /\ LetsGo

\* The pending task is cancelled and waited for; meanwhile a resolve may be answered.
Stop ==
    /\ life = "on" /\ pending # None
    /\ life' = "stopping" /\ Cancelled(pending) /\ awaited' = pending /\ owed' = FALSE
    /\ UNCHANGED <<tv, resolves, removals, readings, left, pending, stood, shortest>>

StopEnds ==
    /\ life = "stopping" /\ awaited \notin calling
    /\ LetsGo

WatchNext ==
    \/ Advertised \/ Removed
    \/ ResolveFails \/ ReadsIdle \/ ReadsActive \/ HandleServiceRemoved \/ InitialDeadline
    \/ Tick
    \/ \E t \in Tasks : SleepOver(t) \/ CallEnds(t)
    \/ StopWithNothingPending \/ Stop \/ StopEnds

WatchSpec == WatchInit /\ [][WatchNext]_watch

\* Time passes, and the event loop runs a task whose timer is due.
FairWatchSpec == WatchSpec /\ WF_watch(Tick) /\ WF_watch(\E t \in Tasks : SleepOver(t))

(***************************************************************************)
(* Properties.                                                             *)
(***************************************************************************)
\* A watch signal is sent only when every reading of the last debounce_s was an
\* active session, however readings, cancelled tasks and running callbacks met.
DebounceHonoured == shortest >= Debounce

\* An active session read after start-up is signalled, when the readings do not
\* end it and the sensor is not stopped: no cancelled task takes the signal along.
SessionSignalled == owed ~> ~owed

(***************************************************************************)
(* Why the debounce is honoured: the inductive invariant of AirplayProofs. *)
(***************************************************************************)
WatchTypeOK ==
    /\ record \in {"active", "idle", "gone"} /\ resolves \in Nat /\ removals \in Nat /\ events \in Nat
    /\ asleep \subseteq Tasks /\ calling \subseteq Tasks /\ left \in [Tasks -> Nat]
    /\ pending \in Tasks \cup {None} /\ awaited \in Tasks \cup {None} /\ life \in {"on", "stopping", "off"}
    /\ stood \in Nat /\ shortest \in Nat

ReadingsOK ==
    /\ known \in BOOLEAN /\ flag \in BOOLEAN /\ session \in BOOLEAN
    /\ received \in BOOLEAN /\ settled \in BOOLEAN /\ owed \in BOOLEAN

\* Until stop is through, no task sleeps that a reading could not cancel, and
\* none outside a session; after it there are no readings.
Cancellable ==
    /\ asleep \cap calling = {}
    /\ life # "off" => asleep \subseteq {pending} /\ (asleep # {} => session)
    /\ life = "off" => resolves = 0 /\ removals = 0

\* What a sleeping task has slept, the session has stood.
SleptIsStood == \A t \in asleep : session => stood + left[t] >= Debounce

WatchInv == WatchTypeOK /\ ReadingsOK /\ Cancellable /\ SleptIsStood /\ DebounceHonoured
=============================================================================
