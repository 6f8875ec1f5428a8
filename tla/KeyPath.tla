------------------------------ MODULE KeyPath ------------------------------
(***************************************************************************)
(* From the remote to the action: UnifyingReader's edge queue and its      *)
(* worker, the HTTP tap that goes past the queue, and Dispatcher's repeat  *)
(* and hold tasks, key bindings and BLE key edges.                         *)
(*                                                                         *)
(* Everything runs on one event loop.  `turn' is the task the loop is      *)
(* running: a handler keeps it from one suspension to the next, and it     *)
(* suspends only where it awaits a repeat or hold task it has cancelled.   *)
(* Three handlers reach the dispatcher: the edge worker, a tap, and the    *)
(* reader itself when the device is lost.                                  *)
(***************************************************************************)
EXTENDS Naturals, Sequences, FiniteSets

CONSTANTS
    Keys,          \* the keys in use, among "vol", "mode1" and "ok"
    EdgeQueueMax,  \* the reader's edge_queue_maxsize
    MaxTasks,      \* bound: repeat and hold tasks alive or ending at one time
    MaxPresses,    \* bound: presses on the remote
    MaxTaps,       \* bound: POST /api/key/tap
    MaxLosses      \* bound: times the receiver is unplugged

\* One key of each kind the keymap has: a volume key, which repeats whatever
\* the mode; rem_mode_1, which in watch has to be held; and a BLE key.
KeyAction ==
    [watch  |-> [vol |-> "speaker", mode1 |-> "hold", ok |-> "ble"],
     listen |-> [vol |-> "speaker", mode1 |-> "flow", ok |-> "speaker"]]

Modes == DOMAIN KeyAction
RepeatKeys == {"vol"}

ASSUME KeysAssumption == Keys \subseteq {"vol", "mode1", "ok"}
ASSUME BoundsAssumption ==
    /\ EdgeQueueMax \in Nat \ {0} /\ MaxTasks \in Nat \ {0}
    /\ MaxPresses \in Nat /\ MaxTaps \in Nat /\ MaxLosses \in Nat

TaskIds == 1..MaxTasks
NoTask == 0
NoKey == "none"
Nobody == "nobody"
Handlers == {"worker", "tap", "lost"}
Stages == {"idle", "stopRepeat", "clearHolds", "act", "asleep",   \* on_usb_edge, and a tap's pause
           "due", "clearAllHolds", "forget"}                      \* on_usb_disconnect
Edges == Keys \X {"down", "up"}
Goodbye == <<NoKey, NoKey>>   \* the None that ends the edge worker

VARIABLES
    open,        \* the reader has the input device open
    fingers,     \* keys physically down
    pressed,     \* the reader's own set of keys down, since it opened the device
    edges,       \* _edge_queue
    turn,        \* the task the event loop is running
    at,          \* where each handler stands: its stage and the edge it handles
    awaits,      \* the cancelled tasks each handler waits for
    task,        \* repeat and hold tasks
    repeatOf,    \* _repeat_tasks
    holdOf,      \* _hold_tasks (no key has more than one held action)
    pressedAt,   \* the keys of _pressed_at
    mode,        \* the mode whose bindings are active
    held,        \* the key the Apple TV was last told is down
    escaped,     \* history: keys whose release nobody will carry out (see NoStuckKey)
    stop,        \* "no", "reader", "worker" (told to end), "wedged", "done"
    presses, taps, losses   \* counters for the bounds

input   == <<open, fingers, pressed, presses, losses>>
tables  == <<task, repeatOf, holdOf, pressedAt>>
loop    == <<turn, at, awaits>>
vars    == <<input, edges, loop, tables, mode, held, escaped, stop, taps>>

NoTaskRecord == [kind |-> "free", key |-> NoKey, st |-> "ended", by |-> Nobody, released |-> FALSE]
Idle == [stage |-> "idle", key |-> NoKey, edge |-> NoKey]

TaskRecords ==
    [kind : {"free", "repeat", "hold"}, key : Keys \cup {NoKey},
     st : {"new", "asleep", "dropped", "cancelled", "ended"},
     by : Handlers \cup {Nobody}, released : BOOLEAN]

TypeOK ==
    /\ open \in BOOLEAN
    /\ pressed \subseteq fingers /\ fingers \subseteq Keys
    /\ edges \in Seq(Edges \cup {Goodbye}) /\ Len(edges) <= EdgeQueueMax
    /\ turn \in Handlers \cup {Nobody}
    /\ at \in [Handlers -> [stage : Stages, key : Keys \cup {NoKey}, edge : {"down", "up", NoKey}]]
    /\ awaits \in [Handlers -> SUBSET TaskIds]
    /\ task \in [TaskIds -> TaskRecords]
    /\ repeatOf \in [Keys -> TaskIds \cup {NoTask}]
    /\ holdOf \in [Keys -> TaskIds \cup {NoTask}]
    /\ pressedAt \subseteq Keys
    /\ mode \in Modes
    /\ held \in Keys \cup {NoKey}
    /\ escaped \subseteq Keys
    /\ stop \in {"no", "reader", "worker", "wedged", "done"}

Init ==
    /\ open = TRUE
    /\ fingers = {} /\ pressed = {}
    /\ edges = << >>
    /\ turn = Nobody
    /\ at = [h \in Handlers |-> Idle]
    /\ awaits = [h \in Handlers |-> {}]
    /\ task = [t \in TaskIds |-> NoTaskRecord]
    /\ repeatOf = [k \in Keys |-> NoTask]
    /\ holdOf = [k \in Keys |-> NoTask]
    /\ pressedAt = {}
    /\ mode \in Modes
    /\ held = NoKey
    /\ escaped = {}
    /\ stop = "no"
    /\ presses = 0 /\ taps = 0 /\ losses = 0

----------------------------------------------------------------------------
\* The event loop.  The worker, once woken, takes one edge after another.

WorkerWoken == at["worker"] = Idle /\ edges # << >>

Live(t) == task[t].st \in {"new", "asleep"}

\* Task.cancel(): a task that has not run yet will not even start.
Cancelled(ts) ==
    [t \in TaskIds |->
        IF t \in ts /\ Live(t)
        THEN [task[t] EXCEPT !.st = IF @ = "new" THEN "dropped" ELSE "cancelled"]
        ELSE task[t]]

\* Cancel some tasks and wait for them; the next stage follows at once if
\* there is nothing to wait for.
CancelAndAwait(h, ts, next) ==
    /\ task' = Cancelled(ts)
    /\ awaits' = [awaits EXCEPT ![h] = ts]
    /\ turn' = IF ts = {} THEN h ELSE Nobody
    /\ at' = [at EXCEPT ![h].stage = next]

Resumes(h) ==
    /\ turn = Nobody
    /\ awaits[h] # {}
    /\ \A t \in awaits[h] : task[t].st = "ended"
    /\ turn' = h
    /\ awaits' = [awaits EXCEPT ![h] = {}]
    /\ UNCHANGED <<input, edges, at, tables, mode, held, escaped, stop, taps>>

\* A handler is done; the worker goes straight on to the next edge.
Finished(h) ==
    /\ at' = [at EXCEPT ![h] = Idle]
    /\ turn' = IF h = "worker" /\ edges # << >> THEN h ELSE Nobody

----------------------------------------------------------------------------
\* UnifyingReader.

Emit_Faulty(k, edge) == edges' = Append(edges, <<k, edge>>) /\ UNCHANGED escaped

\* _emit: an edge that does not fit is dropped, the newest one.
Emit(k, edge) ==
    IF Len(edges) < EdgeQueueMax
    THEN edges' = Append(edges, <<k, edge>>) /\ UNCHANGED escaped
    ELSE /\ UNCHANGED edges
         /\ escaped' = IF edge = "up" THEN escaped \cup {k} ELSE escaped

Reading == turn = Nobody /\ open /\ stop = "no"

KeyDown(k) ==
    /\ Reading
    /\ k \notin fingers
    /\ presses < MaxPresses
    /\ presses' = presses + 1
    /\ fingers' = fingers \cup {k}
    /\ pressed' = pressed \cup {k}
    /\ Emit(k, "down")
    /\ UNCHANGED <<open, losses, loop, tables, mode, held, stop, taps>>

\* Once the reader has stopped, nobody sees a finger lifted.
KeyUp(k) ==
    /\ k \in fingers /\ stop = "no"
    /\ fingers' = fingers \ {k}
    /\ pressed' = pressed \ {k}
    /\ \/ Reading /\ Emit(k, "up")
       \/ ~open /\ UNCHANGED <<edges, escaped>>
    /\ UNCHANGED <<open, presses, losses, loop, tables, mode, held, stop, taps>>

\* The receiver is unplugged: the reader gets an error, and with its device
\* goes its record of the keys that are down.
DeviceGone ==
    /\ Reading
    /\ losses < MaxLosses
    /\ losses' = losses + 1
    /\ open' = FALSE
    /\ pressed' = {}
    /\ at' = [at EXCEPT !["lost"].stage = "due"]
    /\ UNCHANGED <<fingers, presses, edges, turn, awaits, tables, mode, held, escaped, stop, taps>>

DeviceBack ==
    /\ turn = Nobody
    /\ ~open /\ at["lost"] = Idle /\ stop = "no"
    /\ open' = TRUE
    /\ UNCHANGED <<fingers, pressed, presses, losses, edges, loop, tables, mode, held, escaped,
                   stop, taps>>

\* _drain_edges takes the next edge, or the None that ends it.
WorkerTakes ==
    /\ turn \in {Nobody, "worker"}
    /\ WorkerWoken
    /\ edges' = Tail(edges)
    /\ LET e == Head(edges)
       IN  IF e = Goodbye
           THEN stop' = "done" /\ turn' = Nobody /\ UNCHANGED at
           ELSE /\ turn' = "worker"
                /\ at' = [at EXCEPT !["worker"] =
                            [stage |-> IF e[2] = "down" THEN "clearHolds" ELSE "stopRepeat",
                             key |-> e[1], edge |-> e[2]]]
                /\ UNCHANGED stop
    /\ UNCHANGED <<input, awaits, tables, mode, held, escaped, taps>>

----------------------------------------------------------------------------
\* Dispatcher.on_usb_edge.

\* _stop_repeat
StopRepeat_Faulty(h) ==
    /\ turn = h /\ at[h].stage = "stopRepeat"
    /\ LET k == at[h].key
       IN  repeatOf' = [repeatOf EXCEPT ![k] = NoTask]
    /\ CancelAndAwait(h, {}, "clearHolds")
    /\ UNCHANGED <<input, edges, holdOf, pressedAt, mode, held, escaped, stop, taps>>

StopRepeat(h) ==
    /\ turn = h /\ at[h].stage = "stopRepeat"
    /\ LET k == at[h].key
       IN  /\ repeatOf' = [repeatOf EXCEPT ![k] = NoTask]
           /\ CancelAndAwait(h, {repeatOf[k]} \ {NoTask}, "clearHolds")
    /\ UNCHANGED <<input, edges, holdOf, pressedAt, mode, held, escaped, stop, taps>>

\* _cancel_hold_tasks; a press is noted before it.
ClearHolds(h) ==
    /\ turn = h /\ at[h].stage = "clearHolds"
    /\ LET k == at[h].key
       IN  /\ pressedAt' = IF at[h].edge = "down" THEN pressedAt \cup {k} ELSE pressedAt
           /\ holdOf' = [holdOf EXCEPT ![k] = NoTask]
           /\ CancelAndAwait(h, {holdOf[k]} \ {NoTask}, "act")
    /\ UNCHANGED <<input, edges, repeatOf, mode, held, escaped, stop, taps>>

\* Keys of whom a press is still to be dispatched.
Undispatched ==
    {k \in Keys : \/ \E i \in 1..Len(edges) : edges[i] = <<k, "down">>
                  \/ at["worker"].key = k /\ at["worker"].edge = "down"}

\* asyncio.create_task
FreeTasks == {t \in TaskIds : task[t].st = "ended" /\ \A h \in Handlers : t \notin awaits[h]}
NewTask(h, kind, k) ==
    LET t == CHOOSE t \in FreeTasks : TRUE
    IN  /\ FreeTasks # {}
        /\ task' = [task EXCEPT ![t] =
                      [kind |-> kind, key |-> k, st |-> "new", released |-> FALSE,
                       by |-> IF kind = "hold" THEN h ELSE Nobody]]
        /\ IF kind = "repeat"
           THEN repeatOf' = [repeatOf EXCEPT ![k] = t] /\ UNCHANGED holdOf
           ELSE holdOf' = [holdOf EXCEPT ![k] = t] /\ UNCHANGED repeatOf

\* The actions the key has in the active bindings, by now; _start_repeat for a
\* volume key whatever the bindings say.
ActDown(h) ==
    /\ turn = h /\ at[h].stage = "act" /\ at[h].edge = "down"
    /\ LET k == at[h].key
           does == KeyAction[mode][k]
       IN  /\ held' = IF does = "ble" THEN k ELSE held
           /\ \/ does = "hold" /\ holdOf[k] = NoTask /\ NewTask(h, "hold", k)
              \/ k \in RepeatKeys /\ repeatOf[k] = NoTask /\ NewTask(h, "repeat", k)
              \/ /\ ~(does = "hold" /\ holdOf[k] = NoTask)
                 /\ ~(k \in RepeatKeys /\ repeatOf[k] = NoTask)
                 /\ UNCHANGED <<task, repeatOf, holdOf>>
    /\ IF h = "tap"
       THEN at' = [at EXCEPT ![h].stage = "asleep"] /\ turn' = Nobody
       ELSE Finished(h)
    /\ UNCHANGED <<input, edges, awaits, pressedAt, mode, escaped, stop, taps>>

ActUp(h) ==
    /\ turn = h /\ at[h].stage = "act" /\ at[h].edge = "up"
    /\ LET k == at[h].key
       IN  /\ held' = IF KeyAction[mode][k] = "ble" THEN NoKey ELSE held
           /\ pressedAt' = pressedAt \ {k}
           /\ escaped' = IF held' = k \/ k \in Undispatched \/ repeatOf[k] # NoTask
                         THEN escaped ELSE escaped \ {k}
           /\ task' = [t \in TaskIds |->
                          IF Live(t) /\ task[t].key = k /\ task[t].by = h
                          THEN [task[t] EXCEPT !.released = TRUE] ELSE task[t]]
    /\ Finished(h)
    /\ UNCHANGED <<input, edges, awaits, repeatOf, holdOf, mode, stop, taps>>

----------------------------------------------------------------------------
\* The HTTP tap: down, a pause, up; the up is sent even if the pause is cut short.

TapDown(k) ==
    /\ turn = Nobody
    /\ at["tap"] = Idle /\ stop = "no"
    /\ taps < MaxTaps
    /\ taps' = taps + 1
    /\ turn' = "tap"
    /\ at' = [at EXCEPT !["tap"] = [stage |-> "clearHolds", key |-> k, edge |-> "down"]]
    /\ UNCHANGED <<input, edges, awaits, tables, mode, held, escaped, stop>>

TapUp ==
    /\ turn = Nobody
    /\ at["tap"].stage = "asleep"
    /\ turn' = "tap"
    /\ at' = [at EXCEPT !["tap"].stage = "stopRepeat", !["tap"].edge = "up"]
    /\ UNCHANGED <<input, edges, awaits, tables, mode, held, escaped, stop, taps>>

----------------------------------------------------------------------------
\* Dispatcher.on_usb_disconnect, called by the reader and not through the queue.

AllOf(table) == {table[k] : k \in Keys} \ {NoTask}

CancelAllRepeats_Faulty ==
    /\ turn = Nobody /\ ~WorkerWoken
    /\ at["lost"].stage = "due"
    /\ CancelAndAwait("lost", {}, "clearAllHolds")
    /\ escaped' = escaped \cup Undispatched
    /\ UNCHANGED <<input, edges, repeatOf, holdOf, pressedAt, mode, held, stop, taps>>

\* The loop runs tasks in the order they became ready: a worker the reader has
\* woken runs before the read error can reach the reader.
CancelAllRepeats ==
    /\ turn = Nobody /\ ~WorkerWoken
    /\ at["lost"].stage = "due"
    /\ repeatOf' = [k \in Keys |-> NoTask]
    /\ CancelAndAwait("lost", AllOf(repeatOf), "clearAllHolds")
    /\ escaped' = escaped \cup Undispatched
    /\ UNCHANGED <<input, edges, holdOf, pressedAt, mode, held, stop, taps>>

CancelAllHolds ==
    /\ turn = "lost" /\ at["lost"].stage = "clearAllHolds"
    /\ holdOf' = [k \in Keys |-> NoTask]
    /\ CancelAndAwait("lost", AllOf(holdOf), "forget")
    /\ UNCHANGED <<input, edges, repeatOf, pressedAt, mode, held, escaped, stop, taps>>

\* No key is pressed any more, and the dongle is told so (release_all).
ForgetPresses ==
    /\ turn = "lost" /\ at["lost"].stage = "forget"
    /\ pressedAt' = {}
    /\ held' = NoKey
    /\ Finished("lost")
    /\ UNCHANGED <<input, edges, awaits, task, repeatOf, holdOf, mode, escaped, stop, taps>>

----------------------------------------------------------------------------
\* Repeat and hold tasks.  What a repeat does each tick, a speaker command, is
\* not modelled: only that the task goes on.

TaskStarts(t) ==
    /\ turn = Nobody
    /\ task[t].st = "new"
    /\ task' = [task EXCEPT ![t].st = "asleep"]
    /\ UNCHANGED <<input, edges, loop, repeatOf, holdOf, pressedAt, mode, held, escaped, stop, taps>>

\* Catches its cancellation inside the loop.
TaskUnwinds_Faulty(t) ==
    /\ turn = Nobody
    /\ task[t].st \in {"dropped", "cancelled"}
    /\ task' = [task EXCEPT ![t] = IF @.st = "cancelled" /\ @.kind = "repeat"
                                    THEN [@ EXCEPT !.st = "asleep"] ELSE NoTaskRecord]
    /\ UNCHANGED <<input, edges, loop, repeatOf, holdOf, pressedAt, mode, held, escaped, stop, taps>>

\* A cancelled hold task takes the table's entry for its key with it, its own
\* or not; one that never started takes nothing.
TaskUnwinds(t) ==
    /\ turn = Nobody
    /\ task[t].st \in {"dropped", "cancelled"}
    /\ task' = [task EXCEPT ![t] = NoTaskRecord]
    /\ holdOf' = IF task[t].kind = "hold" /\ task[t].st = "cancelled"
                 THEN [holdOf EXCEPT ![task[t].key] = NoTask] ELSE holdOf
    /\ UNCHANGED <<input, edges, loop, repeatOf, pressedAt, mode, held, escaped, stop, taps>>

HoldFires_Faulty(t) ==
    /\ turn = Nobody
    /\ task[t].kind = "hold" /\ task[t].st = "asleep"
    /\ task' = [task EXCEPT ![t] = NoTaskRecord]
    /\ UNCHANGED <<input, edges, loop, repeatOf, holdOf, pressedAt, mode, held, escaped, stop, taps>>

\* The hold time is over: the flow is started if the key is pressed.
HoldFires(t) ==
    /\ turn = Nobody
    /\ task[t].kind = "hold" /\ task[t].st = "asleep"
    /\ task' = [task EXCEPT ![t] = NoTaskRecord]
    /\ holdOf' = [holdOf EXCEPT ![task[t].key] = NoTask]
    /\ UNCHANGED <<input, edges, loop, repeatOf, pressedAt, mode, held, escaped, stop, taps>>

StartsFlow(t) == HoldFires(t) /\ task[t].key \in pressedAt

----------------------------------------------------------------------------
\* set_mode_bindings, whenever the engine changes the mode.
SetModeBindings(m) ==
    /\ turn = Nobody
    /\ m # mode
    /\ mode' = m
    /\ escaped' = escaped \cup {k \in Keys : k = held /\ KeyAction[m][k] # "ble"}
    /\ UNCHANGED <<input, edges, loop, tables, held, stop, taps>>

----------------------------------------------------------------------------
\* The end.  The HTTP server has gone first, so no tap is under way.

\* UnifyingReader.stop: the reader task ends without telling the dispatcher.
StopReader ==
    /\ turn = Nobody
    /\ stop = "no"
    /\ at["tap"] = Idle /\ at["lost"] = Idle
    /\ stop' = "reader"
    /\ open' = FALSE
    /\ pressed' = {}
    /\ UNCHANGED <<fingers, presses, losses, edges, loop, tables, mode, held, escaped, taps>>

\* The worker gets a None, if there is room for one, and is cancelled.  A worker
\* that waits for a task it has cancelled swallows that and goes on at once.
StopWorker_Faulty ==
    /\ turn = Nobody
    /\ stop = "reader"
    /\ IF at["worker"] = Idle
       THEN stop' = "done" /\ edges' = << >> /\ UNCHANGED <<turn, awaits>>
       ELSE /\ turn' = "worker"
            /\ awaits' = [awaits EXCEPT !["worker"] = {}]
            /\ stop' = "worker"
            /\ UNCHANGED edges
    /\ UNCHANGED <<input, at, tables, mode, held, escaped, taps>>

StopWorker ==
    /\ turn = Nobody
    /\ stop = "reader"
    /\ IF at["worker"] = Idle
       THEN stop' = "done" /\ edges' = << >> /\ UNCHANGED <<turn, awaits>>
       ELSE /\ turn' = "worker"
            /\ awaits' = [awaits EXCEPT !["worker"] = {}]
            /\ IF Len(edges) < EdgeQueueMax
               THEN stop' = "worker" /\ edges' = Append(edges, Goodbye)
               ELSE stop' = "wedged" /\ UNCHANGED edges
    /\ UNCHANGED <<input, at, tables, mode, held, escaped, taps>>

----------------------------------------------------------------------------
HandlerStep(h) == Resumes(h) \/ StopRepeat(h) \/ ClearHolds(h) \/ ActDown(h) \/ ActUp(h)
TaskStep(t) == TaskStarts(t) \/ TaskUnwinds(t) \/ HoldFires(t)
LostStep == CancelAllRepeats \/ CancelAllHolds \/ ForgetPresses
StopStep == StopReader \/ StopWorker

Next ==
    \/ \E k \in Keys : KeyDown(k) \/ KeyUp(k) \/ TapDown(k)
    \/ DeviceGone \/ DeviceBack
    \/ WorkerTakes
    \/ \E h \in Handlers : HandlerStep(h)
    \/ TapUp
    \/ LostStep
    \/ \E t \in TaskIds : TaskStep(t)
    \/ \E m \in Modes : SetModeBindings(m)
    \/ StopStep

Spec == Init /\ [][Next]_vars

\* The loop runs every task that is ready, and a tap's pause and a hold time
\* are timers.  Nobody has to press or release a key, or to stop the program.
Fairness ==
    /\ WF_vars(WorkerTakes)
    /\ \A h \in Handlers : WF_vars(HandlerStep(h))
    /\ WF_vars(TapUp)
    /\ WF_vars(LostStep)
    /\ \A t \in TaskIds : WF_vars(TaskStep(t))
    /\ WF_vars(StopWorker)

FairSpec == Spec /\ Fairness

----------------------------------------------------------------------------
\* Properties.

\* Somebody still owes key k a release that on_usb_edge will see.
ReleaseOwed(k) ==
    \/ k \in pressed
    \/ \E i \in 1..Len(edges) : edges[i] = <<k, "up">>
    \/ at["worker"].key = k /\ at["worker"].edge = "up"
    \/ at["tap"].key = k
    \/ at["lost"] # Idle

\* A key repeats, counts as pressed or is down for the Apple TV only while its
\* release is on its way.  The ways out, which `escaped' records, are these
\* three: the edge queue was full, its press was dispatched after the device's
\* loss, the mode took its BLE binding away while it was down.
NoStuckKey ==
    stop = "no" =>
        \A k \in Keys :
            repeatOf[k] # NoTask \/ k \in pressedAt \/ held = k
                => ReleaseOwed(k) \/ k \in escaped

\* The tables hold live tasks only, and every live repeat can be found there: a
\* dead entry would keep its key from repeating or holding again, a live task
\* without one could not be stopped.
TablesAreLive ==
    /\ \A k \in Keys :
        /\ repeatOf[k] # NoTask => Live(repeatOf[k]) /\ task[repeatOf[k]].kind = "repeat"
        /\ holdOf[k] # NoTask => Live(holdOf[k]) /\ task[holdOf[k]].kind = "hold"
    /\ \A t \in TaskIds : Live(t) /\ task[t].kind = "repeat" => repeatOf[task[t].key] = t

\* No handler waits for ever for a task it cancelled, so edges do not pile up.
EdgesAreServed == (edges # << >>) ~> (edges = << >>)

\* Once told to end, with the None in the queue, the edge worker ends, although
\* it may swallow its own cancellation.
StopEnds == (stop \in {"reader", "worker"}) ~> (stop \in {"done", "wedged"})

\* Dispatcher._schedule_hold_action: "If key is released before the delay, the
\* task is cancelled and nothing is sent."
HoldReleasedSendsNothing ==
    [][ \A t \in TaskIds : StartsFlow(t) => ~task[t].released ]_vars

----------------------------------------------------------------------------
\* Why the tables are live: the inductive invariant of KeyPathProofs.

\* A live task has a key, and an entry is for a task of its own key.
EntriesMatch ==
    /\ \A t \in TaskIds : Live(t) => task[t].key \in Keys
    /\ \A k \in Keys :
        /\ repeatOf[k] # NoTask => task[repeatOf[k]].key = k
        /\ holdOf[k] # NoTask => task[holdOf[k]].key = k

\* A handler that is to look a key up has one.
HandlersHaveKeys ==
    \A h \in Handlers :
        at[h].stage \in {"stopRepeat", "clearHolds", "act", "asleep"} => at[h].key \in Keys

IInv == TypeOK /\ TablesAreLive /\ EntriesMatch /\ HandlersHaveKeys

----------------------------------------------------------------------------
\* Why no key is stuck: what KeyPathProofs adds to it.

\* A key's reader, or what is to be done for the lost device, still sees to it.
Owned(k) == k \in pressed \/ at["lost"].stage = "due" \/ k \in escaped
UpAfter(k, i) == \E j \in i + 1..Len(edges) : edges[j] = <<k, "up">>

\* A press in the queue or in the worker's hands has its release behind it.
PressesOwned ==
    \A k \in Keys :
        /\ \A i \in 1..Len(edges) : edges[i] = <<k, "down">> => UpAfter(k, i) \/ Owned(k)
        /\ at["worker"].key = k /\ at["worker"].edge = "down" => UpAfter(k, 0) \/ Owned(k)

\* A repeat is stopped by a release that has not come to _stop_repeat yet: a
\* handler that is past it does not count.
WillStop(h, k) ==
    at[h].key = k /\ (at[h].edge = "down" \/ (at[h].edge = "up" /\ at[h].stage = "stopRepeat"))
RepeatsOwned ==
    \A k \in Keys : repeatOf[k] # NoTask =>
        Owned(k) \/ UpAfter(k, 0) \/ WillStop("worker", k) \/ WillStop("tap", k)

PressedOwned == \A k \in Keys : k \in pressedAt \/ held = k => ReleaseOwed(k) \/ k \in escaped

\* A release gives the Apple TV its key-up only while the key is a BLE key.
HeldBound == \A k \in Keys : held = k /\ KeyAction[mode][k] # "ble" => k \in escaped

\* Only an open device has keys down, and no device is open while one's loss is
\* still to be handled.
LossInPlace ==
    /\ pressed # {} => open
    /\ at["lost"] # Idle => ~open
    /\ at["lost"].stage \in {"due", "clearAllHolds", "forget"} \/ at["lost"] = Idle

KInv ==
    /\ IInv /\ LossInPlace
    /\ stop = "no" => PressesOwned /\ RepeatsOwned /\ PressedOwned /\ HeldBound
=============================================================================
