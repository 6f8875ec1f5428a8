------------------------------ MODULE Runtime ------------------------------
(***************************************************************************)
(* RuntimeEngine (src/pihub/runtime.py): which mode the remote is in, the  *)
(* single flow that may be running, the check of the remembered mode       *)
(* against the room at start-up, and the file the mode is remembered in.   *)
(*                                                                         *)
(* The engine lives on one event loop.  A stretch of a coroutine between   *)
(* two suspensions is one action here; run_sequence suspends only while    *)
(* its sequence task works, because taking the free lock and applying key  *)
(* bindings never suspend.  The mode-writer thread and the flow itself run *)
(* beside the loop.  A `caller' is a task that may await a flow: a key's   *)
(* flow task, an HTTP handler, a device-state callback.                    *)
(*                                                                         *)
(* A save goes through one temporary file, mode.json.tmp: opened, written, *)
(* put in place.  Once stop() has shut the thread's queue the loop saves   *)
(* on its own, through the same temporary file the thread may be in.       *)
(***************************************************************************)
EXTENDS Naturals, Sequences

CONSTANTS
    Callers,     \* tasks that call into the engine
    Available,   \* the modes the keymap has bindings for
    MaxSaves,    \* bound: saves waiting for the mode-writer thread
    DiskRefuses  \* whether the disk may refuse a write

Modes == {"power_off", "watch", "listen"}
Fallback == "power_off"
Nobody == "nobody"     \* Python's None as a last flow
Free == "free"         \* the lock when no caller holds it
NoFile == <<Nobody, Nobody>>   \* /data/mode.json missing or unreadable

ASSUME CallersAssumption == Free \notin Callers
ASSUME KeymapAssumption == Available \subseteq Modes /\ Available # {}
ASSUME BoundAssumption == MaxSaves \in Nat \ {0}
ASSUME DiskAssumption == DiskRefuses \in BOOLEAN

\* The mode a flow leaves the remote in, which is also the marker it leaves
\* as the last flow: listen_signal counts as listen, watch_signal as watch.
TargetMode ==
    [power_off |-> "power_off", watch |-> "watch", listen |-> "listen",
     watch_signal |-> "watch", listen_signal |-> "listen"]

Flows == DOMAIN TargetMode
UnknownFlow == "unknown"   \* a name HTTP may send that no flow has

Signals == {"watch", "listen"}
SignalFlow == [watch |-> "watch_signal", listen |-> "listen_signal"]

Pairs == Modes \X (Modes \cup {Nobody})
Writers == {"thread", "loop"}   \* of the mode file

VARIABLES
    power,          \* "down", "up", or "stopping": runtime.stop() drains the writer
    mode,           \* _mode
    bindings,       \* the dispatcher's active bindings, by mode
    lastFlow,       \* _last_flow
    trigger,        \* _last_trigger: "none", "startup", or a "request"
    acted,          \* _acted
    flowRunning,    \* _flow_running
    lock,           \* the caller inside `async with self._lock', or Free
    caller,         \* what each caller awaits: "idle", "shield", "again" (once cancelled)
    seq,            \* each caller's sequence task: its flow and how it stands
    startup,        \* _startup_task: "none", "waiting", "ready" (all settled), "done"
    saves,          \* what the mode-writer thread has still to write, the one it is at first
    inTmp,          \* who is between opening the temporary file and putting it in place
    tmp,            \* how they have it: "alone", "shared" by two, "taken" away by the other
    disk,           \* what /data/mode.json holds
    rememberFailed  \* _remember_failed

engine == <<mode, bindings, lastFlow, trigger, acted, flowRunning>>
tasks  == <<lock, caller, seq, startup>>
file   == <<saves, inTmp, tmp, disk, rememberFailed>>
vars   == <<power, engine, tasks, file>>

SeqStates ==
    [flow : Flows \cup {UnknownFlow, "none"}, at : {"none", "running", "ok", "failed"}]
NoSeq == [flow |-> "none", at |-> "none"]

TypeOK ==
    /\ power \in {"down", "up", "stopping"}
    /\ mode \in Modes
    /\ bindings \in Modes \cup {Nobody}
    /\ lastFlow \in Modes \cup {Nobody}
    /\ trigger \in {"none", "startup", "request"}
    /\ acted \in BOOLEAN
    /\ flowRunning \in BOOLEAN
    /\ lock \in Callers \cup {Free}
    /\ caller \in [Callers -> {"idle", "shield", "again"}]
    /\ seq \in [Callers -> SeqStates]
    /\ startup \in {"none", "waiting", "ready", "done"}
    /\ saves \in Seq(Pairs)
    /\ inTmp \subseteq Writers
    /\ tmp \in {"alone", "shared", "taken"}
    /\ disk \in Pairs \cup {NoFile}
    /\ rememberFailed \in BOOLEAN

----------------------------------------------------------------------------
\* No process; the engine's attributes are as its constructor leaves them.
Init ==
    /\ power = "down"
    /\ mode = Fallback
    /\ bindings = Nobody
    /\ lastFlow = Nobody
    /\ trigger = "none"
    /\ acted = FALSE
    /\ flowRunning = FALSE
    /\ lock = Free
    /\ caller = [c \in Callers |-> "idle"]
    /\ seq = [c \in Callers |-> NoSeq]
    /\ startup = "none"
    /\ saves = << >>
    /\ inTmp = {}
    /\ tmp = "alone"
    /\ rememberFailed = FALSE
    /\ disk \in Pairs \cup {NoFile}

\* A request turned away changes only what the status page shows of it
\* (_error, _last_error, _last_result), which is not modelled.
TurnedAway == UNCHANGED vars

\* Faulty variants of the definitions below carry the suffix _Faulty: each is
\* put in its definition's place to see that a property notices.
Locked == lock # Free

FlowInProgress_Faulty == FALSE
FlowInProgress == flowRunning

\* What start() makes of the file.
LoadRemembered(d) ==
    IF d[1] \in Available
    THEN <<d[1], IF d[2] = Nobody THEN d[1] ELSE d[2]>>
    ELSE <<Fallback, Nobody>>

\* The key bindings follow the mode in the same stretch of code.
ApplyMode(m) == mode' = m /\ bindings' = m

\* The event loop does nothing else while it writes, and what it writes is its
\* mode and last flow.
LoopIsFree == "loop" \notin inTmp

\* Opening the temporary file empties it, also under another writer in it.
Opens(writer) ==
    /\ inTmp' = inTmp \cup {writer}
    /\ tmp' = IF inTmp = {} THEN "alone" ELSE "shared"

\* The temporary file two writers share may have the text of either, nothing, or a
\* text and behind its newline the rest of a longer one, which is not JSON:
\* NoFile, as _load_remembered takes it.
Mixed ==
    {NoFile} \cup (IF LoopIsFree THEN {} ELSE {<<mode, lastFlow>>})
             \cup (IF "thread" \in inTmp THEN {Head(saves)} ELSE {})

\* A writer may go on in the file after the other has put it in place.
Spoils == {disk} \cup (IF tmp = "alone" THEN {} ELSE Mixed)

\* The temporary file is put in place, or an OSError loses this save: the disk
\* refuses, or the other writer has taken the file away.
Lands(writer, text) ==
    /\ writer \in inTmp
    /\ inTmp' = inTmp \ {writer}
    /\ \/ /\ tmp # "taken"
          /\ disk' \in (IF tmp = "alone" THEN {text} ELSE Mixed)
          /\ rememberFailed' = FALSE
          /\ tmp' = IF inTmp' = {} THEN "alone" ELSE "taken"
       \/ /\ DiskRefuses \/ tmp = "taken"
          /\ disk' \in Spoils
          /\ rememberFailed' = TRUE
          /\ tmp' = IF inTmp' = {} THEN "alone" ELSE tmp

\* _remember(): one more save for the mode-writer thread.  Once runtime.stop()
\* has shut the thread's queue the loop begins to write the file itself.
Remember_Faulty(m, last) == UNCHANGED file
Remember(m, last) ==
    \/ /\ power = "up"
       /\ Len(saves) < MaxSaves
       /\ saves' = Append(saves, <<m, last>>)
       /\ UNCHANGED <<inTmp, tmp, disk, rememberFailed>>
    \/ /\ power = "stopping"
       /\ Opens("loop")
       /\ UNCHANGED <<saves, disk, rememberFailed>>

----------------------------------------------------------------------------
\* Start-up.

Start ==
    /\ power = "down"
    /\ power' = "up"
    /\ ApplyMode(LoadRemembered(disk)[1])
    /\ lastFlow' = LoadRemembered(disk)[2]
    /\ trigger' = "startup"
    /\ startup' = "waiting"
    /\ UNCHANGED <<acted, flowRunning, lock, caller, seq, file>>

\* Every device has given its first reading or has failed to, or the five
\* seconds are over: the start-up task is due to run again.
DevicesSettled ==
    /\ power = "up"
    /\ startup = "waiting"
    /\ startup' = "ready"
    /\ UNCHANGED <<power, engine, lock, caller, seq, file>>

SomeoneActed_Faulty == flowRunning
SomeoneActed == acted \/ flowRunning

\* The room as the devices report it: each reading TRUE, FALSE or not known.
Readings == {"yes", "no", "unknown"}

WantedMode(tvOn, listening) ==
    CASE listening = "yes"                         -> {"listen"}
      [] listening # "yes" /\ tvOn = "yes"         -> {"watch"}
      [] listening = "no" /\ tvOn = "no"           -> {"power_off"}
      [] OTHER                                     -> {}

CorrectStartupMode ==
    /\ power = "up"
    /\ startup = "ready"
    /\ startup' = "done"
    /\ \/ /\ SomeoneActed
          /\ UNCHANGED <<engine, file>>
       \/ /\ ~SomeoneActed
          /\ \E tvOn, listening \in Readings :
              LET want == WantedMode(tvOn, listening) \ {mode}
              IN  \/ /\ want \cap Available = {}
                     /\ UNCHANGED <<engine, file>>
                  \/ \E m \in want \cap Available :
                      /\ ApplyMode(m)
                      /\ lastFlow' = m
                      /\ Remember(m, m)
                      /\ UNCHANGED <<trigger, acted, flowRunning>>
    /\ UNCHANGED <<power, lock, caller, seq>>

----------------------------------------------------------------------------
\* Requests.

SetMode(m) ==
    /\ power = "up"
    /\ \/ /\ FlowInProgress \/ m \notin Available
          /\ TurnedAway
       \/ /\ ~FlowInProgress /\ m \in Available
          /\ ApplyMode(m)
          /\ trigger' = "request"
          /\ acted' = TRUE
          /\ Remember(m, lastFlow)
          /\ UNCHANGED <<power, lastFlow, flowRunning, tasks>>

CanCall(c) == power # "down" /\ LoopIsFree /\ caller[c] = "idle" /\ seq[c] = NoSeq

\* run_sequence up to its first suspension.
RunSequence(c, name) ==
    \/ /\ Locked
       /\ TurnedAway
    \/ /\ ~Locked
       /\ lock' = c
       /\ flowRunning' = TRUE
       /\ acted' = TRUE
       /\ trigger' = "request"
       /\ seq' = [seq EXCEPT ![c] = [flow |-> name, at |-> "running"]]
       /\ caller' = [caller EXCEPT ![c] = "shield"]
       /\ UNCHANGED <<power, mode, bindings, lastFlow, startup, file>>

RunFlow(c, name) == CanCall(c) /\ RunSequence(c, name)

\* A signal for the flow that succeeded last is ignored.
OnDeviceStateChange(c, signal) ==
    /\ CanCall(c)
    /\ \/ ~Locked /\ signal = lastFlow /\ TurnedAway
       \/ (Locked \/ signal # lastFlow) /\ RunSequence(c, SignalFlow[signal])

----------------------------------------------------------------------------
\* The flow itself, and its caller coming back to it.

\* FlowRunner.run returns True, returns False (an unknown name) or raises.
SequenceEnds(c, how) ==
    /\ LoopIsFree
    /\ seq[c].at = "running"
    /\ seq[c].flow = UnknownFlow => how = "failed"
    /\ seq' = [seq EXCEPT ![c].at = how]
    /\ UNCHANGED <<power, engine, lock, caller, startup, file>>

\* The task awaiting the flow is cancelled (an AirPlay update, an HTTP handler
\* at shutdown).  It takes the cancellation back and goes on waiting.
CallerCancelled_Faulty(c) ==
    /\ LoopIsFree
    /\ caller[c] = "shield"
    /\ caller' = [caller EXCEPT ![c] = "idle"]
    /\ lock' = Free
    /\ flowRunning' = FALSE
    /\ UNCHANGED <<power, mode, bindings, lastFlow, trigger, acted, seq, startup, file>>

CallerCancelled(c) ==
    /\ LoopIsFree
    /\ caller[c] = "shield"
    /\ caller' = [caller EXCEPT ![c] = "again"]
    /\ UNCHANGED <<power, engine, lock, seq, startup, file>>

\* What an unsuccessful flow does to the engine.
FlowFailed_Faulty(c) ==
    /\ lastFlow' = IF seq[c].flow = UnknownFlow THEN lastFlow ELSE TargetMode[seq[c].flow]
    /\ UNCHANGED <<mode, bindings, file>>

FlowFailed(c) == UNCHANGED <<mode, bindings, lastFlow, file>>

LastFlowAfter_Faulty(name) == name
LastFlowAfter(name) == TargetMode[name]

FlowCommitted(c) ==
    LET target == TargetMode[seq[c].flow]
    IN  /\ ApplyMode(target)
        /\ lastFlow' = LastFlowAfter(seq[c].flow)
        /\ Remember(target, LastFlowAfter(seq[c].flow))

\* The lock and flow_running are given up however the flow ended.
Released_Faulty(c) ==
    /\ IF seq[c].at = "ok"
       THEN lock' = Free /\ flowRunning' = FALSE
       ELSE UNCHANGED <<lock, flowRunning>>
    /\ caller' = [caller EXCEPT ![c] = "idle"]
    /\ seq' = [seq EXCEPT ![c] = NoSeq]

Released(c) ==
    /\ lock' = Free
    /\ flowRunning' = FALSE
    /\ caller' = [caller EXCEPT ![c] = "idle"]
    /\ seq' = [seq EXCEPT ![c] = NoSeq]

\* A flow that worked but whose mode has no bindings fails too.
FlowReturns(c) ==
    /\ LoopIsFree
    /\ caller[c] # "idle"
    /\ seq[c].at \in {"ok", "failed"}
    /\ \/ /\ seq[c].at = "ok"
          /\ TargetMode[seq[c].flow] \in Available
          /\ FlowCommitted(c)
       \/ /\ seq[c].at = "ok" => TargetMode[seq[c].flow] \notin Available
          /\ FlowFailed(c)
    /\ Released(c)
    /\ UNCHANGED <<power, trigger, acted, startup>>

----------------------------------------------------------------------------
\* The mode-writer thread, and the end of the process.

\* _write_mode in the thread, and in the loop.
WriteBegins ==
    /\ power # "down"
    /\ saves # << >> /\ "thread" \notin inTmp
    /\ Opens("thread")
    /\ UNCHANGED <<power, engine, tasks, saves, disk, rememberFailed>>

WriteMode ==
    /\ Lands("thread", Head(saves))
    /\ saves' = Tail(saves)
    /\ UNCHANGED <<power, engine, tasks>>

LoopWrites ==
    /\ Lands("loop", <<mode, lastFlow>>)
    /\ UNCHANGED <<power, engine, tasks, saves>>

\* runtime.stop(): the start-up check is cancelled, the queue is shut.
Stop ==
    /\ power = "up"
    /\ power' = "stopping"
    /\ startup' = "done"
    /\ UNCHANGED <<engine, lock, caller, seq, file>>

\* The process is gone: a power cut at any moment, or the orderly end once the
\* thread has written everything.  Flows still running go with it.
ProcessEnds ==
    /\ power # "down"
    /\ power' = "down"
    /\ mode' = Fallback
    /\ bindings' = Nobody
    /\ lastFlow' = Nobody
    /\ trigger' = "none"
    /\ acted' = FALSE
    /\ flowRunning' = FALSE
    /\ lock' = Free
    /\ caller' = [c \in Callers |-> "idle"]
    /\ seq' = [c \in Callers |-> NoSeq]
    /\ startup' = "none"
    /\ saves' = << >>
    /\ inTmp' = {}
    /\ tmp' = "alone"
    /\ rememberFailed' = FALSE
    /\ disk' \in Spoils

----------------------------------------------------------------------------
CallerStep(c) ==
    \/ \E name \in Flows \cup {UnknownFlow} : RunFlow(c, name)
    \/ \E signal \in Signals : OnDeviceStateChange(c, signal)
    \/ \E how \in {"ok", "failed"} : SequenceEnds(c, how)
    \/ CallerCancelled(c)
    \/ FlowReturns(c)

Next ==
    \/ Start
    \/ DevicesSettled
    \/ CorrectStartupMode
    \/ \E m \in Modes : SetMode(m)
    \/ \E c \in Callers : CallerStep(c)
    \/ LoopWrites \/ WriteBegins \/ WriteMode
    \/ Stop
    \/ ProcessEnds

Spec == Init /\ [][Next]_vars

\* Every step of a flow is bounded, by its own timeout or by those of the HTTP
\* requests, sends and connects it makes, so a flow ends; the loop and the
\* writer thread run what is due.  Nobody owes the system a request or a restart.
Fairness ==
    /\ \A c \in Callers :
        /\ WF_vars(\E how \in {"ok", "failed"} : SequenceEnds(c, how))
        /\ WF_vars(FlowReturns(c))
    /\ WF_vars(WriteBegins)
    /\ WF_vars(WriteMode)
    /\ WF_vars(LoopWrites)
    /\ WF_vars(DevicesSettled)
    /\ WF_vars(CorrectStartupMode)

FairSpec == Spec /\ Fairness

----------------------------------------------------------------------------
\* Properties.

\* At most one sequence task works on the room, and while one does its caller
\* holds the lock and flow_running says so, even after that caller was
\* cancelled: run_sequence's shield and its second await.
OneSequence ==
    \A c \in Callers :
        seq[c].at = "running" =>
            /\ lock = c /\ flowRunning
            /\ \A d \in Callers \ {c} : seq[d] = NoSeq

\* Nothing moves the mode or its key bindings under a flow at work: neither
\* POST /api/mode nor the start-up check.
ModeStillDuringFlow ==
    [][ \A c \in Callers :
          seq[c].at = "running" /\ power' # "down" => UNCHANGED <<mode, bindings, lastFlow>> ]_vars

\* The start-up check moves the mode only if nobody has set off a flow, even
\* one that failed or is not known, or set a mode since the start.
IntentStands ==
    [][ startup = "ready" /\ startup' = "done" /\ mode' # mode
          => trigger = "startup" /\ lock = Free ]_vars

\* With nothing left to write and the last write done, a restart at this
\* moment would come back in the mode the remote is in now.
RestartKeepsMode ==
    power = "up" /\ saves = << >> /\ ~rememberFailed => LoadRemembered(disk)[1] = mode

\* A flow does not keep the engine busy for ever: whoever comes later is served.
FlowEnds == (lock # Free) ~> (lock = Free)

\* A mode that stays is in the end the mode a restart comes back in, unless the
\* disk refuses the writes.
ModeReachesDisk ==
    \A m \in Modes :
        <>[](power = "up" /\ mode = m /\ ~rememberFailed) => <>[](LoadRemembered(disk)[1] = m)

\* What the engine promises, in ModeAuthority's words.
Kept ==
    {disk} \cup {saves[i] : i \in 1..Len(saves)}
        \cup (IF LoopIsFree THEN {} ELSE {<<mode, lastFlow>>})
        \cup (IF tmp = "alone" THEN {} ELSE {NoFile})

Authority ==
    INSTANCE ModeAuthority
        WITH on <- power # "down", ending <- power = "stopping", last <- lastFlow, busy <- flowRunning,
             kept <- Kept

\* The engine keeps ModeAuthority's promise: what a restart may find are choices
\* that were made and saved, whatever is lost, overtaken or cut short, and
\* nothing at all only after two writers met in the temporary file at a stop.
RefinesAuthority == Authority!ASpec

\* "One thread, so saves land in the order they were made", and stop() lets "the
\* last save land": when stop() has waited for the thread, and the disk has taken
\* what it was given, a file that can be read holds the last choice.
LastSaveLands ==
    power = "stopping" /\ saves = << >> /\ inTmp = {} /\ ~rememberFailed /\ disk # NoFile
        => LoadRemembered(disk)[1] = mode
=============================================================================
