-------------------------------- MODULE Flow --------------------------------
(***************************************************************************)
(* A flow of the Audio Pro rooms with a Frame TV: flows.py over FrameTv.   *)
(*                                                                         *)
(* A flow refreshes what the hub believes of the TV, takes one snapshot    *)
(* and goes through its steps.  A step is waited for, or started in the    *)
(* background and settled at the end.  A flow goes on past a step that     *)
(* fails and fails at its end; but when the speaker's request to leave a   *)
(* group times out, the step, which has no time-out of its own to report,  *)
(* ends the whole flow where it is.  The steps of the Apple TV and of the  *)
(* speaker end well, fail or hang; those of the TV are FrameTv's.          *)
(***************************************************************************)
EXTENDS FrameTv

VARIABLES
    flow,      \* the flow that runs, or "none"
    stage,     \* "idle", "refresh", "steps", "settle"
    pc,        \* the step it is at, or the background step it settles
    tvWasOn,   \* the snapshot
    job,       \* a step that was started and not yet checked: "running", "ok", "failed", "timeout"
    failures,  \* some step failed
    left,      \* what background steps of flows that are over still do
    blind,     \* history: the flow's own refresh gave no reading
    found, foundInput  \* history: since the flow began, the TV was in the wanted state, on HDMI1

flowVars == <<flow, stage, pc, tvWasOn, job, failures, blind>>
vars     == <<tvVars, flowVars, left, found, foundInput>>

(***************************************************************************)
(* The flows.                                                              *)
(***************************************************************************)
Step(does, when) == [does |-> does, when |-> when, background |-> FALSE]
Background(does, when) == [does |-> does, when |-> when, background |-> TRUE]

\* _audiopro_stop_speaker: three steps that depend on the speaker alone, one of
\* which makes it leave its group
StopSpeaker == Step("group", "speaker")

Steps ==
    [listen |-> <<Background("ble", "tv_is_on"), Step("power", "tv_is_on"),
                  Background("speaker", "always"), Step("speaker", "always")>>,
     watch |-> <<StopSpeaker, Background("ble", "tv_is_off"), Step("power", "tv_is_off"),
                 Background("input", "tv_is_off"), Background("speaker", "always"),
                 Step("speaker", "always")>>,
     listen_signal |-> <<Background("power", "tv_is_on"), Step("ble", "tv_is_on")>>,
     watch_signal |-> <<StopSpeaker, Step("power", "tv_is_off"), Background("input", "tv_is_off"),
                        Background("speaker", "always"), Step("speaker", "always")>>,
     power_off |-> <<Background("ble", "tv_is_on"), Step("power", "tv_is_on"), StopSpeaker,
                     Step("speaker", "speaker")>>]

Flows == DOMAIN Steps
MaxSteps == 6
Watches(f) == f \in {"watch", "watch_signal"}
Wanted(f) == IF Watches(f) THEN "on" ELSE "off"

\* A condition on the speaker may hold or not; one on the TV is the snapshot's.
MayRun(when) == when \in {"always", "speaker", IF tvWasOn THEN "tv_is_on" ELSE "tv_is_off"}
MaySkip(when) == when # "always" /\ when # (IF tvWasOn THEN "tv_is_on" ELSE "tv_is_off")

Current == Steps[flow][pc]
IsTv(s) == s.does \in {"power", "input"}
Timed(s) == s.does = "power"  \* has a timeout of its own

FlowTypeOK ==
    /\ TvTypeOK
    /\ flow \in Flows \cup {"none"} /\ stage \in {"idle", "refresh", "steps", "settle"} /\ pc \in 1..MaxSteps + 1
    /\ tvWasOn \in BOOLEAN /\ failures \in BOOLEAN /\ blind \in BOOLEAN
    /\ found \in BOOLEAN /\ foundInput \in BOOLEAN
    /\ job \in [1..MaxSteps -> {"none", "running", "ok", "failed", "timeout"}]
    /\ (flow = "none") = (stage = "idle")

TypeOK == FlowTypeOK /\ left \subseteq {"ble", "speaker", "group", "power", "input"}

NoJobs == [i \in 1..MaxSteps |-> "none"]

Init ==
    /\ TvInit
    /\ flow = "none" /\ stage = "idle" /\ pc = 1
    /\ tvWasOn = FALSE /\ job = NoJobs
    /\ failures = FALSE /\ blind = FALSE
    /\ left = {} /\ found = FALSE /\ foundInput = FALSE

(***************************************************************************)
(* The start.                                                              *)
(***************************************************************************)
Begin ==
    /\ stage = "idle" /\ Event
    /\ \E f \in Flows : flow' = f /\ target' = Wanted(f)
    /\ Asks("refresh")
    /\ stage' = "refresh" /\ pc' = 1 /\ job' = NoJobs /\ failures' = FALSE
    /\ UNCHANGED <<tv, presence, got, ends, missed, tvWasOn, blind>>

Snapshot(how) ==
    /\ stage' = "steps"
    /\ tvWasOn' = (presence = "on") /\ blind' = (how = "failed")
    /\ UNCHANGED <<flow, pc, job, failures>>

RefreshEnds ==
    /\ stage = "refresh" /\ at["refresh"] = "off"
    /\ Snapshot(result["refresh"])
    /\ UNCHANGED tvVars

RefreshTimeout ==
    /\ stage = "refresh" /\ at["refresh"] # "off"
    /\ Cancelled("refresh")
    /\ Snapshot("failed")

(***************************************************************************)
(* The steps.                                                              *)
(***************************************************************************)
AtStep == stage = "steps" /\ pc <= Len(Steps[flow]) /\ job[pc] = "none"
Passes == pc' = pc + 1 /\ UNCHANGED <<flow, stage, tvWasOn, blind>>

Skip ==
    /\ AtStep /\ MaySkip(Current.when)
    /\ Passes
    /\ UNCHANGED <<tvVars, job, failures>>

Start ==
    /\ AtStep /\ MayRun(Current.when)
    /\ job' = [job EXCEPT ![pc] = "running"]
    /\ IF IsTv(Current)
         THEN /\ Asks(Current.does)
              /\ tries' = [tries EXCEPT ![Current.does] = Attempts]
         ELSE UNCHANGED <<queue, at, tries>>
    /\ pc' = IF Current.background THEN pc + 1 ELSE pc
    /\ UNCHANGED <<tv, presence, got, target, result, missed, events, flow, stage, tvWasOn, failures, blind>>

\* Variant: whether the TV came on is not looked at.
JobEnds_Faulty(i) ==
    /\ job[i] = "running"
    /\ IF IsTv(Steps[flow][i])
         THEN at[Steps[flow][i].does] = "off" /\ job' = [job EXCEPT ![i] = "ok"]
         ELSE pc = i /\ \E r \in {"ok", "failed"} : job' = [job EXCEPT ![i] = r]
    /\ UNCHANGED <<tvVars, flow, stage, pc, tvWasOn, failures, blind>>

\* tv_on, tv_off and tv_input_hdmi1 fail when the TV did not get there.  When
\* the others end is seen only when the flow waits for them.  A step raises a
\* TimeoutError of its own only where it asks to leave a group: every other
\* request of the speaker turns it into an ordinary failure.
JobEnds(i) ==
    /\ job[i] = "running"
    /\ IF IsTv(Steps[flow][i])
         THEN /\ at[Steps[flow][i].does] = "off"
              /\ job' = [job EXCEPT ![i] = result[Steps[flow][i].does]]
         ELSE /\ pc = i
              /\ \E r \in {"ok", "failed", "timeout"} :
                   /\ r = "timeout" => Steps[flow][i].does = "group"
                   /\ job' = [job EXCEPT ![i] = r]
    /\ UNCHANGED <<tvVars, flow, stage, pc, tvWasOn, failures, blind>>

StopsJob(i) ==
    /\ job' = [job EXCEPT ![i] = "failed"]
    /\ IF IsTv(Steps[flow][i])
         THEN Cancelled(Steps[flow][i].does)
         ELSE UNCHANGED tvVars

StepTimeout(i) ==
    /\ job[i] = "running" /\ Timed(Steps[flow][i])
    /\ at[Steps[flow][i].does] # "off"
    /\ StopsJob(i)
    /\ UNCHANGED <<flow, stage, pc, tvWasOn, failures, blind>>

Awaited == stage = "steps" /\ pc <= Len(Steps[flow]) /\ ~Current.background

StepDone ==
    /\ Awaited /\ job[pc] \in {"ok", "failed"}
    /\ failures' = (failures \/ job[pc] = "failed")
    /\ Passes
    /\ job' = [job EXCEPT ![pc] = "none"]
    /\ UNCHANGED tvVars

FlowIsOver ==
    /\ flow' = "none" /\ stage' = "idle" /\ pc' = 1
    /\ tvWasOn' = FALSE /\ job' = NoJobs /\ failures' = FALSE /\ blind' = FALSE
    /\ target' = "on" /\ result' = [c \in DOMAIN result |-> "none"]
    /\ UNCHANGED <<tv, presence, lock, tries, missed, events>>

\* The TimeoutError of a step without a time-out cannot be reported: formatting
\* timeout_s fails, and the flow ends with it.  The steps after it are never
\* run, and those in the background are not settled.
FlowDies ==
    /\ Awaited /\ job[pc] = "timeout"
    /\ FlowIsOver

(***************************************************************************)
(* Settling.                                                               *)
(***************************************************************************)
StepsDone ==
    /\ stage = "steps" /\ pc > Len(Steps[flow])
    /\ stage' = "settle" /\ pc' = 1
    /\ UNCHANGED <<tvVars, flow, tvWasOn, job, failures, blind>>

Settling == stage = "settle" /\ pc <= Len(Steps[flow])
ToSettle == Current.background /\ job[pc] # "none"

Settles ==
    /\ Settling
    /\ ToSettle => job[pc] \in {"ok", "failed"}
    /\ failures' = (failures \/ (ToSettle /\ job[pc] = "failed"))
    /\ Passes
    /\ job' = [job EXCEPT ![pc] = "none"]
    /\ UNCHANGED tvVars

\* Variant: a background step that takes too long is given up, not stopped.
SettleTimeout_Faulty ==
    /\ Settling /\ ToSettle /\ job[pc] = "running" /\ ~Timed(Current)
    /\ failures' = TRUE
    /\ Passes
    /\ UNCHANGED <<tvVars, job>>

\* Ten seconds are over: the task is cancelled and waited for.
SettleTimeout ==
    /\ Settling /\ ToSettle /\ job[pc] = "running" /\ ~Timed(Current)
    /\ StopsJob(pc)
    /\ failures' = TRUE
    /\ Passes

Ended == stage = "settle" /\ pc > Len(Steps[flow])

FlowOver == Ended /\ FlowIsOver

RunsSteps ==
    \/ RefreshEnds \/ Skip \/ Start \/ StepDone \/ FlowDies \/ StepsDone \/ Settles \/ FlowOver
    \/ RefreshTimeout \/ SettleTimeout
    \/ \E i \in 1..MaxSteps : JobEnds(i) \/ StepTimeout(i)

\* What is true of the TV at some moment from the flow's first to its last.
Observes ==
    /\ found' = (stage' # "idle" /\ ((stage # "idle" /\ found) \/ power' = Wanted(flow')))
    /\ foundInput' = (stage' # "idle" /\ ((stage # "idle" /\ foundInput) \/ input' = "hdmi1"))

\* A step at work when the flow is over stays at work, on its own ...
AtWork == {Steps[flow][i].does : i \in {j \in 1..MaxSteps : job[j] = "running"}}
LeavesBehind == left' = IF stage' = "idle" THEN left \cup AtWork ELSE left

\* ... until it ends.
StrayEnds ==
    /\ \E does \in left : left' = left \ {does}
    /\ UNCHANGED <<tvVars, flowVars, found, foundInput>>

Next ==
    \/ /\ Begin \/ RunsSteps \/ (TvNext /\ UNCHANGED flowVars)
       /\ Observes /\ LeavesBehind
    \/ StrayEnds

Spec == Init /\ [][Next]_vars

(***************************************************************************)
(* Properties.                                                             *)
(***************************************************************************)
\* A flow that ends well has left the TV where it wanted it at some moment since
\* it began, and if it switched a TV on to watch, on HDMI1; unless its refresh
\* gave no reading and it went by an older one.
SuccessIsTrue ==
    Ended /\ ~failures =>
        /\ blind \/ found
        /\ Watches(flow) /\ ~tvWasOn => foundInput

\* When a flow is over none of its steps is still at work, nor holds or waits
\* for the TV's lock, whatever failed, hung or ran out of time; except that a
\* flow which ends on a group that is not left in time may leave its keys for
\* the Apple TV behind, and never a step of the TV or of the speaker.
NothingLeftRunning ==
    /\ left \subseteq {"ble"}
    /\ Ended \/ stage = "idle" =>
         /\ \A i \in 1..MaxSteps : job[i] # "running"
         /\ \A c \in {"refresh", "power", "input"} : at[c] = "off"

(***************************************************************************)
(* Why nothing is left running: the inductive invariant of FlowProofs.     *)
(***************************************************************************)
JobsOK ==
    /\ at \in [Clients -> {"off", "delay", "queued"} \cup Requests]
    /\ result \in [{"refresh", "power", "input"} -> {"none", "ok", "failed"}]
    /\ job \in [1..MaxSteps -> {"none", "running", "ok", "failed", "timeout"}]
    /\ pc \in Nat \ {0} /\ stage \in {"idle", "refresh", "steps", "settle"}
    /\ stage # "idle" => flow \in Flows

\* A step at work is behind the flow, in the background, or the one it waits
\* for; when the flow settles, all that is behind it has ended.
JobsInPlace ==
    \A i \in 1..MaxSteps : job[i] = "running" =>
        /\ stage \in {"steps", "settle"} /\ i <= Len(Steps[flow])
        /\ stage = "steps" => i <= pc /\ (i < pc => Steps[flow][i].background)
        /\ stage = "settle" => i >= pc /\ Steps[flow][i].background

\* The TV is talked to only by a step at work, or by the refresh.
TalksFor(c) == \E i \in 1..MaxSteps : i <= Len(Steps[flow]) /\ Steps[flow][i].does = c /\ job[i] = "running"
TalksHaveJobs ==
    /\ stage # "refresh" => at["refresh"] = "off"
    /\ \A c \in {"power", "input"} : at[c] # "off" => stage \in {"steps", "settle"} /\ TalksFor(c)

\* Only a step that leaves a group times out, and the flow waits for it.
TimesOutInPlace ==
    \A i \in 1..MaxSteps : job[i] = "timeout" =>
        stage = "steps" /\ i = pc /\ i <= Len(Steps[flow]) /\ Steps[flow][i].does = "group"

IInv == JobsOK /\ JobsInPlace /\ TalksHaveJobs /\ TimesOutInPlace

(***************************************************************************)
(* Why a flow that ends well has done what it was for.                     *)
(***************************************************************************)
WithinFlow ==
    /\ FlowTypeOK
    /\ stage # "idle" => target = Wanted(flow)
    /\ stage = "refresh" => pc = 1 /\ job = NoJobs
    /\ stage \in {"steps", "settle"} => pc <= Len(Steps[flow]) + 1

\* A client of the flow that is through has a result.
EndsAreKnown ==
    /\ stage = "idle" => \A c \in DOMAIN result : result[c] = "none"
    /\ stage = "refresh" => (at["refresh"] = "off") = (result["refresh"] # "none")
    /\ \A i \in 1..MaxSteps :
         job[i] = "running" /\ IsTv(Steps[flow][i]) /\ at[Steps[flow][i].does] = "off" =>
             result[Steps[flow][i].does] # "none"

\* What a flow's client reads was so at some moment of the flow, and with the
\* refresh through so was what anybody reads, and what the hub believes.
ReadIsFound ==
    stage # "idle" =>
        /\ got["power"] = target \/ got["refresh"] = target \/ result["power"] = "ok" => found
        /\ got["input"] = "hdmi1" \/ result["input"] = "ok" => foundInput
        /\ stage = "refresh" /\ result["refresh"] = "ok" =>
             /\ presence # "unknown"
             /\ presence = target \/ (\E c \in Clients : got[c] = target) => found

Due(i) ==
    /\ i <= Len(Steps[flow]) /\ IsTv(Steps[flow][i])
    /\ Steps[flow][i].when = (IF tvWasOn THEN "tv_is_on" ELSE "tv_is_off")

Brought(i) == IF Steps[flow][i].does = "power" THEN found ELSE foundInput

\* The flow no longer waits for the step.
Past(i) == IF Steps[flow][i].background THEN stage = "settle" /\ i < pc ELSE stage = "settle" \/ i < pc

\* The flow ends well only past steps of the TV that brought it where they should.
StepsBring ==
    stage \in {"steps", "settle"} =>
        /\ ~blind /\ tvWasOn = (target = "on") => found
        /\ \A i \in 1..MaxSteps : job[i] = "ok" /\ IsTv(Steps[flow][i]) => Brought(i)
        /\ \A i \in 1..MaxSteps : Due(i) =>
             /\ Past(i) => failures \/ Brought(i)
             /\ Steps[flow][i].background /\ ~Past(i) /\ (stage = "steps" => i < pc) => job[i] # "none"

FInv ==
    /\ IInv /\ TvInv /\ WithinFlow /\ EndsAreKnown /\ ReadIsFound /\ StepsBring
=============================================================================
