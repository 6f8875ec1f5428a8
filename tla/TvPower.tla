------------------------------ MODULE TvPower ------------------------------
(***************************************************************************)
(* Whether the TV is on: what TvController believes, how a flow switches   *)
(* the TV on and off, and the TV itself, which somebody may switch with    *)
(* its own remote at any moment.                                           *)
(*                                                                         *)
(* The belief (presence) comes from announcements that can be late or      *)
(* lost, from a network search and from direct probes, whose answers are   *)
(* acted on some time after they were given.  There is one flow at a time  *)
(* (Runtime), so power_on never finds another power_on under way and its   *)
(* single-flight branch is left out.  Waiting times are not modelled: what *)
(* may expire may do so at any moment.  The 25 s of power_off and the 60 s *)
(* of power_on are longer than the 8 s the flows give the step.            *)
(***************************************************************************)
EXTENDS Naturals, Sequences, SequencesExt

CONSTANTS
    MaxSwitches,  \* bound: times somebody uses the TV's own remote
    MaxLost,      \* bound: announcements that get lost
    MaxFails,     \* bound: probes that fail though the TV is on
    MaxFlows,     \* bound: flows
    MaxRefreshes  \* bound: POST /api/refresh/tv

ASSUME TvPowerBounds == {MaxSwitches, MaxLost, MaxFails, MaxFlows, MaxRefreshes} \subseteq Nat

\* Who probes the TV: a flow, power_on's direct check, a reconcile.
Askers == {"flow", "check", "search"}
Answers == {"up", "down"}
DirectChecks == 2    \* POWER_ON_DIRECT_CHECKS_S

VARIABLES
    tv,         \* "on"; "linger": just switched off, network still up; "off"
    air,        \* announcements on their way
    presence,   \* _presence_cached
    ws,         \* the websocket as the hub sees it
    wsLive,     \* it was opened since the TV's network last went down
    warming,    \* a task is connecting the websocket
    probe,      \* per asker: none, asked, or the answer not yet acted on
    search,     \* reconcile_presence: "idle", "search", "probe"
    step,       \* the flow's TV step: see Steps
    goal,       \* "on" or "off": what the flow wants of the TV
    active,     \* _power_on_active
    woken,      \* _wait_for_presence_true has been woken
    keyWorker,  \* "idle", "connect", "done"
    checks,     \* direct checks left
    outcome,    \* the last flow's TV step: "none", "ok", "failed"
    since,      \* history: what the TV was, or was announced to be, since the flow began;
                \* "unanswered": a probe failed at a TV that was on
    vouched,    \* history: the TV was on at some moment since power_off began
    mistoggled, \* history: KEY_POWER went out though not vouched
    doubtful,   \* history: askers whose answer is older than an announcement acted on, or
                \* whose probe failed at a TV that was on
    misled,     \* history: such an answer has replaced what was announced
    lost, failed, switches, flows, refreshes

\* "refresh": the check before the snapshot; "planned": the snapshot says the
\* step runs; "waiting", "connect": power_on; "recheck", "dial", "offwait":
\* power_off.
Steps == {"idle", "refresh", "planned", "waiting", "connect", "recheck", "dial", "offwait"}
StepRuns == step \in {"waiting", "connect", "recheck", "dial", "offwait"}

panel   == <<tv, air>>
socket  == <<ws, wsLive, warming>>
workers == <<active, woken, keyWorker, checks>>
belief  == <<presence, doubtful, misled>>
told    == <<since, vouched, mistoggled>>
bounds  == <<lost, failed, switches, flows, refreshes>>
vars    == <<panel, belief, socket, probe, search, step, goal, workers, outcome, told, bounds>>

IsOn(b) == IF b THEN "on" ELSE "off"
TvNow == IsOn(tv = "on")
Announced(note) == IsOn(note = "alive")
Answered(answer) == IsOn(answer = "up")

PlacesTyped ==
    /\ tv \in {"on", "linger", "off"} /\ presence \in {"unknown", "on", "off"}
    /\ ws \in {"open", "closed"} /\ search \in {"idle", "search", "probe"}
    /\ step \in Steps /\ goal \in {"on", "off"} /\ outcome \in {"none", "ok", "failed"}
    /\ keyWorker \in {"idle", "connect", "done"}

FlagsTyped ==
    /\ wsLive \in BOOLEAN /\ warming \in BOOLEAN /\ active \in BOOLEAN /\ woken \in BOOLEAN
    /\ vouched \in BOOLEAN /\ mistoggled \in BOOLEAN /\ misled \in BOOLEAN

AnswersTyped ==
    /\ probe \in [Askers -> {"none", "asked"} \cup Answers]
    /\ doubtful \subseteq Askers /\ since \subseteq {"on", "off", "unanswered"}

CountsTyped ==
    /\ checks \in 0..DirectChecks /\ lost \in 0..MaxLost /\ failed \in 0..MaxFails
    /\ switches \in 0..MaxSwitches /\ flows \in 0..MaxFlows /\ refreshes \in 0..MaxRefreshes

AirTyped == air \in Seq({"alive", "byebye"})

TypeOK == PlacesTyped /\ FlagsTyped /\ AnswersTyped /\ CountsTyped /\ AirTyped

\* The start-up reconcile and the websocket warm-up are under way.
Init ==
    /\ tv \in {"on", "off"} /\ air = << >>
    /\ presence = "unknown" /\ doubtful = {} /\ misled = FALSE
    /\ ws = "closed" /\ wsLive = FALSE /\ warming = TRUE
    /\ probe = [a \in Askers |-> "none"] /\ search = "search"
    /\ step = "idle" /\ goal = "off" /\ outcome = "none"
    /\ active = FALSE /\ woken = FALSE /\ keyWorker = "idle" /\ checks = 0
    /\ since = {} /\ vouched = FALSE /\ mistoggled = FALSE
    /\ lost = 0 /\ failed = 0 /\ switches = 0 /\ flows = 0 /\ refreshes = 0

(***************************************************************************)
(* The TV.  It announces itself when it comes on and takes its leave when  *)
(* it goes off; its network stays up for a while after that.               *)
(***************************************************************************)
TvBecomes(state) ==
    /\ tv' = state
    /\ air' = IF (state = "on") = (tv = "on") THEN air
              ELSE Append(air, IF state = "on" THEN "alive" ELSE "byebye")
    /\ since' = since \cup {IsOn(state = "on")}
    /\ vouched' = (vouched \/ state = "on")

Switched ==
    /\ switches < MaxSwitches
    /\ switches' = switches + 1
    /\ TvBecomes(IF tv = "on" THEN "linger" ELSE "on")
    /\ UNCHANGED <<belief, socket, probe, search, step, goal, workers, outcome, mistoggled,
                   lost, failed, flows, refreshes>>

LingerEnds ==
    /\ tv = "linger"
    /\ tv' = "off" /\ wsLive' = FALSE
    /\ UNCHANGED <<air, belief, ws, warming, probe, search, step, goal, workers, outcome, told, bounds>>

NoteLost ==
    /\ air # << >> /\ lost < MaxLost
    /\ lost' = lost + 1
    /\ \E i \in DOMAIN air : air' = RemoveAt(air, i)
    /\ UNCHANGED <<tv, belief, socket, probe, search, step, goal, workers, outcome, told,
                   failed, switches, flows, refreshes>>

ProbeAnswered(a) ==
    /\ probe[a] = "asked"
    /\ probe' = [probe EXCEPT ![a] = IF tv = "on" THEN "up" ELSE "down"]
    /\ doubtful' = doubtful \ {a}
    /\ UNCHANGED <<panel, presence, misled, socket, search, step, goal, workers, outcome, told,
                   bounds>>

\* Whatever keeps a TV that is on from answering in time, any exception and any
\* other status make a "down" of the probe.
ProbeFails(a) ==
    /\ probe[a] = "asked" /\ tv = "on" /\ failed < MaxFails
    /\ failed' = failed + 1
    /\ probe' = [probe EXCEPT ![a] = "down"]
    /\ doubtful' = doubtful \cup {a}
    /\ since' = since \cup {"unanswered"}
    /\ UNCHANGED <<panel, presence, misled, socket, search, step, goal, workers, outcome,
                   vouched, mistoggled, lost, switches, flows, refreshes>>

(***************************************************************************)
(* What the hub believes.                                                  *)
(***************************************************************************)
Commit(state) ==
    /\ presence' = state
    /\ woken' = (woken \/ (state = "on" /\ step = "waiting"))

\* Variant: a byebye is ignored while power_on is under way.
NotifySsdp_Faulty ==
    LET state == IF active THEN "on" ELSE Announced(Head(air)) IN
    /\ air # << >>
    /\ air' = Tail(air)
    /\ Commit(state)
    /\ warming' = (warming \/ (state = "on" /\ presence # "on"))
    /\ doubtful' = {a \in Askers : probe[a] \in Answers}
    /\ misled' = FALSE
    /\ UNCHANGED <<tv, ws, wsLive, probe, search, step, goal, active, keyWorker, checks, outcome,
                   told, bounds>>

NotifySsdp ==
    LET state == Announced(Head(air)) IN
    /\ air # << >>
    /\ air' = Tail(air)
    /\ Commit(state)
    /\ warming' = (warming \/ (state = "on" /\ presence # "on"))
    /\ doubtful' = {a \in Askers : probe[a] \in Answers}
    /\ misled' = FALSE
    /\ UNCHANGED <<tv, ws, wsLive, probe, search, step, goal, active, keyWorker, checks, outcome,
                   told, bounds>>

\* An answer is believed, whatever was announced since it was given, and whether
\* the TV gave it or the probe failed.
CommitAnswer(a) ==
    /\ Commit(Answered(probe[a]))
    /\ misled' = (a \in doubtful /\ (misled \/ presence # Answered(probe[a])))
    /\ UNCHANGED doubtful

KeepBelief == UNCHANGED <<belief, woken>>

(***************************************************************************)
(* The websocket.                                                          *)
(***************************************************************************)
\* An open one is kept; a new one needs the TV's network.
Connect ==
    \/ ws = "open" /\ UNCHANGED <<ws, wsLive>>
    \/ ws = "closed" /\ tv # "off" /\ ws' = "open" /\ wsLive' = TRUE
    \/ ws = "closed" /\ UNCHANGED <<ws, wsLive>>

WarmConnects ==
    /\ warming
    /\ warming' = FALSE
    /\ Connect
    /\ UNCHANGED <<panel, belief, probe, search, step, goal, workers, outcome, told, bounds>>

WsDrops ==
    /\ ws = "open"
    /\ ws' = "closed" /\ wsLive' = FALSE
    /\ UNCHANGED <<panel, belief, warming, probe, search, step, goal, workers, outcome, told, bounds>>

(***************************************************************************)
(* reconcile_presence: at start and by POST /api/refresh/tv.               *)
(***************************************************************************)
Refresh ==
    /\ refreshes < MaxRefreshes /\ search = "idle"
    /\ refreshes' = refreshes + 1
    /\ search' = "search"
    /\ UNCHANGED <<panel, belief, socket, probe, step, goal, workers, outcome, told,
                   lost, failed, switches, flows>>

SearchReplied ==
    /\ search = "search" /\ tv = "on"
    /\ Commit("on") /\ misled' = FALSE
    /\ search' = "idle" /\ warming' = TRUE
    /\ UNCHANGED <<panel, doubtful, ws, wsLive, probe, step, goal, active, keyWorker, checks, outcome,
                   told, bounds>>

SearchSilent ==
    /\ search = "search"
    /\ IF presence = "on"
         THEN search' = "idle" /\ warming' = TRUE /\ UNCHANGED probe
         ELSE /\ search' = "probe" /\ probe' = [probe EXCEPT !["search"] = "asked"]
              /\ UNCHANGED warming
    /\ UNCHANGED <<panel, belief, ws, wsLive, step, goal, workers, outcome, told, bounds>>

SearchProbed ==
    /\ probe["search"] \in Answers
    /\ CommitAnswer("search")
    /\ probe' = [probe EXCEPT !["search"] = "none"]
    /\ search' = "idle"
    /\ warming' = (warming \/ probe["search"] = "up")
    /\ UNCHANGED <<panel, ws, wsLive, step, goal, active, keyWorker, checks, outcome, told, bounds>>

(***************************************************************************)
(* A flow and its TV step.                                                 *)
(***************************************************************************)
\* What may still reach the hub from before.
Hearsay == {Announced(air[i]) : i \in DOMAIN air}
             \cup {Answered(probe[a]) : a \in {x \in Askers : probe[x] \in Answers}}

\* The snapshot, taken as soon as the refresh is through: the step runs if the
\* TV is not as the flow wants it.
Decide(want, believed) ==
    LET runs == (want = "on") = (believed # "on") IN
    /\ step' = IF runs THEN "planned" ELSE "idle"
    /\ outcome' = IF runs THEN "none" ELSE "ok"

\* A cached "off" is taken on trust: only "on" is checked.
FlowStarts ==
    /\ step = "idle" /\ flows < MaxFlows
    /\ flows' = flows + 1
    /\ \E want \in {"on", "off"} :
         /\ goal' = want
         /\ since' = {TvNow} \cup Hearsay \cup (IF presence = "on" THEN {} ELSE {"off"})
         /\ IF presence = "on"
              THEN step' = "refresh" /\ outcome' = "none" /\ probe' = [probe EXCEPT !["flow"] = "asked"]
              ELSE Decide(want, presence) /\ UNCHANGED probe
    /\ UNCHANGED <<panel, belief, socket, search, workers, vouched, mistoggled,
                   lost, failed, switches, refreshes>>

\* refresh_presence: only a "down" changes the belief.
RefreshAnswered ==
    /\ probe["flow"] \in Answers
    /\ IF probe["flow"] = "down" THEN CommitAnswer("flow") ELSE KeepBelief
    /\ probe' = [probe EXCEPT !["flow"] = "none"]

FlowRefreshed ==
    /\ step = "refresh" /\ probe["flow"] \in Answers
    /\ RefreshAnswered
    /\ Decide(goal, presence')
    /\ UNCHANGED <<panel, socket, search, goal, active, keyWorker, checks, told, bounds>>

(***************************************************************************)
(* power_on: wake packets until it is over, one key, two direct checks.    *)
(***************************************************************************)
StopWorkers == keyWorker' = "idle" /\ checks' = 0

PowerOn ==
    /\ step = "planned" /\ goal = "on"
    /\ IF presence = "on"
         THEN step' = "idle" /\ outcome' = "ok" /\ UNCHANGED workers
         ELSE /\ step' = "waiting" /\ active' = TRUE /\ woken' = FALSE
              /\ keyWorker' = "connect" /\ checks' = DirectChecks /\ UNCHANGED outcome
    /\ UNCHANGED <<panel, belief, socket, probe, search, goal, told, bounds>>

\* Variant: wake packets stop once the key has gone out.
WolSent_Faulty ==
    /\ step = "waiting" /\ presence # "on" /\ tv = "off" /\ keyWorker = "connect"
    /\ TvBecomes("on")
    /\ UNCHANGED <<belief, socket, probe, search, step, goal, workers, outcome, mistoggled, bounds>>

\* Wake packets reach a TV whose network sleeps; one that lingers ignores them.
WolSent ==
    /\ step = "waiting" /\ presence # "on" /\ tv = "off"
    /\ TvBecomes("on")
    /\ UNCHANGED <<belief, socket, probe, search, step, goal, workers, outcome, mistoggled, bounds>>

\* KEY_0 wakes a lingering TV over a socket that is still alive, if at all.
KeySent ==
    \/ tv = "linger" /\ wsLive' /\ TvBecomes("on")
    \/ UNCHANGED <<panel, since, vouched>>

KeyWorker ==
    /\ step = "waiting" /\ keyWorker = "connect" /\ presence # "on"
    /\ Connect
    /\ IF ws' = "open" THEN keyWorker' = "done" /\ KeySent
                       ELSE UNCHANGED <<keyWorker, panel, since, vouched>>
    /\ UNCHANGED <<belief, warming, probe, search, step, goal, active, woken, checks, outcome,
                   mistoggled, bounds>>

\* Variant: the direct checks go on for as long as power_on waits.
CheckAsked_Faulty ==
    /\ step = "waiting" /\ presence # "on" /\ probe["check"] = "none"
    /\ checks' = checks - 1
    /\ probe' = [probe EXCEPT !["check"] = "asked"]
    /\ UNCHANGED <<panel, belief, socket, search, step, goal, active, woken, keyWorker, outcome,
                   told, bounds>>

CheckAsked ==
    /\ step = "waiting" /\ checks > 0 /\ presence # "on" /\ probe["check"] = "none"
    /\ checks' = checks - 1
    /\ probe' = [probe EXCEPT !["check"] = "asked"]
    /\ UNCHANGED <<panel, belief, socket, search, step, goal, active, woken, keyWorker, outcome,
                   told, bounds>>

CheckProbed ==
    /\ probe["check"] \in Answers
    /\ IF probe["check"] = "up" THEN CommitAnswer("check") /\ checks' = 0
                                ELSE KeepBelief /\ UNCHANGED checks
    /\ probe' = [probe EXCEPT !["check"] = "none"]
    /\ UNCHANGED <<panel, socket, search, step, goal, active, keyWorker, outcome, told, bounds>>

\* Variant: a power_on that did not find the TV leaves its workers running.
PowerOnFinally_Faulty(result) ==
    /\ IF presence = "on" THEN StopWorkers ELSE UNCHANGED <<keyWorker, checks>>
    /\ probe' = [probe EXCEPT !["check"] = "none"]
    /\ woken' = FALSE
    /\ outcome' = result
    /\ IF presence = "on" THEN step' = "connect" /\ UNCHANGED active
                          ELSE step' = "idle" /\ active' = FALSE

\* The workers are cancelled and gathered; a TV that is on gets its websocket.
PowerOnFinally(result) ==
    /\ StopWorkers
    /\ probe' = [probe EXCEPT !["check"] = "none"]
    /\ woken' = FALSE
    /\ outcome' = result
    /\ IF presence = "on" THEN step' = "connect" /\ UNCHANGED active
                          ELSE step' = "idle" /\ active' = FALSE

PowerOnSeen ==
    /\ step = "waiting" /\ woken
    /\ PowerOnFinally(IF presence = "on" THEN "ok" ELSE "failed")
    /\ UNCHANGED <<panel, belief, socket, search, goal, told, bounds>>

PowerOnConnects ==
    /\ step = "connect"
    /\ Connect
    /\ step' = "idle" /\ active' = FALSE
    /\ UNCHANGED <<panel, belief, warming, probe, search, goal, woken, keyWorker, checks, outcome,
                   told, bounds>>

(***************************************************************************)
(* power_off: check again, KEY_POWER once, then wait for the TV to go.     *)
(***************************************************************************)
\* Variant: the check the flow began with is thought enough.
PowerOff_Faulty ==
    /\ step = "planned" /\ goal = "off"
    /\ vouched' = (tv = "on")
    /\ IF presence = "on"
         THEN step' = "dial" /\ UNCHANGED outcome
         ELSE step' = "idle" /\ outcome' = "ok"
    /\ UNCHANGED <<panel, belief, socket, probe, search, goal, workers, since, mistoggled, bounds>>

PowerOff ==
    /\ step = "planned" /\ goal = "off"
    /\ vouched' = (tv = "on")
    /\ IF presence = "on"
         THEN step' = "recheck" /\ probe' = [probe EXCEPT !["flow"] = "asked"] /\ UNCHANGED outcome
         ELSE step' = "idle" /\ outcome' = "ok" /\ UNCHANGED probe
    /\ UNCHANGED <<panel, belief, socket, search, goal, workers, since, mistoggled, bounds>>

\* KEY_POWER is a toggle; it may get lost with the socket.
Toggled ==
    /\ mistoggled' = (mistoggled \/ ~vouched)
    /\ \/ wsLive' /\ tv # "off" /\ TvBecomes(IF tv = "on" THEN "linger" ELSE "on")
       \/ UNCHANGED <<panel, since, vouched>>

\* With the socket open and nobody at it the key goes out at once.
Rechecked ==
    /\ step = "recheck"
    /\ RefreshAnswered /\ UNCHANGED socket
    /\ IF presence' = "off"
         THEN step' = "idle" /\ outcome' = "ok" /\ UNCHANGED <<panel, told>>
         ELSE /\ UNCHANGED outcome
              /\ IF ws = "open" /\ ~warming
                   THEN step' = "offwait" /\ Toggled
                   ELSE step' = "dial" /\ UNCHANGED <<panel, told>>
    /\ UNCHANGED <<search, goal, active, keyWorker, checks, bounds>>

\* Variant: power_off is satisfied with having sent the key.
Dialled_Faulty ==
    /\ step = "dial"
    /\ Connect
    /\ IF ws' = "open" THEN Toggled ELSE UNCHANGED <<panel, told>>
    /\ step' = "idle" /\ outcome' = IF ws' = "open" THEN "ok" ELSE "failed"
    /\ UNCHANGED <<belief, warming, probe, search, goal, workers, bounds>>

Dialled ==
    /\ step = "dial"
    /\ Connect
    /\ IF ws' = "open" THEN Toggled ELSE UNCHANGED <<panel, told>>
    /\ step' = "offwait"
    /\ UNCHANGED <<belief, warming, probe, search, goal, workers, outcome, bounds>>

OffSeen ==
    /\ step = "offwait" /\ probe["flow"] = "none"
    /\ IF presence = "off" THEN step' = "idle" /\ outcome' = "ok" /\ UNCHANGED probe
                           ELSE probe' = [probe EXCEPT !["flow"] = "asked"] /\ UNCHANGED <<step, outcome>>
    /\ UNCHANGED <<panel, belief, socket, search, goal, workers, told, bounds>>

OffProbed ==
    /\ step = "offwait"
    /\ RefreshAnswered
    /\ IF probe["flow"] = "down" THEN step' = "idle" /\ outcome' = "ok"
                                 ELSE UNCHANGED <<step, outcome>>
    /\ UNCHANGED <<panel, socket, search, goal, active, keyWorker, checks, told, bounds>>

\* TV_POWER_TIMEOUT_S, at most once per step.
TimedOut ==
    /\ StepRuns /\ (outcome = "none" \/ (step = "connect" /\ outcome = "ok"))
    /\ IF step = "waiting"
         THEN PowerOnFinally("failed")
         ELSE /\ step' = "idle" /\ outcome' = "failed" /\ active' = FALSE
              /\ probe' = [probe EXCEPT !["flow"] = "none"]
              /\ UNCHANGED <<woken, keyWorker, checks>>
    /\ UNCHANGED <<panel, belief, socket, search, goal, told, bounds>>

TvMoves       == Switched \/ LingerEnds \/ NoteLost \/ \E a \in Askers : ProbeAnswered(a) \/ ProbeFails(a)
HubHears      == NotifySsdp \/ Refresh \/ SearchReplied \/ SearchSilent \/ SearchProbed
SocketMoves   == WarmConnects \/ WsDrops
FlowMoves     == FlowStarts \/ FlowRefreshed \/ TimedOut
PowerOnMoves  == PowerOn \/ WolSent \/ KeyWorker \/ CheckAsked \/ CheckProbed \/ PowerOnSeen \/ PowerOnConnects
PowerOffMoves == PowerOff \/ Rechecked \/ Dialled \/ OffSeen \/ OffProbed

Next == TvMoves \/ HubHears \/ SocketMoves \/ FlowMoves \/ PowerOnMoves \/ PowerOffMoves

Spec == Init /\ [][Next]_vars

\* What the hub does without anybody's help, and what the TV does by itself.
Fairness ==
    /\ WF_vars(LingerEnds) /\ WF_vars(\E a \in Askers : ProbeAnswered(a))
    /\ WF_vars(NotifySsdp) /\ WF_vars(WolSent) /\ WF_vars(PowerOnSeen)

FairSpec == Spec /\ Fairness

(***************************************************************************)
(* Properties.                                                             *)
(***************************************************************************)
\* power_on leaves nothing behind: once it is over, found, timed out or
\* cancelled in the middle of its last connect, no worker of it can wake the
\* TV any more and the next power_on is not taken for an overlapping one.
PowerOnIsOver ==
    /\ active <=> step \in {"waiting", "connect"}
    /\ step # "waiting" => keyWorker = "idle" /\ probe["check"] = "none" /\ checks = 0

\* power_off never sends its toggle on hearsay: whatever announcements got
\* lost, the TV was on at some moment since power_off began.
ToggleIsChecked == ~mistoggled

\* A TV step that reports success tells of the TV as it was at some moment of
\* the flow, or as it was said to be by what was on its way when the flow
\* began; only the "off" that was cached already is taken on trust, and an
\* "off" may come of a probe that failed since at a TV that was on.
OkIsTrue == outcome = "ok" => goal \in since \/ (goal = "off" /\ "unanswered" \in since)

\* Once every announcement has arrived the belief is the TV's state, unless one
\* was lost, or the answer last put over it was older than what had been
\* announced or that of a probe that failed at a TV that was on.
PresenceAgrees ==
    air = << >> /\ lost = 0 /\ ~misled /\ presence # "unknown" => presence = TvNow

\* While power_on waits, the TV gets switched on, lingering or not.
TvComesOn == step = "waiting" ~> (tv = "on" \/ step # "waiting")

\* "an SSDP alive corrects it the moment the TV comes on" (samsung_tv.py:578):
\* a TV that is on and whose announcements have all arrived is not believed off.
AliveCorrects == air = << >> /\ lost = 0 /\ tv = "on" => presence # "off"
=============================================================================
