------------------------------ MODULE Speaker ------------------------------
(***************************************************************************)
(* AudioProSpeaker: how the hub knows what the speaker is doing.           *)
(*                                                                         *)
(* The speaker pushes hints over TCP (a new source, AXX+PLM; or just that  *)
(* something happened), the hub answers a burst of hints with one question *)
(* (PINFGET) once it has settled, and only the answer (AXX+PLY+INF) is     *)
(* believed whole.  Messages of one connection keep their order.           *)
(*                                                                         *)
(* Times are left to choice, with one exception the code counts on: a      *)
(* question that waited its whole delay is asked when every change whose   *)
(* hint was heard shows in the speaker's status (PINFGET_HINT_DELAY_S).    *)
(* A handler that does not wait is one action.                             *)
(***************************************************************************)
EXTENDS Naturals, Sequences

CONSTANT
    MaxEvents  \* bound: things that happen to the link between hub and speaker:
               \* changes, chatter, commands, refreshes asked for, failures

ASSUME SpeakerBounds == MaxEvents \in Nat

\* What a speaker can be doing: on a physical input, or on the network, where a
\* multiroom guest reports itself stopped.  "idle" is left out; it would only
\* show that AXX+PLM keeps the playing status across it.
Doings == {"hdmi", "stopped", "playing", "guest"}
Sources == {"hdmi", "wifi", "multiroom-secondary"}
Statuses == {"none", "stop", "play"}
Commands == {"set_source", "play_url", "leave"}

VARIABLES
    real,      \* what the speaker is doing
    shown,     \* what its status says: follows real after a while
    wire,      \* its messages not yet read by the hub
    asked,     \* questions it has not answered
    source, status, guest, ready,  \* the fields of SpeakerState
    settled,   \* InitialStatus.settled
    link,      \* where _runner stands: see Links
    task,      \* _pending_pinfget_task: see Tasks
    owed,      \* _pinfget_last_hint > _last_pinfget_monotonic, once a question is stamped
    hurry,     \* the pending question does not wait its whole delay
    refresh,   \* request_refresh: "idle", or "drain" as for a task
    command,   \* the HTTP command under way, or "none"
    begun,     \* history: sessions that began, or are told anew, and are not yet signalled
    alarms,    \* history: messages that set off a signal with nothing begun
    early,     \* history: the last answer was given before the status was right
    unheard,   \* history: a command failed after the speaker silently obeyed
    events     \* how many of them have happened

\* "hello": connected; "gate": the handshake's question is out; "broken": a
\* send has failed, _runner does not know yet.
Links == {"down", "hello", "gate", "up", "broken"}
Connected == link \in {"hello", "gate", "up"}

\* "wait": sleeping; "stamped": _last_pinfget_monotonic is set, wants the send
\* lock; "drain": the question is written, drain() has not returned.
Tasks == {"none", "wait", "stamped", "drain"}
LockFree == task # "drain" /\ refresh # "drain"

player  == <<real, shown, wire, asked>>
view    == <<source, status, guest, ready, settled>>
pending == <<task, owed, hurry>>
told    == <<begun, alarms, early, unheard>>
vars    == <<player, view, link, pending, refresh, command, told, events>>

\* What AXX+PLM and AXX+PLY+INF say of a doing.
SourceOf(d) == CASE d = "hdmi" -> "hdmi" [] d = "guest" -> "multiroom-secondary" [] OTHER -> "wifi"
StatusOf(d) == CASE d = "hdmi" -> "none" [] d \in {"playing", "guest"} -> "play" [] OTHER -> "stop"
Plays(d) == d \in {"playing", "guest"}

Listening(src, st) == src \in {"wifi", "multiroom-secondary"} /\ st = "play"

Plm(d) == [kind |-> "plm", at |-> d]
Hint(d) == [kind |-> "hint", at |-> d]
\* An answer; "early" is one given while the status was not yet right.
Answer == {"inf", "early"}
Inf(d) == [kind |-> IF d = real THEN "inf" ELSE "early", at |-> d]
Messages == [kind : {"plm", "hint"} \cup Answer, at : Doings]

TypeOK ==
    /\ real \in Doings /\ shown \in Doings /\ wire \in Seq(Messages) /\ asked \in Nat
    /\ source \in Sources \cup {"none"} /\ status \in Statuses /\ guest \in BOOLEAN
    /\ ready \in BOOLEAN /\ settled \in BOOLEAN
    /\ link \in Links /\ task \in Tasks /\ owed \in BOOLEAN /\ hurry \in BOOLEAN
    /\ refresh \in {"idle", "drain"}
    /\ command \in Commands \cup {"none"}
    /\ begun \in Nat /\ alarms \subseteq {"plm"} \cup Answer /\ early \in BOOLEAN /\ unheard \in BOOLEAN
    /\ events \in 0..MaxEvents

Init ==
    /\ real \in Doings /\ shown = real /\ wire = << >> /\ asked = 0
    /\ source = "none" /\ status = "none" /\ guest = FALSE /\ ready = FALSE /\ settled = FALSE
    /\ link = "down" /\ task = "none" /\ owed = FALSE /\ hurry = FALSE
    /\ refresh = "idle" /\ command = "none"
    /\ begun = 0 /\ alarms = {} /\ early = FALSE /\ unheard = FALSE
    /\ events = 0

Event == events < MaxEvents /\ events' = events + 1

(***************************************************************************)
(* The speaker.                                                            *)
(***************************************************************************)
Push(messages) == wire' = IF Connected THEN wire \o messages ELSE wire

News(d) == IF SourceOf(d) # SourceOf(real) THEN Plm(d) ELSE Hint(d)

Begins(d) == begun' = IF Plays(d) /\ ~Plays(real) THEN begun + 1 ELSE begun

\* Somebody uses an app, the TV, the speaker's buttons.
Changed ==
    /\ Event
    /\ \E d \in Doings \ {real} : real' = d /\ Push(<<News(d)>>) /\ Begins(d)
    /\ UNCHANGED <<shown, asked, view, link, pending, refresh, command, alarms, early, unheard>>

\* Hints come in bursts, and for things the hub does not keep.
Chatters ==
    /\ Connected /\ Event
    /\ Push(<<Hint(real)>>)
    /\ UNCHANGED <<real, shown, asked, view, link, pending, refresh, command, told>>

Settles ==
    /\ shown # real
    /\ shown' = real
    /\ UNCHANGED <<real, wire, asked, view, link, pending, refresh, command, told, events>>

Answers ==
    /\ asked > 0 /\ Connected
    /\ asked' = asked - 1
    /\ Push(<<Inf(shown)>>)
    /\ early' = (shown # real)
    /\ begun' = IF Plays(real) /\ ~Plays(shown) THEN begun + 1 ELSE begun
    /\ unheard' = FALSE
    /\ UNCHANGED <<real, shown, view, link, pending, refresh, command, alarms, events>>

(***************************************************************************)
(* What the hub hears.                                                     *)
(***************************************************************************)
\* _request_pinfget: a question already waiting is pushed back, though not past
\* PINFGET_MAX_WAIT_S; one already going out is owed another.
RequestPinfget ==
    \/ task = "none" /\ task' = "wait" /\ hurry' = FALSE /\ owed' = owed
    \/ task = "wait" /\ task' = task /\ hurry' \in BOOLEAN /\ owed' = owed
    \/ task \in {"stamped", "drain"} /\ owed' = TRUE /\ UNCHANGED <<task, hurry>>

\* _emit_listen_edge, with the fields as they were and as they are now.
ListenEdge(by) ==
    IF settled /\ ~Listening(source, status) /\ Listening(source', status')
      THEN /\ alarms' = IF begun = 0 THEN alarms \cup {by} ELSE alarms
           /\ begun' = IF begun = 0 \/ by = "early" THEN begun ELSE begun - 1
      ELSE UNCHANGED <<alarms, begun>>

Reads(kinds) ==
    /\ link # "down" /\ wire # << >> /\ Head(wire).kind \in kinds
    /\ wire' = Tail(wire)

\* Variant: the mode is taken for the source.
HandlePlm_Faulty ==
    /\ Reads({"plm"})
    /\ source' = Head(wire).at
    /\ status' = IF source' = "hdmi" THEN "none" ELSE status
    /\ ListenEdge("plm")
    /\ RequestPinfget
    /\ UNCHANGED <<real, shown, asked, guest, ready, settled, link, refresh, command, early, unheard, events>>

HandlePlm ==
    /\ Reads({"plm"})
    /\ source' = SourceOf(Head(wire).at)
    /\ status' = IF source' = "hdmi" THEN "none" ELSE status
    /\ ListenEdge("plm")
    /\ RequestPinfget
    /\ UNCHANGED <<real, shown, asked, guest, ready, settled, link, refresh, command, early, unheard, events>>

\* Variant: a hint is not asked about.
HandleHint_Faulty ==
    /\ Reads({"hint"})
    /\ UNCHANGED <<real, shown, asked, view, link, pending, refresh, command, told, events>>

HandleHint ==
    /\ Reads({"hint"})
    /\ RequestPinfget
    /\ UNCHANGED <<real, shown, asked, view, link, refresh, command, told, events>>

\* Variant: the first reading settles before its edge is looked at.
HandlePlyInf_Faulty ==
    /\ Reads(Answer)
    /\ source' = SourceOf(Head(wire).at) /\ status' = StatusOf(Head(wire).at)
    /\ guest' = (Head(wire).at = "guest")
    /\ ready' = TRUE /\ settled' = TRUE
    /\ IF ~Listening(source, status) /\ Listening(source', status') /\ begun = 0
         THEN alarms' = alarms \cup {Head(wire).kind} /\ begun' = begun
         ELSE UNCHANGED <<alarms, begun>>
    /\ UNCHANGED <<real, shown, asked, link, pending, refresh, command, early, unheard, events>>

\* The mode of a guest comes with type 1 in this model.
HandlePlyInf ==
    /\ Reads(Answer)
    /\ source' = SourceOf(Head(wire).at) /\ status' = StatusOf(Head(wire).at)
    /\ guest' = (Head(wire).at = "guest")
    /\ ready' = TRUE /\ settled' = TRUE
    /\ ListenEdge(Head(wire).kind)
    /\ UNCHANGED <<real, shown, asked, link, pending, refresh, command, early, unheard, events>>

(***************************************************************************)
(* Questions.  A send holds _send_lock until drain() returns.              *)
(***************************************************************************)
HintUnread == \E i \in DOMAIN wire : wire[i].kind \in {"plm", "hint"}

TaskDue ==
    /\ task = "wait" /\ (hurry \/ shown = real \/ HintUnread)
    /\ task' = IF Connected THEN "stamped" ELSE "none"
    /\ hurry' = FALSE
    /\ UNCHANGED <<player, view, link, owed, refresh, command, told, events>>

TaskWrites ==
    /\ task = "stamped" /\ LockFree /\ Connected
    /\ task' = "drain" /\ asked' = asked + 1
    /\ UNCHANGED <<real, shown, wire, view, link, owed, hurry, refresh, command, told, events>>

\* Variant: a hint that landed as the question went out is not looked at again.
TaskReturns_Faulty ==
    /\ task = "drain"
    /\ task' = "none" /\ hurry' = FALSE /\ owed' = FALSE
    /\ UNCHANGED <<player, view, link, refresh, command, told, events>>

\* With _clear_pending_pinfget: a hint that landed meanwhile asks again at once.
TaskReturns ==
    /\ task = "drain"
    /\ task' = IF owed THEN "wait" ELSE "none"
    /\ hurry' = owed /\ owed' = FALSE
    /\ UNCHANGED <<player, view, link, refresh, command, told, events>>

RefreshWrites ==
    /\ LockFree /\ Connected /\ Event
    /\ refresh' = "drain" /\ asked' = asked + 1
    /\ UNCHANGED <<real, shown, wire, view, link, pending, command, told>>

\* request_refresh stamps its question after the send, not before.
RefreshReturns ==
    /\ refresh = "drain"
    /\ refresh' = "idle" /\ owed' = FALSE
    /\ UNCHANGED <<player, view, link, task, hurry, command, told, events>>

\* _cancel_pending_pinfget
CancelQuestion == task' = "none" /\ owed' = FALSE /\ hurry' = FALSE

\* drain() times out or breaks: _fail_link drops the connection under _runner.
SendFails ==
    /\ ~LockFree /\ Connected /\ Event
    /\ link' = "broken" /\ ready' = FALSE /\ asked' = 0
    /\ CancelQuestion /\ refresh' = "idle"
    /\ UNCHANGED <<real, shown, wire, source, status, guest, settled, command, told>>

(***************************************************************************)
(* The connection.                                                         *)
(***************************************************************************)
\* mark_failed: from here on a session found playing counts as one that begins.
MarkFailed ==
    /\ settled' = TRUE
    /\ begun' = IF ~settled /\ (Plays(real) \/ Plays(shown)) THEN begun + 1 ELSE begun

Connects ==
    /\ link = "down"
    /\ link' = "hello" /\ ready' = FALSE
    /\ UNCHANGED <<player, source, status, guest, settled, pending, refresh, command, told, events>>

ConnectFails ==
    /\ link = "down" /\ Event
    /\ ready' = FALSE /\ CancelQuestion /\ MarkFailed
    /\ UNCHANGED <<player, source, status, guest, link, refresh, command,
                   alarms, early, unheard>>

HandshakeAsks ==
    /\ link = "hello" /\ LockFree
    /\ link' = "gate" /\ asked' = asked + 1
    /\ UNCHANGED <<real, shown, wire, view, pending, refresh, command, told, events>>

HandshakeDone ==
    /\ link = "gate" /\ ready
    /\ link' = "up"
    /\ UNCHANGED <<player, view, pending, refresh, command, told, events>>

\* The reader ends or the handshake times out; _runner cleans up either way.
LinkLost ==
    /\ \/ Connected /\ Event
       \/ link = "broken" /\ events' = events
    /\ link' = "down" /\ ready' = FALSE /\ wire' = << >> /\ asked' = 0
    /\ CancelQuestion /\ refresh' = "idle" /\ MarkFailed
    /\ UNCHANGED <<real, shown, source, status, guest, command,
                   alarms, early, unheard>>

(***************************************************************************)
(* The hub's own commands, one at a time, over HTTP.                       *)
(***************************************************************************)
Target(c) == CASE c = "set_source" -> "hdmi" [] c = "play_url" -> "playing" [] OTHER -> "stopped"

CommandStarts ==
    /\ command = "none" /\ Event
    /\ \E c \in Commands : command' = c /\ (IF c = "leave" THEN guest ELSE ready)
    /\ UNCHANGED <<player, view, link, pending, refresh, told>>

\* The speaker obeys, and answers once it has; it does not reliably send a hint
\* too.  A guest is kicked by its host, which refuses if it is no guest any more.
Obeyed ==
    /\ command # "none"
    /\ command = "leave" => real = "guest"
    /\ real' = Target(command) /\ Begins(real')
    /\ command' = "none"

CommandReturns ==
    /\ Obeyed
    /\ guest' = (guest /\ command # "leave")
    /\ \/ Push(<<News(real')>>)
       \/ wire' = wire
    /\ RequestPinfget
    /\ UNCHANGED <<shown, asked, source, status, ready, settled, link, refresh, alarms, early, unheard, events>>

\* The speaker obeyed, but its answer came too late: nothing is asked.
CommandTimesOut ==
    /\ Obeyed
    /\ \/ Push(<<News(real')>>) /\ unheard' = unheard
       \/ wire' = wire /\ unheard' = TRUE
    /\ UNCHANGED <<shown, asked, view, link, pending, refresh, alarms, early, events>>

CommandFails ==
    /\ command # "none"
    /\ command' = "none"
    /\ UNCHANGED <<player, view, link, pending, refresh, told, events>>

SpeakerMoves  == Changed \/ Chatters \/ Settles \/ Answers
HubReads      == HandlePlm \/ HandleHint \/ HandlePlyInf
QuestionMoves == TaskDue \/ TaskWrites \/ TaskReturns \/ RefreshWrites \/ RefreshReturns
LinkMoves     == SendFails \/ Connects \/ ConnectFails \/ HandshakeAsks \/ HandshakeDone \/ LinkLost
CommandMoves  == CommandStarts \/ CommandReturns \/ CommandTimesOut \/ CommandFails

Next == SpeakerMoves \/ HubReads \/ QuestionMoves \/ LinkMoves \/ CommandMoves

Spec == Init /\ [][Next]_vars

\* The speaker shows what it does and answers; the hub's reader and its
\* question task run; drain() returns, or its timeout counts as an event.
FairSpec ==
    /\ Spec
    /\ WF_vars(Settles) /\ WF_vars(Answers) /\ WF_vars(HubReads)
    /\ WF_vars(TaskDue) /\ WF_vars(TaskWrites) /\ WF_vars(TaskReturns) /\ WF_vars(RefreshReturns)

(***************************************************************************)
(* Properties.                                                             *)
(***************************************************************************)
Agrees ==
    /\ source = SourceOf(real) /\ status = StatusOf(real)
    /\ guest = (real = "guest")

\* Nothing is on its way, in either direction.
Quiet == link = "up" /\ wire = << >> /\ asked = 0 /\ task = "none" /\ command = "none"

\* However hints, questions, answers, commands and reconnects interleave, when
\* nothing is on its way the state is the speaker's, unless the last answer
\* was given too early or a command failed after it silently took effect.
MirrorAgrees == Quiet /\ ~early /\ ~unheard => Agrees

\* A listen signal that a right answer sets off tells of a session that began
\* since the last signal: never of the one found at start-up, nor of a reconnect.
NoFalseAlarm == "inf" \notin alarms

\* Once the speaker is left alone and the connection holds, the hub gets to
\* know what it is doing.
TruthArrives ==
    <>[](link = "up" /\ command = "none") => <>[](early \/ unheard \/ Agrees)

(***************************************************************************)
(* Why the state is the speaker's: the inductive invariant of              *)
(* SpeakerProofs.                                                          *)
(***************************************************************************)
\* Something is still to be asked, or to be answered.
StillOwed ==
    \/ link = "hello" \/ HintUnread \/ asked > 0
    \/ task \in {"wait", "stamped"} \/ (task = "drain" /\ owed)

\* The last the hub hears, or has heard, is what the speaker is doing.
LastHeardIsReal == IF wire = << >> THEN Agrees ELSE wire[Len(wire)].at = real

OneSends == ~(task = "drain" /\ refresh = "drain")

IInv ==
    /\ TypeOK /\ OneSends
    /\ Connected /\ ~StillOwed /\ ~early /\ ~unheard => LastHeardIsReal

(***************************************************************************)
(* Why no right answer sets off a false signal.                            *)
(***************************************************************************)
\* Whether the hub knows of no session, now or once it has read that much.
Ends(m) == IF m.kind = "plm" THEN m.at = "hdmi" ELSE m.kind \in Answer /\ ~Plays(m.at)
Over(i) == IF i = 0 THEN settled /\ ~Listening(source, status) ELSE Ends(wire[i])
SaysPlaying(m) == m.kind = "inf" /\ Plays(m.at)

\* What is on the wire can be dated by the sessions that had begun: between one
\* that tells of no session and a right answer that tells of one, one has begun.
Dated ==
    \E since \in [0..Len(wire) -> 0..begun] :
        /\ \A i, j \in 0..Len(wire) : i <= j => since[i] <= since[j]
        /\ \A i, j \in 0..Len(wire) : i < j /\ Over(i) /\ SaysPlaying(wire[j]) => since[i] < since[j]
        /\ \A i \in 0..Len(wire) : Over(i) /\ Plays(real) => since[i] < begun

StatusFits == status = "play" => source \in {"wifi", "multiroom-secondary"}

SignalsOK == (link = "down" => wire = << >>) /\ StatusFits /\ Dated /\ NoFalseAlarm
=============================================================================
