----------------------------- MODULE Soundbar ------------------------------
(***************************************************************************)
(* SamsungSoundbar: Cast connections with a thread each, AirPlay seen      *)
(* through mDNS, and what the hub makes of the two.                        *)
(*                                                                         *)
(* Threads do not touch the state: they post to the event loop.  A posted  *)
(* receiver status carries no app; the handler reads the newest one the    *)
(* current connection knows (_cast_status).  A media status carries its    *)
(* player state and the connection it came over.  Both callers that find   *)
(* no connection make one of their own; the last to be ready is kept, and  *)
(* no connection is ever closed while the hub runs.  One may be lost       *)
(* silently: it says nothing any more, its commands fail, and the app it   *)
(* holds to be open (cast.app_id, all the watchdog reads) is the last it   *)
(* heard of, until the library has dialled again.                          *)
(*                                                                         *)
(* A connection's thread hears of a change at once (that one thread may be *)
(* behind the other is left out); the loop handles it when it gets to it.  *)
(***************************************************************************)
EXTENDS Naturals, Sequences

CONSTANT
    MaxEvents  \* bound: uses of the bar, commands, failures, wake-ups, lost mDNS records

ASSUME SoundbarBounds == MaxEvents \in Nat

\* What the bar does: the TV, a Cast app that is idle or plays, AirPlay; "both"
\* is AirPlay over a Cast app left open.
Doings == {"tv", "idle", "playing", "airplay", "both"}
HasApp(d) == d \in {"idle", "playing", "both"}
HasAir(d) == d \in {"airplay", "both"}
Plays(d) == HasAir(d) \/ d = "playing"
PlayerOf(d) == IF d = "playing" THEN "playing" ELSE IF HasApp(d) THEN "idle" ELSE "none"

Conns == {"runner", "command"}  \* who made the connection
Commands == {"play_url", "release"}

VARIABLES
    bar,      \* what the bar does
    phase,    \* a connection: "none", "opening", "made" by its thread, "live"
    asked,    \* a connection: the first media status of an open app is on its way
    lost,     \* a connection: "no", or silently lost, an "app" or "none" in its cache
    resolve,  \* the mDNS browser has heard of the AirPlay record and will resolve it
    posted,   \* call_soon_threadsafe: what the loop has still to handle
    cast,     \* _cast
    appView, playerView, airView,  \* the fields of SamsungSoundbarState
    runner,   \* "connect", "opening", "read", "apply", "wait"
    captured, \* what _read_cast_status returned, until it is applied
    due, seen,            \* the status line (_status_line_due), _media_status_seen
    settled, airSettled,  \* initial.settled, airplay_initial.settled
    calls,    \* commands called, in the order of _send_lock; the head has it
    stage,    \* of the head: "queued", "opening", "takeover"
    begun,    \* history: sessions that began, or are told anew, and not yet signalled
    alarms,   \* history: what set off a signal with nothing begun
    session,  \* history: how many sessions there were
    unreleased, \* history: a release returned with its session still on
    staleApp, \* history: a reading was put over a newer app, or _cast was lost when it changed
    wiped,    \* history: a reading, a stale status or one before the first, was put over a player heard
    deaf,     \* history: a connection's last media status came before its listener, or not at all
    missedAir,\* history: the last change of the AirPlay record was not resolved
    events

devices == <<bar, phase, asked, lost, resolve>>
view    == <<appView, playerView, airView>>
initial == <<due, seen, settled, airSettled>>
order   == <<calls, stage>>
told    == <<begun, alarms>>
lapses  == <<staleApp, wiped, missedAir>>
gaps    == <<lapses, deaf>>
vars    == <<devices, posted, cast, view, runner, captured, initial, order, told,
             session, unreleased, gaps, events>>

Players == {"none", "idle", "playing"}
Status == [kind |-> "status"]
Media(c, p) == [kind |-> "media", by |-> c, player |-> p]
Flags(f) == [kind |-> "flags", air |-> f]
Posts == {Status} \cup {Media(c, p) : c \in Conns, p \in Players}
                  \cup {Flags(f) : f \in {"on", "off", "none"}}

Calls == [kind : Commands, airplay : BOOLEAN, known : Nat]

DevicesOK ==
    /\ bar \in Doings /\ phase \in [Conns -> {"none", "opening", "made", "live"}]
    /\ asked \in [Conns -> BOOLEAN] /\ lost \in [Conns -> {"no", "app", "none"}] /\ resolve \in BOOLEAN
    /\ posted \in Seq(Posts) /\ cast \in Conns \cup {"none"}
ViewOK ==
    /\ appView \in BOOLEAN /\ playerView \in Players /\ airView \in {"none", "on", "off"}
    /\ runner \in {"connect", "opening", "read", "apply", "wait"} /\ captured \in BOOLEAN
    /\ due \in {"never", "due", "said"} /\ seen \in BOOLEAN /\ settled \in BOOLEAN /\ airSettled \in BOOLEAN
OrderOK ==
    /\ calls \in Seq(Calls) /\ stage \in {"queued", "opening", "takeover"}
HistoryOK ==
    /\ begun \in Nat /\ alarms \subseteq {"cast", "air"} /\ session \in Nat
    /\ unreleased \in BOOLEAN /\ staleApp \in BOOLEAN /\ wiped \in BOOLEAN
    /\ deaf \in [Conns -> BOOLEAN] /\ missedAir \in BOOLEAN
    /\ events \in 0..MaxEvents

\* Who waits for a connection is the one that makes it.
ConnectionsOK ==
    /\ runner = "opening" <=> phase["runner"] \in {"opening", "made"}
    /\ stage = "opening" <=> phase["command"] \in {"opening", "made"}
    /\ cast = "none" \/ phase[cast] = "live"

TypeOK == DevicesOK /\ ViewOK /\ OrderOK /\ HistoryOK /\ ConnectionsOK

Init ==
    /\ bar \in Doings
    /\ phase = [c \in Conns |-> "none"] /\ asked = [c \in Conns |-> FALSE]
    /\ lost = [c \in Conns |-> "no"] /\ resolve = TRUE
    /\ posted = << >> /\ cast = "none"
    /\ appView = FALSE /\ playerView = "none" /\ airView = "none"
    /\ runner = "connect" /\ captured = FALSE
    /\ due = "never" /\ seen = FALSE /\ settled = FALSE /\ airSettled = FALSE
    /\ calls = << >> /\ stage = "queued"
    /\ begun = 0 /\ alarms = {} /\ session = IF Plays(bar) THEN 1 ELSE 0
    /\ unreleased = FALSE /\ staleApp = FALSE /\ wiped = FALSE
    /\ deaf = [c \in Conns |-> FALSE] /\ missedAir = FALSE
    /\ events = 0

Event == events < MaxEvents /\ events' = events + 1

(***************************************************************************)
(* The bar, its connections' threads and the mDNS browser's.               *)
(***************************************************************************)
Begins(d) == (HasAir(d) /\ ~HasAir(bar)) \/ (d = "playing" /\ bar # "playing")

\* The app a connection holds to be open.
AppOf(c) == c # "none" /\ IF lost[c] = "no" THEN HasApp(bar) ELSE lost[c] = "app"
Lost(c) == c # "none" /\ lost[c] # "no"

\* The bar does something else.  A connection that is not listened to yet has
\* nobody to tell, and one that is lost hears nothing.
Says(c, d) ==
    IF phase[c] # "live" \/ Lost(c) THEN << >>
    ELSE (IF HasApp(d) = HasApp(bar) THEN << >> ELSE <<Status>>)
         \o (IF PlayerOf(d) = PlayerOf(bar) THEN << >> ELSE <<Media(c, PlayerOf(d))>>)

Becomes(d) ==
    /\ bar' = d
    /\ posted' = posted \o Says("runner", d) \o Says("command", d)
    /\ deaf' = [c \in Conns |-> IF PlayerOf(d) = PlayerOf(bar) THEN deaf[c] ELSE phase[c] = "made" \/ Lost(c)]
    /\ staleApp' = (staleApp \/ (Lost(cast) /\ HasApp(d) # HasApp(bar)))
    /\ resolve' = (resolve \/ HasAir(d) # HasAir(bar))
    /\ session' = IF Begins(d) THEN session + 1 ELSE session
    /\ begun' = IF Begins(d) THEN begun + 1 ELSE begun

\* Somebody's phone: AirPlay ends what Cast plays, casting ends AirPlay.
Used ==
    /\ Event
    /\ \E d \in Doings \ {bar} : Becomes(d)
    /\ UNCHANGED <<phase, asked, lost, cast, view, runner, captured, initial, order, alarms,
                   unreleased, wiped, missedAir>>

\* Nothing is said of the loss, and an answer under way is lost with it.
LinkLost(c) ==
    /\ phase[c] \in {"made", "live"} /\ lost[c] = "no" /\ Event
    /\ lost' = [lost EXCEPT ![c] = IF HasApp(bar) THEN "app" ELSE "none"]
    /\ asked' = [asked EXCEPT ![c] = FALSE]
    /\ deaf' = [deaf EXCEPT ![c] = deaf[c] \/ asked[c]]
    /\ UNCHANGED <<bar, phase, resolve, posted, cast, view, runner, captured, initial, order, told,
                   session, unreleased, lapses>>

\* The library has dialled again and says where the bar stands; the media
\* channel of an open app answers next.
Retells(c) ==
    IF phase[c] # "live" THEN << >>
    ELSE <<Status>> \o (IF HasApp(bar) THEN << >> ELSE <<Media(c, "none")>>)

LinkBack(c) ==
    /\ Lost(c)
    /\ lost' = [lost EXCEPT ![c] = "no"]
    /\ asked' = [asked EXCEPT ![c] = HasApp(bar)]
    /\ posted' = posted \o Retells(c)
    /\ UNCHANGED <<bar, phase, resolve, cast, view, runner, captured, initial, order, told,
                   session, unreleased, gaps, events>>

MediaAnswers(c) ==
    /\ asked[c]
    /\ asked' = [asked EXCEPT ![c] = FALSE]
    /\ deaf' = [deaf EXCEPT ![c] = phase[c] = "made"]
    /\ posted' = IF phase[c] = "live" THEN Append(posted, Media(c, PlayerOf(bar))) ELSE posted
    /\ UNCHANGED <<bar, phase, lost, resolve, cast, view, runner, captured, initial, order, told,
                   session, unreleased, lapses, events>>

\* The flags are those of the record when the resolve is answered.
Resolved ==
    /\ resolve
    /\ resolve' = FALSE /\ missedAir' = FALSE
    /\ posted' = Append(posted, Flags(IF HasAir(bar) THEN "on" ELSE "off"))
    /\ UNCHANGED <<bar, phase, asked, lost, cast, view, runner, captured, initial, order, told,
                   session, unreleased, staleApp, wiped, deaf, events>>

ResolveFails ==
    /\ resolve /\ Event
    /\ resolve' = FALSE /\ missedAir' = TRUE
    /\ UNCHANGED <<bar, phase, asked, lost, posted, cast, view, runner, captured, initial, order, told,
                   session, unreleased, staleApp, wiped, deaf>>

\* The record expires and is announced again.
RecordRemoved ==
    /\ Event
    /\ posted' = Append(posted, Flags("none")) /\ resolve' = TRUE
    /\ begun' = IF HasAir(bar) THEN begun + 1 ELSE begun
    /\ UNCHANGED <<bar, phase, asked, lost, cast, view, runner, captured, initial, order, alarms,
                   session, unreleased, gaps>>

(***************************************************************************)
(* What the loop makes of it.                                              *)
(***************************************************************************)
IsMedia(x, c) == x.kind = "media" /\ x.by = c
Listening(a, p, f) == f = "on" \/ (a /\ p = "playing")

\* A media status of an app that is gone: the one that says so waits behind it.
Overtaken ==
    /\ Head(posted).kind = "media"
    /\ \E i \in 2..Len(posted) : IsMedia(posted[i], cast) /\ posted[i].player = "none"

\* _maybe_emit_listen_edge
ListenEdge(by, known) ==
    IF known /\ ~Listening(appView, playerView, airView) /\ Listening(appView', playerView', airView')
      THEN /\ alarms' = IF begun = 0 /\ ~wiped /\ ~Overtaken THEN alarms \cup {by} ELSE alarms
           /\ begun' = IF begun = 0 \/ wiped \/ Overtaken THEN begun ELSE begun - 1
      ELSE UNCHANGED told

\* _apply_cast_snapshot: another app makes what is known of the player stale.
ApplyCast(open) ==
    /\ appView' = open
    /\ playerView' = IF open = appView THEN playerView ELSE "none"
    /\ airView' = airView
    /\ ListenEdge("cast", settled)

\* _say_status_when_known, with what is known now.
SayStatus(line, known, open) ==
    /\ due' = IF line = "due" /\ (~open \/ known) THEN "said" ELSE line
    /\ settled' = (settled \/ due' # line)

Handles(kind) ==
    /\ posted # << >> /\ Head(posted).kind = kind
    /\ posted' = Tail(posted)

HandleCastStatus ==
    /\ Handles("status")
    /\ ApplyCast(AppOf(cast))
    /\ staleApp' = (AppOf(cast) # HasApp(bar))
    /\ wiped' = (wiped \/ ((staleApp \/ staleApp' \/ due = "never") /\ playerView' # playerView))
    /\ UNCHANGED <<devices, cast, runner, captured, initial, order, session, unreleased,
                   deaf, missedAir, events>>

\* Variant: a media status is dropped while no app is known.
HandleCastMedia_Faulty ==
    /\ Handles("media")
    /\ IF Head(posted).by # cast \/ ~appView
         THEN UNCHANGED <<view, initial, told, wiped>>
         ELSE /\ playerView' = Head(posted).player
              /\ UNCHANGED <<appView, airView>>
              /\ ListenEdge("cast", settled)
              /\ seen' = TRUE /\ SayStatus(due, TRUE, appView)
              /\ wiped' = FALSE /\ airSettled' = airSettled
    /\ UNCHANGED <<devices, cast, runner, captured, order, session, unreleased,
                   staleApp, deaf, missedAir, events>>

HandleCastMedia ==
    /\ Handles("media")
    /\ IF Head(posted).by # cast
         THEN UNCHANGED <<view, initial, told, wiped>>
         ELSE /\ playerView' = Head(posted).player
              /\ UNCHANGED <<appView, airView>>
              /\ ListenEdge("cast", settled)
              /\ seen' = TRUE /\ SayStatus(due, TRUE, appView)
              /\ wiped' = FALSE /\ airSettled' = airSettled
    /\ UNCHANGED <<devices, cast, runner, captured, order, session, unreleased,
                   staleApp, deaf, missedAir, events>>

\* Variant: the first reading of the record is marked before it is applied.
HandleAirplay_Faulty ==
    /\ Handles("flags")
    /\ airView' = Head(posted).air
    /\ UNCHANGED <<appView, playerView>>
    /\ airSettled' = (airSettled \/ Head(posted).air # "none")
    /\ ListenEdge("air", airSettled')
    /\ UNCHANGED <<devices, cast, runner, captured, due, seen, settled, order, session, unreleased,
                   gaps, events>>

\* _handle_airplay_update, and with "none" _handle_airplay_removed
HandleAirplay ==
    /\ Handles("flags")
    /\ airView' = Head(posted).air
    /\ UNCHANGED <<appView, playerView>>
    /\ ListenEdge("air", airSettled)
    /\ airSettled' = (airSettled \/ Head(posted).air # "none")
    /\ UNCHANGED <<devices, cast, runner, captured, due, seen, settled, order, session, unreleased,
                   gaps, events>>

(***************************************************************************)
(* First readings that do not come in time.                                *)
(***************************************************************************)
CastPlaysSomewhere ==
    \/ bar = "playing"
    \/ \E i \in DOMAIN posted : posted[i].kind = "media" /\ posted[i].player = "playing"

AirPlaysSomewhere ==
    HasAir(bar) \/ \E i \in DOMAIN posted : posted[i].kind = "flags" /\ posted[i].air = "on"

\* mark_failed: a session found later counts as one that begins.
MarkFailed ==
    /\ settled' = TRUE
    /\ begun' = IF ~settled /\ CastPlaysSomewhere THEN begun + 1 ELSE begun

\* _status_wait_deadline: an app is open and no media status has come.
StatusWaitDeadline ==
    /\ due = "due" /\ ~seen /\ ~settled
    /\ MarkFailed
    /\ UNCHANGED <<devices, posted, cast, view, runner, captured, due, seen, airSettled, order, alarms,
                   session, unreleased, gaps, events>>

AirplayInitialDeadline ==
    /\ ~airSettled
    /\ airSettled' = TRUE
    /\ begun' = IF AirPlaysSomewhere THEN begun + 1 ELSE begun
    /\ UNCHANGED <<devices, posted, cast, view, runner, captured, due, seen, settled, order, alarms,
                   session, unreleased, gaps, events>>

(***************************************************************************)
(* Connecting: _ensure_cast by the watchdog and by a command.              *)
(***************************************************************************)
\* cast.wait() has returned: the first receiver status is there, and the media
\* channel of an open app answers next.
ConnectionMade(c) ==
    /\ phase[c] = "opening"
    /\ phase' = [phase EXCEPT ![c] = "made"]
    /\ asked' = [asked EXCEPT ![c] = HasApp(bar)]
    /\ UNCHANGED <<bar, lost, resolve, posted, cast, view, runner, captured, initial, order, told,
                   session, unreleased, gaps, events>>

\* Back in the loop: it becomes _cast, whatever _cast was, and is listened to.
ConnectionKept(c) ==
    /\ phase[c] = "made"
    /\ phase' = [phase EXCEPT ![c] = "live"]
    /\ cast' = c
    /\ runner' = IF c = "runner" THEN "read" ELSE runner
    /\ stage' = IF c = "command" THEN "queued" ELSE stage
    /\ UNCHANGED <<bar, asked, lost, resolve, posted, view, captured, initial, calls, told,
                   session, unreleased, gaps, events>>

RunnerConnects ==
    /\ runner = "connect"
    /\ IF cast = "none"
         THEN runner' = "opening" /\ phase' = [phase EXCEPT !["runner"] = "opening"]
         ELSE runner' = "read" /\ UNCHANGED phase
    /\ UNCHANGED <<bar, asked, lost, resolve, posted, cast, view, captured, initial, order, told,
                   session, unreleased, gaps, events>>

RunnerConnectFails ==
    /\ phase["runner"] = "opening" /\ Event
    /\ phase' = [phase EXCEPT !["runner"] = "none"] /\ runner' = "connect"
    /\ MarkFailed
    /\ UNCHANGED <<bar, asked, lost, resolve, posted, cast, view, captured, due, seen, airSettled,
                   order, alarms, session, unreleased, gaps>>

\* _read_cast_status reads in a thread what the library has cached ...
RunnerReads ==
    /\ runner = "read"
    /\ captured' = AppOf(cast) /\ runner' = "apply"
    /\ UNCHANGED <<devices, posted, cast, view, initial, order, told, session, unreleased, gaps, events>>

\* ... and what it read is applied when the task gets its turn, over whatever
\* events came in between.
RunnerApplies ==
    /\ runner = "apply"
    /\ ApplyCast(captured)
    /\ SayStatus(IF due = "never" THEN "due" ELSE due, seen, captured)
    /\ UNCHANGED seen
    /\ staleApp' = ~(captured = HasApp(bar) /\ captured = AppOf(cast))
    /\ wiped' = (wiped \/ staleApp' \/ playerView' # playerView)
    /\ runner' = "wait" /\ captured' = FALSE
    /\ UNCHANGED <<devices, posted, cast, airSettled, order, session, unreleased,
                   deaf, missedAir, events>>

\* The watchdog's interval, or POST /api/refresh/speaker.
WatchdogWakes ==
    /\ runner = "wait" /\ Event
    /\ runner' = "read"
    /\ UNCHANGED <<devices, posted, cast, view, captured, initial, order, told,
                   session, unreleased, gaps>>

(***************************************************************************)
(* Commands, under _send_lock in the order they were called.               *)
(***************************************************************************)
\* What the hub knows to be on, and is.
KnownSession ==
    IF /\ Listening(appView, playerView, airView) /\ Plays(bar)
       /\ (airView = "on") = HasAir(bar)
      THEN session ELSE 0

\* release_to_tv looks at what plays before it waits for the lock.
CommandCalled ==
    /\ Event
    /\ \E k \in Commands :
         calls' = Append(calls, [kind |-> k, airplay |-> airView = "on",
                                 known |-> IF k = "release" THEN KnownSession ELSE 0])
    /\ UNCHANGED <<devices, posted, cast, view, runner, captured, initial, stage, told,
                   session, unreleased, gaps>>

Holds(k) == calls # << >> /\ Head(calls).kind = k
Runs(k) == Holds(k) /\ stage = "queued" /\ cast # "none"
Reaches == ~Lost(cast)

CommandConnects ==
    /\ calls # << >> /\ stage = "queued" /\ cast = "none"
    /\ stage' = "opening" /\ phase' = [phase EXCEPT !["command"] = "opening"]
    /\ UNCHANGED <<bar, asked, lost, resolve, posted, cast, view, runner, captured, initial, calls, told,
                   session, unreleased, gaps, events>>

\* Variant: a command that got no connection does not give the lock back.
CommandConnectFails_Faulty ==
    /\ phase["command"] = "opening" /\ Event
    /\ phase' = [phase EXCEPT !["command"] = "none"]
    /\ UNCHANGED <<bar, asked, lost, resolve, posted, cast, view, runner, captured, initial, order, told,
                   session, unreleased, gaps>>

CommandConnectFails ==
    /\ phase["command"] = "opening" /\ Event
    /\ phase' = [phase EXCEPT !["command"] = "none"]
    /\ calls' = Tail(calls) /\ stage' = "queued"
    /\ UNCHANGED <<bar, asked, lost, resolve, posted, cast, view, runner, captured, initial, told,
                   session, unreleased, gaps>>

PlayUrl ==
    /\ Runs("play_url") /\ Reaches
    /\ Becomes("playing")
    /\ calls' = Tail(calls)
    /\ UNCHANGED <<phase, asked, lost, cast, view, runner, captured, initial, stage, alarms,
                   unreleased, wiped, missedAir, events>>

\* Variant: without force_launch an app left open is not launched anew.
StartApp_Faulty ==
    /\ Runs("release") /\ Reaches /\ Head(calls).airplay
    /\ Becomes(IF HasApp(bar) THEN bar ELSE "idle")
    /\ stage' = "takeover"
    /\ UNCHANGED <<phase, asked, lost, cast, view, runner, captured, initial, calls, alarms,
                   unreleased, wiped, missedAir, events>>

\* Opening the receiver app takes the audio from AirPlay, an idle one left open
\* only if it is launched anew: force_launch.
StartApp ==
    /\ Runs("release") /\ Reaches /\ Head(calls).airplay
    /\ Becomes("idle")
    /\ stage' = "takeover"
    /\ UNCHANGED <<phase, asked, lost, cast, view, runner, captured, initial, calls, alarms,
                   unreleased, wiped, missedAir, events>>

\* A release that comes back without an error.
Returns ==
    /\ calls' = Tail(calls) /\ stage' = "queued"
    /\ unreleased' = (unreleased \/ (/\ Head(calls).known # 0 /\ Reaches
                                     /\ Head(calls).known = session' /\ Plays(bar')))

QuitApp ==
    /\ Reaches
    /\ \/ Holds("release") /\ stage = "takeover"
       \/ Runs("release") /\ ~Head(calls).airplay /\ HasApp(bar)
    /\ Becomes(IF HasAir(bar) THEN "airplay" ELSE "tv")
    /\ Returns
    /\ UNCHANGED <<phase, asked, lost, cast, view, runner, captured, initial, alarms,
                   wiped, missedAir, events>>

NothingToRelease ==
    /\ Runs("release") /\ ~Head(calls).airplay /\ ~AppOf(cast)
    /\ UNCHANGED <<devices, posted, cast, view, runner, captured, initial, told, session, gaps, events>>
    /\ Returns

CommandFails ==
    /\ calls # << >> /\ (stage = "takeover" \/ (stage = "queued" /\ cast # "none"))
    /\ Event \/ (~Reaches /\ UNCHANGED events)
    /\ calls' = Tail(calls) /\ stage' = "queued"
    /\ UNCHANGED <<devices, posted, cast, view, runner, captured, initial, told,
                   session, unreleased, gaps>>

Outside   == Used \/ RecordRemoved \/ ResolveFails \/ \E c \in Conns : LinkLost(c) \/ LinkBack(c)
Threads   == Resolved \/ \E c \in Conns : MediaAnswers(c) \/ ConnectionMade(c)
Handlers  == HandleCastStatus \/ HandleCastMedia \/ HandleAirplay
Deadlines == StatusWaitDeadline \/ AirplayInitialDeadline
Watchdog  == RunnerConnects \/ RunnerConnectFails \/ RunnerReads \/ RunnerApplies \/ WatchdogWakes
Commanded == \/ CommandCalled \/ CommandConnects \/ CommandConnectFails \/ PlayUrl
             \/ StartApp \/ QuitApp \/ NothingToRelease \/ CommandFails

Next == \/ Outside \/ Threads \/ Handlers \/ Deadlines \/ Watchdog \/ Commanded
        \/ \E c \in Conns : ConnectionKept(c)

Spec == Init /\ [][Next]_vars

(***************************************************************************)
(* Properties.                                                             *)
(***************************************************************************)
Quiet ==
    /\ cast # "none" /\ runner = "wait" /\ posted = << >> /\ ~resolve
    /\ \A c \in Conns : ~asked[c] /\ phase[c] # "made"

\* Whatever connections overtake each other, when everything said has been
\* heard the hub knows whether the bar is in use, unless a media status came
\* before its listener, the watchdog's reading was put over an event it did not
\* know of, the connection was silently lost when the bar last changed, or the
\* AirPlay record could not be resolved.
MirrorAgrees ==
    Quiet /\ ~staleApp /\ ~wiped /\ ~deaf[cast] /\ ~missedAir =>
        /\ appView = HasApp(bar)
        /\ Listening(appView, playerView, airView) = Plays(bar)

\* There are never more listen signals than sessions that began, or came to be
\* told anew, after the hub knew where the bar stood; except that what a
\* reading, or the stale status of a lost connection, wiped may be signalled
\* again when it is told again, and so may a media status that has been
\* overtaken: the hub learns from a newer status that the app is gone before
\* it handles what was said of it.
SignalsAreStarts == alarms = {}

\* When release_to_tv returns, the session the hub knew of when it was called
\* is over, however long it waited for the lock or for a connection; unless the
\* connection it goes by is silently lost and holds that no app is open.
ReleaseEnds == ~unreleased

(***************************************************************************)
(* Why releases end and the mirror agrees: the inductive invariant of      *)
(* SoundbarProofs.                                                         *)
(***************************************************************************)
CallsOK ==
    /\ stage # "queued" => calls # << >>
    /\ \A i \in DOMAIN calls : calls[i].known <= session

\* A session that Cast plays and a release was called for goes on only without
\* AirPlay; one that plays when the app has been launched has begun since.
OnlyLaterSessions ==
    /\ \A i \in DOMAIN calls :
         calls[i].known # 0 /\ calls[i].known = session /\ ~calls[i].airplay => ~HasAir(bar)
    /\ stage = "takeover" /\ Plays(bar) => Head(calls).known < session

\* Whoever got as far has a connection, and a watchdog at rest has read.
Started ==
    /\ runner \in {"read", "apply", "wait"} \/ due # "never" \/ (\E c \in Conns : phase[c] = "live") =>
         cast # "none"
    /\ runner = "wait" => due # "never"

StatusComes == \E i \in DOMAIN posted : posted[i].kind = "status"
MediaComes(c) == \E i \in DOMAIN posted : IsMedia(posted[i], c)
BothCome(c) ==
    \E i, j \in DOMAIN posted : i < j /\ posted[i].kind = "status" /\ IsMedia(posted[j], c)
Newest(i) == \A j \in DOMAIN posted : j > i => posted[j].kind # posted[i].kind
NewestOf(c, i) == \A j \in DOMAIN posted : j > i => ~IsMedia(posted[j], c)

\* The newest reading of the AirPlay record, on its way or handled, is right.
AirComes ==
    ~resolve /\ ~missedAir =>
        /\ (\A i \in DOMAIN posted : posted[i].kind # "flags") => (airView = "on" <=> HasAir(bar))
        /\ \A i \in DOMAIN posted :
             posted[i].kind = "flags" /\ Newest(i) => (posted[i].air = "on" <=> HasAir(bar))

\* So is the app, from the first reading on.
AppComes == ~staleApp /\ due # "never" => appView = HasApp(bar) \/ StatusComes

\* The newest media status of a connection, one that is listened to, is right;
\* and it says that the app is gone if the connection knows of none.
MediaIsTrue ==
    \A c \in Conns, i \in DOMAIN posted :
        IsMedia(posted[i], c) =>
            /\ phase[c] = "live"
            /\ NewestOf(c, i) /\ ~deaf[c] => posted[i].player = PlayerOf(bar)
            /\ NewestOf(c, i) /\ ~AppOf(c) => posted[i].player = "none"

\* A connection that is not yet listened to has its say later, or has had it.
AskedOrDeaf ==
    \A c \in Conns :
        /\ phase[c] \in {"none", "opening"} \/ Lost(c) => ~asked[c]
        /\ Lost(c) => phase[c] \in {"made", "live"}
        /\ phase[c] = "made" /\ HasApp(bar) => asked[c] \/ deaf[c]

\* The connection has nothing more to say of an open app.
Told == cast # "none" /\ HasApp(bar) /\ ~asked[cast] /\ ~deaf[cast]

\* A status that will make the hub forget the player has a media status after it.
ForgotIsTold ==
    Told /\ ~staleApp /\ due # "never" /\ ~appView /\ StatusComes => BothCome(cast)

PlayerIsTold == Told /\ ~wiped /\ ~MediaComes(cast) => playerView = PlayerOf(bar)

ReleasesOK == CallsOK /\ OnlyLaterSessions /\ ReleaseEnds

MirrorOK ==
    Started /\ AirComes /\ AppComes /\ MediaIsTrue /\ AskedOrDeaf /\ ForgotIsTold /\ PlayerIsTold

IInv == TypeOK /\ ReleasesOK /\ MirrorOK

(***************************************************************************)
(* Why every signal is a start: the rest of the inductive invariant.       *)
(***************************************************************************)
Ways == {"cast", "air"}  \* how a session can be played
PlaysBy(k) == IF k = "air" THEN HasAir(bar) ELSE bar = "playing"

About(x, k) == IF k = "air" THEN x.kind = "flags" ELSE IsMedia(x, cast)
Tells(x, k) == About(x, k) /\ IF k = "air" THEN x.air = "on" ELSE x.player = "playing"
Denies(x, k) == (About(x, k) /\ ~Tells(x, k)) \/ \E o \in Ways \ {k} : Tells(x, o)

\* The media status that says the app is gone is behind this post.
Gone(i) == \E j \in DOMAIN posted : j > i /\ IsMedia(posted[j], cast) /\ posted[j].player = "none"

\* The hub holds that nothing is played this way, or would if it were settled
\* now: by what it was last told, with no lapse since.
Free(k) ==
    IF k = "air" THEN airSettled /\ airView # "on"
    ELSE \/ (settled \/ due # "never") /\ ~appView /\ ~staleApp
         \/ (settled \/ seen) /\ ~wiped /\ playerView # "playing"

\* Posts can be dated by the sessions that had begun: some session begins
\* between a post that denies one and a post, or a bar, that has one; ...
InOrder(since) == \A i, j \in DOMAIN posted : i <= j => since[i] <= since[j]
StartsBetween(since) ==
    \A k \in Ways : \A i, j \in DOMAIN posted :
        i < j /\ Denies(posted[i], k) /\ Tells(posted[j], k) => since[i] < since[j]
StartsSince(since) ==
    \A k \in Ways : \A i \in DOMAIN posted : Denies(posted[i], k) /\ PlaysBy(k) => since[i] < begun

\* ... so it does between what the hub holds and a post or a bar.
StartsUnheard(since) ==
    \A k \in Ways : Free(k) =>
        /\ PlaysBy(k) => begun > 0
        /\ \A i \in DOMAIN posted : Tells(posted[i], k) => since[i] > 0 \/ (k = "cast" /\ Gone(i))

Dates(since) ==
    /\ InOrder(since) /\ StartsBetween(since) /\ StartsSince(since) /\ StartsUnheard(since)

Dated == \E since \in [DOMAIN posted -> 0..begun] : Dates(since)

SignalsOK == SignalsAreStarts /\ Dated
=============================================================================
