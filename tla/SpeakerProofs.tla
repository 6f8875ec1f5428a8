--------------------------- MODULE SpeakerProofs ---------------------------
(***************************************************************************)
(* When nothing is on its way, what the hub takes the speaker for is what  *)
(* it is, for any number of changes, hints, commands and lost connections; *)
(* and a right answer sets off a listen signal only if a session began.    *)
(***************************************************************************)
EXTENDS Speaker, TLAPS

MirrorOK == Connected /\ ~StillOwed /\ ~early /\ ~unheard => LastHeardIsReal

PlayerOK == real \in Doings /\ shown \in Doings /\ asked \in Nat
ViewOK ==
    /\ source \in Sources \cup {"none"} /\ status \in Statuses /\ guest \in BOOLEAN
    /\ ready \in BOOLEAN /\ settled \in BOOLEAN
HubOK ==
    /\ link \in Links /\ task \in Tasks /\ owed \in BOOLEAN /\ hurry \in BOOLEAN
    /\ refresh \in {"idle", "drain"} /\ command \in Commands \cup {"none"}
ToldOK ==
    /\ begun \in Nat /\ alarms \subseteq {"plm"} \cup Answer /\ early \in BOOLEAN /\ unheard \in BOOLEAN
    /\ events \in 0..MaxEvents
WireOK == wire \in Seq(Messages)

LEMMA TypeParts == TypeOK <=> PlayerOK /\ ViewOK /\ HubOK /\ ToldOK /\ WireOK
  BY DEF TypeOK, PlayerOK, ViewOK, HubOK, ToldOK, WireOK

LEMMA TypeTogether ==
  ASSUME PlayerOK', ViewOK', HubOK', ToldOK', WireOK'
  PROVE  TypeOK'
  BY DEF TypeOK, PlayerOK, ViewOK, HubOK, ToldOK, WireOK

----------------------------------------------------------------------------
\* What the helpers do.

LEMMA MessagesOfDoings ==
  ASSUME PlayerOK, NEW d \in Doings
  PROVE  /\ Hint(d) \in Messages /\ Plm(d) \in Messages /\ Inf(d) \in Messages /\ News(d) \in Messages
         /\ News(d).kind \in {"plm", "hint"} /\ Hint(d).kind = "hint" /\ Inf(d).at = d
         /\ Inf(d).kind \in Answer
         /\ SourceOf(d) \in Sources /\ StatusOf(d) \in Statuses
  BY DEF PlayerOK, Doings, Hint, Plm, Inf, News, Messages, Answer, SourceOf, StatusOf, Sources, Statuses

\* A message pushed comes last, and it only comes to a hub that is connected.
LEMMA Pushed ==
  ASSUME WireOK, NEW m \in Messages, Push(<<m>>)
  PROVE  /\ WireOK'
         /\ ~Connected => wire' = wire
         /\ Connected => /\ Len(wire') = Len(wire) + 1 /\ wire'[Len(wire')] = m
                         /\ Len(wire) \in Nat /\ wire' # << >>
                         /\ \A i \in 1..Len(wire) : wire'[i] = wire[i]
<1>1. CASE Connected
  <2>1. wire' = wire \o <<m>>
    BY <1>1 DEF Push
  <2>2. wire' = Append(wire, m)
    BY <2>1 DEF WireOK
  <2>3. QED
    BY <1>1, <2>2 DEF WireOK
<1>2. CASE ~Connected
  BY <1>2 DEF Push, WireOK
<1>3. QED
  BY <1>1, <1>2

\* News or a hint on the wire has the hub ask.
LEMMA NewsIsOwed ==
  ASSUME WireOK, NEW m \in Messages, m.kind \in {"plm", "hint"}, Connected, Push(<<m>>)
  PROVE  HintUnread'
  BY Pushed DEF HintUnread, WireOK

LEMMA RequestIsOwed ==
  ASSUME HubOK, RequestPinfget
  PROVE  /\ task' \in Tasks /\ owed' \in BOOLEAN /\ hurry' \in BOOLEAN
         /\ task' \in {"wait", "stamped"} \/ (task' = "drain" /\ owed')
         /\ task' = "drain" => task = "drain"
  BY DEF HubOK, RequestPinfget, Tasks

LEMMA EdgeTypes ==
  ASSUME ToldOK, NEW by \in {"plm"} \cup Answer, ListenEdge(by)
  PROVE  begun' \in Nat /\ alarms' \subseteq {"plm"} \cup Answer
<1>1. \/ begun' = begun /\ alarms' = alarms
      \/ begun = 0 /\ begun' = begun /\ alarms' = alarms \cup {by}
      \/ begun # 0 /\ begun' = begun - 1 /\ alarms' = alarms
  <2> DEFINE edge == settled /\ ~Listening(source, status) /\ Listening(source', status')
  <2>1. CASE edge
    <3>1. /\ alarms' = IF begun = 0 THEN alarms \cup {by} ELSE alarms
          /\ begun' = IF begun = 0 \/ by = "early" THEN begun ELSE begun - 1
      BY <2>1 DEF ListenEdge
    <3>2. QED
      BY <3>1
  <2>2. CASE ~edge
    BY <2>2 DEF ListenEdge
  <2>3. QED
    BY <2>1, <2>2
<1>2. begun \in Nat /\ alarms \subseteq {"plm"} \cup Answer
  BY DEF ToldOK
<1>3. begun' \in Nat
  BY <1>1, <1>2
<1>4. alarms' \subseteq {"plm"} \cup Answer
  BY <1>1, <1>2
<1>5. QED
  BY <1>3, <1>4

----------------------------------------------------------------------------
\* The speaker's steps.

LEMMA ChangedStep ==
  ASSUME IInv, Changed
  PROVE  IInv'
<1>1. TypeOK /\ PlayerOK /\ ViewOK /\ HubOK /\ ToldOK /\ WireOK /\ OneSends
  BY TypeParts DEF IInv
<1>2. PICK d \in Doings : real' = d /\ Push(<<News(d)>>) /\ Begins(d)
  BY DEF Changed
<1>3. News(d) \in Messages /\ News(d).kind \in {"plm", "hint"}
  BY <1>1, MessagesOfDoings
<1>4. WireOK' /\ (Connected => HintUnread')
  BY <1>1, <1>2, <1>3, Pushed, NewsIsOwed
<1>5. PlayerOK' /\ ViewOK' /\ HubOK' /\ OneSends' /\ Connected' = Connected
  BY <1>1, <1>2 DEF Changed, PlayerOK, ViewOK, HubOK, OneSends, view, pending, Connected
<1>6. ToldOK'
  BY <1>1, <1>2, SpeakerBounds DEF Changed, Event, Begins, ToldOK
<1>7. MirrorOK'
  BY <1>4, <1>5 DEF MirrorOK, StillOwed
<1>8. QED
  BY <1>4, <1>5, <1>6, <1>7, TypeTogether DEF IInv, MirrorOK

LEMMA ChattersStep ==
  ASSUME IInv, Chatters
  PROVE  IInv'
<1>1. TypeOK /\ PlayerOK /\ ViewOK /\ HubOK /\ ToldOK /\ WireOK /\ OneSends
  BY TypeParts DEF IInv
<1>2. Push(<<Hint(real)>>) /\ Connected
  BY DEF Chatters
<1>3. Hint(real) \in Messages /\ Hint(real).kind \in {"plm", "hint"}
  BY <1>1, MessagesOfDoings DEF PlayerOK
<1>4. WireOK' /\ HintUnread'
  BY <1>1, <1>2, <1>3, Pushed, NewsIsOwed
<1>5. PlayerOK' /\ ViewOK' /\ HubOK' /\ OneSends'
  BY <1>1 DEF Chatters, PlayerOK, ViewOK, HubOK, OneSends, view, pending
<1>6. ToldOK'
  BY <1>1, SpeakerBounds DEF Chatters, Event, ToldOK, told
<1>7. MirrorOK'
  BY <1>4 DEF MirrorOK, StillOwed
<1>8. QED
  BY <1>4, <1>5, <1>6, <1>7, TypeTogether DEF IInv, MirrorOK

LEMMA SettlesStep ==
  ASSUME IInv, Settles
  PROVE  IInv'
<1>1. TypeOK /\ PlayerOK /\ OneSends /\ MirrorOK
  BY TypeParts DEF IInv, MirrorOK
<1>2. TypeOK' /\ OneSends'
  BY <1>1 DEF Settles, TypeOK, OneSends, view, pending, told
<1>3. MirrorOK'
  BY <1>1 DEF Settles, MirrorOK, StillOwed, LastHeardIsReal, Agrees, HintUnread, Connected, view, pending, told
<1>4. QED
  BY <1>2, <1>3 DEF IInv, MirrorOK

\* An answer comes last on the wire, and is right or early.
LEMMA AnswersStep ==
  ASSUME IInv, Answers
  PROVE  IInv'
<1>1. TypeOK /\ PlayerOK /\ ViewOK /\ HubOK /\ ToldOK /\ WireOK /\ OneSends
  BY TypeParts DEF IInv
<1>2. Push(<<Inf(shown)>>) /\ Connected /\ early' = (shown # real) /\ UNCHANGED <<real, shown, link, task, owed>>
  BY DEF Answers, pending
<1>3. Inf(shown) \in Messages /\ Inf(shown).at = shown
  BY <1>1, MessagesOfDoings DEF PlayerOK
<1>4. WireOK' /\ wire' # << >> /\ wire'[Len(wire')] = Inf(shown)
  BY <1>1, <1>2, <1>3, Pushed
<1>5. PlayerOK' /\ ViewOK' /\ HubOK' /\ OneSends'
  <2>1. asked' \in Nat
    BY <1>1 DEF Answers, PlayerOK
  <2>2. QED
    BY <1>1, <2>1 DEF Answers, PlayerOK, ViewOK, HubOK, OneSends, view, pending
<1>6. ToldOK'
  <2>1. begun' \in Nat
    BY <1>1 DEF Answers, ToldOK
  <2>2. early' \in BOOLEAN /\ unheard' \in BOOLEAN
    BY <1>2 DEF Answers
  <2>3. QED
    BY <1>1, <2>1, <2>2 DEF Answers, ToldOK
<1>7. MirrorOK'
  BY <1>2, <1>3, <1>4 DEF MirrorOK, LastHeardIsReal
<1>8. QED
  BY <1>4, <1>5, <1>6, <1>7, TypeTogether DEF IInv, MirrorOK

----------------------------------------------------------------------------
\* What the hub reads.

LEMMA ReadsTypes ==
  ASSUME WireOK, NEW kinds, Reads(kinds)
  PROVE  /\ WireOK' /\ wire # << >> /\ Head(wire) \in Messages /\ Head(wire).kind \in kinds
         /\ Head(wire).at \in Doings /\ Len(wire) \in Nat \ {0} /\ Head(wire) = wire[1]
         /\ Len(wire') = Len(wire) - 1 /\ \A i \in 1..Len(wire') : wire'[i] = wire[i + 1]
<1>1. wire \in Seq(Messages) /\ wire # << >> /\ wire' = Tail(wire) /\ Head(wire).kind \in kinds
  BY DEF WireOK, Reads
<1>2. Head(wire) \in Messages /\ Len(wire) \in Nat \ {0} /\ Head(wire) = wire[1]
  BY <1>1
<1>3. Head(wire).at \in Doings
  BY <1>2 DEF Messages
<1>4. wire' \in Seq(Messages) /\ Len(wire') = Len(wire) - 1 /\ \A i \in 1..Len(wire') : wire'[i] = wire[i + 1]
  BY <1>1
<1>5. QED
  BY <1>1, <1>2, <1>3, <1>4 DEF WireOK

LEMMA HandlePlmStep ==
  ASSUME IInv, HandlePlm
  PROVE  IInv'
<1>1. TypeOK /\ PlayerOK /\ ViewOK /\ HubOK /\ ToldOK /\ WireOK /\ OneSends
  BY TypeParts DEF IInv
<1>2. Reads({"plm"}) /\ RequestPinfget /\ ListenEdge("plm") /\ source' = SourceOf(Head(wire).at)
  BY DEF HandlePlm
<1>3. WireOK' /\ Head(wire).at \in Doings
  BY <1>1, <1>2, ReadsTypes
<1>4. /\ task' \in Tasks /\ owed' \in BOOLEAN /\ hurry' \in BOOLEAN
      /\ task' \in {"wait", "stamped"} \/ (task' = "drain" /\ owed')
      /\ task' = "drain" => task = "drain"
  BY <1>1, <1>2, RequestIsOwed
<1>5. ViewOK'
  BY <1>1, <1>2, <1>3, MessagesOfDoings DEF HandlePlm, ViewOK, Statuses
<1>6. PlayerOK' /\ HubOK' /\ OneSends'
  BY <1>1, <1>4 DEF HandlePlm, PlayerOK, HubOK, OneSends
<1>7. ToldOK'
  BY <1>1, <1>2, EdgeTypes DEF HandlePlm, ToldOK
<1>8. MirrorOK'
  BY <1>4 DEF MirrorOK, StillOwed
<1>9. QED
  BY <1>3, <1>5, <1>6, <1>7, <1>8, TypeTogether DEF IInv, MirrorOK

LEMMA HandleHintStep ==
  ASSUME IInv, HandleHint
  PROVE  IInv'
<1>1. TypeOK /\ PlayerOK /\ ViewOK /\ HubOK /\ ToldOK /\ WireOK /\ OneSends
  BY TypeParts DEF IInv
<1>2. Reads({"hint"}) /\ RequestPinfget
  BY DEF HandleHint
<1>3. WireOK'
  BY <1>1, <1>2, ReadsTypes
<1>4. /\ task' \in Tasks /\ owed' \in BOOLEAN /\ hurry' \in BOOLEAN
      /\ task' \in {"wait", "stamped"} \/ (task' = "drain" /\ owed')
      /\ task' = "drain" => task = "drain"
  BY <1>1, <1>2, RequestIsOwed
<1>5. PlayerOK' /\ ViewOK' /\ HubOK' /\ ToldOK' /\ OneSends'
  BY <1>1, <1>4 DEF HandleHint, PlayerOK, ViewOK, HubOK, ToldOK, OneSends, view, told
<1>6. MirrorOK'
  BY <1>4 DEF MirrorOK, StillOwed
<1>7. QED
  BY <1>3, <1>5, <1>6, TypeTogether DEF IInv, MirrorOK

\* The answer read last leaves the state as it tells.
LEMMA HandlePlyInfStep ==
  ASSUME IInv, HandlePlyInf
  PROVE  IInv'
<1>1. TypeOK /\ PlayerOK /\ ViewOK /\ HubOK /\ ToldOK /\ WireOK /\ OneSends /\ MirrorOK
  BY TypeParts DEF IInv, MirrorOK
<1>2. /\ Reads(Answer) /\ ListenEdge(Head(wire).kind)
      /\ source' = SourceOf(Head(wire).at) /\ status' = StatusOf(Head(wire).at)
      /\ guest' = (Head(wire).at = "guest")
      /\ UNCHANGED <<real, asked, link, task, owed, early, unheard>>
  BY DEF HandlePlyInf, pending
<1>3. /\ WireOK' /\ wire # << >> /\ Head(wire).kind \in Answer
      /\ Head(wire).at \in Doings /\ Len(wire) \in Nat \ {0} /\ Head(wire) = wire[1]
      /\ Len(wire') = Len(wire) - 1 /\ \A i \in 1..Len(wire') : wire'[i] = wire[i + 1]
  BY <1>1, <1>2, ReadsTypes
<1>4. ViewOK'
  BY <1>1, <1>2, <1>3, MessagesOfDoings DEF HandlePlyInf, ViewOK
<1>5. PlayerOK' /\ HubOK' /\ OneSends'
  BY <1>1 DEF HandlePlyInf, PlayerOK, HubOK, OneSends, pending
<1>6. ToldOK'
  BY <1>1, <1>2, <1>3, EdgeTypes DEF HandlePlyInf, ToldOK
<1>7. HintUnread => HintUnread'
  <2>1. SUFFICES ASSUME NEW i \in 1..Len(wire), wire[i].kind \in {"plm", "hint"}
                 PROVE  HintUnread'
    BY <1>1 DEF HintUnread, WireOK
  <2>2. i # 1
    BY <1>3, <2>1 DEF Answer
  <2>3. i - 1 \in 1..Len(wire') /\ wire'[i - 1] = wire[i]
    BY <1>3, <2>1, <2>2
  <2>4. QED
    BY <1>3, <2>1, <2>3 DEF HintUnread, WireOK
<1>8. LastHeardIsReal => LastHeardIsReal'
  <2>1. SUFFICES ASSUME wire[Len(wire)].at = real PROVE LastHeardIsReal'
    BY <1>3 DEF LastHeardIsReal
  <2>2. CASE Len(wire) = 1
    <3>1. Head(wire).at = real /\ Len(wire') = 0
      BY <1>3, <2>1, <2>2
    <3>2. wire' = << >>
      BY <1>3, <3>1 DEF WireOK
    <3>3. QED
      BY <1>2, <3>1, <3>2 DEF LastHeardIsReal, Agrees
  <2>3. CASE Len(wire) # 1
    <3>1. Len(wire') \in 1..Len(wire') /\ wire'[Len(wire')] = wire[Len(wire)]
      BY <1>3, <2>3
    <3>2. wire' # << >>
      BY <3>1
    <3>3. QED
      BY <1>2, <2>1, <3>1, <3>2 DEF LastHeardIsReal
  <2>4. QED
    BY <2>2, <2>3
<1>9. MirrorOK'
  BY <1>1, <1>2, <1>7, <1>8 DEF MirrorOK, StillOwed, Connected
<1>10. QED
  BY <1>3, <1>4, <1>5, <1>6, <1>9, TypeTogether DEF IInv, MirrorOK

----------------------------------------------------------------------------
\* Questions.

\* A question leaves the wire and what is known of the speaker alone: the state
\* stays right unless the step ends what was still owed.
LEMMA QuestionStep ==
  ASSUME IInv, TaskDue \/ TaskWrites \/ TaskReturns \/ RefreshWrites \/ RefreshReturns
  PROVE  IInv'
<1>1. TypeOK /\ PlayerOK /\ ViewOK /\ HubOK /\ ToldOK /\ WireOK /\ OneSends /\ MirrorOK
  BY TypeParts DEF IInv, MirrorOK
<1>2. /\ UNCHANGED <<real, shown, wire, source, status, guest, ready, settled, link, command,
                     begun, alarms, early, unheard>>
      /\ asked' = asked \/ asked' = asked + 1
      /\ events' = events \/ Event
  BY DEF TaskDue, TaskWrites, TaskReturns, RefreshWrites, RefreshReturns, player, view, told, pending
<1>3. PlayerOK' /\ ViewOK' /\ WireOK'
  BY <1>1, <1>2 DEF PlayerOK, ViewOK, WireOK
<1>4. ToldOK'
  BY <1>1, <1>2, SpeakerBounds DEF ToldOK, Event
<1>5. HubOK'
  BY <1>1, <1>2 DEF HubOK, TaskDue, TaskWrites, TaskReturns, RefreshWrites, RefreshReturns, Tasks, pending
<1>6. OneSends'
  BY <1>1 DEF OneSends, TaskDue, TaskWrites, TaskReturns, RefreshWrites, RefreshReturns, LockFree, pending
<1>7. Connected /\ StillOwed => StillOwed'
  <2> USE <1>1, <1>2 DEF StillOwed, HintUnread, PlayerOK, HubOK
  <2>1. CASE TaskDue
    BY <2>1 DEF TaskDue, player
  <2>2. CASE TaskWrites
    BY <2>2 DEF TaskWrites
  <2>3. CASE TaskReturns
    BY <2>3 DEF TaskReturns
  <2>4. CASE RefreshWrites
    BY <2>4 DEF RefreshWrites
  <2>5. CASE RefreshReturns
    BY <2>5 DEF RefreshReturns, OneSends
  <2>6. QED
    BY <2>1, <2>2, <2>3, <2>4, <2>5
<1>8. MirrorOK'
  BY <1>1, <1>2, <1>7 DEF MirrorOK, LastHeardIsReal, Agrees, Connected
<1>9. QED
  BY <1>3, <1>4, <1>5, <1>6, <1>8, TypeTogether DEF IInv, MirrorOK

----------------------------------------------------------------------------
\* The connection: a new one asks, a lost one owes nothing.

LEMMA MarkFailedTypes ==
  ASSUME ToldOK, MarkFailed
  PROVE  begun' \in Nat /\ settled' \in BOOLEAN
  BY DEF ToldOK, MarkFailed

LEMMA EmptyIsWire == << >> \in Seq(Messages)
  OBVIOUS

LEMMA LinkDropsStep ==
  ASSUME IInv, SendFails \/ ConnectFails \/ LinkLost
  PROVE  IInv'
<1>1. TypeOK /\ PlayerOK /\ ViewOK /\ HubOK /\ ToldOK /\ WireOK
  BY TypeParts DEF IInv
<1>2. /\ link' \in {"broken", "down"} /\ task' = "none" /\ owed' = FALSE /\ hurry' = FALSE /\ ready' = FALSE
      /\ UNCHANGED <<real, shown, source, status, guest, command, alarms, early, unheard>>
      /\ asked' = asked \/ asked' = 0
      /\ wire' = wire \/ wire' = << >>
      /\ refresh' = refresh \/ refresh' = "idle"
      /\ MarkFailed \/ UNCHANGED <<settled, begun>>
      /\ events' = events \/ Event
  BY DEF SendFails, ConnectFails, LinkLost, CancelQuestion, player, told, Connected
<1>3. PlayerOK' /\ HubOK'
  <2>1. asked' \in Nat
    BY <1>1, <1>2 DEF PlayerOK
  <2>2. refresh' \in {"idle", "drain"}
    BY <1>1, <1>2 DEF HubOK
  <2>3. QED
    BY <1>1, <1>2, <2>1, <2>2 DEF PlayerOK, HubOK, Links, Tasks
<1>4. WireOK'
  <2>1. CASE wire' = wire
    BY <1>1, <2>1 DEF WireOK
  <2>2. CASE wire' = << >>
    BY <2>2, EmptyIsWire DEF WireOK
  <2>3. QED
    BY <1>2, <2>1, <2>2
<1>5. begun' \in Nat /\ settled' \in BOOLEAN
  BY <1>1, <1>2, MarkFailedTypes DEF ToldOK, ViewOK
<1>6. ViewOK'
  BY <1>1, <1>2, <1>5 DEF ViewOK
<1>7. ToldOK'
  BY <1>1, <1>2, <1>5, SpeakerBounds DEF ToldOK, Event
<1>8. OneSends' /\ MirrorOK'
  BY <1>2 DEF OneSends, MirrorOK, Connected
<1>9. QED
  BY <1>3, <1>4, <1>6, <1>7, <1>8, TypeTogether DEF IInv, MirrorOK

LEMMA ConnectsStep ==
  ASSUME IInv, Connects \/ HandshakeAsks \/ HandshakeDone
  PROVE  IInv'
<1>1. TypeOK /\ PlayerOK /\ OneSends /\ MirrorOK
  BY TypeParts DEF IInv, MirrorOK
<1>2. TypeOK'
  <2>1. /\ link' \in Links /\ ready' \in BOOLEAN /\ asked' \in Nat
        /\ UNCHANGED <<real, shown, wire, source, status, guest, settled, pending, refresh, command, told, events>>
    <3>1. CASE Connects
      BY <1>1, <3>1 DEF Connects, TypeOK, Links, player
    <3>2. CASE HandshakeAsks
      <4>1. asked' \in Nat
        BY <1>1, <3>2 DEF HandshakeAsks, PlayerOK
      <4>2. QED
        BY <1>1, <3>2, <4>1 DEF HandshakeAsks, TypeOK, Links, view
    <3>3. CASE HandshakeDone
      BY <1>1, <3>3 DEF HandshakeDone, TypeOK, Links, player, view
    <3>4. QED
      BY <3>1, <3>2, <3>3
  <2>2. QED
    BY <1>1, <2>1 DEF TypeOK, pending, told
<1>3. OneSends'
  BY <1>1 DEF Connects, HandshakeAsks, HandshakeDone, OneSends, pending
<1>4. MirrorOK'
  <2>1. CASE Connects
    BY <2>1 DEF Connects, MirrorOK, StillOwed
  <2>2. CASE HandshakeAsks
    BY <1>1, <2>2 DEF HandshakeAsks, MirrorOK, StillOwed, PlayerOK
  <2>3. CASE HandshakeDone
    BY <1>1, <2>3 DEF HandshakeDone, MirrorOK, StillOwed, HintUnread, LastHeardIsReal, Agrees, Connected,
                      player, view, pending, told
  <2>4. QED
    BY <2>1, <2>2, <2>3
<1>5. QED
  BY <1>2, <1>3, <1>4 DEF IInv, MirrorOK

----------------------------------------------------------------------------
\* Commands.

LEMMA CommandPassesStep ==
  ASSUME IInv, CommandStarts \/ CommandFails
  PROVE  IInv'
<1>1. TypeOK /\ OneSends /\ MirrorOK
  BY TypeParts DEF IInv, MirrorOK
<1>2. /\ UNCHANGED <<real, shown, wire, asked, source, status, guest, ready, settled, link, task, owed, hurry,
                     refresh, begun, alarms, early, unheard>>
      /\ command' \in Commands \cup {"none"}
      /\ events' = events \/ Event
  BY DEF CommandStarts, CommandFails, player, view, pending, told
<1>3. TypeOK'
  BY <1>1, <1>2, SpeakerBounds DEF TypeOK, Event
<1>4. OneSends' /\ MirrorOK'
  BY <1>1, <1>2 DEF OneSends, MirrorOK, StillOwed, HintUnread, LastHeardIsReal, Agrees, Connected
<1>5. QED
  BY <1>3, <1>4 DEF IInv, MirrorOK

LEMMA ObeyedTypes ==
  ASSUME PlayerOK, ToldOK, HubOK, Obeyed
  PROVE  real' \in Doings /\ begun' \in Nat /\ command' = "none" /\ Target(command) \in Doings
         /\ real' = Target(command)
  BY DEF PlayerOK, ToldOK, HubOK, Obeyed, Begins, Target, Doings, Commands

LEMMA ObeyedNews ==
  ASSUME PlayerOK, ToldOK, HubOK, WireOK, Obeyed, Push(<<News(real')>>)
  PROVE  WireOK' /\ (Connected => HintUnread')
<1>1. PICK d \in Doings : d = real'
  BY ObeyedTypes
<1>2. News(d) \in Messages /\ News(d).kind \in {"plm", "hint"}
  BY MessagesOfDoings
<1>3. Push(<<News(d)>>)
  BY <1>1
<1>4. QED
  BY <1>2, <1>3, Pushed, NewsIsOwed

LEMMA CommandReturnsStep ==
  ASSUME IInv, CommandReturns
  PROVE  IInv'
<1>1. TypeOK /\ PlayerOK /\ ViewOK /\ HubOK /\ ToldOK /\ WireOK /\ OneSends
  BY TypeParts DEF IInv
<1>2. Obeyed /\ RequestPinfget /\ (Push(<<News(real')>>) \/ wire' = wire)
  BY DEF CommandReturns
<1>3. WireOK'
  BY <1>1, <1>2, ObeyedNews DEF WireOK
<1>4. /\ task' \in Tasks /\ owed' \in BOOLEAN /\ hurry' \in BOOLEAN
      /\ task' \in {"wait", "stamped"} \/ (task' = "drain" /\ owed')
      /\ task' = "drain" => task = "drain"
  BY <1>1, <1>2, RequestIsOwed
<1>5. real' \in Doings /\ begun' \in Nat /\ command' = "none"
  BY <1>1, <1>2, ObeyedTypes
<1>6. guest' \in BOOLEAN
  BY DEF CommandReturns
<1>7. PlayerOK' /\ ViewOK' /\ HubOK' /\ ToldOK' /\ OneSends'
  BY <1>1, <1>4, <1>5, <1>6 DEF CommandReturns, PlayerOK, ViewOK, HubOK, ToldOK, OneSends
<1>8. MirrorOK'
  BY <1>4 DEF MirrorOK, StillOwed
<1>9. QED
  BY <1>3, <1>7, <1>8, TypeTogether DEF IInv, MirrorOK

LEMMA CommandTimesOutStep ==
  ASSUME IInv, CommandTimesOut
  PROVE  IInv'
<1>1. TypeOK /\ PlayerOK /\ ViewOK /\ HubOK /\ ToldOK /\ WireOK /\ OneSends
  BY TypeParts DEF IInv
<1>2. /\ Obeyed /\ UNCHANGED <<shown, asked, source, status, guest, ready, settled, link, task, owed, hurry,
                               refresh, alarms, early, events>>
      /\ \/ Push(<<News(real')>>) /\ unheard' = unheard
         \/ wire' = wire /\ unheard' = TRUE
  BY DEF CommandTimesOut, view, pending
<1>3. WireOK' /\ (Connected => HintUnread' \/ unheard')
  BY <1>1, <1>2, ObeyedNews DEF WireOK
<1>4. real' \in Doings /\ begun' \in Nat /\ command' = "none" /\ unheard' \in BOOLEAN
  BY <1>1, <1>2, ObeyedTypes DEF ToldOK
<1>5. PlayerOK' /\ ViewOK' /\ HubOK' /\ ToldOK' /\ OneSends'
  BY <1>1, <1>2, <1>4 DEF PlayerOK, ViewOK, HubOK, ToldOK, OneSends
<1>6. MirrorOK'
  BY <1>2, <1>3 DEF MirrorOK, StillOwed, Connected
<1>7. QED
  BY <1>3, <1>5, <1>6, TypeTogether DEF IInv, MirrorOK

----------------------------------------------------------------------------
\* The invariant.

LEMMA InitHolds == Init => IInv
<1> SUFFICES ASSUME Init PROVE IInv
  OBVIOUS
<1>1. TypeOK
  <2>1. wire \in Seq(Messages) /\ 0 \in 0..MaxEvents
    BY SpeakerBounds, EmptyIsWire DEF Init
  <2>2. QED
    BY <2>1 DEF Init, TypeOK, Statuses, Links, Tasks
<1>2. OneSends /\ MirrorOK
  BY DEF Init, OneSends, MirrorOK, Connected
<1>3. QED
  BY <1>1, <1>2 DEF IInv, MirrorOK

LEMMA StepHolds == IInv /\ [Next]_vars => IInv'
<1> SUFFICES ASSUME IInv, [Next]_vars PROVE IInv'
  OBVIOUS
<1>1. CASE SpeakerMoves
  BY <1>1, ChangedStep, ChattersStep, SettlesStep, AnswersStep DEF SpeakerMoves
<1>2. CASE HubReads
  BY <1>2, HandlePlmStep, HandleHintStep, HandlePlyInfStep DEF HubReads
<1>3. CASE QuestionMoves
  BY <1>3, QuestionStep DEF QuestionMoves
<1>4. CASE LinkMoves
  BY <1>4, LinkDropsStep, ConnectsStep DEF LinkMoves
<1>5. CASE CommandMoves
  BY <1>5, CommandPassesStep, CommandReturnsStep, CommandTimesOutStep DEF CommandMoves
<1>6. CASE UNCHANGED vars
  <2>1. TypeOK' /\ OneSends'
    BY <1>6 DEF IInv, TypeOK, OneSends, vars, player, view, pending, told
  <2>2. MirrorOK'
    BY <1>6 DEF IInv, MirrorOK, StillOwed, HintUnread, LastHeardIsReal, Agrees, Connected,
                vars, player, view, pending, told
  <2>3. QED
    BY <2>1, <2>2 DEF IInv, MirrorOK
<1>7. QED
  BY <1>1, <1>2, <1>3, <1>4, <1>5, <1>6 DEF Next

LEMMA IInvHolds == Spec => []IInv
  BY InitHolds, StepHolds, PTL DEF Spec

\* Type correctness of the hub's view of the speaker (Speaker's TypeOK), for any
\* number of events.
THEOREM TypesHold == Spec => []TypeOK
<1>1. IInv => TypeOK
  BY DEF IInv
<1>2. QED
  BY <1>1, IInvHolds, PTL

\* The mirror is right (Speaker's MirrorAgrees): when the handshake is over and no
\* hint, question, answer or command is on its way, source, status and guest are
\* the speaker's own, in whatever order they crossed, unless the last answer was
\* given too early or a command that failed took effect unheard.
THEOREM MirrorIsRight == Spec => []MirrorAgrees
<1>1. IInv => MirrorAgrees
  <2> SUFFICES ASSUME IInv, Quiet, ~early, ~unheard PROVE Agrees
    BY DEF MirrorAgrees
  <2>1. link = "up" /\ wire = << >> /\ asked = 0 /\ task = "none"
    BY DEF Quiet
  <2>2. ~HintUnread
    BY <2>1 DEF HintUnread
  <2>3. Connected /\ ~StillOwed
    BY <2>1, <2>2 DEF Connected, StillOwed
  <2>4. QED
    BY <2>1, <2>3 DEF IInv, LastHeardIsReal
<1>2. QED
  BY <1>1, IInvHolds, PTL

----------------------------------------------------------------------------
\* Dates of what is on the wire.

SignalInv == IInv /\ SignalsOK

LEMMA OverIsBoolean ==
  ASSUME WireOK
  PROVE  /\ Len(wire) \in Nat /\ DOMAIN wire = 1..Len(wire)
         /\ \A i \in 1..Len(wire) : wire[i] \in Messages /\ Over(i) = Ends(wire[i])
  BY DEF WireOK, Over

\* Nothing is read or written; a session that now runs had begun, or begins.
LEMMA SameDated ==
  ASSUME WireOK, ToldOK, Dated, UNCHANGED <<wire, settled, source, status>>,
         begun' \in Nat, begun' >= begun, Plays(real') => Plays(real) \/ begun' > begun
  PROVE  Dated'
<1>1. Len(wire) \in Nat /\ begun \in Nat
  BY DEF WireOK, ToldOK
<1>2. PICK since \in [0..Len(wire) -> 0..begun] :
        /\ \A i, j \in 0..Len(wire) : i <= j => since[i] <= since[j]
        /\ \A i, j \in 0..Len(wire) : i < j /\ Over(i) /\ SaysPlaying(wire[j]) => since[i] < since[j]
        /\ \A i \in 0..Len(wire) : Over(i) /\ Plays(real) => since[i] < begun
  BY DEF Dated
<1>3. \A i \in 0..Len(wire) : since[i] \in 0..begun
  BY <1>2
<1>4. since \in [0..Len(wire) -> 0..begun']
  BY <1>1, <1>2, <1>3
<1>5. \A i : Over(i)' <=> Over(i)
  BY DEF Over
<1>6. \A i \in 0..Len(wire) : Over(i)' /\ Plays(real') => since[i] < begun'
  BY <1>1, <1>2, <1>3, <1>5
<1>7. QED
  BY <1>2, <1>4, <1>5, <1>6 DEF Dated

\* A message pushed is dated now.
LEMMA PushDated ==
  ASSUME WireOK, ToldOK, Dated, NEW m \in Messages, Push(<<m>>), UNCHANGED <<settled, source, status>>,
         begun' \in Nat, begun' >= begun, SaysPlaying(m) => Plays(real),
         Plays(real') => (Plays(real) /\ ~Ends(m)) \/ begun' > begun
  PROVE  Dated'
<1>1. CASE ~Connected
  BY <1>1, Pushed, SameDated
<1>2. CASE Connected
  <2> DEFINE n == Len(wire)
  <2>1. n \in Nat /\ begun \in Nat
    BY DEF WireOK, ToldOK
  <2>2. /\ Len(wire') = n + 1 /\ wire'[n + 1] = m
        /\ \A i \in 1..n : wire'[i] = wire[i]
    BY <1>2, Pushed
  <2>3. PICK since \in [0..n -> 0..begun] :
          /\ \A i, j \in 0..n : i <= j => since[i] <= since[j]
          /\ \A i, j \in 0..n : i < j /\ Over(i) /\ SaysPlaying(wire[j]) => since[i] < since[j]
          /\ \A i \in 0..n : Over(i) /\ Plays(real) => since[i] < begun
    BY DEF Dated
  <2>4. \A i \in 0..n : since[i] \in 0..begun
    BY <2>3
  <2>5. Over(0)' <=> Over(0)
    BY DEF Over
  <2>6. \A i \in 1..n : Over(i)' <=> Over(i)
    BY <2>1, <2>2 DEF Over
  <2>7. \A i : i = n + 1 => (Over(i)' <=> Ends(m))
    BY <2>1, <2>2 DEF Over
  <2> DEFINE dates == [i \in 0..(n + 1) |-> IF i = n + 1 THEN begun ELSE since[i]]
  <2>8. dates \in [0..(n + 1) -> 0..begun']
    BY <2>1, <2>4
  <2>9. dates[n + 1] = begun /\ \A i \in 0..n : dates[i] = since[i]
    BY <2>1
  <2> HIDE DEF dates, n
  <2>10. \A i, j \in 0..(n + 1) : i <= j => dates[i] <= dates[j]
    BY <2>1, <2>3, <2>4, <2>9
  <2>11. ASSUME NEW i \in 0..(n + 1), NEW j \in 0..(n + 1), i < j, Over(i)', SaysPlaying(wire'[j])
         PROVE  dates[i] < dates[j]
    <3>1. i \in 0..n /\ (i = 0 \/ i \in 1..n)
      BY <2>1, <2>11
    <3>2. Over(i)
      BY <2>5, <2>6, <2>11, <3>1
    <3>3. CASE j = n + 1
      <4>1. since[i] < begun
        BY <2>2, <2>3, <2>11, <3>1, <3>3, <3>2
      <4>2. QED
        BY <2>9, <3>1, <3>3, <4>1
    <3>4. CASE j # n + 1
      <4>1. j \in 0..n /\ j \in 1..n
        BY <2>1, <2>11, <3>1, <3>4
      <4>2. SaysPlaying(wire[j])
        BY <2>2, <2>11, <4>1
      <4>3. QED
        BY <2>3, <2>9, <2>11, <3>1, <3>2, <4>1, <4>2
    <3>5. QED
      BY <3>3, <3>4
  <2>12. ASSUME NEW i \in 0..(n + 1), Over(i)', Plays(real')
         PROVE  dates[i] < begun'
    <3>1. CASE i = n + 1
      <4>1. Ends(m) /\ dates[i] = begun
        BY <2>7, <2>9, <2>12, <3>1
      <4>2. QED
        BY <2>1, <2>12, <4>1
    <3>2. CASE i # n + 1
      <4>1. i \in 0..n /\ (i = 0 \/ i \in 1..n)
        BY <2>1, <2>12, <3>2
      <4>2. Over(i)
        BY <2>5, <2>6, <2>12, <4>1
      <4>3. since[i] \in 0..begun /\ (Plays(real) => since[i] < begun) /\ dates[i] = since[i]
        BY <2>3, <2>4, <2>9, <4>1, <4>2
      <4>4. QED
        BY <2>1, <2>12, <4>3
    <3>3. QED
      BY <3>1, <3>2
  <2>13. QED
    BY <2>2, <2>8, <2>10, <2>11, <2>12 DEF Dated
<1>3. QED
  BY <1>1, <1>2

\* The head is read: what comes after it keeps its date, and what the hub knows
\* has the head's or its own.
LEMMA ReadDated ==
  ASSUME WireOK, ToldOK, Dated, wire # << >>, wire' = Tail(wire), UNCHANGED real,
         begun' \in Nat, NEW spent \in {0, 1}, begun' = begun - spent,
         Over(0)' => Over(0) \/ Over(1),
         spent = 1 => Over(0) /\ SaysPlaying(Head(wire)) /\ ~Over(0)'
  PROVE  Dated'
<1> DEFINE n == Len(wire) - 1
<1>1. n \in Nat /\ begun \in Nat /\ Len(wire) = n + 1 /\ Len(wire') = n
      /\ Head(wire) = wire[1] /\ \A i \in 1..n : wire'[i] = wire[i + 1]
  BY DEF WireOK, ToldOK
<1>2. PICK since \in [0..(n + 1) -> 0..begun] :
        /\ \A i, j \in 0..(n + 1) : i <= j => since[i] <= since[j]
        /\ \A i, j \in 0..(n + 1) : i < j /\ Over(i) /\ SaysPlaying(wire[j]) => since[i] < since[j]
        /\ \A i \in 0..(n + 1) : Over(i) /\ Plays(real) => since[i] < begun
  BY <1>1 DEF Dated
<1>3. \A i \in 0..(n + 1) : since[i] \in 0..begun
  BY <1>2
<1>4. \A i \in 1..n : Over(i)' <=> Over(i + 1)
  BY <1>1 DEF Over
<1> HIDE DEF n
<1>5. spent = 1 => \A i \in 1..(n + 1) : since[i] >= 1
  <2> SUFFICES ASSUME spent = 1, NEW i \in 1..(n + 1) PROVE since[i] >= 1
    OBVIOUS
  <2>1. 0 \in 0..(n + 1) /\ 1 \in 0..(n + 1) /\ i \in 0..(n + 1) /\ 1 <= i
    BY <1>1
  <2>2. since[0] < since[1] /\ since[1] <= since[i]
    BY <1>1, <1>2, <2>1
  <2>3. QED
    BY <1>1, <1>3, <2>1, <2>2
<1> DEFINE first == IF Over(0) /\ spent = 0 THEN since[0] ELSE since[1] - spent
           dates == [i \in 0..n |-> IF i = 0 THEN first ELSE since[i + 1] - spent]
<1>6. \A i \in 0..n : i + 1 \in 1..(n + 1) /\ i + 1 \in 0..(n + 1) /\ since[i + 1] \in 0..begun
  BY <1>1, <1>3
<1>7. since[0] \in 0..begun /\ since[1] \in 0..begun /\ since[0] <= since[1]
  BY <1>1, <1>2, <1>3
<1>8. \A i \in 0..n : since[i + 1] - spent \in 0..begun'
  BY <1>1, <1>5, <1>6
<1>9. first \in 0..begun' /\ first <= since[1] - spent
  BY <1>1, <1>7, <1>8
<1> HIDE DEF first
<1>10. dates \in [0..n -> 0..begun']
  BY <1>8, <1>9
<1>11. dates[0] = first /\ \A i \in 1..n : dates[i] = since[i + 1] - spent
  BY <1>1
<1> HIDE DEF dates
<1>12. ASSUME NEW j \in 1..n PROVE first <= dates[j]
  <2>1. since[1] <= since[j + 1]
    BY <1>1, <1>2, <1>6
  <2>2. j \in 0..n /\ since[j + 1] \in 0..begun /\ dates[j] = since[j + 1] - spent
    BY <1>1, <1>6, <1>11
  <2>3. QED
    BY <1>1, <1>7, <1>9, <2>1, <2>2
<1>13. \A i, j \in 0..n : i <= j => dates[i] <= dates[j]
  <2> SUFFICES ASSUME NEW i \in 0..n, NEW j \in 0..n, i <= j PROVE dates[i] <= dates[j]
    OBVIOUS
  <2>1. CASE i = 0
    BY <1>9, <1>11, <1>12, <2>1
  <2>2. CASE i # 0
    <3>1. i \in 1..n /\ j \in 1..n /\ i + 1 <= j + 1
      BY <1>1, <2>2
    <3>2. since[i + 1] <= since[j + 1]
      BY <1>2, <1>6, <3>1
    <3>3. QED
      BY <1>6, <1>11, <3>1, <3>2
  <2>3. QED
    BY <2>1, <2>2
<1>14. ASSUME NEW i \in 0..n, NEW j \in 0..n, i < j, Over(i)', SaysPlaying(wire'[j])
       PROVE  dates[i] < dates[j]
  <2>1. j \in 1..n /\ SaysPlaying(wire[j + 1]) /\ dates[j] = since[j + 1] - spent
    BY <1>1, <1>11, <1>14
  <2>2. CASE i = 0
    <3>1. spent = 0 /\ (Over(0) \/ Over(1)) /\ 0 < j + 1 /\ 1 < j + 1 /\ 0 \in 0..(n + 1) /\ 1 \in 0..(n + 1)
      BY <1>1, <1>14, <2>1, <2>2
    <3>2. first < since[j + 1]
      BY <1>2, <1>6, <2>1, <3>1 DEF first
    <3>3. QED
      BY <1>6, <1>11, <2>1, <2>2, <3>1, <3>2
  <2>3. CASE i # 0
    <3>1. i \in 1..n /\ Over(i + 1) /\ i + 1 < j + 1 /\ dates[i] = since[i + 1] - spent
      BY <1>1, <1>4, <1>11, <1>14, <2>3
    <3>2. since[i + 1] < since[j + 1]
      BY <1>2, <1>6, <2>1, <3>1
    <3>3. QED
      BY <1>6, <2>1, <3>1, <3>2
  <2>4. QED
    BY <2>2, <2>3
<1>15. ASSUME NEW i \in 0..n, Over(i)', Plays(real')
       PROVE  dates[i] < begun'
  <2>1. CASE i = 0
    <3>1. spent = 0 /\ (Over(0) \/ Over(1)) /\ 0 \in 0..(n + 1) /\ 1 \in 0..(n + 1)
      BY <1>1, <1>15, <2>1
    <3>2. first < begun
      BY <1>2, <1>15, <3>1 DEF first
    <3>3. QED
      BY <1>1, <1>11, <2>1, <3>1, <3>2
  <2>2. CASE i # 0
    <3>1. i \in 1..n /\ Over(i + 1) /\ dates[i] = since[i + 1] - spent
      BY <1>1, <1>4, <1>11, <1>15, <2>2
    <3>2. since[i + 1] < begun
      BY <1>2, <1>6, <1>15, <3>1
    <3>3. QED
      BY <1>1, <1>6, <3>1, <3>2
  <2>3. QED
    BY <2>1, <2>2
<1>16. QED
  BY <1>1, <1>10, <1>13, <1>14, <1>15 DEF Dated

\* An empty wire: a session that runs unknown to the hub has begun.
LEMMA EmptyDated ==
  ASSUME wire' = << >>, begun' \in Nat, Over(0)' /\ Plays(real') => begun' > 0
  PROVE  Dated'
<1> DEFINE dates == [i \in 0..0 |-> 0]
<1>1. Len(wire') = 0 /\ dates[0] = 0 /\ \A i \in 0..0 : i = 0
  OBVIOUS
<1>2. dates \in [0..0 -> 0..begun']
  BY <1>1
<1> HIDE DEF dates
<1>3. QED
  BY <1>1, <1>2 DEF Dated

----------------------------------------------------------------------------
\* What the hub knows, and when it signals.

LEMMA Knows ==
  ASSUME StatusFits
  PROVE  Listening(source, status) <=> status = "play"
  BY DEF StatusFits, Listening

LEMMA SaysOf ==
  ASSUME NEW d \in Doings
  PROVE  /\ SourceOf(d) = "hdmi" <=> d = "hdmi"
         /\ SourceOf(d) \in Sources /\ StatusOf(d) \in Statuses
         /\ d # "hdmi" => SourceOf(d) \in {"wifi", "multiroom-secondary"}
         /\ Listening(SourceOf(d), StatusOf(d)) <=> Plays(d)
         /\ StatusOf(d) = "play" => SourceOf(d) \in {"wifi", "multiroom-secondary"}
         /\ d = "hdmi" => ~Plays(d)
  BY DEF Doings, SourceOf, StatusOf, Sources, Statuses, Listening, Plays

LEMMA EdgeIs ==
  ASSUME ToldOK, NoFalseAlarm, NEW by \in {"plm"} \cup Answer, ListenEdge(by),
         by # "plm", by = "inf" /\ settled /\ ~Listening(source, status) /\ Listening(source', status') => begun # 0
  PROVE  /\ NoFalseAlarm' /\ begun' \in Nat
         /\ \E spent \in {0, 1} :
              /\ begun' = begun - spent
              /\ spent = 1 => by = "inf" /\ settled /\ ~Listening(source, status) /\ Listening(source', status')
<1> DEFINE edge == settled /\ ~Listening(source, status) /\ Listening(source', status')
<1>1. begun \in Nat /\ "inf" \notin alarms /\ by \in {"inf", "early"}
  BY DEF ToldOK, NoFalseAlarm, Answer
<1>2. CASE edge
  <2>1. /\ alarms' = IF begun = 0 THEN alarms \cup {by} ELSE alarms
        /\ begun' = IF begun = 0 \/ by = "early" THEN begun ELSE begun - 1
    BY <1>2 DEF ListenEdge
  <2>2. NoFalseAlarm'
    BY <1>1, <1>2, <2>1 DEF NoFalseAlarm
  <2>3. \/ begun' = begun - 0
        \/ begun' = begun - 1 /\ by = "inf" /\ begun # 0
    BY <1>1, <2>1
  <2>4. QED
    BY <1>1, <1>2, <2>2, <2>3
<1>3. CASE ~edge
  <2>1. begun' = begun - 0 /\ alarms' = alarms
    BY <1>1, <1>3 DEF ListenEdge
  <2>2. QED
    BY <1>1, <2>1 DEF NoFalseAlarm
<1>4. QED
  BY <1>2, <1>3

LEMMA PlmSignals ==
  ASSUME SignalInv, HandlePlm
  PROVE  SignalsOK'
<1>1. TypeOK /\ ViewOK /\ ToldOK /\ WireOK /\ SignalsOK
  BY TypeParts DEF SignalInv, IInv
<1>2. PICK d \in Doings : d = Head(wire).at
  BY <1>1, ReadsTypes DEF HandlePlm
<1>3. /\ link # "down" /\ link' = link /\ wire # << >> /\ wire' = Tail(wire) /\ Head(wire).kind = "plm"
      /\ source' = SourceOf(d) /\ status' = (IF d = "hdmi" THEN "none" ELSE status)
      /\ UNCHANGED <<real, settled>>
  BY <1>2, SaysOf DEF HandlePlm, Reads
<1>4. StatusFits'
  BY <1>2, <1>3, SaysOf DEF StatusFits
<1>5. /\ Listening(source, status) <=> status = "play"
      /\ Listening(source', status') <=> status' = "play"
  BY <1>1, <1>4, Knows DEF SignalsOK, StatusFits, Listening
<1>6. UNCHANGED <<alarms, begun>>
  BY <1>3, <1>5 DEF HandlePlm, ListenEdge
<1>7. Over(0)' => Over(0) \/ Over(1)
  <2>1. Head(wire) = wire[1]
    BY <1>1, <1>3 DEF WireOK
  <2>2. QED
    BY <1>2, <1>3, <1>5, <2>1 DEF Over, Ends
<1>8. begun' \in Nat /\ begun' = begun - 0
  BY <1>1, <1>6 DEF ToldOK
<1>9. Dated'
  BY <1>1, <1>3, <1>7, <1>8, ReadDated DEF SignalsOK
<1>10. QED
  BY <1>1, <1>3, <1>4, <1>6, <1>9 DEF SignalsOK, NoFalseAlarm

LEMMA HintSignals ==
  ASSUME SignalInv, HandleHint
  PROVE  SignalsOK'
<1>1. TypeOK /\ ToldOK /\ WireOK /\ SignalsOK
  BY TypeParts DEF SignalInv, IInv
<1>2. /\ link # "down" /\ link' = link /\ wire # << >> /\ wire' = Tail(wire)
      /\ UNCHANGED <<real, source, status, settled, begun, alarms>>
  BY DEF HandleHint, Reads, view, told
<1>3. Over(0)' => Over(0)
  BY <1>2 DEF Over
<1>4. begun' \in Nat /\ begun' = begun - 0
  BY <1>1, <1>2 DEF ToldOK
<1>5. Dated'
  BY <1>1, <1>2, <1>3, <1>4, ReadDated DEF SignalsOK
<1>6. QED
  BY <1>1, <1>2, <1>5 DEF SignalsOK, NoFalseAlarm, StatusFits

\* A right answer tells of a session that was dated after the hub's knowledge.
LEMMA SomeHasBegun ==
  ASSUME ToldOK, WireOK, Dated, wire # << >>, Over(0), SaysPlaying(Head(wire))
  PROVE  begun # 0
<1>1. Len(wire) \in Nat /\ Len(wire) >= 1 /\ Head(wire) = wire[1] /\ begun \in Nat
  BY DEF WireOK, ToldOK
<1>2. PICK since \in [0..Len(wire) -> 0..begun] :
        \A i, j \in 0..Len(wire) : i < j /\ Over(i) /\ SaysPlaying(wire[j]) => since[i] < since[j]
  BY DEF Dated
<1>3. 0 \in 0..Len(wire) /\ 1 \in 0..Len(wire)
  BY <1>1
<1>4. since[0] \in 0..begun /\ since[1] \in 0..begun /\ since[0] < since[1]
  BY <1>1, <1>2, <1>3
<1>5. QED
  BY <1>1, <1>4

LEMMA PlyInfSignals ==
  ASSUME SignalInv, HandlePlyInf
  PROVE  SignalsOK'
<1>1. TypeOK /\ ViewOK /\ ToldOK /\ WireOK /\ SignalsOK
  BY TypeParts DEF SignalInv, IInv
<1>2. PICK d \in Doings : d = Head(wire).at
  BY <1>1, ReadsTypes DEF HandlePlyInf
<1>3. PICK by \in Answer : by = Head(wire).kind
  BY DEF HandlePlyInf, Reads
<1>4. /\ link # "down" /\ link' = link /\ wire # << >> /\ wire' = Tail(wire) /\ Head(wire) = wire[1]
      /\ source' = SourceOf(d) /\ status' = StatusOf(d) /\ settled' = TRUE
      /\ ListenEdge(by) /\ UNCHANGED real
  BY <1>1, <1>2, <1>3 DEF HandlePlyInf, Reads, WireOK
<1>5. StatusFits' /\ (Listening(source', status') <=> Plays(d))
  BY <1>2, <1>4, SaysOf DEF StatusFits
<1>6. /\ by # "plm" /\ by # "hint" /\ by \in {"plm"} \cup Answer
      /\ Ends(wire[1]) <=> ~Plays(d)
      /\ SaysPlaying(wire[1]) <=> by = "inf" /\ Plays(d)
  BY <1>2, <1>3, <1>4 DEF Answer, Ends, SaysPlaying
<1>7. (Over(0)' <=> ~Plays(d)) /\ (Over(1) <=> ~Plays(d)) /\ (Over(0) <=> settled /\ ~Listening(source, status))
  BY <1>4, <1>5, <1>6 DEF Over
<1>8. by = "inf" /\ settled /\ ~Listening(source, status) /\ Listening(source', status') => begun # 0
  BY <1>1, <1>4, <1>5, <1>6, <1>7, SomeHasBegun DEF SignalsOK
<1>9. NoFalseAlarm' /\ begun' \in Nat
      /\ \E spent \in {0, 1} :
           /\ begun' = begun - spent
           /\ spent = 1 => by = "inf" /\ settled /\ ~Listening(source, status) /\ Listening(source', status')
  BY <1>1, <1>4, <1>6, <1>8, EdgeIs DEF SignalsOK
<1>10. PICK spent \in {0, 1} :
         /\ begun' = begun - spent
         /\ spent = 1 => by = "inf" /\ settled /\ ~Listening(source, status) /\ Listening(source', status')
  BY <1>9
<1>11. spent = 1 => Over(0) /\ SaysPlaying(Head(wire)) /\ ~Over(0)'
  BY <1>4, <1>5, <1>6, <1>7, <1>10
<1>12. Dated'
  BY <1>1, <1>4, <1>7, <1>9, <1>10, <1>11, ReadDated DEF SignalsOK
<1>13. QED
  BY <1>4, <1>5, <1>9, <1>12 DEF SignalsOK

\* Something is pushed, or nothing, and a session begins, or does not.
LEMMA PushSignals ==
  ASSUME SignalInv, NEW m \in Messages, Push(<<m>>), UNCHANGED <<settled, source, status, link, alarms>>,
         begun' \in Nat, begun' >= begun, SaysPlaying(m) => Plays(real),
         Plays(real') => (Plays(real) /\ ~Ends(m)) \/ begun' > begun
  PROVE  SignalsOK'
<1>1. ToldOK /\ WireOK /\ SignalsOK
  BY TypeParts DEF SignalInv, IInv
<1>2. Dated'
  BY <1>1, PushDated DEF SignalsOK
<1>3. link' = "down" => wire' = << >>
  BY <1>1 DEF SignalsOK, Push, Connected
<1>4. QED
  BY <1>1, <1>2, <1>3 DEF SignalsOK, NoFalseAlarm, StatusFits

LEMMA SameSignals ==
  ASSUME SignalInv, UNCHANGED <<wire, settled, source, status, alarms>>, link' = "down" => link = "down",
         begun' \in Nat, begun' >= begun, Plays(real') => Plays(real) \/ begun' > begun
  PROVE  SignalsOK'
<1>1. ToldOK /\ WireOK /\ SignalsOK
  BY TypeParts DEF SignalInv, IInv
<1>2. Dated'
  BY <1>1, SameDated DEF SignalsOK
<1>3. QED
  BY <1>1, <1>2 DEF SignalsOK, NoFalseAlarm, StatusFits

LEMMA BeginsIs ==
  ASSUME ToldOK, NEW d, real' = d, Begins(d)
  PROVE  begun' \in Nat /\ begun' >= begun /\ (Plays(real') /\ ~Plays(real) => begun' > begun)
  BY DEF ToldOK, Begins

\* News of a session that runs on, or begins, does not end it.
LEMMA NewsGoesOn ==
  ASSUME PlayerOK, NEW d \in Doings
  PROVE  /\ ~SaysPlaying(News(d)) /\ ~SaysPlaying(Hint(d)) /\ ~Ends(Hint(d))
         /\ Ends(News(d)) => ~Plays(d)
  BY DEF PlayerOK, Doings, News, Hint, Plm, SaysPlaying, Ends, Plays, Answer

LEMMA ChangeSignals ==
  ASSUME SignalInv, NEW d \in Doings, real' = d, Begins(d), Push(<<News(d)>>) \/ wire' = wire,
         UNCHANGED <<settled, source, status, link, alarms>>
  PROVE  SignalsOK'
<1>1. ToldOK /\ PlayerOK
  BY TypeParts DEF SignalInv, IInv
<1>2. begun' \in Nat /\ begun' >= begun /\ (Plays(real') /\ ~Plays(real) => begun' > begun)
  BY <1>1, BeginsIs
<1>3. News(d) \in Messages /\ ~SaysPlaying(News(d)) /\ (Ends(News(d)) => ~Plays(d))
  BY <1>1, MessagesOfDoings, NewsGoesOn
<1>4. CASE Push(<<News(d)>>)
  BY <1>2, <1>3, <1>4, PushSignals
<1>5. CASE wire' = wire
  BY <1>2, <1>5, SameSignals
<1>6. QED
  BY <1>4, <1>5

LEMMA AnswerSignals ==
  ASSUME SignalInv, Answers
  PROVE  SignalsOK'
<1>1. ToldOK /\ PlayerOK
  BY TypeParts DEF SignalInv, IInv
<1>2. /\ Push(<<Inf(shown)>>) /\ begun' = (IF Plays(real) /\ ~Plays(shown) THEN begun + 1 ELSE begun)
      /\ UNCHANGED <<real, settled, source, status, link, alarms>>
  BY DEF Answers, view
<1>3. Inf(shown) \in Messages /\ (SaysPlaying(Inf(shown)) => Plays(real)) /\ (Ends(Inf(shown)) => ~Plays(shown))
  BY <1>1, MessagesOfDoings DEF PlayerOK, Inf, SaysPlaying, Ends
<1>4. begun' \in Nat /\ begun' >= begun /\ (Plays(real) => ~Ends(Inf(shown)) \/ begun' > begun)
  BY <1>1, <1>2, <1>3 DEF ToldOK
<1>5. QED
  BY <1>2, <1>3, <1>4, PushSignals

\* A first reading that failed: a session found later counts as begun.
LEMMA FailSignals ==
  ASSUME SignalInv, MarkFailed, wire' = << >>, UNCHANGED <<real, source, status, alarms>>
  PROVE  SignalsOK'
<1>1. ToldOK /\ ViewOK /\ WireOK /\ SignalsOK
  BY TypeParts DEF SignalInv, IInv
<1>2. settled' = TRUE /\ begun' = IF ~settled /\ (Plays(real) \/ Plays(shown)) THEN begun + 1 ELSE begun
  BY DEF MarkFailed
<1>3. begun \in Nat /\ begun' \in Nat
  BY <1>1, <1>2 DEF ToldOK
<1>4. ASSUME Over(0)', Plays(real') PROVE begun' > 0
  <2>1. ~Listening(source, status) /\ Plays(real)
    BY <1>2, <1>4 DEF Over
  <2>2. CASE settled
    <3>1. Over(0)
      BY <2>1, <2>2 DEF Over
    <3>2. PICK since \in [0..Len(wire) -> 0..begun] :
            \A i \in 0..Len(wire) : Over(i) /\ Plays(real) => since[i] < begun
      BY <1>1 DEF SignalsOK, Dated
    <3>3. 0 \in 0..Len(wire)
      BY <1>1 DEF WireOK
    <3>4. since[0] \in 0..begun /\ since[0] < begun
      BY <2>1, <3>1, <3>2, <3>3
    <3>5. QED
      BY <1>2, <1>3, <2>2, <3>4
  <2>3. CASE ~settled
    BY <1>2, <1>3, <2>1, <2>3
  <2>4. QED
    BY <2>2, <2>3
<1>5. Dated'
  BY <1>3, <1>4, EmptyDated
<1>6. QED
  BY <1>1, <1>5 DEF SignalsOK, NoFalseAlarm, StatusFits

LEMMA StepSignals ==
  ASSUME SignalInv, [Next]_vars
  PROVE  SignalsOK'
<1>1. ToldOK /\ PlayerOK /\ HubOK /\ SignalsOK
  BY TypeParts DEF SignalInv, IInv
<1>2. begun \in Nat /\ begun >= begun
  BY <1>1 DEF ToldOK
<1>3. ASSUME UNCHANGED <<real, wire, settled, source, status, alarms, begun>>, link' = "down" => link = "down"
      PROVE  SignalsOK'
  BY <1>2, <1>3, SameSignals
<1>4. CASE SpeakerMoves
  <2>1. CASE Changed
    <3>1. PICK d \in Doings : real' = d /\ Push(<<News(d)>>) /\ Begins(d)
      BY <2>1 DEF Changed
    <3>2. QED
      BY <2>1, <3>1, ChangeSignals DEF Changed, view
  <2>2. CASE Chatters
    <3>1. /\ Push(<<Hint(real)>>) /\ UNCHANGED <<real, settled, source, status, link, alarms, begun>>
      BY <2>2 DEF Chatters, view, told
    <3>2. Hint(real) \in Messages /\ ~SaysPlaying(Hint(real)) /\ ~Ends(Hint(real))
      BY <1>1, MessagesOfDoings, NewsGoesOn DEF PlayerOK
    <3>3. QED
      BY <1>2, <3>1, <3>2, PushSignals
  <2>3. CASE Settles
    BY <2>3, <1>3 DEF Settles, view, told
  <2>4. QED
    BY <1>4, <2>1, <2>2, <2>3, AnswerSignals DEF SpeakerMoves
<1>5. CASE HubReads
  BY <1>5, PlmSignals, HintSignals, PlyInfSignals DEF HubReads
<1>6. CASE QuestionMoves
  BY <1>6, <1>3 DEF QuestionMoves, TaskDue, TaskWrites, TaskReturns, RefreshWrites, RefreshReturns,
                    player, view, told
<1>7. CASE LinkMoves
  <2>1. CASE SendFails
    BY <2>1, <1>3 DEF SendFails, told
  <2>2. CASE Connects \/ HandshakeAsks \/ HandshakeDone
    BY <2>2, <1>3 DEF Connects, HandshakeAsks, HandshakeDone, player, view, told
  <2>3. CASE ConnectFails
    BY <1>1, <2>3, FailSignals DEF ConnectFails, player, SignalsOK
  <2>4. CASE LinkLost
    BY <2>4, FailSignals DEF LinkLost
  <2>5. QED
    BY <1>7, <2>1, <2>2, <2>3, <2>4 DEF LinkMoves
<1>8. CASE CommandMoves
  <2>1. CASE CommandReturns
    <3>1. PICK d \in Doings : real' = d
      BY <1>1, <2>1, ObeyedTypes DEF CommandReturns
    <3>2. Begins(d) /\ (Push(<<News(d)>>) \/ wire' = wire)
      BY <2>1, <3>1 DEF CommandReturns, Obeyed
    <3>3. QED
      BY <2>1, <3>1, <3>2, ChangeSignals DEF CommandReturns
  <2>2. CASE CommandTimesOut
    <3>1. PICK d \in Doings : real' = d
      BY <1>1, <2>2, ObeyedTypes DEF CommandTimesOut
    <3>2. Begins(d) /\ (Push(<<News(d)>>) \/ wire' = wire)
      BY <2>2, <3>1 DEF CommandTimesOut, Obeyed
    <3>3. QED
      BY <2>2, <3>1, <3>2, ChangeSignals DEF CommandTimesOut, view
  <2>3. CASE CommandStarts \/ CommandFails
    BY <2>3, <1>3 DEF CommandStarts, CommandFails, player, view, told
  <2>4. QED
    BY <1>8, <2>1, <2>2, <2>3 DEF CommandMoves
<1>9. CASE UNCHANGED vars
  BY <1>9, <1>3 DEF vars, player, view, told
<1>10. QED
  BY <1>4, <1>5, <1>6, <1>7, <1>8, <1>9 DEF Next

LEMMA InitSignals == Init => SignalsOK
<1> SUFFICES ASSUME Init PROVE SignalsOK
  OBVIOUS
<1> DEFINE dates == [i \in 0..0 |-> 0]
<1>1. wire = << >> /\ begun = 0 /\ ~Over(0) /\ Len(wire) = 0 /\ \A i \in 0..0 : i = 0
  BY DEF Init, Over
<1>2. dates \in [0..0 -> 0..0] /\ dates[0] = 0
  OBVIOUS
<1> HIDE DEF dates
<1>3. Dated
  BY <1>1, <1>2 DEF Dated
<1>4. QED
  BY <1>1, <1>3 DEF Init, SignalsOK, StatusFits, NoFalseAlarm

\* audiopro_speaker.py, _emit_listen_edge: a listen signal set off by a right
\* answer tells of a session that began since the hub last knew of none (Speaker's
\* NoFalseAlarm): never of the one found at start-up, nor of a reconnect, in
\* whatever order hints, questions, answers and commands cross.
THEOREM SignalsAreTrue == Spec => []NoFalseAlarm
<1>1. Init => SignalInv
  BY InitHolds, InitSignals DEF SignalInv
<1>2. SignalInv /\ [Next]_vars => SignalInv'
  BY StepHolds, StepSignals DEF SignalInv
<1>3. SignalInv => NoFalseAlarm
  BY DEF SignalInv, SignalsOK
<1>. QED  BY <1>1, <1>2, <1>3, PTL DEF Spec
=============================================================================
