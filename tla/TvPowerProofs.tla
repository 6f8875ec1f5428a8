--------------------------- MODULE TvPowerProofs ---------------------------
(***************************************************************************)
(* Proofs about TvPower, for any number of switchings, losses, failed      *)
(* probes, flows and refreshes.                                            *)
(***************************************************************************)
EXTENDS TvPower, SequenceTheorems, TLAPS

USE DEF Askers, Answers, Steps, DirectChecks,
    panel, socket, workers, belief, told, bounds, IsOn, TvNow, Announced, Answered

----------------------------------------------------------------------------
\* Types, one kind of variable after the other.

LEMMA BoundsType ==
    MaxSwitches \in Nat /\ MaxLost \in Nat /\ MaxFails \in Nat /\ MaxFlows \in Nat /\ MaxRefreshes \in Nat
BY TvPowerBounds

LEMMA RemovedType ==
    ASSUME NEW S, NEW s \in Seq(S), NEW i \in DOMAIN s
    PROVE  RemoveAt(s, i) \in Seq(S)
BY DEF RemoveAt

LEMMA RemovedFrom ==
    ASSUME NEW S, NEW s \in Seq(S), NEW i \in DOMAIN s, NEW j \in DOMAIN RemoveAt(s, i)
    PROVE  \E k \in DOMAIN s : RemoveAt(s, i)[j] = s[k]
<1> DEFINE head == SubSeq(s, 1, i - 1)
           tail == SubSeq(s, i + 1, Len(s))
<1>1. i \in 1..Len(s) /\ Len(s) \in Nat /\ \A k \in 1..Len(s) : s[k] \in S
  OBVIOUS
<1>2. /\ head \in Seq(S) /\ Len(head) = i - 1
      /\ \A k \in 1..(i - 1) : head[k] = s[k]
  <2>1. \A k \in 1..(i - 1) : s[k] \in S
    BY <1>1
  <2>. QED
    BY <1>1, <2>1, SubSeqProperties
<1>3. /\ tail \in Seq(S) /\ Len(tail) = Len(s) - i
      /\ \A k \in 1..(Len(s) - i) : tail[k] = s[i + k]
  <2>1. \A k \in (i + 1)..Len(s) : s[k] \in S
    BY <1>1
  <2>. QED
    BY <1>1, <2>1, SubSeqProperties
<1>4. RemoveAt(s, i) = head \o tail
  BY DEF RemoveAt
<1> HIDE DEF head, tail
<1>5. /\ Len(head \o tail) = Len(head) + Len(tail)
      /\ \A k \in 1..(Len(head) + Len(tail)) :
           (head \o tail)[k] = IF k <= Len(head) THEN head[k] ELSE tail[k - Len(head)]
      /\ head \o tail \in Seq(S)
  BY <1>2, <1>3, ConcatProperties
<1>6. j \in 1..(Len(s) - 1)
  <2>1. j \in 1..Len(head \o tail)
    BY <1>4, <1>5
  <2>2. Len(head \o tail) = Len(s) - 1
    BY <1>1, <1>2, <1>3, <1>5
  <2>. QED
    BY <2>1, <2>2
<1>7. (head \o tail)[j] = IF j <= i - 1 THEN s[j] ELSE s[j + 1]
  <2>1. j \in 1..(Len(head) + Len(tail))
    BY <1>1, <1>2, <1>3, <1>6
  <2>2. (head \o tail)[j] = IF j <= i - 1 THEN head[j] ELSE tail[j - (i - 1)]
    BY <1>2, <1>5, <2>1
  <2>3. CASE j <= i - 1
    BY <1>2, <1>6, <2>2, <2>3
  <2>4. CASE ~(j <= i - 1)
    <3>1. j - (i - 1) \in 1..(Len(s) - i) /\ i + (j - (i - 1)) = j + 1
      BY <1>1, <1>6, <2>4
    <3>. QED
      BY <1>3, <2>2, <2>4, <3>1
  <2>. QED
    BY <2>3, <2>4
<1>. QED
  BY <1>1, <1>4, <1>6, <1>7

LEMMA HearsayType == AnswersTyped /\ AirTyped => Hearsay \subseteq {"on", "off"}
BY DEF AnswersTyped, AirTyped, Hearsay

LEMMA PlacesStep ==
    ASSUME TypeOK, [Next]_vars
    PROVE  PlacesTyped'
<1> USE DEF TypeOK, PlacesTyped
<1>1. CASE TvMoves
  BY <1>1 DEF TvMoves, Switched, LingerEnds, NoteLost, ProbeAnswered, ProbeFails, TvBecomes
<1>2. CASE HubHears
  BY <1>2 DEF HubHears, NotifySsdp, Refresh, SearchReplied, SearchSilent, SearchProbed,
       CommitAnswer, Commit
<1>3. CASE SocketMoves
  BY <1>3 DEF SocketMoves, WarmConnects, WsDrops, Connect
<1>4. CASE FlowMoves
  BY <1>4 DEF FlowMoves, FlowStarts, FlowRefreshed, TimedOut, Decide, RefreshAnswered,
       KeepBelief, CommitAnswer, Commit, PowerOnFinally, StopWorkers
<1>5. CASE PowerOnMoves
  BY <1>5 DEF PowerOnMoves, PowerOn, WolSent, KeyWorker, CheckAsked, CheckProbed, PowerOnSeen,
       PowerOnConnects, Connect, KeySent, TvBecomes, KeepBelief, CommitAnswer, Commit,
       PowerOnFinally, StopWorkers
<1>6. CASE PowerOffMoves
  BY <1>6 DEF PowerOffMoves, PowerOff, Rechecked, Dialled, OffSeen, OffProbed, Connect, Toggled,
       TvBecomes, RefreshAnswered, KeepBelief, CommitAnswer, Commit
<1>7. CASE UNCHANGED vars
  BY <1>7 DEF vars
<1>. QED
  BY <1>1, <1>2, <1>3, <1>4, <1>5, <1>6, <1>7 DEF Next

LEMMA FlagsStep ==
    ASSUME TypeOK, [Next]_vars
    PROVE  FlagsTyped'
<1> USE DEF TypeOK, FlagsTyped
<1>1. CASE TvMoves
  BY <1>1 DEF TvMoves, Switched, LingerEnds, NoteLost, ProbeAnswered, ProbeFails, TvBecomes
<1>2. CASE HubHears
  BY <1>2 DEF HubHears, NotifySsdp, Refresh, SearchReplied, SearchSilent, SearchProbed,
       CommitAnswer, Commit
<1>3. CASE SocketMoves
  BY <1>3 DEF SocketMoves, WarmConnects, WsDrops, Connect
<1>4. CASE FlowMoves
  BY <1>4 DEF FlowMoves, FlowStarts, FlowRefreshed, TimedOut, Decide, RefreshAnswered,
       KeepBelief, CommitAnswer, Commit, PowerOnFinally, StopWorkers
<1>5. CASE PowerOnMoves
  BY <1>5 DEF PowerOnMoves, PowerOn, WolSent, KeyWorker, CheckAsked, CheckProbed, PowerOnSeen,
       PowerOnConnects, Connect, KeySent, TvBecomes, KeepBelief, CommitAnswer, Commit,
       PowerOnFinally, StopWorkers
<1>6. CASE PowerOffMoves
  BY <1>6 DEF PowerOffMoves, PowerOff, Rechecked, Dialled, OffSeen, OffProbed, Connect, Toggled,
       TvBecomes, RefreshAnswered, KeepBelief, CommitAnswer, Commit
<1>7. CASE UNCHANGED vars
  BY <1>7 DEF vars
<1>. QED
  BY <1>1, <1>2, <1>3, <1>4, <1>5, <1>6, <1>7 DEF Next

LEMMA AnswersStep ==
    ASSUME TypeOK, [Next]_vars
    PROVE  AnswersTyped'
<1> USE DEF TypeOK, AnswersTyped
<1>1. CASE TvMoves
  <2>1. ASSUME NEW a \in Askers, ProbeAnswered(a) \/ ProbeFails(a) PROVE AnswersTyped'
    BY <2>1 DEF ProbeAnswered, ProbeFails
  <2>. QED  BY <1>1, <2>1 DEF TvMoves, Switched, LingerEnds, NoteLost, TvBecomes
<1>2. CASE HubHears
  BY <1>2 DEF HubHears, NotifySsdp, Refresh, SearchReplied, SearchSilent, SearchProbed,
       CommitAnswer, Commit
<1>3. CASE SocketMoves
  BY <1>3 DEF SocketMoves, WarmConnects, WsDrops, Connect
<1>4. CASE FlowMoves
  BY <1>4, HearsayType DEF FlowMoves, FlowStarts, FlowRefreshed, TimedOut, Decide,
       RefreshAnswered, KeepBelief, CommitAnswer, Commit, PowerOnFinally, StopWorkers
<1>5. CASE PowerOnMoves
  BY <1>5 DEF PowerOnMoves, PowerOn, WolSent, KeyWorker, CheckAsked, CheckProbed, PowerOnSeen,
       PowerOnConnects, Connect, KeySent, TvBecomes, KeepBelief, CommitAnswer, Commit,
       PowerOnFinally, StopWorkers
<1>6. CASE PowerOffMoves
  BY <1>6 DEF PowerOffMoves, PowerOff, Rechecked, Dialled, OffSeen, OffProbed, Connect, Toggled,
       TvBecomes, RefreshAnswered, KeepBelief, CommitAnswer, Commit
<1>7. CASE UNCHANGED vars
  BY <1>7 DEF vars
<1>. QED
  BY <1>1, <1>2, <1>3, <1>4, <1>5, <1>6, <1>7 DEF Next

LEMMA CountsStep ==
    ASSUME TypeOK, [Next]_vars
    PROVE  CountsTyped'
<1> USE DEF TypeOK, CountsTyped
<1>1. CASE TvMoves
  BY <1>1, BoundsType DEF TvMoves, Switched, LingerEnds, NoteLost, ProbeAnswered, ProbeFails
<1>2. CASE HubHears
  BY <1>2, BoundsType DEF HubHears, NotifySsdp, Refresh, SearchReplied, SearchSilent,
       SearchProbed
<1>3. CASE SocketMoves
  BY <1>3 DEF SocketMoves, WarmConnects, WsDrops
<1>4. CASE FlowMoves
  BY <1>4, BoundsType DEF FlowMoves, FlowStarts, FlowRefreshed, TimedOut, PowerOnFinally,
       StopWorkers
<1>5. CASE PowerOnMoves
  BY <1>5 DEF PowerOnMoves, PowerOn, WolSent, KeyWorker, CheckAsked, CheckProbed, PowerOnSeen,
       PowerOnConnects, PowerOnFinally, StopWorkers
<1>6. CASE PowerOffMoves
  BY <1>6 DEF PowerOffMoves, PowerOff, Rechecked, Dialled, OffSeen, OffProbed
<1>7. CASE UNCHANGED vars
  BY <1>7 DEF vars
<1>. QED
  BY <1>1, <1>2, <1>3, <1>4, <1>5, <1>6, <1>7 DEF Next

LEMMA AirStep ==
    ASSUME TypeOK, [Next]_vars
    PROVE  AirTyped'
<1> USE DEF TypeOK, AirTyped
<1>1. CASE TvMoves
  BY <1>1, RemovedType DEF TvMoves, Switched, LingerEnds, NoteLost, ProbeAnswered, ProbeFails, TvBecomes
<1>2. CASE HubHears
  BY <1>2 DEF HubHears, NotifySsdp, Refresh, SearchReplied, SearchSilent, SearchProbed
<1>3. CASE SocketMoves
  BY <1>3 DEF SocketMoves, WarmConnects, WsDrops
<1>4. CASE FlowMoves
  BY <1>4 DEF FlowMoves, FlowStarts, FlowRefreshed, TimedOut
<1>5. CASE PowerOnMoves
  BY <1>5 DEF PowerOnMoves, PowerOn, WolSent, KeyWorker, CheckAsked, CheckProbed, PowerOnSeen,
       PowerOnConnects, KeySent, TvBecomes
<1>6. CASE PowerOffMoves
  BY <1>6 DEF PowerOffMoves, PowerOff, Rechecked, Dialled, OffSeen, OffProbed, Toggled,
       TvBecomes
<1>7. CASE UNCHANGED vars
  BY <1>7 DEF vars
<1>. QED
  BY <1>1, <1>2, <1>3, <1>4, <1>5, <1>6, <1>7 DEF Next

LEMMA TypeInit == Init => TypeOK
<1>. SUFFICES ASSUME Init PROVE TypeOK
  OBVIOUS
<1>1. PlacesTyped
  BY DEF Init, PlacesTyped, Steps
<1>2. FlagsTyped
  BY DEF Init, FlagsTyped
<1>3. AnswersTyped
  BY DEF Init, AnswersTyped
<1>4. CountsTyped
  BY BoundsType DEF Init, CountsTyped, DirectChecks
<1>5. AirTyped
  BY DEF Init, AirTyped
<1>. QED
  BY <1>1, <1>2, <1>3, <1>4, <1>5 DEF TypeOK

LEMMA TypeStep == TypeOK /\ [Next]_vars => TypeOK'
BY PlacesStep, FlagsStep, AnswersStep, CountsStep, AirStep DEF TypeOK

\* The variables keep their types.
THEOREM TypeCorrect == Spec => []TypeOK
BY TypeInit, TypeStep, PTL DEF Spec

----------------------------------------------------------------------------
\* The belief.

\* The last announcement on its way tells the TV's state.
NewsAgrees == lost = 0 /\ air # << >> => Announced(air[Len(air)]) = TvNow

\* With none on its way, so does every answer no announcement has doubtful.
AnswersAgree ==
    lost = 0 /\ air = << >> =>
        \A a \in Askers : probe[a] \in Answers /\ a \notin doubtful => Answered(probe[a]) = TvNow

TruthInv == NewsAgrees /\ AnswersAgree /\ PresenceAgrees

LEMMA TruthStep ==
    ASSUME TypeOK, TruthInv, [Next]_vars
    PROVE  TruthInv'
<1> USE DEF TypeOK, PlacesTyped, AnswersTyped, CountsTyped, AirTyped,
           TruthInv, NewsAgrees, AnswersAgree, PresenceAgrees
<1>1. CASE TvMoves
  <2>1. ASSUME NEW a \in Askers, ProbeAnswered(a) \/ ProbeFails(a) PROVE TruthInv'
    BY <2>1 DEF ProbeAnswered, ProbeFails
  <2>2. CASE Switched
    BY <2>2 DEF Switched, TvBecomes
  <2>3. CASE LingerEnds
    BY <2>3 DEF LingerEnds
  <2>4. CASE NoteLost
    BY <2>4 DEF NoteLost
  <2>. QED
    BY <1>1, <2>1, <2>2, <2>3, <2>4 DEF TvMoves
<1>2. CASE HubHears
  <2>1. CASE NotifySsdp
    <3>1. /\ air # << >> /\ air' = Tail(air) /\ presence' = Announced(Head(air)) /\ misled' = FALSE
          /\ doubtful' = {a \in Askers : probe[a] \in Answers} /\ UNCHANGED <<tv, probe, lost>>
      BY <2>1 DEF NotifySsdp, Commit
    <3>2. Len(air) \in Nat /\ Len(air) > 0 /\ Head(air) = air[1]
      BY <3>1
    <3>3. CASE Len(air) = 1
      <4>1. air' = << >> /\ Head(air) = air[Len(air)]
        BY <3>1, <3>2, <3>3
      <4>2. lost = 0 => presence' = TvNow'
        BY <3>1, <4>1
      <4>. QED
        BY <3>1, <4>1, <4>2
    <3>4. CASE Len(air) > 1
      <4>1. air' # << >> /\ air'[Len(air')] = air[Len(air)]
        <5>1. /\ Len(Tail(air)) = Len(air) - 1
              /\ \A i \in 1..Len(Tail(air)) : Tail(air)[i] = air[i + 1]
          BY <3>1, HeadTailProperties
        <5>2. Len(air') = Len(air) - 1 /\ Len(air') \in 1..Len(air')
          BY <3>1, <3>2, <3>4, <5>1
        <5>3. air'[Len(air')] = air[Len(air') + 1] /\ Len(air') + 1 = Len(air)
          BY <3>1, <3>2, <5>1, <5>2
        <5>4. air' # << >>
          BY <3>1, <3>2, <3>4, <5>2
        <5>. QED
          BY <5>3, <5>4
      <4>. QED
        BY <3>1, <4>1
    <3>5. Len(air) = 1 \/ Len(air) > 1
      <4>1. \A k \in Nat : k > 0 => k = 1 \/ k > 1
        OBVIOUS
      <4>. QED
        BY <3>2, <4>1, Zenon
    <3>. QED
      BY <3>3, <3>4, <3>5, Zenon
  <2>2. CASE Refresh
    BY <2>2 DEF Refresh
  <2>3. CASE SearchReplied
    BY <2>3 DEF SearchReplied, Commit
  <2>4. CASE SearchSilent
    BY <2>4 DEF SearchSilent
  <2>5. CASE SearchProbed
    BY <2>5 DEF SearchProbed, CommitAnswer, Commit
  <2>. QED
    BY <1>2, <2>1, <2>2, <2>3, <2>4, <2>5 DEF HubHears
<1>3. CASE SocketMoves
  <2>1. CASE WarmConnects
    BY <2>1 DEF WarmConnects, Connect
  <2>2. CASE WsDrops
    BY <2>2 DEF WsDrops
  <2>. QED
    BY <1>3, <2>1, <2>2 DEF SocketMoves
<1>4. CASE FlowMoves
  <2>1. CASE FlowStarts
    BY <2>1 DEF FlowStarts, Decide, Hearsay
  <2>2. CASE FlowRefreshed
    BY <2>2 DEF FlowRefreshed, Decide, RefreshAnswered, KeepBelief, CommitAnswer, Commit
  <2>3. CASE TimedOut
    BY <2>3 DEF TimedOut, PowerOnFinally, StopWorkers
  <2>. QED
    BY <1>4, <2>1, <2>2, <2>3 DEF FlowMoves
<1>5. CASE PowerOnMoves
  <2>1. CASE PowerOn
    BY <2>1 DEF PowerOn
  <2>2. CASE WolSent
    BY <2>2 DEF WolSent, TvBecomes
  <2>3. CASE KeyWorker
    BY <2>3 DEF KeyWorker, Connect, KeySent, TvBecomes
  <2>4. CASE CheckAsked
    BY <2>4 DEF CheckAsked
  <2>5. CASE CheckProbed
    BY <2>5 DEF CheckProbed, KeepBelief, CommitAnswer, Commit
  <2>6. CASE PowerOnSeen
    BY <2>6 DEF PowerOnSeen, PowerOnFinally, StopWorkers
  <2>7. CASE PowerOnConnects
    BY <2>7 DEF PowerOnConnects, Connect
  <2>. QED
    BY <1>5, <2>1, <2>2, <2>3, <2>4, <2>5, <2>6, <2>7 DEF PowerOnMoves
<1>6. CASE PowerOffMoves
  <2>1. CASE PowerOff
    BY <2>1 DEF PowerOff
  <2>2. CASE Rechecked
    <3>1. CASE UNCHANGED panel
      BY <2>2, <3>1 DEF Rechecked, RefreshAnswered, KeepBelief, CommitAnswer, Commit
    <3>2. CASE ~UNCHANGED panel
      <4>1. TvBecomes(IF tv = "on" THEN "linger" ELSE "on")
        BY <2>2, <3>2 DEF Rechecked, Toggled
      <4>2. PICK note \in {"alive", "byebye"} :
              air' = Append(air, note) /\ Announced(note) = TvNow'
        BY <4>1 DEF TvBecomes, Announced, TvNow, IsOn
      <4>3. air' # << >> /\ air'[Len(air')] = note
        BY <4>2
      <4>. QED
        BY <4>2, <4>3
    <3>. QED
      BY <3>1, <3>2
  <2>3. CASE Dialled
    BY <2>3 DEF Dialled, Connect, Toggled, TvBecomes
  <2>4. CASE OffSeen
    BY <2>4 DEF OffSeen
  <2>5. CASE OffProbed
    BY <2>5 DEF OffProbed, RefreshAnswered, KeepBelief, CommitAnswer, Commit
  <2>. QED
    BY <1>6, <2>1, <2>2, <2>3, <2>4, <2>5 DEF PowerOffMoves
<1>7. CASE UNCHANGED vars
  BY <1>7 DEF vars
<1>. QED
  BY <1>1, <1>2, <1>3, <1>4, <1>5, <1>6, <1>7 DEF Next

----------------------------------------------------------------------------
\* The toggle.

\* Between the check and the key, power_off knows the TV was on.
ToggleInv ==
    /\ ToggleIsChecked
    /\ step = "dial" => vouched
    /\ step = "recheck" /\ (tv = "on" \/ probe["flow"] = "up") => vouched

LEMMA ToggleStep ==
    ASSUME TypeOK, ToggleInv, [Next]_vars
    PROVE  ToggleInv'
<1> USE DEF TypeOK, PlacesTyped, AnswersTyped, ToggleInv, ToggleIsChecked
<1>1. CASE TvMoves
  <2>1. ASSUME NEW a \in Askers, ProbeAnswered(a) \/ ProbeFails(a) PROVE ToggleInv'
    BY <2>1 DEF ProbeAnswered, ProbeFails
  <2>2. CASE Switched
    BY <2>2 DEF Switched, TvBecomes
  <2>3. CASE LingerEnds
    BY <2>3 DEF LingerEnds
  <2>4. CASE NoteLost
    BY <2>4 DEF NoteLost
  <2>. QED
    BY <1>1, <2>1, <2>2, <2>3, <2>4 DEF TvMoves
<1>2. CASE HubHears
  <2>1. CASE NotifySsdp
    BY <2>1 DEF NotifySsdp, Commit
  <2>2. CASE Refresh
    BY <2>2 DEF Refresh
  <2>3. CASE SearchReplied
    BY <2>3 DEF SearchReplied, Commit
  <2>4. CASE SearchSilent
    BY <2>4 DEF SearchSilent
  <2>5. CASE SearchProbed
    BY <2>5 DEF SearchProbed, CommitAnswer, Commit
  <2>. QED
    BY <1>2, <2>1, <2>2, <2>3, <2>4, <2>5 DEF HubHears
<1>3. CASE SocketMoves
  <2>1. CASE WarmConnects
    BY <2>1 DEF WarmConnects, Connect
  <2>2. CASE WsDrops
    BY <2>2 DEF WsDrops
  <2>. QED
    BY <1>3, <2>1, <2>2 DEF SocketMoves
<1>4. CASE FlowMoves
  <2>1. CASE FlowStarts
    BY <2>1 DEF FlowStarts, Decide, Hearsay
  <2>2. CASE FlowRefreshed
    BY <2>2 DEF FlowRefreshed, Decide, RefreshAnswered, KeepBelief, CommitAnswer, Commit
  <2>3. CASE TimedOut
    BY <2>3 DEF TimedOut, PowerOnFinally, StopWorkers
  <2>. QED
    BY <1>4, <2>1, <2>2, <2>3 DEF FlowMoves
<1>5. CASE PowerOnMoves
  <2>1. CASE PowerOn
    BY <2>1 DEF PowerOn
  <2>2. CASE WolSent
    BY <2>2 DEF WolSent, TvBecomes
  <2>3. CASE KeyWorker
    BY <2>3 DEF KeyWorker, Connect, KeySent, TvBecomes
  <2>4. CASE CheckAsked
    BY <2>4 DEF CheckAsked
  <2>5. CASE CheckProbed
    BY <2>5 DEF CheckProbed, KeepBelief, CommitAnswer, Commit
  <2>6. CASE PowerOnSeen
    BY <2>6 DEF PowerOnSeen, PowerOnFinally, StopWorkers
  <2>7. CASE PowerOnConnects
    BY <2>7 DEF PowerOnConnects, Connect
  <2>. QED
    BY <1>5, <2>1, <2>2, <2>3, <2>4, <2>5, <2>6, <2>7 DEF PowerOnMoves
<1>6. CASE PowerOffMoves
  <2>1. CASE PowerOff
    BY <2>1 DEF PowerOff
  <2>2. CASE Rechecked
    BY <2>2 DEF Rechecked, RefreshAnswered, KeepBelief, CommitAnswer, Commit, Toggled, TvBecomes
  <2>3. CASE Dialled
    BY <2>3 DEF Dialled, Connect, Toggled, TvBecomes
  <2>4. CASE OffSeen
    BY <2>4 DEF OffSeen
  <2>5. CASE OffProbed
    BY <2>5 DEF OffProbed, RefreshAnswered, KeepBelief, CommitAnswer, Commit
  <2>. QED
    BY <1>6, <2>1, <2>2, <2>3, <2>4, <2>5 DEF PowerOffMoves
<1>7. CASE UNCHANGED vars
  BY <1>7 DEF vars
<1>. QED
  BY <1>1, <1>2, <1>3, <1>4, <1>5, <1>6, <1>7 DEF Next

----------------------------------------------------------------------------
\* The end of power_on.

LEMMA PowerOnStep ==
    ASSUME TypeOK, PowerOnIsOver, [Next]_vars
    PROVE  PowerOnIsOver'
<1> USE DEF TypeOK, PlacesTyped, AnswersTyped, PowerOnIsOver, StepRuns
<1>1. CASE TvMoves
  <2>1. ASSUME NEW a \in Askers, ProbeAnswered(a) \/ ProbeFails(a) PROVE PowerOnIsOver'
    BY <2>1 DEF ProbeAnswered, ProbeFails
  <2>2. CASE Switched
    BY <2>2 DEF Switched, TvBecomes
  <2>3. CASE LingerEnds
    BY <2>3 DEF LingerEnds
  <2>4. CASE NoteLost
    BY <2>4 DEF NoteLost
  <2>. QED
    BY <1>1, <2>1, <2>2, <2>3, <2>4 DEF TvMoves
<1>2. CASE HubHears
  <2>1. CASE NotifySsdp
    BY <2>1 DEF NotifySsdp, Commit
  <2>2. CASE Refresh
    BY <2>2 DEF Refresh
  <2>3. CASE SearchReplied
    BY <2>3 DEF SearchReplied, Commit
  <2>4. CASE SearchSilent
    BY <2>4 DEF SearchSilent
  <2>5. CASE SearchProbed
    BY <2>5 DEF SearchProbed, CommitAnswer, Commit
  <2>. QED
    BY <1>2, <2>1, <2>2, <2>3, <2>4, <2>5 DEF HubHears
<1>3. CASE SocketMoves
  <2>1. CASE WarmConnects
    BY <2>1 DEF WarmConnects, Connect
  <2>2. CASE WsDrops
    BY <2>2 DEF WsDrops
  <2>. QED
    BY <1>3, <2>1, <2>2 DEF SocketMoves
<1>4. CASE FlowMoves
  <2>1. CASE FlowStarts
    BY <2>1 DEF FlowStarts, Decide, Hearsay
  <2>2. CASE FlowRefreshed
    BY <2>2 DEF FlowRefreshed, Decide, RefreshAnswered, KeepBelief, CommitAnswer, Commit
  <2>3. CASE TimedOut
    BY <2>3 DEF TimedOut, PowerOnFinally, StopWorkers
  <2>. QED
    BY <1>4, <2>1, <2>2, <2>3 DEF FlowMoves
<1>5. CASE PowerOnMoves
  <2>1. CASE PowerOn
    BY <2>1 DEF PowerOn
  <2>2. CASE WolSent
    BY <2>2 DEF WolSent, TvBecomes
  <2>3. CASE KeyWorker
    BY <2>3 DEF KeyWorker, Connect, KeySent, TvBecomes
  <2>4. CASE CheckAsked
    BY <2>4 DEF CheckAsked
  <2>5. CASE CheckProbed
    BY <2>5 DEF CheckProbed, KeepBelief, CommitAnswer, Commit
  <2>6. CASE PowerOnSeen
    BY <2>6 DEF PowerOnSeen, PowerOnFinally, StopWorkers
  <2>7. CASE PowerOnConnects
    BY <2>7 DEF PowerOnConnects, Connect
  <2>. QED
    BY <1>5, <2>1, <2>2, <2>3, <2>4, <2>5, <2>6, <2>7 DEF PowerOnMoves
<1>6. CASE PowerOffMoves
  <2>1. CASE PowerOff
    BY <2>1 DEF PowerOff
  <2>2. CASE Rechecked
    BY <2>2 DEF Rechecked, RefreshAnswered, KeepBelief, CommitAnswer, Commit, Toggled, TvBecomes
  <2>3. CASE Dialled
    BY <2>3 DEF Dialled, Connect, Toggled, TvBecomes
  <2>4. CASE OffSeen
    BY <2>4 DEF OffSeen
  <2>5. CASE OffProbed
    BY <2>5 DEF OffProbed, RefreshAnswered, KeepBelief, CommitAnswer, Commit
  <2>. QED
    BY <1>6, <2>1, <2>2, <2>3, <2>4, <2>5 DEF PowerOffMoves
<1>7. CASE UNCHANGED vars
  BY <1>7 DEF vars
<1>. QED
  BY <1>1, <1>2, <1>3, <1>4, <1>5, <1>6, <1>7 DEF Next

----------------------------------------------------------------------------
\* What a step that reports success goes by.

\* Nothing the hub can still hear during a flow is older than the flow knows.
Evidence ==
    /\ TvNow \in since
    /\ \A i \in DOMAIN air : Announced(air[i]) \in since
    /\ \A a \in Askers : probe[a] \in Answers => Answered(probe[a]) \in since \/ (probe[a] = "down" /\ "unanswered" \in since)
    /\ presence # "on" => "off" \in since \/ "unanswered" \in since
    /\ presence = "on" /\ goal = "on" /\ step \in {"planned", "waiting"} => "on" \in since

StepAims ==
    /\ step \in {"waiting", "connect"} => goal = "on"
    /\ step \in {"recheck", "dial", "offwait"} => goal = "off"

EvidenceInv == OkIsTrue /\ StepAims /\ (step # "idle" => Evidence)

LEMMA EvidenceStep ==
    ASSUME TypeOK, EvidenceInv, [Next]_vars
    PROVE  EvidenceInv'
<1> USE DEF TypeOK, PlacesTyped, AnswersTyped, AirTyped, EvidenceInv, Evidence, OkIsTrue, StepAims
<1>1. CASE TvMoves
  <2>1. ASSUME NEW a \in Askers, ProbeAnswered(a) \/ ProbeFails(a) PROVE EvidenceInv'
    <3>1. CASE ProbeAnswered(a)
      <4>1. /\ probe' = [probe EXCEPT ![a] = IF tv = "on" THEN "up" ELSE "down"]
            /\ UNCHANGED <<tv, air, presence, step, goal, outcome, since>>
        BY <3>1 DEF ProbeAnswered
      <4>2. OkIsTrue' /\ StepAims'
        BY <4>1
      <4>3. ASSUME Evidence PROVE Evidence'
        <5>1. TvNow' \in since' /\ (\A i \in DOMAIN air' : Announced(air'[i]) \in since')
          BY <4>1, <4>3
        <5>2. \A b \in Askers : probe'[b] \in Answers =>
              Answered(probe'[b]) \in since' \/ (probe'[b] = "down" /\ "unanswered" \in since')
          <6>1. Answered(IF tv = "on" THEN "up" ELSE "down") = TvNow
            OBVIOUS
          <6>. QED
            BY <4>1, <4>3, <6>1
        <5>3. /\ presence' # "on" => "off" \in since' \/ "unanswered" \in since'
              /\ presence' = "on" /\ goal' = "on" /\ step' \in {"planned", "waiting"} => "on" \in since'
          BY <4>1, <4>3
        <5> HIDE DEF TypeOK, PlacesTyped, AnswersTyped, AirTyped, TvNow, Announced, Answered, IsOn
        <5>. QED
          BY <5>1, <5>2, <5>3
      <4>. QED
        BY <4>1, <4>2, <4>3
    <3>2. CASE ProbeFails(a)
      <4>1. /\ probe' = [probe EXCEPT ![a] = "down"] /\ since' = since \cup {"unanswered"}
            /\ UNCHANGED <<tv, air, presence, step, goal, outcome>>
        BY <3>2 DEF ProbeFails
      <4>2. OkIsTrue' /\ StepAims'
        BY <4>1
      <4>3. ASSUME Evidence PROVE Evidence'
        BY <4>1, <4>3
      <4>. QED
        BY <4>1, <4>2, <4>3
    <3>. QED
      BY <2>1, <3>1, <3>2
  <2>2. CASE Switched
    BY <2>2 DEF Switched, TvBecomes
  <2>3. CASE LingerEnds
    BY <2>3 DEF LingerEnds
  <2>4. CASE NoteLost
    <3>1. PICK i \in DOMAIN air : air' = RemoveAt(air, i)
      BY <2>4 DEF NoteLost
    <3>2. ASSUME NEW j \in DOMAIN air'
          PROVE  \E k \in DOMAIN air : air'[j] = air[k]
      BY <3>1, <3>2, RemovedFrom
    <3>. QED
      BY <2>4, <3>2 DEF NoteLost
  <2>. QED
    BY <1>1, <2>1, <2>2, <2>3, <2>4 DEF TvMoves
<1>2. CASE HubHears
  <2>1. CASE NotifySsdp
    BY <2>1 DEF NotifySsdp, Commit
  <2>2. CASE Refresh
    BY <2>2 DEF Refresh
  <2>3. CASE SearchReplied
    BY <2>3 DEF SearchReplied, Commit
  <2>4. CASE SearchSilent
    BY <2>4 DEF SearchSilent
  <2>5. CASE SearchProbed
    BY <2>5 DEF SearchProbed, CommitAnswer, Commit
  <2>. QED
    BY <1>2, <2>1, <2>2, <2>3, <2>4, <2>5 DEF HubHears
<1>3. CASE SocketMoves
  <2>1. CASE WarmConnects
    BY <2>1 DEF WarmConnects, Connect
  <2>2. CASE WsDrops
    BY <2>2 DEF WsDrops
  <2>. QED
    BY <1>3, <2>1, <2>2 DEF SocketMoves
<1>4. CASE FlowMoves
  <2>1. CASE FlowStarts
    <3>1. PICK want \in {"on", "off"} :
            /\ goal' = want
            /\ since' = {TvNow} \cup Hearsay \cup (IF presence = "on" THEN {} ELSE {"off"})
            /\ IF presence = "on"
                 THEN step' = "refresh" /\ outcome' = "none" /\ probe' = [probe EXCEPT !["flow"] = "asked"]
                 ELSE Decide(want, presence) /\ UNCHANGED probe
      BY <2>1 DEF FlowStarts
    <3>2. UNCHANGED <<tv, air, presence>>
      BY <2>1 DEF FlowStarts
    <3>3. \A i \in DOMAIN air : Announced(air[i]) \in since'
      BY <3>1 DEF Hearsay
    <3>4. \A a \in Askers : probe[a] \in Answers => Answered(probe[a]) \in since'
      BY <3>1 DEF Hearsay
    <3>5. Evidence'
      <4>1. \A a \in Askers : probe'[a] \in Answers => Answered(probe'[a]) \in since'
        BY <3>1, <3>4
      <4>2. ~(presence' = "on" /\ goal' = "on" /\ step' \in {"planned", "waiting"})
        BY <3>1, <3>2 DEF Decide
      <4>3. \A i \in DOMAIN air' : Announced(air'[i]) \in since'
        BY <3>2, <3>3
      <4>4. TvNow' \in since' /\ (presence' # "on" => "off" \in since')
        BY <3>1, <3>2
      <4> HIDE DEF TypeOK, PlacesTyped, AnswersTyped, AirTyped, TvNow, Announced, Answered, IsOn
      <4>. QED
        BY <4>1, <4>2, <4>3, <4>4
    <3>6. OkIsTrue' /\ StepAims'
      BY <3>1, <3>2 DEF Decide
    <3>. QED
      BY <3>5, <3>6
  <2>2. CASE FlowRefreshed
    BY <2>2 DEF FlowRefreshed, Decide, RefreshAnswered, KeepBelief, CommitAnswer, Commit
  <2>3. CASE TimedOut
    BY <2>3 DEF TimedOut, PowerOnFinally, StopWorkers
  <2>. QED
    BY <1>4, <2>1, <2>2, <2>3 DEF FlowMoves
<1>5. CASE PowerOnMoves
  <2>1. CASE PowerOn
    BY <2>1 DEF PowerOn
  <2>2. CASE WolSent
    BY <2>2 DEF WolSent, TvBecomes
  <2>3. CASE KeyWorker
    BY <2>3 DEF KeyWorker, Connect, KeySent, TvBecomes
  <2>4. CASE CheckAsked
    BY <2>4 DEF CheckAsked
  <2>5. CASE CheckProbed
    BY <2>5 DEF CheckProbed, KeepBelief, CommitAnswer, Commit
  <2>6. CASE PowerOnSeen
    BY <2>6 DEF PowerOnSeen, PowerOnFinally, StopWorkers
  <2>7. CASE PowerOnConnects
    BY <2>7 DEF PowerOnConnects, Connect
  <2>. QED
    BY <1>5, <2>1, <2>2, <2>3, <2>4, <2>5, <2>6, <2>7 DEF PowerOnMoves
<1>6. CASE PowerOffMoves
  <2>1. CASE PowerOff
    BY <2>1 DEF PowerOff
  <2>2. CASE Rechecked
    BY <2>2 DEF Rechecked, RefreshAnswered, KeepBelief, CommitAnswer, Commit, Toggled, TvBecomes
  <2>3. CASE Dialled
    BY <2>3 DEF Dialled, Connect, Toggled, TvBecomes
  <2>4. CASE OffSeen
    BY <2>4 DEF OffSeen
  <2>5. CASE OffProbed
    BY <2>5 DEF OffProbed, RefreshAnswered, KeepBelief, CommitAnswer, Commit
  <2>. QED
    BY <1>6, <2>1, <2>2, <2>3, <2>4, <2>5 DEF PowerOffMoves
<1>7. CASE UNCHANGED vars
  BY <1>7 DEF vars
<1>. QED
  BY <1>1, <1>2, <1>3, <1>4, <1>5, <1>6, <1>7 DEF Next

----------------------------------------------------------------------------
IInv == TypeOK /\ TruthInv /\ ToggleInv /\ PowerOnIsOver /\ EvidenceInv

LEMMA Inductive == Spec => []IInv
<1>1. Init => IInv
  <2>. SUFFICES ASSUME Init PROVE IInv
    OBVIOUS
  <2>1. TypeOK
    BY TypeInit
  <2>2. TruthInv
    BY DEF Init, TruthInv, NewsAgrees, AnswersAgree, PresenceAgrees
  <2>3. ToggleInv
    BY DEF Init, ToggleInv, ToggleIsChecked
  <2>4. PowerOnIsOver
    BY DEF Init, PowerOnIsOver, Askers
  <2>5. EvidenceInv
    BY DEF Init, EvidenceInv, StepAims, OkIsTrue
  <2>. QED
    BY <2>1, <2>2, <2>3, <2>4, <2>5 DEF IInv
<1>2. IInv /\ [Next]_vars => IInv'
  BY TypeStep, TruthStep, ToggleStep, PowerOnStep, EvidenceStep DEF IInv
<1>. QED
  BY <1>1, <1>2, PTL DEF Spec

\* Once every announcement has arrived, the cached presence is the TV's state,
\* unless one was lost, or the answer of an older or a failed probe was put over it.
THEOREM BeliefIsTruth == Spec => []PresenceAgrees
BY Inductive, PTL DEF IInv, TruthInv

\* power_off sends KEY_POWER only if the TV was on since power_off began.
THEOREM NeverTogglesUnchecked == Spec => []ToggleIsChecked
BY Inductive, PTL DEF IInv, ToggleInv

\* A power_on that is over, however it ended, has left no worker and no flag.
THEOREM PowerOnLeavesNothing == Spec => []PowerOnIsOver
BY Inductive, PTL DEF IInv

\* A TV step that reports success tells of the TV as it was, or was said to be, or
\* as a probe that failed made it look.
THEOREM SuccessIsTrue == Spec => []OkIsTrue
BY Inductive, PTL DEF IInv, EvidenceInv

=============================================================================
