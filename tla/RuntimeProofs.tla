--------------------------- MODULE RuntimeProofs ---------------------------
(***************************************************************************)
(* Proofs about Runtime, for any set of callers, any keymap and any bound  *)
(* on the saves waiting.                                                   *)
(***************************************************************************)
EXTENDS Runtime, SequenceTheorems, TLAPS

USE DEF Modes, Fallback, Nobody, Free, Flows, UnknownFlow, Writers, LoopIsFree

\* Who holds the lock is the one caller with a sequence task.
LockHeldBySequence ==
    /\ (flowRunning <=> lock # Free)
    /\ \A c \in Callers :
        /\ lock = c <=> caller[c] # "idle"
        /\ lock = c <=> seq[c].at # "none"
        /\ seq[c].at = "none" => seq[c] = NoSeq
        /\ seq[c].at # "none" => seq[c].flow # "none"
        /\ seq[c].at = "ok" => seq[c].flow # UnknownFlow

\* Nothing of the engine outlives the process.
DownIsClean ==
    power = "down" =>
        /\ lock = Free
        /\ ~acted
        /\ saves = << >>
        /\ inTmp = {}
        /\ ~rememberFailed
        /\ mode = Fallback
        /\ lastFlow = Nobody

\* Only at a stop do the loop and the thread meet in the temporary file, and
\* what the thread writes is still in its queue.
TmpInHand ==
    /\ ~LoopIsFree \/ tmp # "alone" => power = "stopping"
    /\ "thread" \in inTmp => saves # << >>
    /\ inTmp = {} => tmp = "alone"
    /\ tmp = "alone" => inTmp # Writers

\* Until somebody acts, the last trigger is the start.
ActedIsTriggered ==
    /\ lock # Free => acted
    /\ power # "down" /\ ~acted => trigger = "startup"

\* The last save waiting is what the engine holds now; with none waiting and
\* none lost, the file is.
SavesFollowEngine ==
    power = "up" =>
        /\ saves # << >> => /\ saves[Len(saves)] = <<mode, lastFlow>>
                            /\ mode \in Available
        /\ RestartKeepsMode

\* The file's share of the types.
FileOK ==
    /\ saves \in Seq(Pairs)
    /\ inTmp \subseteq Writers
    /\ tmp \in {"alone", "shared", "taken"}
    /\ disk \in Pairs \cup {NoFile}
    /\ rememberFailed \in BOOLEAN

IInv ==
    /\ TypeOK
    /\ LockHeldBySequence
    /\ DownIsClean
    /\ ActedIsTriggered
    /\ TmpInHand
    /\ SavesFollowEngine

----------------------------------------------------------------------------
\* What TargetMode and LoadRemembered return.

LEMMA TargetModeType ==
    /\ DOMAIN TargetMode = {"power_off", "watch", "listen", "watch_signal", "listen_signal"}
    /\ \A f \in Flows : TargetMode[f] \in Modes
BY DEF TargetMode

LEMMA LoadedPair ==
    ASSUME NEW d \in Pairs \cup {NoFile}
    PROVE  /\ LoadRemembered(d)[1] \in Modes
           /\ LoadRemembered(d)[2] \in Modes \cup {Nobody}
           /\ d[1] \in Available => LoadRemembered(d)[1] = d[1]
BY KeymapAssumption DEF LoadRemembered, Pairs, NoFile

----------------------------------------------------------------------------
LEMMA InitIInv == Init => IInv
<1>. SUFFICES ASSUME Init PROVE IInv
  OBVIOUS
<1>1. TypeOK
  <2>1. seq \in [Callers -> SeqStates]
    BY DEF Init, NoSeq, SeqStates
  <2>2. caller \in [Callers -> {"idle", "shield", "again"}]
    BY DEF Init
  <2>3. saves \in Seq(Pairs)
    BY DEF Init
  <2>. QED
    BY <2>1, <2>2, <2>3 DEF Init, TypeOK
<1>2. LockHeldBySequence
  BY CallersAssumption DEF Init, LockHeldBySequence, NoSeq
<1>3. DownIsClean /\ ActedIsTriggered
  BY DEF Init, DownIsClean, ActedIsTriggered
<1>4. TmpInHand /\ SavesFollowEngine
  BY DEF Init, TmpInHand, SavesFollowEngine
<1>. QED
  BY <1>1, <1>2, <1>3, <1>4 DEF IInv
----------------------------------------------------------------------------
\* One lemma per action: it preserves the invariant.

\* What opening the temporary file and being done with it do to it.
LEMMA OpensDoes ==
    ASSUME FileOK, NEW writer \in Writers, Opens(writer)
    PROVE  /\ inTmp' = inTmp \cup {writer} /\ inTmp' \subseteq Writers
           /\ tmp' \in {"alone", "shared"}
           /\ (tmp' = "alone") = (inTmp = {})
BY DEF Opens, FileOK

LEMMA MixedIsPairs ==
    ASSUME TypeOK, TmpInHand
    PROVE  Mixed \subseteq Pairs \cup {NoFile}
<1>1. <<mode, lastFlow>> \in Pairs
  BY DEF TypeOK, Pairs
<1>2. saves # << >> => Head(saves) \in Pairs
  BY DEF TypeOK
<1>. QED
  BY <1>1, <1>2 DEF Mixed, TmpInHand

LEMMA LandsDoes ==
    ASSUME TypeOK, TmpInHand, NEW writer \in Writers, NEW text \in Pairs, Lands(writer, text)
    PROVE  /\ inTmp' = inTmp \ {writer} /\ inTmp' \subseteq Writers
           /\ tmp' \in {"alone", "shared", "taken"}
           /\ inTmp' = {} => tmp' = "alone"
           /\ tmp' # "alone" => tmp # "alone"
           /\ disk' \in Pairs \cup {NoFile}
           /\ rememberFailed' \in BOOLEAN
           /\ tmp = "alone" /\ ~rememberFailed' => disk' = text
<1>1. Mixed \subseteq Pairs \cup {NoFile} /\ disk \in Pairs \cup {NoFile}
  BY MixedIsPairs DEF TypeOK
<1>2. Spoils \subseteq Pairs \cup {NoFile}
  BY <1>1 DEF Spoils
<1>3. disk' \in Pairs \cup {NoFile} /\ rememberFailed' \in BOOLEAN
  BY <1>1, <1>2 DEF Lands
<1>4. inTmp' = inTmp \ {writer} /\ inTmp' \subseteq Writers
  BY DEF Lands, TypeOK
<1>5. tmp = "alone" => inTmp' = {}
  BY <1>4 DEF Lands, TypeOK, TmpInHand
<1>6. /\ tmp' \in {"alone", "shared", "taken"}
      /\ inTmp' = {} => tmp' = "alone"
      /\ tmp' # "alone" => tmp # "alone"
      /\ tmp = "alone" /\ ~rememberFailed' => disk' = text
  BY <1>5 DEF Lands, TypeOK
<1>. QED
  BY <1>3, <1>4, <1>5, <1>6

\* What saving a pair does to the queue and the file.
LEMMA RememberSaves ==
    ASSUME FileOK, TmpInHand, NEW m \in Modes, NEW l \in Modes \cup {Nobody}, Remember(m, l)
    PROVE  /\ FileOK'
           /\ power' = power => TmpInHand'
           /\ power = "up" => saves' # << >> /\ saves'[Len(saves')] = <<m, l>>
           /\ power # "down"
<1>1. <<m, l>> \in Pairs
  BY DEF Pairs
<1>2. CASE power = "up" /\ saves' = Append(saves, <<m, l>>) /\ UNCHANGED <<inTmp, tmp, disk, rememberFailed>>
  <2>1. saves' \in Seq(Pairs) /\ saves' # << >> /\ saves'[Len(saves')] = <<m, l>>
    BY <1>1, <1>2 DEF FileOK
  <2>. QED
    BY <1>2, <2>1 DEF FileOK, TmpInHand
<1>3. CASE power = "stopping" /\ Opens("loop") /\ UNCHANGED <<saves, disk, rememberFailed>>
  BY <1>3, OpensDoes DEF FileOK, TmpInHand
<1>. QED
  BY <1>2, <1>3 DEF Remember

LEMMA StartInv == IInv /\ Start => IInv'
<1>. SUFFICES ASSUME IInv, Start PROVE IInv'
  OBVIOUS
<1>. USE DEF IInv
<1>0. /\ LoadRemembered(disk)[1] \in Modes
      /\ LoadRemembered(disk)[2] \in Modes \cup {Nobody}
  BY LoadedPair DEF TypeOK
<1>1. TypeOK'
  BY <1>0 DEF Start, ApplyMode, TypeOK, file
<1>2. LockHeldBySequence'
  BY DEF Start, LockHeldBySequence
<1>3. DownIsClean' /\ ActedIsTriggered' /\ TmpInHand'
  BY DEF Start, ApplyMode, DownIsClean, ActedIsTriggered, TmpInHand, file
<1>4. SavesFollowEngine'
  <2>1. saves' = << >> /\ disk' = disk /\ mode' = LoadRemembered(disk)[1]
    BY DEF Start, ApplyMode, DownIsClean, file
  <2>2. LoadRemembered(disk)' = LoadRemembered(disk)
    BY <2>1 DEF LoadRemembered
  <2>. QED
    BY <2>1, <2>2 DEF SavesFollowEngine, RestartKeepsMode
<1>. QED
  BY <1>1, <1>2, <1>3, <1>4

LEMMA DevicesSettledInv == IInv /\ DevicesSettled => IInv'
<1>. SUFFICES ASSUME IInv, DevicesSettled PROVE IInv'
  OBVIOUS
<1>. USE DEF IInv, DevicesSettled, engine, file
<1>1. TypeOK'
  BY DEF TypeOK
<1>2. LockHeldBySequence' /\ DownIsClean' /\ ActedIsTriggered' /\ TmpInHand'
  BY DEF LockHeldBySequence, DownIsClean, ActedIsTriggered, TmpInHand
<1>3. SavesFollowEngine'
  BY DEF SavesFollowEngine, RestartKeepsMode, LoadRemembered
<1>. QED
  BY <1>1, <1>2, <1>3

\* A mode taken up and saved in one stretch of code.
LEMMA AdoptedMode ==
    ASSUME IInv, NEW m \in Available, NEW l \in Modes \cup {Nobody},
           ApplyMode(m), lastFlow' = l, Remember(m, l), UNCHANGED power
    PROVE  /\ DownIsClean'
           /\ TmpInHand'
           /\ SavesFollowEngine'
           /\ mode' \in Modes /\ bindings' \in Modes
           /\ FileOK'
<1>1. m \in Modes
  BY KeymapAssumption
<1>2. FileOK /\ TmpInHand
  BY DEF IInv, TypeOK, FileOK
<1>3. /\ FileOK' /\ TmpInHand'
      /\ power = "up" => saves' # << >> /\ saves'[Len(saves')] = <<m, l>>
      /\ power # "down"
  BY <1>1, <1>2, RememberSaves
<1>4. mode' = m /\ bindings' = m
  BY DEF ApplyMode
<1>5. DownIsClean'
  BY <1>3 DEF DownIsClean
<1>6. SavesFollowEngine'
  BY <1>3, <1>4 DEF SavesFollowEngine, RestartKeepsMode
<1>. QED
  BY <1>1, <1>3, <1>4, <1>5, <1>6

LEMMA CorrectStartupModeInv == IInv /\ CorrectStartupMode => IInv'
<1>. SUFFICES ASSUME IInv, CorrectStartupMode PROVE IInv'
  OBVIOUS
<1>0. UNCHANGED <<power, lock, caller, seq, acted, flowRunning, trigger>> /\ startup' = "done"
  BY DEF CorrectStartupMode, engine
<1>1. LockHeldBySequence' /\ ActedIsTriggered'
  BY <1>0 DEF IInv, LockHeldBySequence, ActedIsTriggered
<1>2. CASE UNCHANGED <<engine, file>>
  <2>1. TypeOK'
    BY <1>0, <1>2 DEF IInv, TypeOK, engine, file
  <2>2. DownIsClean' /\ TmpInHand'
    BY <1>0, <1>2 DEF IInv, DownIsClean, TmpInHand, engine, file
  <2>3. SavesFollowEngine'
    BY <1>0, <1>2 DEF IInv, SavesFollowEngine, RestartKeepsMode, LoadRemembered, engine, file
  <2>. QED
    BY <1>1, <2>1, <2>2, <2>3 DEF IInv
<1>3. CASE \E m \in Available : ApplyMode(m) /\ lastFlow' = m /\ Remember(m, m)
  <2>. PICK m \in Available : ApplyMode(m) /\ lastFlow' = m /\ Remember(m, m)
    BY <1>3
  <2>1. m \in Modes
    BY KeymapAssumption
  <2>2. /\ DownIsClean'
        /\ TmpInHand'
        /\ SavesFollowEngine'
        /\ mode' \in Modes /\ bindings' \in Modes
        /\ FileOK'
    BY <1>0, <2>1, AdoptedMode
  <2>3. TypeOK'
    BY <1>0, <2>1, <2>2 DEF IInv, TypeOK, FileOK
  <2>. QED
    BY <1>1, <2>2, <2>3 DEF IInv
<1>. QED
  BY <1>2, <1>3 DEF CorrectStartupMode

LEMMA StutterInv == IInv /\ UNCHANGED vars => IInv'
BY DEF IInv, TypeOK, LockHeldBySequence, DownIsClean, ActedIsTriggered, TmpInHand,
       SavesFollowEngine, RestartKeepsMode, LoadRemembered, vars, engine, tasks, file

LEMMA SetModeInv == ASSUME NEW m \in Modes PROVE IInv /\ SetMode(m) => IInv'
<1>. SUFFICES ASSUME IInv, SetMode(m) PROVE IInv'
  OBVIOUS
<1>1. CASE TurnedAway
  BY <1>1, StutterInv DEF TurnedAway
<1>2. CASE /\ m \in Available
           /\ ApplyMode(m)
           /\ trigger' = "request"
           /\ acted' = TRUE
           /\ Remember(m, lastFlow)
           /\ UNCHANGED <<power, lastFlow, flowRunning, tasks>>
  <2>1. /\ DownIsClean'
        /\ TmpInHand'
        /\ SavesFollowEngine'
        /\ mode' \in Modes /\ bindings' \in Modes
        /\ FileOK'
    BY <1>2, AdoptedMode DEF IInv, TypeOK
  <2>2. TypeOK'
    BY <1>2, <2>1 DEF IInv, TypeOK, FileOK, tasks
  <2>3. LockHeldBySequence' /\ ActedIsTriggered'
    BY <1>2 DEF IInv, LockHeldBySequence, ActedIsTriggered, tasks
  <2>. QED
    BY <2>1, <2>2, <2>3 DEF IInv
<1>. QED
  BY <1>1, <1>2 DEF SetMode

LEMMA RunSequenceInv ==
    ASSUME NEW c \in Callers, NEW name \in Flows \cup {UnknownFlow},
           IInv, CanCall(c), RunSequence(c, name)
    PROVE  IInv'
<1>1. CASE TurnedAway
  BY <1>1, StutterInv DEF TurnedAway
<1>2. CASE /\ ~Locked
           /\ lock' = c
           /\ flowRunning' = TRUE
           /\ acted' = TRUE
           /\ trigger' = "request"
           /\ seq' = [seq EXCEPT ![c] = [flow |-> name, at |-> "running"]]
           /\ caller' = [caller EXCEPT ![c] = "shield"]
           /\ UNCHANGED <<power, mode, bindings, lastFlow, startup, file>>
  <2>0. name # "none"
    BY TargetModeType
  <2>1. TypeOK'
    <3>1. seq' \in [Callers -> SeqStates]
      BY <1>2 DEF IInv, TypeOK, SeqStates
    <3>2. caller' \in [Callers -> {"idle", "shield", "again"}]
      BY <1>2 DEF IInv, TypeOK
    <3>. QED
      BY <1>2, <3>1, <3>2 DEF IInv, TypeOK, file
  <2>2. LockHeldBySequence'
    BY <1>2, <2>0, CallersAssumption DEF IInv, TypeOK, LockHeldBySequence, Locked
  <2>3. DownIsClean' /\ ActedIsTriggered' /\ TmpInHand'
    BY <1>2 DEF IInv, DownIsClean, ActedIsTriggered, TmpInHand, CanCall, file
  <2>4. SavesFollowEngine'
    BY <1>2 DEF IInv, SavesFollowEngine, RestartKeepsMode, LoadRemembered, file
  <2>. QED
    BY <2>1, <2>2, <2>3, <2>4 DEF IInv
<1>. QED
  BY <1>1, <1>2 DEF RunSequence

LEMMA RunFlowInv ==
    ASSUME NEW c \in Callers, NEW name \in Flows \cup {UnknownFlow}
    PROVE  IInv /\ RunFlow(c, name) => IInv'
BY RunSequenceInv DEF RunFlow

LEMMA OnDeviceStateChangeInv ==
    ASSUME NEW c \in Callers, NEW signal \in Signals
    PROVE  IInv /\ OnDeviceStateChange(c, signal) => IInv'
<1>1. SignalFlow[signal] \in Flows
  BY TargetModeType DEF Signals, SignalFlow
<1>2. IInv /\ TurnedAway => IInv'
  BY StutterInv DEF TurnedAway
<1>. QED
  BY <1>1, <1>2, RunSequenceInv DEF OnDeviceStateChange

LEMMA SequenceEndsInv ==
    ASSUME NEW c \in Callers, NEW how \in {"ok", "failed"}
    PROVE  IInv /\ SequenceEnds(c, how) => IInv'
<1>. SUFFICES ASSUME IInv, SequenceEnds(c, how) PROVE IInv'
  OBVIOUS
<1>. USE DEF SequenceEnds
<1>1. /\ \A d \in Callers : seq'[d].flow = seq[d].flow
      /\ \A d \in Callers \ {c} : seq'[d] = seq[d]
      /\ seq'[c].at = how
      /\ seq' \in [Callers -> SeqStates]
  <2>. seq \in [Callers -> SeqStates]
    BY DEF IInv, TypeOK
  <2>1. [seq[c] EXCEPT !.at = how] = [flow |-> seq[c].flow, at |-> how]
    BY DEF SeqStates
  <2>. QED
    BY <2>1 DEF SeqStates
<1>2. TypeOK'
  BY <1>1 DEF IInv, TypeOK, engine, file
<1>3. LockHeldBySequence'
  <2>1. UNCHANGED <<lock, flowRunning, caller>> /\ seq[c].at = "running"
    BY DEF engine
  <2>2. seq[c].flow = UnknownFlow => how = "failed"
    OBVIOUS
  <2>. QED
    BY <1>1, <2>1, <2>2 DEF IInv, LockHeldBySequence
<1>4. DownIsClean' /\ ActedIsTriggered' /\ TmpInHand'
  BY DEF IInv, DownIsClean, ActedIsTriggered, TmpInHand, engine, file
<1>5. SavesFollowEngine'
  BY DEF IInv, SavesFollowEngine, RestartKeepsMode, LoadRemembered, engine, file
<1>. QED
  BY <1>2, <1>3, <1>4, <1>5 DEF IInv

LEMMA CallerCancelledInv ==
    ASSUME NEW c \in Callers PROVE IInv /\ CallerCancelled(c) => IInv'
<1>. SUFFICES ASSUME IInv, CallerCancelled(c) PROVE IInv'
  OBVIOUS
<1>. USE DEF CallerCancelled
<1>1. TypeOK'
  BY DEF IInv, TypeOK, engine, file
<1>2. LockHeldBySequence'
  BY DEF IInv, TypeOK, LockHeldBySequence, engine
<1>3. DownIsClean' /\ ActedIsTriggered' /\ TmpInHand'
  BY DEF IInv, DownIsClean, ActedIsTriggered, TmpInHand, engine, file
<1>4. SavesFollowEngine'
  BY DEF IInv, SavesFollowEngine, RestartKeepsMode, LoadRemembered, engine, file
<1>. QED
  BY <1>1, <1>2, <1>3, <1>4 DEF IInv

\* The lock goes back to nobody and the caller's sequence task is gone.
LEMMA ReleasedInv ==
    ASSUME NEW c \in Callers, IInv, caller[c] # "idle", Released(c),
           UNCHANGED <<power, trigger, acted>>
    PROVE  LockHeldBySequence' /\ ActedIsTriggered' /\ seq' \in [Callers -> SeqStates]
<1>1. \A d \in Callers \ {c} : lock # d
  BY DEF IInv, LockHeldBySequence
<1>2. seq' \in [Callers -> SeqStates]
  BY DEF IInv, TypeOK, Released, NoSeq, SeqStates
<1>3. LockHeldBySequence'
  BY <1>1, CallersAssumption DEF IInv, TypeOK, LockHeldBySequence, Released, NoSeq
<1>4. ActedIsTriggered'
  BY DEF IInv, ActedIsTriggered, Released
<1>. QED
  BY <1>2, <1>3, <1>4

LEMMA FlowReturnsInv == ASSUME NEW c \in Callers PROVE IInv /\ FlowReturns(c) => IInv'
<1>. SUFFICES ASSUME IInv, FlowReturns(c) PROVE IInv'
  OBVIOUS
<1>1. LockHeldBySequence' /\ ActedIsTriggered' /\ seq' \in [Callers -> SeqStates]
  BY ReleasedInv DEF FlowReturns
<1>2. /\ caller' \in [Callers -> {"idle", "shield", "again"}]
      /\ lock' = Free /\ flowRunning' = FALSE
      /\ UNCHANGED <<power, trigger, acted, startup>>
  BY DEF FlowReturns, Released, IInv, TypeOK
<1>3. CASE FlowFailed(c)
  <2>1. UNCHANGED <<mode, bindings, lastFlow, saves, inTmp, tmp, disk, rememberFailed>>
    BY <1>3 DEF FlowFailed, file
  <2>2. TypeOK'
    <3>1. /\ mode' \in Modes /\ bindings' \in Modes \cup {Nobody}
          /\ lastFlow' \in Modes \cup {Nobody}
          /\ FileOK'
      BY <2>1 DEF IInv, TypeOK, FileOK
    <3>. QED
      BY <1>1, <1>2, <3>1 DEF IInv, TypeOK, FileOK
  <2>3. DownIsClean' /\ TmpInHand'
    BY <1>2, <2>1 DEF IInv, DownIsClean, TmpInHand, ActedIsTriggered
  <2>4. SavesFollowEngine'
    BY <1>2, <2>1 DEF IInv, SavesFollowEngine, RestartKeepsMode, LoadRemembered
  <2>. QED
    BY <1>1, <2>2, <2>3, <2>4 DEF IInv
<1>4. CASE seq[c].at = "ok" /\ TargetMode[seq[c].flow] \in Available /\ FlowCommitted(c)
  <2>. DEFINE target == TargetMode[seq[c].flow]
  <2>1. target \in Available /\ target \in Modes
    BY <1>4, KeymapAssumption
  <2>2. ApplyMode(target) /\ lastFlow' = target /\ Remember(target, target)
    BY <1>4 DEF FlowCommitted, LastFlowAfter
  <2>. HIDE DEF target
  <2>3. /\ DownIsClean'
        /\ TmpInHand'
        /\ SavesFollowEngine'
        /\ mode' \in Modes /\ bindings' \in Modes
        /\ FileOK'
    BY <1>2, <2>1, <2>2, AdoptedMode
  <2>4. TypeOK'
    BY <1>1, <1>2, <2>1, <2>2, <2>3 DEF IInv, TypeOK, FileOK
  <2>. QED
    BY <1>1, <2>3, <2>4 DEF IInv
<1>. QED
  BY <1>3, <1>4 DEF FlowReturns

\* The last of a sequence stays last while the front is taken away.
LEMMA LastOfTail ==
    ASSUME NEW S, NEW s \in Seq(S), s # << >>
    PROVE  IF Tail(s) = << >> THEN s[Len(s)] = Head(s)
           ELSE Tail(s)[Len(Tail(s))] = s[Len(s)]
<1>1. Len(s) \in Nat \ {0} /\ Head(s) = s[1]
  BY EmptySeq
<1>2. Len(Tail(s)) = Len(s) - 1
  BY HeadTailProperties
<1>3. CASE Tail(s) = << >>
  <2>1. Len(s) - 1 = 0
    BY <1>2, <1>3, EmptySeq
  <2>. QED
    BY <1>1, <1>3, <2>1
<1>4. CASE Tail(s) # << >>
  <2>1. Len(s) - 1 # 0
    <3>1. Tail(s) \in Seq(S)
      BY HeadTailProperties
    <3>2. Len(Tail(s)) \in Nat \ {0}
      BY <1>4, <3>1, EmptySeq
    <3>. QED
      BY <1>2, <3>2
  <2>2. Len(s) - 1 \in 1..Len(Tail(s)) /\ (Len(s) - 1) + 1 = Len(s)
    BY <1>1, <1>2, <2>1
  <2>3. Tail(s)[Len(s) - 1] = s[Len(s)]
    BY <2>2, HeadTailProperties
  <2>. QED
    BY <1>2, <1>4, <2>3
<1>. QED
  BY <1>3, <1>4

LEMMA WriteBeginsInv == IInv /\ WriteBegins => IInv'
<1>. SUFFICES ASSUME IInv, WriteBegins PROVE IInv'
  OBVIOUS
<1>. USE DEF WriteBegins, engine, tasks
<1>1. FileOK
  BY DEF IInv, TypeOK, FileOK
<1>2. /\ inTmp' = inTmp \cup {"thread"} /\ inTmp' \subseteq Writers
      /\ tmp' \in {"alone", "shared"}
      /\ (tmp' = "alone") = (inTmp = {})
  BY <1>1, OpensDoes
<1>3. TypeOK'
  BY <1>2 DEF IInv, TypeOK
<1>4. TmpInHand'
  BY <1>1, <1>2 DEF IInv, TmpInHand, FileOK
<1>5. LockHeldBySequence' /\ DownIsClean' /\ ActedIsTriggered'
  BY DEF IInv, LockHeldBySequence, DownIsClean, ActedIsTriggered
<1>6. SavesFollowEngine'
  BY DEF IInv, SavesFollowEngine, RestartKeepsMode, LoadRemembered
<1>. QED
  BY <1>3, <1>4, <1>5, <1>6 DEF IInv

LEMMA WriteModeInv == IInv /\ WriteMode => IInv'
<1>. SUFFICES ASSUME IInv, WriteMode PROVE IInv'
  OBVIOUS
<1>. USE DEF WriteMode
<1>0. "thread" \in inTmp
  BY DEF Lands
<1>1. /\ saves \in Seq(Pairs) /\ saves # << >>
      /\ Head(saves) \in Pairs
      /\ saves' \in Seq(Pairs) /\ saves' = Tail(saves)
  BY <1>0 DEF IInv, TypeOK, TmpInHand
<1>2. /\ inTmp' = inTmp \ {"thread"} /\ inTmp' \subseteq Writers
      /\ tmp' \in {"alone", "shared", "taken"}
      /\ inTmp' = {} => tmp' = "alone"
      /\ tmp' # "alone" => tmp # "alone"
      /\ disk' \in Pairs \cup {NoFile}
      /\ rememberFailed' \in BOOLEAN
      /\ tmp = "alone" /\ ~rememberFailed' => disk' = Head(saves)
  BY <1>1, LandsDoes DEF IInv
<1>3. TypeOK'
  BY <1>1, <1>2 DEF IInv, TypeOK, engine, tasks
<1>4. TmpInHand'
  BY <1>2 DEF IInv, TypeOK, TmpInHand
<1>5. LockHeldBySequence' /\ DownIsClean' /\ ActedIsTriggered'
  BY <1>0 DEF IInv, LockHeldBySequence, DownIsClean, ActedIsTriggered, engine, tasks
<1>6. SavesFollowEngine'
  <2>. SUFFICES ASSUME power = "up" PROVE SavesFollowEngine'
    BY DEF SavesFollowEngine
  <2>1. saves[Len(saves)] = <<mode, lastFlow>> /\ mode \in Available /\ tmp = "alone"
    BY <1>1 DEF IInv, SavesFollowEngine, TmpInHand
  <2>2. UNCHANGED <<mode, lastFlow>>
    BY DEF engine
  <2>3. CASE saves' = << >>
    <3>1. Head(saves) = <<mode, lastFlow>>
      BY <1>1, <2>1, <2>3, LastOfTail
    <3>2. ~rememberFailed' => disk' = <<mode, lastFlow>>
      BY <1>2, <2>1, <3>1
    <3>3. ~rememberFailed' => LoadRemembered(disk')[1] = mode
      BY <2>1, <3>2 DEF LoadRemembered
    <3>. QED
      BY <2>2, <2>3, <3>3 DEF SavesFollowEngine, RestartKeepsMode, LoadRemembered
  <2>4. CASE saves' # << >>
    <3>1. saves'[Len(saves')] = saves[Len(saves)]
      BY <1>1, <2>4, LastOfTail
    <3>. QED
      BY <2>1, <2>2, <2>4, <3>1 DEF SavesFollowEngine, RestartKeepsMode
  <2>. QED
    BY <2>3, <2>4
<1>. QED
  BY <1>3, <1>4, <1>5, <1>6 DEF IInv

LEMMA LoopWritesInv == IInv /\ LoopWrites => IInv'
<1>. SUFFICES ASSUME IInv, LoopWrites PROVE IInv'
  OBVIOUS
<1>. USE DEF LoopWrites, engine, tasks
<1>1. power = "stopping" /\ <<mode, lastFlow>> \in Pairs
  BY DEF Lands, IInv, TmpInHand, TypeOK, Pairs
<1>2. /\ inTmp' = inTmp \ {"loop"} /\ inTmp' \subseteq Writers
      /\ tmp' \in {"alone", "shared", "taken"}
      /\ inTmp' = {} => tmp' = "alone"
      /\ disk' \in Pairs \cup {NoFile}
      /\ rememberFailed' \in BOOLEAN
  BY <1>1, LandsDoes DEF IInv
<1>3. TypeOK'
  BY <1>2 DEF IInv, TypeOK
<1>4. TmpInHand'
  BY <1>1, <1>2 DEF IInv, TmpInHand
<1>5. LockHeldBySequence' /\ DownIsClean' /\ ActedIsTriggered' /\ SavesFollowEngine'
  BY <1>1 DEF IInv, LockHeldBySequence, DownIsClean, ActedIsTriggered, SavesFollowEngine
<1>. QED
  BY <1>3, <1>4, <1>5 DEF IInv

LEMMA StopInv == IInv /\ Stop => IInv'
<1>. SUFFICES ASSUME IInv, Stop PROVE IInv'
  OBVIOUS
<1>. USE DEF Stop, engine, file
<1>1. TypeOK'
  BY DEF IInv, TypeOK
<1>. QED
  BY <1>1 DEF IInv, LockHeldBySequence, DownIsClean, ActedIsTriggered, TmpInHand,
              SavesFollowEngine

LEMMA ProcessEndsInv == IInv /\ ProcessEnds => IInv'
<1>. SUFFICES ASSUME IInv, ProcessEnds PROVE IInv'
  OBVIOUS
<1>. USE DEF ProcessEnds
<1>1. seq' \in [Callers -> SeqStates]
  BY DEF SeqStates, NoSeq
<1>2. TypeOK'
  <2>1. caller' \in [Callers -> {"idle", "shield", "again"}]
    OBVIOUS
  <2>2. saves' \in Seq(Pairs)
    OBVIOUS
  <2>3. disk' \in Pairs \cup {NoFile}
    BY MixedIsPairs DEF IInv, TypeOK, Spoils
  <2>. QED
    BY <1>1, <2>1, <2>2, <2>3 DEF TypeOK
<1>3. LockHeldBySequence'
  BY CallersAssumption DEF LockHeldBySequence, NoSeq
<1>. QED
  BY <1>2, <1>3 DEF IInv, DownIsClean, ActedIsTriggered, TmpInHand, SavesFollowEngine

LEMMA NextIInv == IInv /\ [Next]_vars => IInv'
<1>. SUFFICES ASSUME IInv, [Next]_vars PROVE IInv'
  OBVIOUS
<1>1. CASE \E c \in Callers : CallerStep(c)
  <2>. PICK c \in Callers : CallerStep(c)
    BY <1>1
  <2>. QED
    BY RunFlowInv, OnDeviceStateChangeInv, SequenceEndsInv, CallerCancelledInv, FlowReturnsInv
    DEF CallerStep
<1>. QED
  BY <1>1, StartInv, DevicesSettledInv, CorrectStartupModeInv, SetModeInv, WriteBeginsInv,
     WriteModeInv, LoopWritesInv, StopInv, ProcessEndsInv, StutterInv DEF Next

----------------------------------------------------------------------------
\* The invariant holds in every reachable state.
THEOREM Invariance == Spec => []IInv
BY InitIInv, NextIInv, PTL DEF Spec

\* The engine's attributes, its tasks and the mode file stay within their types.
THEOREM TypeCorrect == Spec => []TypeOK
<1>1. IInv => TypeOK
  BY DEF IInv
<1>. QED
  BY <1>1, Invariance, PTL

\* run_sequence never has two flows at work, and the one at work is covered by
\* the lock and by flow_running, whoever has been cancelled.
THEOREM AtMostOneSequence == Spec => []OneSequence
<1>1. IInv => OneSequence
  BY CallersAssumption DEF IInv, LockHeldBySequence, OneSequence
<1>. QED
  BY <1>1, Invariance, PTL

\* With every save landed, the mode file restores the mode the remote is in.
THEOREM RestartComesBack == Spec => []RestartKeepsMode
<1>1. IInv => RestartKeepsMode
  BY DEF IInv, SavesFollowEngine, RestartKeepsMode
<1>. QED
  BY <1>1, Invariance, PTL

\* While a flow works on the room, no other actor moves the mode, its bindings
\* or the last flow.
THEOREM FlowOwnsMode == Spec => ModeStillDuringFlow
<1>. DEFINE Still == \A c \in Callers :
                seq[c].at = "running" /\ power' # "down"
                    => UNCHANGED <<mode, bindings, lastFlow>>
<1>1. IInv /\ [Next]_vars => [Still]_vars
  <2>. SUFFICES ASSUME IInv, Next, NEW c \in Callers, seq[c].at = "running", power' # "down"
                PROVE  UNCHANGED <<mode, bindings, lastFlow>>
    OBVIOUS
  <2>1. lock = c /\ lock # Free /\ flowRunning
    BY CallersAssumption DEF IInv, LockHeldBySequence
  <2>2. power # "down"
    BY <2>1 DEF IInv, DownIsClean
  <2>3. CASE CorrectStartupMode
    BY <2>1, <2>3 DEF CorrectStartupMode, SomeoneActed, engine
  <2>4. CASE \E m \in Modes : SetMode(m)
    BY <2>1, <2>4 DEF SetMode, FlowInProgress, TurnedAway, vars, engine
  <2>5. ASSUME NEW d \in Callers, FlowReturns(d) PROVE FALSE
    BY <2>1, <2>5 DEF FlowReturns, IInv, LockHeldBySequence
  <2>6. ASSUME NEW d \in Callers, NEW name, RunSequence(d, name)
        PROVE  UNCHANGED <<mode, bindings, lastFlow>>
    BY <2>1, <2>6 DEF RunSequence, Locked, TurnedAway, vars, engine
  <2>7. CASE \E d \in Callers : CallerStep(d)
    <3>. PICK d \in Callers : CallerStep(d)
      BY <2>7
    <3>1. CASE \E name \in Flows \cup {UnknownFlow} : RunFlow(d, name)
      BY <2>6, <3>1 DEF RunFlow
    <3>2. CASE \E signal \in Signals : OnDeviceStateChange(d, signal)
      BY <2>6, <3>2 DEF OnDeviceStateChange, TurnedAway, vars, engine
    <3>3. CASE \E how \in {"ok", "failed"} : SequenceEnds(d, how)
      BY <3>3 DEF SequenceEnds, engine
    <3>4. CASE CallerCancelled(d)
      BY <3>4 DEF CallerCancelled, engine
    <3>. QED
      BY <2>5, <3>1, <3>2, <3>3, <3>4 DEF CallerStep
  <2>. QED
    BY <2>2, <2>3, <2>4, <2>7
    DEF Next, Start, DevicesSettled, WriteBegins, WriteMode, LoopWrites, Stop, ProcessEnds, engine
<1>. QED
  BY <1>1, Invariance, PTL DEF Spec, ModeStillDuringFlow

\* The start-up check never overrules what somebody did since the start.
THEOREM IntentIsKept == Spec => IntentStands
<1>. DEFINE Stands == startup = "ready" /\ startup' = "done" /\ mode' # mode
                          => trigger = "startup" /\ lock = Free
<1>1. IInv /\ [Next]_vars => [Stands]_vars
  <2>. SUFFICES ASSUME IInv, Next, startup = "ready", startup' = "done", mode' # mode
                PROVE  trigger = "startup" /\ lock = Free
    OBVIOUS
  <2>1. CASE CorrectStartupMode
    <3>1. power = "up" /\ ~acted /\ ~flowRunning
      BY <2>1 DEF CorrectStartupMode, SomeoneActed, engine
    <3>. QED
      BY <3>1 DEF IInv, LockHeldBySequence, ActedIsTriggered
  <2>2. ASSUME NEW c \in Callers, CallerStep(c) PROVE UNCHANGED startup
    BY <2>2 DEF CallerStep, RunFlow, OnDeviceStateChange, RunSequence, TurnedAway, SequenceEnds,
                CallerCancelled, FlowReturns, vars, tasks
  <2>3. ASSUME NEW m \in Modes, SetMode(m) PROVE UNCHANGED startup
    BY <2>3 DEF SetMode, TurnedAway, vars, tasks
  <2>. QED
    BY <2>1, <2>2, <2>3
    DEF Next, Start, DevicesSettled, WriteBegins, WriteMode, LoopWrites, Stop, ProcessEnds, engine, tasks
<1>. QED
  BY <1>1, Invariance, PTL DEF Spec, IntentStands

----------------------------------------------------------------------------
\* The refinement.  What a restart may find is what is on disk or still waits
\* to be written.

LEMMA KeptIsNotEmpty == Kept # {} /\ Kept' # {}
BY DEF Kept

\* A save adds its pair to what a restart may find, and takes away nothing
\* that it does not replace.
LEMMA RememberKeeps ==
    ASSUME TypeOK, TmpInHand, NEW m \in Modes, NEW l \in Modes \cup {Nobody}, Remember(m, l),
           LoopIsFree, mode' = m, lastFlow' = l
    PROVE  Authority!Keeps(<<m, l>>)
<1>1. CASE power = "up" /\ saves' = Append(saves, <<m, l>>) /\ UNCHANGED <<disk, inTmp, tmp>>
  <2>1. <<m, l>> \in Pairs /\ saves \in Seq(Pairs)
    BY DEF Pairs, TypeOK
  <2>2. \A i \in 1..Len(saves') : saves'[i] \in Kept \cup {<<m, l>>}
    BY <1>1, <2>1 DEF Kept
  <2>3. Kept' \subseteq Kept \cup {<<m, l>>}
    BY <1>1, <2>2 DEF Kept
  <2>. QED
    BY <2>3, KeptIsNotEmpty DEF Authority!Keeps
<1>2. CASE power = "stopping" /\ Opens("loop") /\ UNCHANGED <<saves, disk>>
  <2>1. Kept' \subseteq Kept \cup {<<m, l>>} \cup {NoFile}
    BY <1>2 DEF Kept
  <2>. QED
    BY <1>2, <2>1, KeptIsNotEmpty DEF Authority!Keeps, Authority!Nothing, NoFile
<1>. QED
  BY <1>1, <1>2 DEF Remember

\* What two writers leave between them is something a restart may find already.
LEMMA SpoilsAreKept == ASSUME TypeOK, TmpInHand PROVE Spoils \subseteq Kept
<1>1. "thread" \in inTmp => Head(saves) \in Kept
  <2>. SUFFICES ASSUME "thread" \in inTmp PROVE Head(saves) \in Kept
    OBVIOUS
  <2>1. saves \in Seq(Pairs) /\ saves # << >>
    BY DEF TypeOK, TmpInHand
  <2>2. Head(saves) = saves[1] /\ 1 \in 1..Len(saves)
    BY <2>1, EmptySeq
  <2>. QED
    BY <2>2 DEF Kept
<1>. QED
  BY <1>1 DEF Spoils, Mixed, Kept

\* So is what a writer puts in place.
LEMMA LandsKeeps ==
    ASSUME TypeOK, TmpInHand, NEW writer \in Writers, NEW text \in Kept, Lands(writer, text)
    PROVE  disk' \in Kept /\ inTmp' \subseteq inTmp /\ (tmp' # "alone" => tmp # "alone")
<1>1. disk' \in Kept
  BY SpoilsAreKept DEF Lands, Spoils, TypeOK
<1>. QED
  BY <1>1 DEF Lands, TypeOK, TmpInHand

LEMMA WriteKeeps == ASSUME TypeOK, TmpInHand, WriteMode PROVE Kept' \subseteq Kept
<1>1. saves \in Seq(Pairs) /\ saves # << >> /\ saves' = Tail(saves)
  BY DEF WriteMode, Lands, TypeOK, TmpInHand
<1>2. \A i \in 1..Len(saves') : saves'[i] \in Kept
  <2>. SUFFICES ASSUME NEW i \in 1..Len(Tail(saves)) PROVE Tail(saves)[i] \in Kept
    BY <1>1
  <2>1. Tail(saves)[i] = saves[i + 1] /\ Len(Tail(saves)) = Len(saves) - 1
    BY <1>1, HeadTailProperties
  <2>2. Len(saves) \in Nat
    BY <1>1, EmptySeq
  <2>. QED
    BY <2>1, <2>2 DEF Kept
<1>3. Head(saves) \in Kept
  <2>1. Head(saves) = saves[1] /\ 1 \in 1..Len(saves)
    BY <1>1, EmptySeq
  <2>. QED
    BY <2>1 DEF Kept
<1>4. disk' \in Kept /\ inTmp' \subseteq inTmp /\ (tmp' # "alone" => tmp # "alone")
  BY <1>3, LandsKeeps DEF WriteMode
<1>5. UNCHANGED <<mode, lastFlow>>
  BY DEF WriteMode, engine
<1>. QED
  BY <1>2, <1>4, <1>5 DEF Kept

LEMMA LoopKeeps == ASSUME TypeOK, TmpInHand, LoopWrites PROVE Kept' \subseteq Kept
<1>1. <<mode, lastFlow>> \in Kept
  BY DEF LoopWrites, Lands, Kept
<1>2. disk' \in Kept /\ inTmp' \subseteq inTmp /\ (tmp' # "alone" => tmp # "alone")
  BY <1>1, LandsKeeps DEF LoopWrites
<1>. QED
  BY <1>2 DEF LoopWrites, engine, Kept

\* Only at a stop, and by meeting in the temporary file, do the writers add to it.
LEMMA WriteBeginsRefines ==
    ASSUME IInv, WriteBegins
    PROVE  Authority!Meet \/ UNCHANGED Authority!avars
<1>. USE DEF WriteBegins, engine, Opens
<1>1. CASE tmp' = tmp
  BY <1>1 DEF Kept, Authority!avars
<1>2. CASE tmp' # tmp /\ power = "stopping"
  <2>1. Kept' = Kept \cup {NoFile} \/ Kept' = Kept
    BY <1>2 DEF Kept, IInv, TypeOK, TmpInHand
  <2>. QED
    BY <1>2, <2>1 DEF Authority!Meet, Authority!Nothing, NoFile, Authority!avars
<1>. QED
  BY <1>1, <1>2 DEF IInv, TypeOK, TmpInHand

LEMMA KeptUnchanged == UNCHANGED file /\ (LoopIsFree \/ UNCHANGED <<mode, lastFlow>>) => UNCHANGED Kept
BY DEF file, Kept

LEMMA StartRefines == IInv /\ Start => Authority!Boot
<1>. SUFFICES ASSUME IInv, Start PROVE Authority!Boot
  OBVIOUS
<1>1. disk \in Kept
  BY DEF Kept
<1>2. /\ mode' = LoadRemembered(disk)[1] /\ lastFlow' = LoadRemembered(disk)[2]
      /\ UNCHANGED <<flowRunning, Kept>>
  BY KeptUnchanged DEF Start, ApplyMode, IInv, DownIsClean
<1>3. LoadRemembered(disk) =
          IF disk[1] \in Available THEN Authority!Restored(disk) ELSE <<Fallback, Nobody>>
  BY DEF LoadRemembered, Authority!Restored
<1>. QED
  BY <1>1, <1>2, <1>3 DEF Authority!Boot, Start

\* A mode somebody picks, or the start-up check corrects to.
LEMMA AdoptedRefines ==
    ASSUME IInv, NEW m \in Available, NEW l \in {lastFlow, m},
           ApplyMode(m), lastFlow' = l, Remember(m, l), UNCHANGED <<power, flowRunning>>,
           ~flowRunning, power = "up"
    PROVE  Authority!Choose
<1>1. m \in Modes /\ l \in Modes \cup {Nobody}
  BY KeymapAssumption DEF IInv, TypeOK
<1>2. Authority!Keeps(<<m, lastFlow'>>) /\ power = "up"
  BY <1>1, RememberKeeps DEF IInv, TmpInHand, ApplyMode
<1>. QED
  BY <1>1, <1>2 DEF Authority!Choose, ApplyMode

LEMMA StutterRefines == UNCHANGED vars => UNCHANGED Authority!avars
BY KeptUnchanged DEF vars, engine, Authority!avars

LEMMA CorrectStartupModeRefines ==
    IInv /\ CorrectStartupMode => Authority!Choose \/ UNCHANGED Authority!avars
<1>. SUFFICES ASSUME IInv, CorrectStartupMode
              PROVE  Authority!Choose \/ UNCHANGED Authority!avars
  OBVIOUS
<1>1. CASE UNCHANGED <<engine, file>>
  BY <1>1, KeptUnchanged DEF CorrectStartupMode, engine, Authority!avars
<1>2. CASE /\ ~SomeoneActed
           /\ UNCHANGED flowRunning
           /\ \E m \in Available : ApplyMode(m) /\ lastFlow' = m /\ Remember(m, m)
  <2>. PICK m \in Available : ApplyMode(m) /\ lastFlow' = m /\ Remember(m, m)
    BY <1>2
  <2>. QED
    BY <1>2, AdoptedRefines DEF SomeoneActed, CorrectStartupMode
<1>. QED
  BY <1>1, <1>2 DEF CorrectStartupMode

LEMMA SetModeRefines ==
    ASSUME NEW m \in Modes
    PROVE  IInv /\ SetMode(m) => Authority!Choose \/ UNCHANGED Authority!avars
<1>. SUFFICES ASSUME IInv, SetMode(m) PROVE Authority!Choose \/ UNCHANGED Authority!avars
  OBVIOUS
<1>1. CASE TurnedAway
  BY <1>1, StutterRefines DEF TurnedAway
<1>2. CASE /\ ~flowRunning /\ m \in Available
           /\ ApplyMode(m)
           /\ Remember(m, lastFlow)
           /\ UNCHANGED <<power, lastFlow, flowRunning>>
  BY <1>2, AdoptedRefines DEF SetMode
<1>. QED
  BY <1>1, <1>2 DEF SetMode, FlowInProgress

LEMMA RunSequenceRefines ==
    ASSUME NEW c \in Callers, NEW name, CanCall(c), RunSequence(c, name), IInv
    PROVE  Authority!Begin \/ UNCHANGED Authority!avars
<1>1. CASE TurnedAway
  BY <1>1, StutterRefines DEF TurnedAway
<1>2. CASE ~Locked /\ flowRunning' = TRUE /\ UNCHANGED <<power, mode, lastFlow, file>>
  BY <1>2, KeptUnchanged DEF Authority!Begin, CanCall, Locked, IInv, LockHeldBySequence
<1>. QED
  BY <1>1, <1>2 DEF RunSequence

LEMMA FlowReturnsRefines ==
    ASSUME NEW c \in Callers
    PROVE  IInv /\ FlowReturns(c) => Authority!Succeed \/ Authority!Fail
<1>. SUFFICES ASSUME IInv, FlowReturns(c) PROVE Authority!Succeed \/ Authority!Fail
  OBVIOUS
<1>1. power # "down" /\ flowRunning /\ flowRunning' = FALSE /\ UNCHANGED power
  BY CallersAssumption
  DEF FlowReturns, Released, IInv, LockHeldBySequence, DownIsClean
<1>2. CASE FlowFailed(c)
  BY <1>1, <1>2, KeptUnchanged DEF FlowFailed, Authority!Fail
<1>3. CASE TargetMode[seq[c].flow] \in Available /\ FlowCommitted(c)
  <2>. DEFINE m == TargetMode[seq[c].flow]
  <2>1. m \in Modes /\ mode' = m /\ lastFlow' = m /\ Remember(m, m)
    BY <1>3, KeymapAssumption DEF FlowCommitted, LastFlowAfter, ApplyMode
  <2>2. Authority!Keeps(<<m, m>>)
    BY <2>1, RememberKeeps DEF IInv, FlowReturns
  <2>. QED
    BY <1>1, <2>1, <2>2 DEF Authority!Succeed
<1>. QED
  BY <1>2, <1>3 DEF FlowReturns

LEMMA CallerStepRefines ==
    ASSUME NEW c \in Callers
    PROVE  IInv /\ CallerStep(c) => [Authority!ANext]_(Authority!avars)
<1>. SUFFICES ASSUME IInv, CallerStep(c) PROVE Authority!ANext \/ UNCHANGED Authority!avars
  OBVIOUS
<1>1. CASE \E name \in Flows \cup {UnknownFlow} : RunFlow(c, name)
  BY <1>1, RunSequenceRefines DEF RunFlow, Authority!ANext
<1>2. CASE \E signal \in Signals : OnDeviceStateChange(c, signal)
  BY <1>2, RunSequenceRefines, StutterRefines
  DEF OnDeviceStateChange, TurnedAway, Authority!ANext
<1>3. CASE (\E how \in {"ok", "failed"} : SequenceEnds(c, how)) \/ CallerCancelled(c)
  BY <1>3, KeptUnchanged DEF SequenceEnds, CallerCancelled, engine, Authority!avars
<1>4. CASE FlowReturns(c)
  BY <1>4, FlowReturnsRefines DEF Authority!ANext
<1>. QED
  BY <1>1, <1>2, <1>3, <1>4 DEF CallerStep

LEMMA NextRefines == IInv /\ [Next]_vars => [Authority!ANext]_(Authority!avars)
<1>. SUFFICES ASSUME IInv, [Next]_vars PROVE Authority!ANext \/ UNCHANGED Authority!avars
  OBVIOUS
<1>1. CASE Start
  BY <1>1, StartRefines DEF Authority!ANext
<1>2. CASE DevicesSettled
  BY <1>2, KeptUnchanged DEF DevicesSettled, engine, Authority!avars
<1>3. CASE CorrectStartupMode
  BY <1>3, CorrectStartupModeRefines DEF Authority!ANext
<1>4. CASE \E m \in Modes : SetMode(m)
  BY <1>4, SetModeRefines DEF Authority!ANext
<1>5. CASE \E c \in Callers : CallerStep(c)
  BY <1>5, CallerStepRefines
<1>6. CASE WriteMode
  BY <1>6, WriteKeeps, KeptIsNotEmpty
  DEF WriteMode, engine, IInv, Authority!Forget, Authority!ANext
<1>7. CASE Stop
  BY <1>7, KeptUnchanged DEF Stop, engine, Authority!EndBegins, Authority!ANext
<1>8. CASE ProcessEnds
  <2>1. Kept' \subseteq Kept
    BY <1>8, SpoilsAreKept DEF ProcessEnds, Kept, IInv
  <2>. QED
    BY <1>8, <2>1, KeptIsNotEmpty DEF ProcessEnds, Authority!Off, Authority!ANext
<1>9. CASE UNCHANGED vars
  BY <1>9, StutterRefines
<1>10. CASE WriteBegins
  BY <1>10, WriteBeginsRefines DEF Authority!ANext
<1>11. CASE LoopWrites
  BY <1>11, LoopKeeps, KeptIsNotEmpty
  DEF LoopWrites, engine, IInv, Authority!Forget, Authority!ANext
<1>. QED
  BY <1>1, <1>2, <1>3, <1>4, <1>5, <1>6, <1>7, <1>8, <1>9, <1>10, <1>11 DEF Next

LEMMA InitRefines == Init => Authority!AInit
<1>. SUFFICES ASSUME Init PROVE Authority!AInit
  OBVIOUS
<1>1. Kept = {disk}
  BY DEF Init, Kept
<1>. QED
  BY <1>1 DEF Init, Authority!AInit, Authority!Nothing, Authority!Pairs, Pairs, NoFile

\* RuntimeEngine, with its lock, its shielded sequence tasks, its start-up check
\* and its mode-writer thread, keeps ModeAuthority's promise.
THEOREM Refinement == Spec => RefinesAuthority
<1>1. Init => Authority!AInit
  BY InitRefines
<1>2. IInv /\ [Next]_vars => [Authority!ANext]_(Authority!avars)
  BY NextRefines
<1>. QED
  BY <1>1, <1>2, Invariance, PTL DEF Spec, RefinesAuthority, Authority!ASpec

=============================================================================
