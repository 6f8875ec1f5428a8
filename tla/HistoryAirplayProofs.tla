------------------------ MODULE HistoryAirplayProofs ------------------------
(***************************************************************************)
(* Two components that do not meet.  HistoryStore: nothing that was        *)
(* recorded is forgotten, for any number of changes, failed writes and     *)
(* restarts.  AppleTvAirPlay: the debounce is honoured, for any debounce   *)
(* and any number of changes.                                              *)
(***************************************************************************)
EXTENDS HistoryWriter, AirplayWatch, TLAPS

(***************************************************************************)
(* HistoryStore.                                                           *)
(***************************************************************************)
\* A change made by the event loop is dirty before anybody can miss it.
LEMMA EventLoopKeeps ==
  ASSUME IInv, EventLoop
  PROVE  IInv'
<1> USE DEF IInv, TypeOK, PlacesOK, FlagsOK, ContentsOK, Phases, DirtyIsSeen, Alone, CopyIsFresh, Clean, Saved, ThreadWillCopy,
  Contents, Reports, Writing, loop, thread, closer, ghosts
<1>1. CASE AddEvent
  BY <1>1 DEF AddEvent, Records
<1>2. CASE FlowBegins
  BY <1>2 DEF FlowBegins, Records
<1>3. CASE Clear
  BY <1>3 DEF Clear, Records
<1>4. CASE FlowEnds
  <2> USE <1>4 DEF FlowEnds, Finished
  <2>1. TypeOK'
    <3>1. PlacesOK'
      OBVIOUS
    <3>2. FlagsOK'
      OBVIOUS
    <3>3. ContentsOK'
      OBVIOUS
    <3>4. QED
      BY <3>1, <3>2, <3>3
  <2>2. Phases'
    OBVIOUS
  <2>3. DirtyIsSeen'
    OBVIOUS
  <2>4. Alone'
    OBVIOUS
  <2>5. CopyIsFresh'
    OBVIOUS
  <2>6. QED
    BY <2>1, <2>2, <2>3, <2>4, <2>5
<1>5. CASE FlowRecorded
  BY <1>5 DEF FlowRecorded, Records
<1>6. CASE RequestFlush
  BY <1>6 DEF RequestFlush
<1>7. QED
  BY <1>1, <1>2, <1>3, <1>4, <1>5, <1>6 DEF EventLoop

\* The thread clears the flush before it looks at dirty, never after.
LEMMA WriterKeeps ==
  ASSUME IInv, Writer
  PROVE  IInv'
<1> USE DEF IInv, TypeOK, PlacesOK, FlagsOK, ContentsOK, Phases, DirtyIsSeen, Alone, CopyIsFresh, Clean, Saved, ThreadWillCopy,
  Contents, Reports, Writing, loop, thread, closer, ghosts, Works, RestOfThread
<1>1. CASE Wakes
  BY <1>1 DEF Wakes
<1>2. CASE ClearsFlush
  <2> USE <1>2 DEF ClearsFlush
  <2>1. TypeOK'
    <3>1. PlacesOK'
      OBVIOUS
    <3>2. FlagsOK'
      OBVIOUS
    <3>3. ContentsOK'
      OBVIOUS
    <3>4. QED
      BY <3>1, <3>2, <3>3
  <2>2. Phases'
    OBVIOUS
  <2>3. DirtyIsSeen'
    OBVIOUS
  <2>4. Alone'
    OBVIOUS
  <2>5. CopyIsFresh'
    OBVIOUS
  <2>6. QED
    BY <2>1, <2>2, <2>3, <2>4, <2>5
<1>3. CASE DebounceAgain
  <2> USE <1>3 DEF DebounceAgain
  <2>1. TypeOK'
    <3>1. PlacesOK'
      OBVIOUS
    <3>2. FlagsOK'
      OBVIOUS
    <3>3. ContentsOK'
      OBVIOUS
    <3>4. QED
      BY <3>1, <3>2, <3>3
  <2>2. Phases'
    OBVIOUS
  <2>3. DirtyIsSeen'
    OBVIOUS
  <2>4. Alone'
    OBVIOUS
  <2>5. CopyIsFresh'
    OBVIOUS
  <2>6. QED
    BY <2>1, <2>2, <2>3, <2>4, <2>5
<1>4. CASE DebounceOver
  BY <1>4 DEF DebounceOver
<1>5. CASE Copies
  <2> USE <1>5 DEF Copies, LoopHead
  <2>1. TypeOK'
    <3>1. PlacesOK'
      OBVIOUS
    <3>2. FlagsOK'
      OBVIOUS
    <3>3. ContentsOK'
      OBVIOUS
    <3>4. QED
      BY <3>1, <3>2, <3>3
  <2>2. Phases'
    OBVIOUS
  <2>3. DirtyIsSeen'
    OBVIOUS
  <2>4. Alone'
    OBVIOUS
  <2>5. CopyIsFresh'
    OBVIOUS
  <2>6. QED
    BY <2>1, <2>2, <2>3, <2>4, <2>5
<1>6. CASE Dumps
  BY <1>6 DEF Dumps, AsItIsNow, Finished
<1>7. CASE WritesFile
  BY <1>7 DEF WritesFile
<1>8. CASE Replaces
  BY <1>8 DEF Replaces, Replaced, LoopHead, Empty
<1>9. CASE WriteFails
  BY <1>9 DEF WriteFails, Trouble
<1>10. CASE FlushAgain
  BY <1>10 DEF FlushAgain
<1>11. CASE RetryDelayOver
  BY <1>11 DEF RetryDelayOver, LoopHead
<1>12. QED
  BY <1>1, <1>2, <1>3, <1>4, <1>5, <1>6, <1>7, <1>8, <1>9, <1>10, <1>11 DEF Writer

\* close finds what the thread left, and is alone with it unless it overran.
LEMMA CloseKeeps ==
  ASSUME IInv, Close
  PROVE  IInv'
<1> USE DEF IInv, TypeOK, PlacesOK, FlagsOK, ContentsOK, Phases, DirtyIsSeen, Alone, CopyIsFresh, Clean, Saved, ThreadWillCopy,
  Contents, Reports, Writing, loop, thread, closer, ghosts, Closes, RestOfClose
<1>1. CASE Exit
  BY <1>1 DEF Exit
<1>2. CASE StopFlush
  BY <1>2 DEF StopFlush
<1>3. CASE Joined
  BY <1>3 DEF Joined
<1>4. CASE JoinTimeout
  <2> USE <1>4 DEF JoinTimeout
  <2>1. TypeOK'
    <3>1. PlacesOK'
      OBVIOUS
    <3>2. FlagsOK'
      OBVIOUS
    <3>3. ContentsOK'
      OBVIOUS
    <3>4. QED
      BY <3>1, <3>2, <3>3
  <2>2. Phases'
    OBVIOUS
  <2>3. DirtyIsSeen'
    OBVIOUS
  <2>4. Alone'
    OBVIOUS
  <2>5. CopyIsFresh'
    <3>1. c' = "copy" /\ UNCHANGED <<up, mem, flowOn, say, w, wCopy, disk, failedLast, dirty>>
      OBVIOUS
    <3>2. ~overlap /\ c = "join"
      OBVIOUS
    <3>3. w \in Writing => overlap'
      OBVIOUS
    <3>4. Clean' => Clean /\ w \notin Writing
      BY <3>1, <3>2, <3>3
    <3>5. QED
      BY <3>1, <3>2, <3>4
  <2>6. QED
    BY <2>1, <2>2, <2>3, <2>4, <2>5
<1>5. CASE CloseCopies
  <2> USE <1>5 DEF CloseCopies
  <2>1. TypeOK'
    <3>1. PlacesOK'
      OBVIOUS
    <3>2. FlagsOK'
      OBVIOUS
    <3>3. ContentsOK'
      OBVIOUS
    <3>4. QED
      BY <3>1, <3>2, <3>3
  <2>2. Phases'
    OBVIOUS
  <2>3. DirtyIsSeen'
    OBVIOUS
  <2>4. Alone'
    OBVIOUS
  <2>5. CopyIsFresh'
    <3>1. CASE dirty
      BY <3>1
    <3>2. CASE ~dirty
      <4>1. c' = "done" /\ UNCHANGED <<up, mem, flowOn, say, w, wCopy, disk, overlap, failedLast, dirty>>
        BY <3>2
      <4>2. ~overlap /\ ~failedLast => Saved
        BY <3>2
      <4>3. Clean' /\ w' \in Writing => wCopy' = mem'
        BY <4>1
      <4>4. QED
        BY <4>1, <4>2, <4>3
    <3>3. QED
      BY <3>1, <3>2
  <2>6. QED
    BY <2>1, <2>2, <2>3, <2>4, <2>5
<1>6. CASE CloseDumps
  BY <1>6 DEF CloseDumps, AsItIsNow, Finished
<1>7. CASE CloseWritesFile
  BY <1>7 DEF CloseWritesFile
<1>8. CASE CloseReplaces
  BY <1>8 DEF CloseReplaces, Replaced, Empty
<1>9. CASE CloseFails
  BY <1>9 DEF CloseFails, Trouble
<1>10. CASE Gone
  BY <1>10 DEF Gone
<1>11. QED
  BY <1>1, <1>2, <1>3, <1>4, <1>5, <1>6, <1>7, <1>8, <1>9, <1>10 DEF Close

LEMMA StepKeeps == IInv /\ [Next]_vars => IInv'
<1> SUFFICES ASSUME IInv, [Next]_vars PROVE IInv'
  OBVIOUS
<1> USE DEF IInv, TypeOK, PlacesOK, FlagsOK, ContentsOK, Phases, DirtyIsSeen, Alone, CopyIsFresh, Clean, Saved, ThreadWillCopy,
  Contents, Reports, Writing, loop, thread, closer, ghosts
<1>1. CASE Dies
  BY <1>1 DEF Dies, Trouble
<1>2. CASE Starts
  BY <1>2 DEF Starts, Fresh, Empty
<1>3. CASE UNCHANGED vars
  BY <1>3 DEF vars
<1>4. QED
  BY <1>1, <1>2, <1>3, EventLoopKeeps, WriterKeeps, CloseKeeps DEF Next

\* The invariant says what is promised.
LEMMA KeptIsNotForgotten == IInv => NothingForgotten
  BY DEF IInv, Phases, DirtyIsSeen, Alone, CopyIsFresh, Clean, NothingForgotten, InHand, Saved, Writing

\* HistoryStore never loses sight of a change: it is on the disk, in a writer's
\* hands, or dirty with a thread that will look, until close has written it.
THEOREM NeverForgotten == Spec => []NothingForgotten
<1>1. Init => IInv
  <2> USE DEF Init, Empty, Contents, Reports, Writing
  <2>1. Init => PlacesOK
    BY DEF PlacesOK
  <2>2. Init => FlagsOK
    BY DEF FlagsOK
  <2>3. Init => ContentsOK
    BY DEF ContentsOK
  <2>4. Init => Phases /\ DirtyIsSeen /\ Alone /\ CopyIsFresh
    BY DEF Phases, DirtyIsSeen, Alone, CopyIsFresh, Clean, Saved
  <2>5. QED
    BY <2>1, <2>2, <2>3, <2>4 DEF IInv, TypeOK
<1>2. QED
  BY <1>1, StepKeeps, KeptIsNotForgotten, PTL DEF Spec

(***************************************************************************)
(* AppleTvAirPlay.                                                         *)
(***************************************************************************)
USE AirplayBounds DEF Tasks, None

LEMMA InitKeeps == WatchInit => WatchInv
<1> SUFFICES ASSUME WatchInit PROVE WatchInv
  OBVIOUS
<1>1. WatchTypeOK
  BY DEF WatchInit, WatchTypeOK
<1>2. ReadingsOK
  BY DEF WatchInit, ReadingsOK
<1>3. Cancellable /\ SleptIsStood /\ DebounceHonoured
  BY DEF WatchInit, Cancellable, SleptIsStood, DebounceHonoured
<1>4. QED
  BY <1>1, <1>2, <1>3 DEF WatchInv

\* mDNS only makes more to read.
LEMMA NetworkKeeps ==
  ASSUME WatchInv, Advertised \/ Removed \/ ResolveFails \/ InitialDeadline
  PROVE  WatchInv'
<1> USE DEF Advertised, Removed, ResolveFails, InitialDeadline, ResolveDone, Changes, tv, readings, tasks, stops, past, WatchInv
<1>1. WatchTypeOK'
  <2>1. CASE Advertised
    BY <2>1 DEF WatchTypeOK
  <2>2. CASE Removed
    BY <2>2 DEF WatchTypeOK
  <2>3. CASE ResolveFails
    BY <2>3 DEF WatchTypeOK
  <2>4. CASE InitialDeadline
    BY <2>4 DEF WatchTypeOK
  <2>5. QED
    BY <2>1, <2>2, <2>3, <2>4
<1>2. ReadingsOK'
  BY DEF ReadingsOK
<1>3. Cancellable'
  <2>1. CASE Advertised \/ Removed
    BY <2>1 DEF Cancellable
  <2>2. CASE ResolveFails
    BY <2>2 DEF Cancellable
  <2>3. CASE InitialDeadline
    BY <2>3 DEF Cancellable
  <2>4. QED
    BY <2>1, <2>2, <2>3
<1>4. (SleptIsStood /\ DebounceHonoured)'
  BY DEF SleptIsStood, DebounceHonoured
<1>5. QED
  BY <1>1, <1>2, <1>3, <1>4

\* A reading that ends a session leaves no task asleep; one that begins or goes
\* on with a session leaves at most the one it schedules.
LEMMA ReadingsKeep ==
  ASSUME WatchInv, ReadsIdle \/ ReadsActive \/ HandleServiceRemoved
  PROVE  WatchInv'
<1> USE DEF WatchInv, tv, readings, tasks, stops, past, ResolveDone, Read
<1>1. CASE ReadsIdle
  <2> USE <1>1 DEF ReadsIdle, CancelPendingWatchSignal, Cancelled
  <2>1. WatchTypeOK'
    BY DEF WatchTypeOK
  <2>2. ReadingsOK'
    BY DEF ReadingsOK
  <2>3. life # "off"
    BY DEF Cancellable, WatchTypeOK
  <2>4. Cancellable'
    BY <2>3 DEF Cancellable
  <2>5. (SleptIsStood /\ DebounceHonoured)'
    BY DEF SleptIsStood, DebounceHonoured
  <2>6. QED
    BY <2>1, <2>2, <2>4, <2>5
<1>2. CASE ReadsActive
  <2> USE <1>2 DEF ReadsActive
  <2>1. ReadingsOK'
    BY DEF ReadingsOK
  <2>2. life # "off"
    BY DEF Cancellable, WatchTypeOK
  <2>3. CASE FirstReading
    <3> USE <2>3
    <3>1. WatchTypeOK'
      <4>1. resolves' \in Nat /\ removals' \in Nat
        BY DEF WatchTypeOK
      <4>2. UNCHANGED <<record, events, asleep, calling, left, pending, awaited, life, stood, shortest>>
        OBVIOUS
      <4>3. QED
        BY <4>1, <4>2 DEF WatchTypeOK
    <3>2. Cancellable'
      BY <2>2 DEF Cancellable
    <3>3. (SleptIsStood /\ DebounceHonoured)'
      BY <2>2 DEF SleptIsStood, DebounceHonoured, Cancellable
    <3>4. QED
      BY <2>1, <3>1, <3>2, <3>3
  <2>4. CASE ~FirstReading
    <3>1. PICK t \in Tasks :
             /\ t \notin asleep /\ t \notin calling'
             /\ calling' \subseteq calling
             /\ asleep' = (asleep \ {pending}) \cup {t}
             /\ left' = [left EXCEPT ![t] = Debounce]
             /\ pending' = t
      BY <2>4 DEF ScheduleWatchSignal
    <3>2. asleep' = {t}
      BY <2>2, <3>1 DEF Cancellable
    <3>3. WatchTypeOK'
      BY <3>1 DEF WatchTypeOK
    <3>4. Cancellable'
      BY <2>2, <3>1, <3>2 DEF Cancellable
    <3>5. (SleptIsStood /\ DebounceHonoured)'
      BY <3>1, <3>2 DEF SleptIsStood, DebounceHonoured, WatchTypeOK
    <3>6. QED
      BY <2>1, <3>3, <3>4, <3>5
  <2>5. QED
    BY <2>3, <2>4
<1>3. CASE HandleServiceRemoved
  <2> USE <1>3 DEF HandleServiceRemoved, CancelPendingWatchSignal, Cancelled
  <2>1. WatchTypeOK'
    <3>1. resolves' \in Nat /\ removals' \in Nat /\ stood' \in Nat
      BY DEF WatchTypeOK
    <3>2. asleep' \subseteq Tasks /\ calling' \subseteq Tasks /\ pending' \in Tasks \cup {None}
      BY DEF WatchTypeOK
    <3>3. UNCHANGED <<record, events, left, awaited, life, shortest>>
      OBVIOUS
    <3>4. QED
      BY <3>1, <3>2, <3>3 DEF WatchTypeOK
  <2>2. ReadingsOK'
    BY DEF ReadingsOK
  <2>3. life # "off"
    BY DEF Cancellable, WatchTypeOK
  <2>4. Cancellable'
    BY <2>3 DEF Cancellable, WatchTypeOK
  <2>5. (SleptIsStood /\ DebounceHonoured)'
    BY DEF SleptIsStood, DebounceHonoured
  <2>6. QED
    BY <2>1, <2>2, <2>4, <2>5
<1>4. QED
  BY <1>1, <1>2, <1>3

\* A session stands as long as a task sleeps.
LEMMA TickKeeps ==
  ASSUME WatchInv, Tick
  PROVE  WatchInv'
<1> USE DEF WatchInv, Tick, tv, readings, stops
<1>1. left' \in [Tasks -> Nat] /\ stood' \in Nat
  BY DEF WatchTypeOK
<1>2. WatchTypeOK'
  BY <1>1 DEF WatchTypeOK
<1>3. (ReadingsOK /\ Cancellable /\ DebounceHonoured)'
  BY DEF ReadingsOK, Cancellable, DebounceHonoured
<1>4. SleptIsStood'
  <2> SUFFICES ASSUME NEW t \in asleep, session PROVE stood' + left'[t] >= Debounce
    BY DEF SleptIsStood
  <2>1. t \in Tasks /\ left[t] \in Nat /\ stood \in Nat /\ stood + left[t] >= Debounce
    BY DEF WatchTypeOK, SleptIsStood
  <2>2. left'[t] = IF left[t] > 0 THEN left[t] - 1 ELSE left[t]
    BY <2>1
  <2>3. stood' = IF stood < Debounce THEN stood + 1 ELSE stood
    OBVIOUS
  <2>4. QED
    BY <2>1, <2>2, <2>3
<1>5. QED
  BY <1>2, <1>3, <1>4

\* A task that wakes has slept its time; one that ends its call forgets itself only.
LEMMA TasksKeep ==
  ASSUME WatchInv, NEW t \in Tasks, SleepOver(t) \/ CallEnds(t)
  PROVE  WatchInv'
<1> USE DEF WatchInv, tv, readings, stops, past, Forgets
<1>1. CASE SleepOver(t)
  <2> USE <1>1 DEF SleepOver
  <2>1. WatchTypeOK'
    BY DEF WatchTypeOK
  <2>2. ReadingsOK'
    BY DEF ReadingsOK
  <2>3. Cancellable'
    BY DEF Cancellable
  <2>4. SleptIsStood'
    BY DEF SleptIsStood
  <2>5. session => stood >= Debounce
    BY DEF SleptIsStood, WatchTypeOK
  <2>6. DebounceHonoured'
    BY <2>5 DEF DebounceHonoured
  <2>7. QED
    BY <2>1, <2>2, <2>3, <2>4, <2>6
<1>2. CASE CallEnds(t)
  <2> USE <1>2 DEF CallEnds
  <2>1. WatchTypeOK'
    BY DEF WatchTypeOK
  <2>2. (ReadingsOK /\ SleptIsStood /\ DebounceHonoured)'
    BY DEF ReadingsOK, SleptIsStood, DebounceHonoured
  <2>3. Cancellable'
    BY DEF Cancellable
  <2>4. QED
    BY <2>1, <2>2, <2>3
<1>3. QED
  BY <1>1, <1>2

\* stop may leave a task asleep, but no reading after it.
LEMMA StopsKeep ==
  ASSUME WatchInv, StopWithNothingPending \/ Stop \/ StopEnds
  PROVE  WatchInv'
<1> USE DEF WatchInv, StopWithNothingPending, Stop, StopEnds, LetsGo, Cancelled, tv, readings
<1>1. WatchTypeOK'
  <2>1. CASE Stop
    <3>1. asleep' \subseteq Tasks /\ calling' \subseteq Tasks
      BY <2>1 DEF WatchTypeOK
    <3>2. life' = "stopping" /\ awaited' \in Tasks \cup {None}
      BY <2>1 DEF WatchTypeOK
    <3>3. UNCHANGED <<record, events, resolves, removals, left, pending, stood, shortest>>
      BY <2>1
    <3>4. QED
      BY <3>1, <3>2, <3>3 DEF WatchTypeOK
  <2>2. CASE StopWithNothingPending \/ StopEnds
    <3>1. life' = "off" /\ pending' = None /\ resolves' = 0 /\ removals' = 0
      BY <2>2
    <3>2. UNCHANGED <<record, events, asleep, left, calling, awaited, stood, shortest>>
      BY <2>2 DEF tv
    <3>3. QED
      BY <3>1, <3>2 DEF WatchTypeOK
  <2>3. QED
    BY <2>1, <2>2
<1>2. ReadingsOK'
  BY DEF ReadingsOK
<1>3. Cancellable'
  BY DEF Cancellable
<1>4. (SleptIsStood /\ DebounceHonoured)'
  BY DEF SleptIsStood, DebounceHonoured
<1>5. QED
  BY <1>1, <1>2, <1>3, <1>4

\* No watch signal of AppleTvAirPlay comes before the readings have been active
\* for the whole of debounce_s.
THEOREM SignalsAreDebounced == WatchSpec => []DebounceHonoured
<1>1. WatchInv /\ [WatchNext]_watch => WatchInv'
  <2> SUFFICES ASSUME WatchInv, [WatchNext]_watch PROVE WatchInv'
    OBVIOUS
  <2>1. CASE UNCHANGED watch
    BY <2>1 DEF watch, tv, readings, tasks, stops, past, WatchInv, WatchTypeOK, ReadingsOK, Cancellable, SleptIsStood, DebounceHonoured
  <2>2. QED
    BY <2>1, NetworkKeeps, ReadingsKeep, TickKeeps, TasksKeep, StopsKeep DEF WatchNext
<1>2. WatchInv => DebounceHonoured
  BY DEF WatchInv
<1>3. QED
  BY <1>1, <1>2, InitKeeps, PTL DEF WatchSpec
=============================================================================
