--------------------------- MODULE KeyPathProofs ---------------------------
(***************************************************************************)
(* The dispatcher's task tables hold live tasks only and all live repeats, *)
(* and no key is stuck: for any of the keys, any length of the edge queue  *)
(* and any number of tasks, presses, taps and losses.                      *)
(***************************************************************************)
EXTENDS KeyPath, TLAPS

TaskOK == task \in [TaskIds -> TaskRecords]
RepeatOK == repeatOf \in [Keys -> TaskIds \cup {NoTask}]
HoldOK == holdOf \in [Keys -> TaskIds \cup {NoTask}]
AtOK == at \in [Handlers -> [stage : Stages, key : Keys \cup {NoKey}, edge : {"down", "up", NoKey}]]
AwaitsOK == awaits \in [Handlers -> SUBSET TaskIds]
EdgesOK == edges \in Seq(Edges \cup {Goodbye}) /\ Len(edges) <= EdgeQueueMax
InputOK == open \in BOOLEAN /\ pressed \subseteq fingers /\ fingers \subseteq Keys
RestOK ==
    /\ turn \in Handlers \cup {Nobody}
    /\ pressedAt \subseteq Keys /\ mode \in Modes /\ held \in Keys \cup {NoKey} /\ escaped \subseteq Keys
    /\ stop \in {"no", "reader", "worker", "wedged", "done"}

TablesOK == TaskOK /\ RepeatOK /\ HoldOK
LoopOK == AtOK /\ AwaitsOK /\ HandlersHaveKeys
Entries == TablesAreLive /\ EntriesMatch

LEMMA TypeParts == TypeOK <=> TablesOK /\ AtOK /\ AwaitsOK /\ EdgesOK /\ InputOK /\ RestOK
  BY DEF TypeOK, TablesOK, TaskOK, RepeatOK, HoldOK, AtOK, AwaitsOK, EdgesOK, InputOK, RestOK

LEMMA NoTaskIsNone == NoTask \notin TaskIds
  BY DEF NoTask, TaskIds

----------------------------------------------------------------------------
\* Operators.

\* Cancelling makes the given tasks dead and leaves all others as they are.
LEMMA CancelledKills ==
  ASSUME TaskOK, NEW ts, NEW t \in TaskIds
  PROVE  /\ Cancelled(ts) \in [TaskIds -> TaskRecords]
         /\ Cancelled(ts)[t].key = task[t].key /\ Cancelled(ts)[t].kind = task[t].kind
         /\ Cancelled(ts)[t].st \in {"new", "asleep"} <=> Live(t) /\ t \notin ts
         /\ Cancelled(ts)[t].st \in {"new", "asleep"} => Cancelled(ts)[t] = task[t]
  BY DEF Cancelled, Live, TaskOK, TaskRecords

\* CancelAndAwait keeps a handler's place well formed.
LEMMA CancelLoop ==
  ASSUME TaskOK, LoopOK, RestOK, NEW h \in Handlers, NEW ts \in SUBSET TaskIds, NEW next \in Stages,
         next \in {"clearHolds", "act"} => at[h].key \in Keys, next \notin {"stopRepeat", "asleep"},
         CancelAndAwait(h, ts, next)
  PROVE  TaskOK' /\ LoopOK' /\ turn' \in Handlers \cup {Nobody}
<1>1. TaskOK'
  BY CancelledKills DEF CancelAndAwait, TaskOK, Cancelled, Live, TaskRecords
<1>2. QED
  BY <1>1 DEF CancelAndAwait, LoopOK, AtOK, AwaitsOK, HandlersHaveKeys

\* A handler that is done.
LEMMA FinishedLoop ==
  ASSUME AtOK, HandlersHaveKeys, NEW h \in Handlers, Finished(h)
  PROVE  AtOK' /\ HandlersHaveKeys' /\ turn' \in Handlers \cup {Nobody}
  BY DEF Finished, AtOK, HandlersHaveKeys, Idle, Stages

\* A new task is one that was free, and its table has it.
LEMMA NewTaskTables ==
  ASSUME TablesOK, Entries, NEW h \in Handlers, NEW k \in Keys, NEW kind \in {"repeat", "hold"},
         kind = "repeat" => repeatOf[k] = NoTask, kind = "hold" => holdOf[k] = NoTask,
         NewTask(h, kind, k)
  PROVE  TablesOK' /\ Entries'
<1> DEFINE t == CHOOSE t \in FreeTasks : TRUE
           new == [kind |-> kind, key |-> k, st |-> "new", released |-> FALSE,
                   by |-> IF kind = "hold" THEN h ELSE Nobody]
<1>1. t \in FreeTasks
  BY DEF NewTask
<1>2. t \in TaskIds /\ task[t].st = "ended" /\ ~Live(t)
  BY <1>1 DEF FreeTasks, Live
<1>3. task' = [task EXCEPT ![t] = new]
  BY DEF NewTask
<1>4. new \in TaskRecords
  BY DEF TaskRecords
<1> HIDE DEF t
<1>5. TaskOK'
  BY <1>2, <1>3, <1>4 DEF TablesOK, TaskOK
<1>6. CASE kind = "repeat"
  <2>1. repeatOf' = [repeatOf EXCEPT ![k] = t] /\ holdOf' = holdOf
    BY <1>6 DEF NewTask, t
  <2>2. QED
    BY <1>2, <1>3, <1>5, <1>6, <2>1, NoTaskIsNone
    DEF TablesOK, TaskOK, RepeatOK, HoldOK, Entries, TablesAreLive, EntriesMatch, Live
<1>7. CASE kind = "hold"
  <2>1. holdOf' = [holdOf EXCEPT ![k] = t] /\ repeatOf' = repeatOf
    BY <1>7 DEF NewTask, t
  <2>2. QED
    BY <1>2, <1>3, <1>5, <1>7, <2>1, NoTaskIsNone
    DEF TablesOK, TaskOK, RepeatOK, HoldOK, Entries, TablesAreLive, EntriesMatch, Live
<1>8. QED
  BY <1>6, <1>7

----------------------------------------------------------------------------
\* Steps that leave the tables alone, or only note something about a task.

LEMMA TablesStay ==
  ASSUME TablesOK, Entries, UNCHANGED tables
  PROVE  TablesOK' /\ Entries'
  BY DEF TablesOK, Entries, TaskOK, RepeatOK, HoldOK, TablesAreLive, EntriesMatch, Live, tables

LEMMA LoopStays ==
  ASSUME LoopOK, RestOK, UNCHANGED loop
  PROVE  LoopOK' /\ turn' \in Handlers \cup {Nobody}
  BY DEF LoopOK, RestOK, AtOK, AwaitsOK, HandlersHaveKeys, loop

----------------------------------------------------------------------------
\* The invariant, put together from its parts.

LEMMA Together ==
  ASSUME TablesOK', Entries', LoopOK', EdgesOK', InputOK', RestOK'
  PROVE  IInv'
  BY DEF IInv, Entries, LoopOK, TypeOK, TablesOK, TaskOK, RepeatOK, HoldOK, AtOK, AwaitsOK, EdgesOK, InputOK, RestOK

LEMMA Parts ==
  ASSUME IInv
  PROVE  TypeOK /\ TablesOK /\ TaskOK /\ RepeatOK /\ HoldOK /\ Entries /\ LoopOK /\ AtOK /\ AwaitsOK
         /\ HandlersHaveKeys /\ EdgesOK /\ InputOK /\ RestOK
  BY TypeParts DEF IInv, Entries, LoopOK, TablesOK

\* Tasks are cancelled, and what a table has of them goes with them: when all of
\* them were in it, nothing of them is left and nothing else is touched.
LEMMA CancelledEntries ==
  ASSUME TablesOK, Entries, NEW ts \in SUBSET TaskIds, task' = Cancelled(ts),
         \A k \in Keys : repeatOf'[k] = IF repeatOf[k] \in ts THEN NoTask ELSE repeatOf[k],
         \A k \in Keys : holdOf'[k] = IF holdOf[k] \in ts THEN NoTask ELSE holdOf[k]
  PROVE  Entries'
<1>1. TaskOK
  BY DEF TablesOK
<1>2. \A t \in TaskIds : /\ task'[t].key = task[t].key /\ task'[t].kind = task[t].kind
                         /\ Live(t)' <=> Live(t) /\ t \notin ts
  BY <1>1, CancelledKills DEF Live
<1>3. ASSUME NEW k \in Keys, repeatOf'[k] # NoTask
      PROVE  Live(repeatOf[k])' /\ task'[repeatOf'[k]].kind = "repeat" /\ task'[repeatOf'[k]].key = k
  <2>1. repeatOf'[k] = repeatOf[k] /\ repeatOf[k] \in TaskIds /\ repeatOf[k] \notin ts
    BY <1>3 DEF TablesOK, RepeatOK
  <2>2. Live(repeatOf[k]) /\ task[repeatOf[k]].kind = "repeat" /\ task[repeatOf[k]].key = k
    BY <1>3, <2>1 DEF Entries, TablesAreLive, EntriesMatch
  <2>3. /\ task'[repeatOf[k]].key = k /\ task'[repeatOf[k]].kind = "repeat"
        /\ task'[repeatOf[k]].st \in {"new", "asleep"}
    BY <1>2, <2>1, <2>2 DEF Live
  <2>4. QED
    BY <2>1, <2>3 DEF Live
<1>4. ASSUME NEW k \in Keys, holdOf'[k] # NoTask
      PROVE  Live(holdOf[k])' /\ task'[holdOf'[k]].kind = "hold" /\ task'[holdOf'[k]].key = k
  <2>1. holdOf'[k] = holdOf[k] /\ holdOf[k] \in TaskIds /\ holdOf[k] \notin ts
    BY <1>4 DEF TablesOK, HoldOK
  <2>2. Live(holdOf[k]) /\ task[holdOf[k]].kind = "hold" /\ task[holdOf[k]].key = k
    BY <1>4, <2>1 DEF Entries, TablesAreLive, EntriesMatch
  <2>3. /\ task'[holdOf[k]].key = k /\ task'[holdOf[k]].kind = "hold"
        /\ task'[holdOf[k]].st \in {"new", "asleep"}
    BY <1>2, <2>1, <2>2 DEF Live
  <2>4. QED
    BY <2>1, <2>3 DEF Live
<1>5. \A t \in TaskIds : Live(t)' => task'[t].key \in Keys
  BY <1>2 DEF Entries, EntriesMatch
<1>6. ASSUME NEW t \in TaskIds, Live(t)', task'[t].kind = "repeat"
      PROVE  repeatOf'[task'[t].key] = t
  <2>1. Live(t) /\ t \notin ts /\ task[t].kind = "repeat" /\ task'[t].key = task[t].key
    BY <1>2, <1>6
  <2>2. repeatOf[task[t].key] = t /\ task[t].key \in Keys
    BY <2>1 DEF Entries, TablesAreLive, EntriesMatch
  <2>3. QED
    BY <2>1, <2>2
<1>7. QED
  BY <1>3, <1>4, <1>5, <1>6 DEF Entries, TablesAreLive, EntriesMatch

----------------------------------------------------------------------------
\* The steps that cancel tasks.

\* _stop_repeat: a key's repeat.
LEMMA StopRepeatStep ==
  ASSUME IInv, NEW h \in Handlers, StopRepeat(h)
  PROVE  IInv'
<1> DEFINE k == at[h].key
           ts == {repeatOf[k]} \ {NoTask}
<1>1. k \in Keys
  BY Parts DEF StopRepeat, HandlersHaveKeys
<1>2. ts \in SUBSET TaskIds
  BY <1>1, Parts DEF RepeatOK
<1>3. repeatOf' = [repeatOf EXCEPT ![k] = NoTask] /\ holdOf' = holdOf /\ CancelAndAwait(h, ts, "clearHolds")
  BY DEF StopRepeat
<1>4. TaskOK' /\ LoopOK' /\ turn' \in Handlers \cup {Nobody}
  <2> HIDE DEF ts
  <2>1. QED
    BY <1>1, <1>2, <1>3, Parts, CancelLoop DEF Stages
<1>5. RepeatOK' /\ HoldOK'
  BY <1>1, <1>3, Parts DEF RepeatOK, HoldOK
<1>6. task' = Cancelled(ts)
  BY <1>3 DEF CancelAndAwait
<1>7. \A j \in Keys : /\ repeatOf'[j] = IF repeatOf[j] \in ts THEN NoTask ELSE repeatOf[j]
                      /\ holdOf'[j] = IF holdOf[j] \in ts THEN NoTask ELSE holdOf[j]
  <2> HIDE DEF k
  <2>1. QED
    BY <1>1, <1>3, Parts, NoTaskIsNone DEF RepeatOK, HoldOK, Entries, TablesAreLive, EntriesMatch
<1>8. Entries'
  <2> HIDE DEF ts
  <2>1. QED
    BY <1>2, <1>6, <1>7, Parts, CancelledEntries
<1>9. EdgesOK' /\ InputOK' /\ RestOK'
  BY <1>4, Parts DEF StopRepeat, EdgesOK, InputOK, RestOK, input
<1>10. QED
  BY <1>4, <1>5, <1>8, <1>9, Together DEF TablesOK

\* _cancel_hold_tasks: a key's hold.
LEMMA ClearHoldsStep ==
  ASSUME IInv, NEW h \in Handlers, ClearHolds(h)
  PROVE  IInv'
<1> DEFINE k == at[h].key
           ts == {holdOf[k]} \ {NoTask}
<1>1. k \in Keys
  BY Parts DEF ClearHolds, HandlersHaveKeys
<1>2. ts \in SUBSET TaskIds
  BY <1>1, Parts DEF HoldOK
<1>3. holdOf' = [holdOf EXCEPT ![k] = NoTask] /\ repeatOf' = repeatOf /\ CancelAndAwait(h, ts, "act")
  BY DEF ClearHolds
<1>4. TaskOK' /\ LoopOK' /\ turn' \in Handlers \cup {Nobody}
  <2> HIDE DEF ts
  <2>1. QED
    BY <1>1, <1>2, <1>3, Parts, CancelLoop DEF Stages
<1>5. RepeatOK' /\ HoldOK'
  BY <1>1, <1>3, Parts DEF RepeatOK, HoldOK
<1>6. task' = Cancelled(ts)
  BY <1>3 DEF CancelAndAwait
<1>7. \A j \in Keys : /\ repeatOf'[j] = IF repeatOf[j] \in ts THEN NoTask ELSE repeatOf[j]
                      /\ holdOf'[j] = IF holdOf[j] \in ts THEN NoTask ELSE holdOf[j]
  <2> HIDE DEF k
  <2>1. QED
    BY <1>1, <1>3, Parts, NoTaskIsNone DEF RepeatOK, HoldOK, Entries, TablesAreLive, EntriesMatch
<1>8. Entries'
  <2> HIDE DEF ts
  <2>1. QED
    BY <1>2, <1>6, <1>7, Parts, CancelledEntries
<1>9. EdgesOK' /\ InputOK' /\ RestOK'
  BY <1>1, <1>4, Parts DEF ClearHolds, EdgesOK, InputOK, RestOK, input
<1>10. QED
  BY <1>4, <1>5, <1>8, <1>9, Together DEF TablesOK

LEMMA UndispatchedKeys == Undispatched \subseteq Keys
  BY DEF Undispatched

\* on_usb_disconnect: all repeats, then all holds.
LEMMA CancelAllRepeatsStep ==
  ASSUME IInv, CancelAllRepeats
  PROVE  IInv'
<1> DEFINE ts == AllOf(repeatOf)
<1>1. ts \in SUBSET TaskIds
  BY Parts DEF RepeatOK, AllOf
<1>2. /\ repeatOf' = [k \in Keys |-> NoTask] /\ holdOf' = holdOf
      /\ CancelAndAwait("lost", ts, "clearAllHolds")
  BY DEF CancelAllRepeats
<1>3. TaskOK' /\ LoopOK' /\ turn' \in Handlers \cup {Nobody}
  <2> HIDE DEF ts
  <2>1. QED
    BY <1>1, <1>2, Parts, CancelLoop DEF Stages, Handlers
<1>4. RepeatOK' /\ HoldOK'
  BY <1>2, Parts DEF RepeatOK, HoldOK
<1>5. task' = Cancelled(ts)
  BY <1>2 DEF CancelAndAwait
<1>6. \A j \in Keys : /\ repeatOf'[j] = IF repeatOf[j] \in ts THEN NoTask ELSE repeatOf[j]
                      /\ holdOf'[j] = IF holdOf[j] \in ts THEN NoTask ELSE holdOf[j]
  BY <1>2, Parts, NoTaskIsNone DEF AllOf, RepeatOK, HoldOK, Entries, TablesAreLive, EntriesMatch
<1>7. Entries'
  <2> HIDE DEF ts
  <2>1. QED
    BY <1>1, <1>5, <1>6, Parts, CancelledEntries
<1>8. EdgesOK' /\ InputOK' /\ RestOK'
  BY <1>3, Parts, UndispatchedKeys DEF CancelAllRepeats, EdgesOK, InputOK, RestOK, input
<1>9. QED
  BY <1>3, <1>4, <1>7, <1>8, Together DEF TablesOK

LEMMA CancelAllHoldsStep ==
  ASSUME IInv, CancelAllHolds
  PROVE  IInv'
<1> DEFINE ts == AllOf(holdOf)
<1>1. ts \in SUBSET TaskIds
  BY Parts DEF HoldOK, AllOf
<1>2. /\ holdOf' = [k \in Keys |-> NoTask] /\ repeatOf' = repeatOf
      /\ CancelAndAwait("lost", ts, "forget")
  BY DEF CancelAllHolds
<1>3. TaskOK' /\ LoopOK' /\ turn' \in Handlers \cup {Nobody}
  <2> HIDE DEF ts
  <2>1. QED
    BY <1>1, <1>2, Parts, CancelLoop DEF Stages, Handlers
<1>4. RepeatOK' /\ HoldOK'
  BY <1>2, Parts DEF RepeatOK, HoldOK
<1>5. task' = Cancelled(ts)
  BY <1>2 DEF CancelAndAwait
<1>6. \A j \in Keys : /\ repeatOf'[j] = IF repeatOf[j] \in ts THEN NoTask ELSE repeatOf[j]
                      /\ holdOf'[j] = IF holdOf[j] \in ts THEN NoTask ELSE holdOf[j]
  BY <1>2, Parts, NoTaskIsNone DEF AllOf, RepeatOK, HoldOK, Entries, TablesAreLive, EntriesMatch
<1>7. Entries'
  <2> HIDE DEF ts
  <2>1. QED
    BY <1>1, <1>5, <1>6, Parts, CancelledEntries
<1>8. EdgesOK' /\ InputOK' /\ RestOK'
  BY <1>3, Parts DEF CancelAllHolds, EdgesOK, InputOK, RestOK, input
<1>9. QED
  BY <1>3, <1>4, <1>7, <1>8, Together DEF TablesOK

----------------------------------------------------------------------------
\* The steps that begin, mark and end tasks.

\* A press: the worker's handler is done, a tap's waits.
LEMMA ActDownStep ==
  ASSUME IInv, NEW h \in Handlers, ActDown(h)
  PROVE  IInv'
<1> DEFINE k == at[h].key
           does == KeyAction[mode][k]
<1>1. k \in Keys
  BY Parts DEF ActDown, HandlersHaveKeys
<1>2. TablesOK' /\ Entries'
  <2>1. CASE does = "hold" /\ holdOf[k] = NoTask /\ NewTask(h, "hold", k)
    BY <1>1, <2>1, Parts, NewTaskTables
  <2>2. CASE k \in RepeatKeys /\ repeatOf[k] = NoTask /\ NewTask(h, "repeat", k)
    BY <1>1, <2>2, Parts, NewTaskTables
  <2>3. CASE UNCHANGED <<task, repeatOf, holdOf>>
    BY <2>3, Parts DEF TablesOK, TaskOK, RepeatOK, HoldOK, Entries, TablesAreLive, EntriesMatch, Live
  <2>4. QED
    BY <2>1, <2>2, <2>3 DEF ActDown
<1>3. AtOK' /\ HandlersHaveKeys' /\ turn' \in Handlers \cup {Nobody}
  <2>1. CASE Finished(h)
    BY <2>1, Parts, FinishedLoop
  <2>2. CASE at' = [at EXCEPT ![h].stage = "asleep"] /\ turn' = Nobody
    BY <1>1, <2>2, Parts DEF AtOK, HandlersHaveKeys, Stages
  <2>3. QED
    BY <2>1, <2>2 DEF ActDown
<1>4. AwaitsOK' /\ EdgesOK' /\ InputOK' /\ RestOK'
  BY <1>1, <1>3, Parts DEF ActDown, AwaitsOK, EdgesOK, InputOK, RestOK, input
<1>5. QED
  BY <1>2, <1>3, <1>4, Together DEF LoopOK

\* A release notes itself at the tasks alive; it neither begins nor ends one.
LEMMA ActUpStep ==
  ASSUME IInv, NEW h \in Handlers, ActUp(h)
  PROVE  IInv'
<1>1. at[h].key \in Keys
  BY Parts DEF ActUp, HandlersHaveKeys
<1>2. TaskOK'
  BY Parts DEF ActUp, TaskOK, TaskRecords
<1>3. \A t \in TaskIds : task'[t].key = task[t].key /\ task'[t].kind = task[t].kind /\ task'[t].st = task[t].st
  BY Parts DEF ActUp, TaskOK, TaskRecords
<1>4. RepeatOK' /\ HoldOK' /\ repeatOf' = repeatOf /\ holdOf' = holdOf
  BY Parts DEF ActUp, RepeatOK, HoldOK
<1>5. Entries'
  BY <1>3, <1>4, Parts DEF Entries, TablesAreLive, EntriesMatch, Live, RepeatOK, HoldOK
<1>6. AtOK' /\ HandlersHaveKeys' /\ turn' \in Handlers \cup {Nobody}
  BY Parts, FinishedLoop DEF ActUp
<1>7. AwaitsOK' /\ EdgesOK' /\ InputOK' /\ RestOK'
  BY <1>1, <1>6, Parts DEF ActUp, AwaitsOK, EdgesOK, InputOK, RestOK, input
<1>8. QED
  BY <1>2, <1>4, <1>5, <1>6, <1>7, Together DEF LoopOK, TablesOK

LEMMA TaskStartsStep ==
  ASSUME IInv, NEW t \in TaskIds, TaskStarts(t)
  PROVE  IInv'
<1>1. TaskOK' /\ RepeatOK' /\ HoldOK'
  BY Parts DEF TaskStarts, TaskOK, TaskRecords, RepeatOK, HoldOK
<1>2. \A u \in TaskIds : /\ task'[u].key = task[u].key /\ task'[u].kind = task[u].kind
                         /\ Live(u)' <=> Live(u)
  BY Parts DEF TaskStarts, TaskOK, TaskRecords, Live
<1>3. repeatOf' = repeatOf /\ holdOf' = holdOf
  BY DEF TaskStarts
<1>4. Entries'
  BY <1>2, <1>3, Parts DEF Entries, TablesAreLive, EntriesMatch, RepeatOK, HoldOK, Live
<1>5. LoopOK' /\ turn' \in Handlers \cup {Nobody}
  BY Parts, LoopStays DEF TaskStarts
<1>6. EdgesOK' /\ InputOK' /\ RestOK'
  BY <1>5, Parts DEF TaskStarts, EdgesOK, InputOK, RestOK, input
<1>7. QED
  BY <1>1, <1>4, <1>5, <1>6, Together DEF TablesOK

\* A task that is cancelled or a hold that fires ends; the repeats' table stays.
LEMMA TaskEnds ==
  ASSUME IInv, NEW t \in TaskIds, turn = Nobody,
         task' = [task EXCEPT ![t] = NoTaskRecord],
         repeatOf' = repeatOf, ~Live(t) \/ task[t].kind = "hold",
         holdOf' = holdOf \/ holdOf' = [holdOf EXCEPT ![task[t].key] = NoTask],
         Live(t) => holdOf' = [holdOf EXCEPT ![task[t].key] = NoTask],
         UNCHANGED <<input, edges, loop, pressedAt, mode, held, escaped, stop>>
  PROVE  IInv'
<1>1. TaskOK'
  BY Parts DEF TaskOK, TaskRecords, NoTaskRecord
<1>2. RepeatOK' /\ HoldOK'
  BY Parts DEF RepeatOK, HoldOK
<1>3. /\ \A u \in TaskIds : u # t => task'[u] = task[u]
      /\ task'[t].st = "ended"
  BY Parts DEF TaskOK, NoTaskRecord
<1>4. \A k \in Keys : repeatOf'[k] # t /\ holdOf'[k] # t
  BY Parts, NoTaskIsNone DEF Entries, TablesAreLive, EntriesMatch, RepeatOK, HoldOK
<1>5. \A k \in Keys : holdOf'[k] = holdOf[k] \/ holdOf'[k] = NoTask
  BY Parts DEF HoldOK
<1>6. Entries'
  BY <1>2, <1>3, <1>4, <1>5, Parts DEF Entries, TablesAreLive, EntriesMatch, RepeatOK, HoldOK, Live
<1>7. LoopOK' /\ turn' \in Handlers \cup {Nobody}
  BY Parts, LoopStays
<1>8. EdgesOK' /\ InputOK' /\ RestOK'
  BY <1>7, Parts DEF EdgesOK, InputOK, RestOK, input
<1>9. QED
  BY <1>1, <1>2, <1>6, <1>7, <1>8, Together DEF TablesOK

LEMMA TaskUnwindsStep ==
  ASSUME IInv, NEW t \in TaskIds, TaskUnwinds(t)
  PROVE  IInv'
  BY TaskEnds DEF TaskUnwinds, Live

LEMMA HoldFiresStep ==
  ASSUME IInv, NEW t \in TaskIds, HoldFires(t)
  PROVE  IInv'
  BY TaskEnds DEF HoldFires, Live

----------------------------------------------------------------------------
\* The steps that leave the tables alone.

\* _emit never puts more into the queue than fits.
LEMMA EmitFits ==
  ASSUME EdgesOK, escaped \subseteq Keys, NEW k \in Keys, NEW edge \in {"down", "up"}, Emit(k, edge)
  PROVE  EdgesOK' /\ escaped' \subseteq Keys
<1>1. <<k, edge>> \in Edges \cup {Goodbye}
  BY DEF Edges
<1>2. CASE edges' = Append(edges, <<k, edge>>) /\ UNCHANGED escaped /\ Len(edges) < EdgeQueueMax
  BY <1>1, <1>2, BoundsAssumption DEF EdgesOK
<1>3. CASE UNCHANGED edges /\ escaped' = IF edge = "up" THEN escaped \cup {k} ELSE escaped
  BY <1>3 DEF EdgesOK
<1>4. QED
  BY <1>2, <1>3 DEF Emit

LEMMA ReadsStep ==
  ASSUME IInv, NEW k \in Keys, KeyDown(k) \/ KeyUp(k)
  PROVE  IInv'
<1>1. UNCHANGED tables /\ UNCHANGED loop
  BY DEF KeyDown, KeyUp
<1>2. TablesOK' /\ Entries' /\ LoopOK' /\ turn' \in Handlers \cup {Nobody}
  BY <1>1, Parts, TablesStay, LoopStays
<1>3. EdgesOK' /\ escaped' \subseteq Keys
  <2>1. CASE Emit(k, "down") \/ Emit(k, "up")
    BY <2>1, Parts, EmitFits DEF RestOK
  <2>2. CASE UNCHANGED <<edges, escaped>>
    BY <2>2, Parts DEF EdgesOK, RestOK
  <2>3. QED
    BY <2>1, <2>2 DEF KeyDown, KeyUp
<1>4. InputOK'
  BY Parts DEF KeyDown, KeyUp, InputOK
<1>5. RestOK'
  BY <1>1, <1>2, <1>3, Parts DEF KeyDown, KeyUp, RestOK, tables
<1>6. QED
  BY <1>2, <1>3, <1>4, <1>5, Together

\* The worker takes an edge that is not the goodbye, and so has a key.
LEMMA WorkerTakesStep ==
  ASSUME IInv, WorkerTakes
  PROVE  IInv'
<1> DEFINE e == Head(edges)
<1>1. edges # << >> /\ edges \in Seq(Edges \cup {Goodbye}) /\ Len(edges) <= EdgeQueueMax
  BY Parts DEF WorkerTakes, WorkerWoken, EdgesOK
<1>2. e \in Edges \cup {Goodbye}
  BY <1>1
<1>3. EdgesOK'
  <2>1. edges' = Tail(edges)
    BY DEF WorkerTakes
  <2>2. QED
    BY <1>1, <2>1, BoundsAssumption DEF EdgesOK
<1>4. TablesOK' /\ Entries'
  BY Parts, TablesStay DEF WorkerTakes
<1>5. AtOK' /\ HandlersHaveKeys' /\ turn' \in Handlers \cup {Nobody}
  <2>1. CASE e = Goodbye
    BY <2>1, Parts DEF WorkerTakes, AtOK, HandlersHaveKeys
  <2>2. CASE e # Goodbye
    <3>1. e[1] \in Keys /\ e[2] \in {"down", "up"}
      BY <1>2, <2>2 DEF Edges
    <3>2. /\ turn' = "worker"
          /\ at' = [at EXCEPT !["worker"] =
                      [stage |-> IF e[2] = "down" THEN "clearHolds" ELSE "stopRepeat",
                       key |-> e[1], edge |-> e[2]]]
      BY <2>2 DEF WorkerTakes
    <3> HIDE DEF e
    <3>3. QED
      BY <3>1, <3>2, Parts DEF AtOK, HandlersHaveKeys, Stages, Handlers
  <2>3. QED
    BY <2>1, <2>2
<1>6. AwaitsOK' /\ InputOK'
  BY Parts DEF WorkerTakes, AwaitsOK, InputOK, input
<1>7. RestOK'
  BY <1>5, Parts DEF WorkerTakes, RestOK, tables
<1>8. QED
  BY <1>3, <1>4, <1>5, <1>6, <1>7, Together DEF LoopOK

LEMMA TapStep ==
  ASSUME IInv, (\E k \in Keys : TapDown(k)) \/ TapUp
  PROVE  IInv'
<1>1. TablesOK' /\ Entries'
  BY Parts, TablesStay DEF TapDown, TapUp
<1>2. AtOK' /\ HandlersHaveKeys' /\ turn' = "tap"
  <2>1. ASSUME NEW k \in Keys, TapDown(k) PROVE AtOK' /\ HandlersHaveKeys' /\ turn' = "tap"
    BY <2>1, Parts DEF TapDown, AtOK, HandlersHaveKeys, Stages, Handlers
  <2>2. CASE TapUp
    BY <2>2, Parts DEF TapUp, AtOK, HandlersHaveKeys, Stages, Handlers
  <2>3. QED
    BY <2>1, <2>2
<1>3. AwaitsOK' /\ EdgesOK' /\ InputOK'
  BY Parts DEF TapDown, TapUp, AwaitsOK, EdgesOK, InputOK, input
<1>4. RestOK'
  BY <1>2, Parts DEF TapDown, TapUp, RestOK, tables, Handlers
<1>5. QED
  BY <1>1, <1>2, <1>3, <1>4, Together DEF LoopOK

\* The device, the end of a loss, a handler that resumes, the mode and the end.
LEMMA OtherStep ==
  ASSUME IInv,
         \/ DeviceGone \/ DeviceBack \/ ForgetPresses \/ StopReader
         \/ \E h \in Handlers : Resumes(h)
         \/ \E m \in Modes : SetModeBindings(m)
  PROVE  IInv'
<1>1. TablesOK' /\ Entries'
  <2>1. UNCHANGED <<task, repeatOf, holdOf>>
    BY DEF DeviceGone, DeviceBack, ForgetPresses, StopReader, Resumes, SetModeBindings, tables
  <2>2. QED
    BY <2>1, Parts DEF TablesOK, TaskOK, RepeatOK, HoldOK, Entries, TablesAreLive, EntriesMatch, Live
<1>2. LoopOK' /\ turn' \in Handlers \cup {Nobody}
  <2>1. CASE DeviceGone
    BY <2>1, Parts DEF DeviceGone, LoopOK, AtOK, AwaitsOK, HandlersHaveKeys, Stages, Handlers, RestOK
  <2>2. CASE DeviceBack \/ StopReader \/ \E m \in Modes : SetModeBindings(m)
    BY <2>2, Parts, LoopStays DEF DeviceBack, StopReader, SetModeBindings
  <2>3. CASE ForgetPresses
    <3>1. Finished("lost") /\ "lost" \in Handlers /\ awaits' = awaits
      BY <2>3 DEF ForgetPresses, Handlers
    <3>2. QED
      BY <3>1, Parts, FinishedLoop DEF LoopOK, AwaitsOK
  <2>4. CASE \E h \in Handlers : Resumes(h)
    BY <2>4, Parts DEF Resumes, LoopOK, AtOK, AwaitsOK, HandlersHaveKeys
  <2>5. QED
    BY <2>1, <2>2, <2>3, <2>4
<1>3. EdgesOK' /\ InputOK'
  BY Parts DEF DeviceGone, DeviceBack, ForgetPresses, StopReader, Resumes, SetModeBindings, EdgesOK, InputOK, input
<1>4. RestOK'
  BY <1>2, Parts
  DEF DeviceGone, DeviceBack, ForgetPresses, StopReader, Resumes, SetModeBindings, RestOK, tables
<1>5. QED
  BY <1>1, <1>2, <1>3, <1>4, Together

LEMMA StopWorkerStep ==
  ASSUME IInv, StopWorker
  PROVE  IInv'
<1>1. TablesOK' /\ Entries'
  BY Parts, TablesStay DEF StopWorker
<1>2. LoopOK' /\ turn' \in Handlers \cup {Nobody}
  BY Parts DEF StopWorker, LoopOK, AtOK, AwaitsOK, HandlersHaveKeys, RestOK, Handlers
<1>3. EdgesOK'
  <2>1. edges' = edges \/ edges' = << >> \/ (Len(edges) < EdgeQueueMax /\ edges' = Append(edges, Goodbye))
    BY DEF StopWorker
  <2>2. CASE edges' = edges
    BY <2>2, Parts DEF EdgesOK
  <2>3. CASE edges' = << >>
    BY <2>3, BoundsAssumption DEF EdgesOK
  <2>4. CASE Len(edges) < EdgeQueueMax /\ edges' = Append(edges, Goodbye)
    BY <2>4, Parts, BoundsAssumption DEF EdgesOK
  <2>5. QED
    BY <2>1, <2>2, <2>3, <2>4
<1>4. InputOK'
  BY Parts DEF StopWorker, InputOK, input
<1>5. RestOK'
  BY <1>2, Parts DEF StopWorker, RestOK, tables
<1>6. QED
  BY <1>1, <1>2, <1>3, <1>4, <1>5, Together

----------------------------------------------------------------------------
\* The invariant.

LEMMA InitHolds == Init => IInv
<1> SUFFICES ASSUME Init PROVE IInv
  OBVIOUS
<1>1. TypeOK
  BY BoundsAssumption DEF Init, TypeOK, Handlers, Idle, Stages, TaskRecords, NoTaskRecord, Nobody
<1>2. TablesAreLive /\ EntriesMatch /\ HandlersHaveKeys
  BY NoTaskIsNone DEF Init, TablesAreLive, EntriesMatch, HandlersHaveKeys, Live, NoTaskRecord, Idle
<1>3. QED
  BY <1>1, <1>2 DEF IInv

LEMMA StepHolds == IInv /\ [Next]_vars => IInv'
<1> SUFFICES ASSUME IInv, [Next]_vars PROVE IInv'
  OBVIOUS
<1>1. CASE \E k \in Keys : KeyDown(k) \/ KeyUp(k)
  BY <1>1, ReadsStep
<1>2. CASE (\E k \in Keys : TapDown(k)) \/ TapUp
  BY <1>2, TapStep
<1>3. CASE WorkerTakes
  BY <1>3, WorkerTakesStep
<1>4. CASE \E h \in Handlers : StopRepeat(h) \/ ClearHolds(h)
  BY <1>4, StopRepeatStep, ClearHoldsStep
<1>5. CASE \E h \in Handlers : ActDown(h) \/ ActUp(h)
  BY <1>5, ActDownStep, ActUpStep
<1>6. CASE CancelAllRepeats \/ CancelAllHolds
  BY <1>6, CancelAllRepeatsStep, CancelAllHoldsStep
<1>7. CASE \E t \in TaskIds : TaskStep(t)
  BY <1>7, TaskStartsStep, TaskUnwindsStep, HoldFiresStep DEF TaskStep
<1>8. CASE \/ DeviceGone \/ DeviceBack \/ ForgetPresses \/ StopReader
           \/ \E h \in Handlers : Resumes(h)
           \/ \E m \in Modes : SetModeBindings(m)
  BY <1>8, OtherStep
<1>9. CASE StopWorker
  BY <1>9, StopWorkerStep
<1>10. CASE UNCHANGED vars
  <2>1. TablesOK' /\ Entries' /\ LoopOK'
    <3>1. UNCHANGED tables /\ UNCHANGED loop
      BY <1>10 DEF vars
    <3>2. QED
      BY <3>1, Parts, TablesStay, LoopStays
  <2>2. EdgesOK' /\ InputOK' /\ RestOK'
    BY <1>10, Parts DEF vars, EdgesOK, InputOK, RestOK, input, loop, tables
  <2>3. QED
    BY <2>1, <2>2, Together
<1>11. QED
  BY <1>1, <1>2, <1>3, <1>4, <1>5, <1>6, <1>7, <1>8, <1>9, <1>10
  DEF Next, HandlerStep, LostStep, StopStep

LEMMA IInvHolds == Spec => []IInv
  BY InitHolds, StepHolds, PTL DEF Spec

\* Type correctness of the path from the remote to the dispatcher (KeyPath's
\* TypeOK), of any size.
THEOREM TypesHold == Spec => []TypeOK
<1>1. IInv => TypeOK
  BY DEF IInv
<1>2. QED
  BY <1>1, IInvHolds, PTL

\* No dead entry keeps a key from repeating or holding again, and no live repeat
\* is missing from the table that is needed to stop it (KeyPath's TablesAreLive),
\* whichever way edges, taps, losses and tasks that unwind late interleave.
THEOREM TablesStayLive == Spec => []TablesAreLive
<1>1. IInv => TablesAreLive
  BY DEF IInv
<1>2. QED
  BY <1>1, IInvHolds, PTL

----------------------------------------------------------------------------
\* No stuck key: the parts of KInv, step by step.

Owners == PressesOwned /\ RepeatsOwned /\ PressedOwned /\ HeldBound
OwnersOK == LossInPlace /\ (stop = "no" => Owners)

LEMMA KParts ==
  ASSUME KInv
  PROVE  IInv /\ TypeOK /\ HandlersHaveKeys /\ LossInPlace /\ (stop = "no" => Owners)
  BY Parts DEF KInv, Owners

LEMMA NoKeyIsNone == NoKey \notin Keys
  BY KeysAssumption DEF NoKey

\* An owner's claim outlives a step that keeps its parts and those of the queue.
LEMMA OwnersStay ==
  ASSUME KInv, UNCHANGED <<pressed, open, edges, at, repeatOf, pressedAt, mode, held, escaped, stop>>
  PROVE  OwnersOK'
  BY KParts DEF OwnersOK, Owners, LossInPlace, PressesOwned, RepeatsOwned, PressedOwned, HeldBound,
                Owned, UpAfter, WillStop, ReleaseOwed, Idle

LEMMA QuietOwners ==
  ASSUME KInv,
         (\E h \in Handlers : Resumes(h)) \/ (\E t \in TaskIds : TaskStep(t)) \/ UNCHANGED vars
  PROVE  OwnersOK'
<1>1. UNCHANGED <<pressed, open, edges, at, repeatOf, pressedAt, mode, held, escaped, stop>>
  BY DEF Resumes, TaskStep, TaskStarts, TaskUnwinds, HoldFires, vars, input, loop, tables
<1>2. QED
  BY <1>1, OwnersStay

\* The end is past the property.
LEMMA StopOwners ==
  ASSUME KInv, StopReader \/ StopWorker
  PROVE  OwnersOK'
  BY KParts DEF OwnersOK, LossInPlace, StopReader, StopWorker, input, loop, Idle

\* A key goes down: its reader owes the release.
LEMMA KeyDownOwners ==
  ASSUME KInv, NEW k \in Keys, KeyDown(k)
  PROVE  OwnersOK'
<1>1. stop = "no" /\ open /\ Owners /\ LossInPlace /\ TypeOK
  BY KParts DEF KeyDown, Reading
<1>2. /\ pressed' = pressed \cup {k} /\ UNCHANGED <<open, at, repeatOf, pressedAt, mode, held, stop>>
  BY DEF KeyDown, loop, tables
<1>3. edges \in Seq(Edges \cup {Goodbye}) /\ escaped' = escaped
  BY <1>1 DEF KeyDown, Emit, TypeOK
<1>4. \/ edges' = edges
      \/ /\ Len(edges') = Len(edges) + 1 /\ edges'[Len(edges) + 1] = <<k, "down">>
         /\ \A i \in 1..Len(edges) : edges'[i] = edges[i]
  BY <1>3 DEF KeyDown, Emit
<1>5. Len(edges) \in Nat /\ Len(edges') \in Nat /\ Len(edges') >= Len(edges)
  BY <1>3, <1>4
<1>6. \A j \in Keys : \A i \in Nat : UpAfter(j, i) => UpAfter(j, i)'
  BY <1>4, <1>5 DEF UpAfter
<1>7. \A j \in Keys : (Owned(j) => Owned(j)') /\ Owned(k)' /\ (ReleaseOwed(j) => ReleaseOwed(j)')
  BY <1>2, <1>3, <1>4, <1>5 DEF Owned, ReleaseOwed
<1>8. PressesOwned'
  BY <1>1, <1>2, <1>4, <1>5, <1>6, <1>7 DEF Owners, PressesOwned
<1>9. RepeatsOwned' /\ PressedOwned' /\ HeldBound'
  BY <1>1, <1>2, <1>3, <1>6, <1>7 DEF Owners, RepeatsOwned, PressedOwned, HeldBound, WillStop
<1>10. LossInPlace'
  BY <1>1, <1>2 DEF LossInPlace, Idle
<1>11. QED
  BY <1>8, <1>9, <1>10 DEF OwnersOK, Owners

\* A key comes up: its release is in the queue, or has escaped.
LEMMA KeyUpOwners ==
  ASSUME KInv, NEW k \in Keys, KeyUp(k)
  PROVE  OwnersOK'
<1>1. stop = "no" /\ Owners /\ LossInPlace /\ TypeOK
  BY KParts DEF KeyUp
<1>2. /\ pressed' = pressed \ {k} /\ UNCHANGED <<open, at, repeatOf, pressedAt, mode, held, stop>>
  BY DEF KeyUp, loop, tables
<1>3. edges \in Seq(Edges \cup {Goodbye})
  BY <1>1 DEF TypeOK
<1>4. LossInPlace'
  BY <1>1, <1>2 DEF LossInPlace, Idle
<1>5. CASE UNCHANGED <<edges, escaped>> /\ ~open
  <2>1. pressed' = pressed
    BY <1>1, <1>2, <1>5 DEF LossInPlace
  <2>2. QED
    BY <1>2, <1>5, <2>1, OwnersStay
<1>6. CASE Emit(k, "up") /\ Len(edges) < EdgeQueueMax
  <2>1. /\ Len(edges') = Len(edges) + 1 /\ edges'[Len(edges) + 1] = <<k, "up">> /\ escaped' = escaped
        /\ \A i \in 1..Len(edges) : edges'[i] = edges[i]
    BY <1>3, <1>6 DEF Emit
  <2>2. Len(edges) \in Nat
    BY <1>3
  <2>3. \A j \in Keys : \A i \in 0..Len(edges) : (UpAfter(j, i) => UpAfter(j, i)') /\ UpAfter(k, i)'
    BY <2>1, <2>2 DEF UpAfter
  <2>4. \A j \in Keys : j # k => (Owned(j) => Owned(j)') /\ (ReleaseOwed(j) => ReleaseOwed(j)')
    BY <1>2, <2>1, <2>2 DEF Owned, ReleaseOwed
  <2>5. ReleaseOwed(k)'
    BY <2>1, <2>2 DEF ReleaseOwed
  <2>6. PressesOwned'
    <3>1. \A i \in 1..Len(edges') : edges'[i] = <<k, "down">> => i \in 1..Len(edges)
      BY <2>1, <2>2
    <3>2. \A j \in Keys : \A i \in 1..Len(edges') : edges'[i] = <<j, "down">> => i \in 1..Len(edges)
      BY <2>1, <2>2
    <3>3. QED
      BY <1>1, <1>2, <2>1, <2>2, <2>3, <2>4, <3>2 DEF Owners, PressesOwned
  <2>7. RepeatsOwned'
    BY <1>1, <1>2, <2>2, <2>3, <2>4 DEF Owners, RepeatsOwned, WillStop
  <2>8. PressedOwned' /\ HeldBound'
    BY <1>1, <1>2, <2>1, <2>4, <2>5 DEF Owners, PressedOwned, HeldBound
  <2>9. QED
    BY <1>4, <2>6, <2>7, <2>8 DEF OwnersOK, Owners
<1>7. CASE Emit(k, "up") /\ ~(Len(edges) < EdgeQueueMax)
  <2>1. edges' = edges /\ escaped' = escaped \cup {k}
    BY <1>7 DEF Emit
  <2>2. \A j \in Keys : Owned(j) => Owned(j)'
    BY <1>2, <2>1 DEF Owned
  <2>3. \A j \in Keys : ReleaseOwed(j) \/ j \in escaped => ReleaseOwed(j)' \/ j \in escaped'
    BY <1>2, <2>1 DEF ReleaseOwed
  <2>4. PressesOwned' /\ RepeatsOwned' /\ PressedOwned' /\ HeldBound'
    BY <1>1, <1>2, <2>1, <2>2, <2>3
    DEF Owners, PressesOwned, RepeatsOwned, PressedOwned, HeldBound, UpAfter, WillStop
  <2>5. QED
    BY <1>4, <2>4 DEF OwnersOK, Owners
<1>8. QED
  BY <1>5, <1>6, <1>7 DEF KeyUp

LEMMA DeviceOwners ==
  ASSUME KInv, DeviceGone \/ DeviceBack
  PROVE  OwnersOK'
<1>1. stop = "no" /\ Owners /\ LossInPlace /\ TypeOK
  BY KParts DEF DeviceGone, DeviceBack, Reading
<1>2. CASE DeviceGone
  <2>1. /\ pressed' = {} /\ open' = FALSE /\ at' = [at EXCEPT !["lost"].stage = "due"]
        /\ UNCHANGED <<edges, repeatOf, pressedAt, mode, held, escaped, stop>>
    BY <1>2 DEF DeviceGone, tables
  <2>2. /\ at'["lost"].stage = "due" /\ at'["lost"] # Idle
        /\ at'["worker"] = at["worker"] /\ at'["tap"] = at["tap"]
    BY <1>1, <2>1 DEF TypeOK, Handlers, Idle
  <2>3. \A k \in Keys : Owned(k)' /\ ReleaseOwed(k)'
    BY <2>2 DEF Owned, ReleaseOwed, Idle
  <2>4. LossInPlace'
    BY <2>1, <2>2 DEF LossInPlace
  <2>5. QED
    BY <1>1, <2>1, <2>3, <2>4 DEF OwnersOK, Owners, PressesOwned, RepeatsOwned, PressedOwned, HeldBound
<1>3. CASE DeviceBack
  <2>1. /\ open' /\ at["lost"] = Idle
        /\ UNCHANGED <<pressed, edges, at, repeatOf, pressedAt, mode, held, escaped, stop>>
    BY <1>3 DEF DeviceBack, loop, tables
  <2>2. LossInPlace'
    BY <1>1, <2>1 DEF LossInPlace, Idle
  <2>3. QED
    BY <1>1, <2>1, <2>2 DEF OwnersOK, Owners, PressesOwned, RepeatsOwned, PressedOwned, HeldBound,
                            Owned, UpAfter, WillStop, ReleaseOwed, Idle
<1>4. QED
  BY <1>2, <1>3

\* The worker has the edge it took in its hands; what was behind it still is.
LEMMA WorkerTakesOwners ==
  ASSUME KInv, WorkerTakes
  PROVE  OwnersOK'
<1> DEFINE e == Head(edges)
<1>1. Owners \/ stop # "no"
  BY KParts
<1>2. LossInPlace /\ TypeOK /\ edges # << >> /\ edges \in Seq(Edges \cup {Goodbye})
  BY KParts DEF WorkerTakes, WorkerWoken, TypeOK
<1>3. at["worker"] = Idle /\ edges' = Tail(edges)
      /\ UNCHANGED <<pressed, open, repeatOf, pressedAt, mode, held, escaped>>
  BY DEF WorkerTakes, WorkerWoken, tables, input
<1>4. Len(edges) \in Nat \ {0} /\ Len(edges') = Len(edges) - 1 /\ edges[1] = e
      /\ \A i \in 1..Len(edges') : edges'[i] = edges[i + 1]
  BY <1>2, <1>3
<1>5. CASE e = Goodbye
  BY <1>2, <1>3, <1>5 DEF WorkerTakes, OwnersOK, LossInPlace, Idle
<1>6. CASE e # Goodbye
  <2>1. e \in Edges
    BY <1>2, <1>6
  <2>2. e[1] \in Keys /\ e[2] \in {"down", "up"} /\ e = <<e[1], e[2]>>
    BY <2>1 DEF Edges
  <2>3. stop' = stop
    BY <1>6 DEF WorkerTakes
  <2>4. /\ at'["worker"].key = e[1] /\ at'["worker"].edge = e[2]
        /\ at'["worker"].stage = IF e[2] = "down" THEN "clearHolds" ELSE "stopRepeat"
        /\ at'["tap"] = at["tap"] /\ at'["lost"] = at["lost"]
    BY <1>2, <1>6 DEF WorkerTakes, TypeOK, Handlers
  <2> HIDE DEF e
  <2>5. LossInPlace'
    BY <1>2, <1>3, <2>4 DEF LossInPlace, Idle
  <2>6. ASSUME NEW k \in Keys, NEW i \in 0..Len(edges'), UpAfter(k, i + 1)
        PROVE  UpAfter(k, i)'
    <3>1. PICK j \in i + 2..Len(edges) : edges[j] = <<k, "up">>
      BY <2>6 DEF UpAfter
    <3>2. j - 1 \in i + 1..Len(edges') /\ edges'[j - 1] = edges[j]
      BY <1>4, <3>1
    <3>3. QED
      BY <3>1, <3>2 DEF UpAfter
  <2>7. ASSUME NEW k \in Keys
        PROVE  /\ Owned(k)' <=> Owned(k)
               /\ UpAfter(k, 0) => UpAfter(k, 0)' \/ (e[1] = k /\ e[2] = "up")
    <3>1. Owned(k)' <=> Owned(k)
      BY <1>3, <2>4 DEF Owned
    <3>2. ASSUME UpAfter(k, 0), ~(e[1] = k /\ e[2] = "up") PROVE UpAfter(k, 0)'
      <4>1. PICK j \in 1..Len(edges) : edges[j] = <<k, "up">>
        BY <3>2 DEF UpAfter
      <4>2. j # 1
        BY <1>4, <2>2, <3>2, <4>1
      <4>3. UpAfter(k, 1)
        BY <1>4, <4>1, <4>2 DEF UpAfter
      <4>4. QED
        BY <1>4, <2>6, <4>3
    <3>3. QED
      BY <3>1, <3>2
  <2>8. SUFFICES ASSUME stop = "no" PROVE Owners'
    BY <2>3, <2>5 DEF OwnersOK
  <2>9. PressesOwned'
    <3>1. ASSUME NEW k \in Keys, NEW i \in 1..Len(edges'), edges'[i] = <<k, "down">>
          PROVE  UpAfter(k, i)' \/ Owned(k)'
      <4>1. i + 1 \in 1..Len(edges) /\ edges[i + 1] = <<k, "down">>
        BY <1>4, <3>1
      <4>2. UpAfter(k, i + 1) \/ Owned(k)
        BY <1>1, <2>8, <4>1 DEF Owners, PressesOwned
      <4>3. QED
        BY <1>4, <2>6, <2>7, <4>2
    <3>2. ASSUME NEW k \in Keys, e[1] = k, e[2] = "down"
          PROVE  UpAfter(k, 0)' \/ Owned(k)'
      <4>1. 1 \in 1..Len(edges) /\ edges[1] = <<k, "down">>
        BY <1>4, <2>2, <3>2
      <4>2. UpAfter(k, 1) \/ Owned(k)
        BY <1>1, <2>8, <4>1 DEF Owners, PressesOwned
      <4>3. QED
        BY <1>4, <2>6, <2>7, <4>2
    <3>3. QED
      BY <2>4, <3>1, <3>2 DEF PressesOwned
  <2>10. RepeatsOwned'
    BY <1>1, <1>3, <2>4, <2>7, <2>8 DEF Owners, RepeatsOwned, WillStop, Idle, NoKey
  <2>11. PressedOwned'
    <3>1. ASSUME NEW k \in Keys, ReleaseOwed(k) PROVE ReleaseOwed(k)'
      <4>1. at["worker"].key # k
        BY <1>3, NoKeyIsNone DEF Idle
      <4>2. UpAfter(k, 0) => ReleaseOwed(k)'
        <5>1. UpAfter(k, 0)' => ReleaseOwed(k)'
          BY <1>4 DEF UpAfter, ReleaseOwed
        <5>2. e[1] = k /\ e[2] = "up" => ReleaseOwed(k)'
          BY <2>4 DEF ReleaseOwed
        <5>3. QED
          BY <2>7, <5>1, <5>2
      <4>3. CASE UpAfter(k, 0)
        BY <4>2, <4>3
      <4>4. CASE ~UpAfter(k, 0)
        <5>1. k \in pressed \/ at["tap"].key = k \/ at["lost"] # Idle
          BY <3>1, <4>1, <4>4 DEF UpAfter, ReleaseOwed
        <5>2. QED
          BY <1>3, <2>4, <5>1 DEF ReleaseOwed
      <4>5. QED
        BY <4>3, <4>4
    <3>2. QED
      BY <1>1, <1>3, <2>8, <3>1 DEF Owners, PressedOwned
  <2>12. HeldBound'
    BY <1>1, <1>3, <2>8 DEF Owners, HeldBound
  <2>13. QED
    BY <2>9, <2>10, <2>11, <2>12 DEF Owners
<1>7. QED
  BY <1>5, <1>6

\* Only the worker and a tap go through on_usb_edge.
LEMMA HandlesEdges ==
  ASSUME KInv, NEW h \in Handlers, at[h].stage \in {"stopRepeat", "clearHolds", "act"}
  PROVE  h \in {"worker", "tap"} /\ at[h].key \in Keys
  BY KParts DEF LossInPlace, Idle, Handlers, HandlersHaveKeys

\* A handler that goes from one part of on_usb_edge to the next.
LEMMA MovesOn ==
  ASSUME KInv, NEW h \in {"worker", "tap"}, NEW next, at' = [at EXCEPT ![h].stage = next],
         UNCHANGED <<pressed, open, edges, mode, held, escaped, stop>>
  PROVE  /\ LossInPlace' /\ (stop = "no" => PressesOwned') /\ (HeldBound => HeldBound')
         /\ \A g \in Handlers : at'[g].key = at[g].key /\ at'[g].edge = at[g].edge
         /\ \A k \in Keys : /\ Owned(k)' <=> Owned(k)
                            /\ UpAfter(k, 0)' <=> UpAfter(k, 0)
                            /\ ReleaseOwed(k)' <=> ReleaseOwed(k)
<1>1. /\ \A g \in Handlers : at'[g].key = at[g].key /\ at'[g].edge = at[g].edge
      /\ at'["lost"] = at["lost"]
  BY KParts DEF TypeOK, Handlers
<1>2. LossInPlace'
  BY <1>1, KParts DEF LossInPlace, Idle
<1>3. \A k \in Keys : /\ Owned(k)' <=> Owned(k)
                      /\ UpAfter(k, 0)' <=> UpAfter(k, 0)
                      /\ ReleaseOwed(k)' <=> ReleaseOwed(k)
  BY <1>1 DEF Owned, UpAfter, ReleaseOwed, Handlers, Idle
<1>4. stop = "no" => PressesOwned'
  BY <1>1, <1>3, KParts DEF Owners, PressesOwned, UpAfter, Handlers
<1>5. HeldBound => HeldBound'
  BY DEF HeldBound
<1>6. QED
  BY <1>1, <1>2, <1>3, <1>4, <1>5

LEMMA StopRepeatOwners ==
  ASSUME KInv, NEW h \in Handlers, StopRepeat(h)
  PROVE  OwnersOK'
<1>1. h \in {"worker", "tap"} /\ at[h].key \in Keys
  BY HandlesEdges DEF StopRepeat
<1>2. /\ at' = [at EXCEPT ![h].stage = "clearHolds"]
      /\ repeatOf' = [repeatOf EXCEPT ![at[h].key] = NoTask]
      /\ UNCHANGED <<pressed, open, edges, pressedAt, mode, held, escaped, stop>>
  BY DEF StopRepeat, CancelAndAwait, input
<1>3. /\ LossInPlace' /\ (stop = "no" => PressesOwned') /\ (HeldBound => HeldBound')
      /\ \A k \in Keys : /\ Owned(k)' <=> Owned(k)
                         /\ UpAfter(k, 0)' <=> UpAfter(k, 0)
                         /\ ReleaseOwed(k)' <=> ReleaseOwed(k)
  BY <1>1, <1>2, MovesOn
<1>4. SUFFICES ASSUME stop = "no" PROVE Owners'
  BY <1>2, <1>3 DEF OwnersOK
<1>5. RepeatsOwned'
  <2>1. ASSUME NEW k \in Keys, repeatOf'[k] # NoTask
        PROVE  k # at[h].key /\ repeatOf'[k] = repeatOf[k]
    BY <1>1, <1>2, <2>1, KParts DEF TypeOK
  <2>2. \A k \in Keys, g \in {"worker", "tap"} : k # at[h].key => (WillStop(g, k)' <=> WillStop(g, k))
    BY <1>1, <1>2, KParts DEF TypeOK, WillStop, Handlers
  <2>3. QED
    BY <1>3, <1>4, <2>1, <2>2, KParts DEF Owners, RepeatsOwned
<1>6. PressedOwned'
  BY <1>2, <1>3, <1>4, KParts DEF Owners, PressedOwned
<1>7. QED
  BY <1>3, <1>4, <1>5, <1>6, KParts DEF Owners

LEMMA ClearHoldsOwners ==
  ASSUME KInv, NEW h \in Handlers, ClearHolds(h)
  PROVE  OwnersOK'
<1>1. h \in {"worker", "tap"} /\ at[h].key \in Keys
  BY HandlesEdges DEF ClearHolds
<1>2. /\ at[h].stage = "clearHolds" /\ at' = [at EXCEPT ![h].stage = "act"]
      /\ pressedAt' = IF at[h].edge = "down" THEN pressedAt \cup {at[h].key} ELSE pressedAt
      /\ UNCHANGED <<pressed, open, edges, repeatOf, mode, held, escaped, stop>>
  BY DEF ClearHolds, CancelAndAwait, input
<1>3. /\ LossInPlace' /\ (stop = "no" => PressesOwned') /\ (HeldBound => HeldBound')
      /\ \A k \in Keys : /\ Owned(k)' <=> Owned(k)
                         /\ UpAfter(k, 0)' <=> UpAfter(k, 0)
                         /\ ReleaseOwed(k)' <=> ReleaseOwed(k)
  BY <1>1, <1>2, MovesOn
<1>4. SUFFICES ASSUME stop = "no" PROVE Owners'
  BY <1>2, <1>3 DEF OwnersOK
<1>5. RepeatsOwned'
  <2>1. \A k \in Keys, g \in {"worker", "tap"} : WillStop(g, k) => WillStop(g, k)'
    BY <1>1, <1>2, KParts DEF TypeOK, WillStop, Handlers
  <2>2. QED
    BY <1>2, <1>3, <1>4, <2>1, KParts DEF Owners, RepeatsOwned
<1>6. at[h].edge = "down" => ReleaseOwed(at[h].key) \/ at[h].key \in escaped
  <2>1. CASE h = "tap"
    BY <2>1 DEF ReleaseOwed
  <2>2. CASE h = "worker" /\ at[h].edge = "down"
    <3>1. UpAfter(at[h].key, 0) \/ Owned(at[h].key)
      BY <1>1, <1>4, <2>2, KParts DEF Owners, PressesOwned
    <3>2. QED
      BY <3>1 DEF UpAfter, Owned, ReleaseOwed, Idle
  <2>3. QED
    BY <1>1, <2>1, <2>2
<1>7. PressedOwned'
  BY <1>2, <1>3, <1>4, <1>6, KParts DEF Owners, PressedOwned
<1>8. QED
  BY <1>3, <1>4, <1>5, <1>7, KParts DEF Owners

\* The loss: what was never dispatched counts as escaped from then on.
LEMMA CancelAllRepeatsOwners ==
  ASSUME KInv, CancelAllRepeats
  PROVE  OwnersOK'
<1>1. /\ at' = [at EXCEPT !["lost"].stage = "clearAllHolds"]
      /\ repeatOf' = [k \in Keys |-> NoTask] /\ escaped' = escaped \cup Undispatched
      /\ at["lost"].stage = "due"
      /\ UNCHANGED <<pressed, open, edges, pressedAt, mode, held, stop>>
  BY DEF CancelAllRepeats, CancelAndAwait, input
<1>2. /\ at'["lost"].stage = "clearAllHolds" /\ at'["worker"] = at["worker"] /\ at'["tap"] = at["tap"]
      /\ at["lost"] # Idle /\ at'["lost"] # Idle
  BY <1>1, KParts DEF TypeOK, Handlers, Idle
<1>3. LossInPlace'
  BY <1>1, <1>2, KParts DEF LossInPlace
<1>4. PressesOwned'
  BY <1>1, <1>2 DEF PressesOwned, Undispatched, Owned
<1>5. RepeatsOwned'
  BY <1>1 DEF RepeatsOwned
<1>6. PressedOwned'
  BY <1>2 DEF PressedOwned, ReleaseOwed, Idle
<1>7. HeldBound => HeldBound'
  BY <1>1 DEF HeldBound
<1>8. QED
  BY <1>1, <1>3, <1>4, <1>5, <1>6, <1>7, KParts DEF OwnersOK, Owners

LEMMA LossOwners ==
  ASSUME KInv, CancelAllHolds \/ ForgetPresses
  PROVE  OwnersOK'
<1>1. /\ at["lost"].stage \in {"clearAllHolds", "forget"}
      /\ UNCHANGED <<pressed, open, edges, repeatOf, mode, escaped, stop>>
      /\ \/ at' = [at EXCEPT !["lost"].stage = "forget"] /\ UNCHANGED <<pressedAt, held>>
         \/ at' = [at EXCEPT !["lost"] = Idle] /\ pressedAt' = {} /\ held' = NoKey
  BY DEF CancelAllHolds, ForgetPresses, CancelAndAwait, Finished, input
<1>2. /\ at'["worker"] = at["worker"] /\ at'["tap"] = at["tap"]
      /\ at'["lost"] = Idle \/ at'["lost"].stage = "forget"
      /\ at["lost"].stage # "due" /\ at'["lost"].stage # "due" /\ at["lost"] # Idle
  BY <1>1, KParts DEF TypeOK, Handlers, Idle
<1>3. LossInPlace'
  BY <1>1, <1>2, KParts DEF LossInPlace
<1>4. \A k \in Keys : Owned(k)' <=> Owned(k)
  BY <1>1, <1>2 DEF Owned
<1>5. PressesOwned => PressesOwned'
  BY <1>1, <1>2, <1>4 DEF PressesOwned, UpAfter
<1>6. RepeatsOwned => RepeatsOwned'
  BY <1>1, <1>2, <1>4 DEF RepeatsOwned, UpAfter, WillStop
<1>7. PressedOwned'
  <2>1. CASE at'["lost"] # Idle
    BY <2>1 DEF PressedOwned, ReleaseOwed, Idle
  <2>2. CASE at'["lost"] = Idle
    <3>1. pressedAt' = {} /\ held' = NoKey
      BY <1>1, <2>2, KParts DEF TypeOK, Handlers, Idle
    <3>2. QED
      BY <3>1, NoKeyIsNone DEF PressedOwned
  <2>3. QED
    BY <2>1, <2>2
<1>8. HeldBound => HeldBound'
  BY <1>1, NoKeyIsNone DEF HeldBound
<1>9. QED
  BY <1>1, <1>3, <1>5, <1>6, <1>7, <1>8, KParts DEF OwnersOK, Owners

\* A press is acted on: what the worker begins is owed by the queue or the
\* reader, what a tap begins by the tap.
LEMMA ActDownOwners ==
  ASSUME KInv, NEW h \in Handlers, ActDown(h)
  PROVE  OwnersOK'
<1>0. PICK k \in Keys : k = at[h].key
  BY HandlesEdges DEF ActDown
<1>1. h \in {"worker", "tap"} /\ at[h].edge = "down" /\ at[h].stage = "act"
  BY HandlesEdges DEF ActDown
<1>2. /\ UNCHANGED <<pressed, open, edges, pressedAt, mode, escaped, stop>>
      /\ held' = IF KeyAction[mode][k] = "ble" THEN k ELSE held
      /\ h = "worker" => at' = [at EXCEPT ![h] = Idle]
      /\ h = "tap" => at' = [at EXCEPT ![h].stage = "asleep"]
  BY <1>0, <1>1 DEF ActDown, Finished, input
<1>3. \A j \in Keys : j # k => repeatOf'[j] = repeatOf[j]
  BY <1>0, KParts DEF ActDown, NewTask, TypeOK
<1>4. /\ at'["lost"] = at["lost"]
      /\ h = "worker" => at'["worker"] = Idle /\ at'["tap"] = at["tap"]
      /\ h = "tap" => at'["worker"] = at["worker"] /\ at'["tap"].key = k /\ at'["tap"].edge = "down"
  BY <1>0, <1>1, <1>2, KParts DEF TypeOK, Handlers
<1>5. LossInPlace'
  BY <1>0, <1>2, <1>4, KParts DEF LossInPlace, Idle
<1>6. SUFFICES ASSUME stop = "no" PROVE Owners'
  BY <1>0, <1>2, <1>5 DEF OwnersOK
<1>7. \A j \in Keys : (Owned(j)' <=> Owned(j)) /\ (UpAfter(j, 0)' <=> UpAfter(j, 0))
  BY <1>0, <1>2, <1>4 DEF Owned, UpAfter
<1>8. \A j \in Keys : j # k => (ReleaseOwed(j) => ReleaseOwed(j)')
  BY <1>0, <1>1, <1>2, <1>4 DEF ReleaseOwed
<1>9. h = "worker" => UpAfter(k, 0) \/ Owned(k)
  BY <1>0, <1>1, <1>6, KParts DEF Owners, PressesOwned
<1>10. ReleaseOwed(k)' \/ k \in escaped'
  <2>1. CASE h = "worker"
    BY <1>0, <1>2, <1>4, <1>9, <2>1 DEF UpAfter, Owned, ReleaseOwed, Idle
  <2>2. CASE h = "tap"
    BY <1>0, <1>4, <2>2 DEF ReleaseOwed
  <2>3. QED
    BY <1>0, <1>1, <2>1, <2>2
<1>11. PressesOwned'
  <2>1. \A j \in Keys : at'["worker"].key = j => at["worker"] = at'["worker"]
    BY <1>1, <1>4, NoKeyIsNone DEF Idle
  <2>2. PressesOwned
    BY <1>6, KParts DEF Owners
  <2>3. QED
    BY <1>2, <1>7, <2>1, <2>2 DEF PressesOwned, UpAfter
<1>12. RepeatsOwned'
  <2>1. Owned(k)' \/ UpAfter(k, 0)' \/ WillStop("tap", k)'
    BY <1>0, <1>1, <1>4, <1>7, <1>9 DEF WillStop
  <2>2. \A j \in Keys, g \in {"worker", "tap"} : j # k => (WillStop(g, j) => WillStop(g, j)')
    BY <1>0, <1>1, <1>4 DEF WillStop
  <2>3. QED
    BY <1>0, <1>3, <1>6, <1>7, <2>1, <2>2, KParts DEF Owners, RepeatsOwned
<1>13. PressedOwned'
  BY <1>0, <1>2, <1>6, <1>8, <1>10, KParts DEF Owners, PressedOwned
<1>14. HeldBound'
  BY <1>0, <1>2, <1>6, KParts DEF Owners, HeldBound
<1>15. QED
  BY <1>0, <1>11, <1>12, <1>13, <1>14 DEF Owners

\* A release is acted on: nothing is left of its key but what somebody else owes.
LEMMA ActUpOwners ==
  ASSUME KInv, NEW h \in Handlers, ActUp(h)
  PROVE  OwnersOK'
<1>0. PICK k \in Keys : k = at[h].key
  BY HandlesEdges DEF ActUp
<1>1. h \in {"worker", "tap"} /\ at[h].edge = "up" /\ at[h].stage = "act"
  BY HandlesEdges DEF ActUp
<1>2. /\ UNCHANGED <<pressed, open, edges, repeatOf, mode, stop>>
      /\ held' = IF KeyAction[mode][k] = "ble" THEN NoKey ELSE held
      /\ pressedAt' = pressedAt \ {k}
      /\ escaped' = IF held' = k \/ k \in Undispatched \/ repeatOf[k] # NoTask
                    THEN escaped ELSE escaped \ {k}
      /\ at' = [at EXCEPT ![h] = Idle]
  BY <1>0 DEF ActUp, Finished, input
<1>3. \A g \in Handlers : at'[g] = IF g = h THEN Idle ELSE at[g]
  BY <1>0, <1>2, KParts DEF TypeOK
<1>4. at'["lost"] = at["lost"]
  BY <1>0, <1>1, <1>3 DEF Handlers
<1>5. LossInPlace'
  BY <1>0, <1>2, <1>4, KParts DEF LossInPlace, Idle
<1>6. SUFFICES ASSUME stop = "no" PROVE Owners'
  BY <1>0, <1>2, <1>5 DEF OwnersOK
<1>7. ASSUME NEW j \in Keys, j # k
      PROVE  /\ j \in escaped' <=> j \in escaped
             /\ Owned(j)' <=> Owned(j)
             /\ ReleaseOwed(j) => ReleaseOwed(j)'
  <2>1. j \in escaped' <=> j \in escaped
    BY <1>2, <1>7
  <2>2. \A g \in {"worker", "tap"} : at[g].key = j => at'[g] = at[g]
    BY <1>0, <1>1, <1>3, <1>7 DEF Handlers
  <2>3. QED
    BY <1>2, <1>4, <2>1, <2>2 DEF Owned, ReleaseOwed
<1>8. held' = k \/ k \in Undispatched \/ repeatOf[k] # NoTask => (Owned(k) => Owned(k)')
  BY <1>0, <1>2, <1>4 DEF Owned
<1>9. PressesOwned'
  <2>1. ASSUME NEW j \in Keys, NEW i \in 1..Len(edges), edges[i] = <<j, "down">>
        PROVE  UpAfter(j, i)' \/ Owned(j)'
    <3>1. UpAfter(j, i) \/ Owned(j)
      BY <1>0, <1>6, <2>1, KParts DEF Owners, PressesOwned
    <3>2. j \in Undispatched
      BY <2>1 DEF Undispatched
    <3>3. QED
      BY <1>0, <1>2, <1>7, <1>8, <3>1, <3>2 DEF UpAfter
  <2>2. ASSUME NEW j \in Keys, at'["worker"].key = j, at'["worker"].edge = "down"
        PROVE  UpAfter(j, 0)' \/ Owned(j)'
    <3>1. at["worker"].key = j /\ at["worker"].edge = "down"
      BY <1>0, <1>3, <2>2, NoKeyIsNone DEF Handlers, Idle
    <3>2. UpAfter(j, 0) \/ Owned(j)
      BY <1>0, <1>6, <3>1, KParts DEF Owners, PressesOwned
    <3>3. j \in Undispatched
      BY <3>1 DEF Undispatched
    <3>4. QED
      BY <1>0, <1>2, <1>7, <1>8, <3>2, <3>3 DEF UpAfter
  <2>3. QED
    BY <1>0, <1>2, <2>1, <2>2 DEF PressesOwned
<1>10. RepeatsOwned'
  <2>1. \A j \in Keys, g \in {"worker", "tap"} : WillStop(g, j) => WillStop(g, j)'
    BY <1>0, <1>1, <1>3 DEF WillStop, Handlers
  <2>2. QED
    BY <1>0, <1>2, <1>6, <1>7, <1>8, <2>1, KParts DEF Owners, RepeatsOwned, UpAfter
<1>11. held' = k => held = k /\ KeyAction[mode][k] # "ble" /\ k \in escaped /\ k \in escaped'
  BY <1>0, <1>1, <1>2, <1>6, KParts, NoKeyIsNone DEF Owners, HeldBound
<1>12. PressedOwned'
  <2>1. \A j \in Keys : j # k /\ (j \in pressedAt' \/ held' = j) => j \in pressedAt \/ held = j
    BY <1>0, <1>2, NoKeyIsNone
  <2>2. QED
    BY <1>0, <1>2, <1>6, <1>7, <1>11, <2>1, KParts DEF Owners, PressedOwned
<1>13. HeldBound'
  BY <1>0, <1>2, <1>6, <1>7, <1>11, KParts, NoKeyIsNone DEF Owners, HeldBound
<1>14. QED
  BY <1>0, <1>9, <1>10, <1>12, <1>13 DEF Owners

LEMMA TapOwners ==
  ASSUME KInv, (\E k \in Keys : TapDown(k)) \/ TapUp
  PROVE  OwnersOK'
<1>1. /\ UNCHANGED <<pressed, open, edges, repeatOf, pressedAt, mode, held, escaped, stop>>
      /\ at'["lost"] = at["lost"] /\ at'["worker"] = at["worker"]
      /\ \/ at["tap"] = Idle
         \/ /\ at'["tap"].key = at["tap"].key
            /\ at'["tap"].edge = "up" /\ at'["tap"].stage = "stopRepeat"
  BY KParts DEF TapDown, TapUp, input, tables, TypeOK, Handlers
<1>2. LossInPlace'
  BY <1>1, KParts DEF LossInPlace, Idle
<1>3. \A k \in Keys : /\ Owned(k)' <=> Owned(k)
                      /\ UpAfter(k, 0)' <=> UpAfter(k, 0)
                      /\ ReleaseOwed(k) => ReleaseOwed(k)'
                      /\ WillStop("worker", k)' <=> WillStop("worker", k)
                      /\ WillStop("tap", k) => WillStop("tap", k)'
  BY <1>1, NoKeyIsNone DEF Owned, UpAfter, ReleaseOwed, WillStop, Idle
<1>4. PressesOwned => PressesOwned'
  BY <1>1, <1>3 DEF PressesOwned, UpAfter
<1>5. RepeatsOwned => RepeatsOwned'
  BY <1>1, <1>3 DEF RepeatsOwned
<1>6. (PressedOwned => PressedOwned') /\ (HeldBound => HeldBound')
  BY <1>1, <1>3 DEF PressedOwned, HeldBound
<1>7. QED
  BY <1>1, <1>2, <1>4, <1>5, <1>6, KParts DEF OwnersOK, Owners

LEMMA ModeOwners ==
  ASSUME KInv, NEW m \in Modes, SetModeBindings(m)
  PROVE  OwnersOK'
<1>1. /\ UNCHANGED <<pressed, open, edges, at, repeatOf, pressedAt, held, stop>>
      /\ mode' = m /\ escaped' = escaped \cup {k \in Keys : k = held /\ KeyAction[m][k] # "ble"}
  BY DEF SetModeBindings, input, loop, tables
<1>2. LossInPlace'
  BY <1>1, KParts DEF LossInPlace, Idle
<1>3. \A k \in Keys : (Owned(k) => Owned(k)') /\ (ReleaseOwed(k)' <=> ReleaseOwed(k))
  BY <1>1 DEF Owned, ReleaseOwed, Idle
<1>4. PressesOwned => PressesOwned'
  BY <1>1, <1>3 DEF PressesOwned, UpAfter
<1>5. RepeatsOwned => RepeatsOwned'
  BY <1>1, <1>3 DEF RepeatsOwned, UpAfter, WillStop
<1>6. (PressedOwned => PressedOwned') /\ HeldBound'
  BY <1>1, <1>3 DEF PressedOwned, HeldBound
<1>7. QED
  BY <1>1, <1>2, <1>4, <1>5, <1>6, KParts DEF OwnersOK, Owners

----------------------------------------------------------------------------
\* No stuck key: the invariant.

LEMMA KInitHolds == Init => KInv
<1> SUFFICES ASSUME Init PROVE KInv
  OBVIOUS
<1>1. LossInPlace
  BY DEF Init, LossInPlace, Handlers
<1>2. PressesOwned /\ RepeatsOwned /\ PressedOwned /\ HeldBound
  BY NoKeyIsNone DEF Init, PressesOwned, RepeatsOwned, PressedOwned, HeldBound, Handlers, Idle
<1>3. QED
  BY <1>1, <1>2, InitHolds DEF KInv

LEMMA KStepHolds == KInv /\ [Next]_vars => KInv'
<1> SUFFICES ASSUME KInv, [Next]_vars PROVE KInv'
  OBVIOUS
<1>1. OwnersOK'
  <2>1. CASE \E k \in Keys : KeyDown(k) \/ KeyUp(k)
    BY <2>1, KeyDownOwners, KeyUpOwners
  <2>2. CASE (\E k \in Keys : TapDown(k)) \/ TapUp
    BY <2>2, TapOwners
  <2>3. CASE DeviceGone \/ DeviceBack
    BY <2>3, DeviceOwners
  <2>4. CASE WorkerTakes
    BY <2>4, WorkerTakesOwners
  <2>5. CASE \E h \in Handlers : StopRepeat(h) \/ ClearHolds(h)
    BY <2>5, StopRepeatOwners, ClearHoldsOwners
  <2>6. CASE \E h \in Handlers : ActDown(h) \/ ActUp(h)
    BY <2>6, ActDownOwners, ActUpOwners
  <2>7. CASE LostStep
    BY <2>7, CancelAllRepeatsOwners, LossOwners DEF LostStep
  <2>8. CASE (\E h \in Handlers : Resumes(h)) \/ (\E t \in TaskIds : TaskStep(t)) \/ UNCHANGED vars
    BY <2>8, QuietOwners
  <2>9. CASE \E m \in Modes : SetModeBindings(m)
    BY <2>9, ModeOwners
  <2>10. CASE StopStep
    BY <2>10, StopOwners DEF StopStep
  <2>11. QED
    BY <2>1, <2>2, <2>3, <2>4, <2>5, <2>6, <2>7, <2>8, <2>9, <2>10 DEF Next, HandlerStep
<1>2. IInv'
  BY StepHolds DEF KInv
<1>3. QED
  BY <1>1, <1>2 DEF KInv, OwnersOK, Owners

\* No key is stuck (KeyPath's NoStuckKey): whatever repeats, counts as pressed or
\* is down for the Apple TV has its release on its way, or went one of the ways
\* `escaped' names, for any queue, and any presses, taps and losses.
THEOREM NoKeyIsStuck == Spec => []NoStuckKey
<1>1. KInv => NoStuckKey
  <2> SUFFICES ASSUME KInv, stop = "no", NEW k \in Keys,
                      repeatOf[k] # NoTask \/ k \in pressedAt \/ held = k
               PROVE  ReleaseOwed(k) \/ k \in escaped
    BY DEF NoStuckKey
  <2>1. CASE k \in pressedAt \/ held = k
    BY <2>1, KParts DEF Owners, PressedOwned
  <2>2. CASE repeatOf[k] # NoTask
    <3>1. UpAfter(k, 0) => ReleaseOwed(k)
      BY DEF UpAfter, ReleaseOwed
    <3>2. Owned(k) => ReleaseOwed(k) \/ k \in escaped
      BY DEF Owned, ReleaseOwed, Idle
    <3>3. WillStop("tap", k) => ReleaseOwed(k)
      BY DEF WillStop, ReleaseOwed
    <3>4. WillStop("worker", k) => ReleaseOwed(k) \/ k \in escaped
      <4>1. CASE at["worker"].edge = "up"
        BY <4>1 DEF WillStop, ReleaseOwed
      <4>2. CASE at["worker"].edge = "down"
        BY <3>1, <3>2, <4>2, KParts DEF WillStop, Owners, PressesOwned
      <4>3. QED
        BY <4>1, <4>2 DEF WillStop
    <3>5. QED
      BY <2>2, <3>1, <3>2, <3>3, <3>4, KParts DEF Owners, RepeatsOwned
  <2>3. QED
    BY <2>1, <2>2
<1>2. Spec => []KInv
  BY KInitHolds, KStepHolds, PTL DEF Spec
<1>3. QED
  BY <1>1, <1>2, PTL
=============================================================================
