--------------------------- MODULE HistoryWriter ---------------------------
(***************************************************************************)
(* HistoryStore: the event loop records, a thread writes, close writes     *)
(* what is left when the process exits.                                    *)
(*                                                                         *)
(* What is recorded is a count of changes and the newest flow report,      *)
(* which the flow goes on filling in after it was recorded: the thread     *)
(* reads it when it makes the JSON, not when it copies the list.  disk is  *)
(* what load would make of the file; a file two writers spoilt counts as   *)
(* empty, as load takes it.                                                *)
(***************************************************************************)
EXTENDS Naturals

CONSTANTS
    MaxEntries,  \* bound: changes
    MaxTroubles  \* bound: writes that fail, processes that die

ASSUME HistoryBounds == MaxEntries \in Nat /\ MaxTroubles \in Nat

Reports == {"none", "running", "over"}
Contents == [entries : Nat, report : Reports]
Empty == [entries |-> 0, report |-> "none"]

\* Where a writer is in _write_if_dirty: copy under the lock, JSON, file, replace.
Writing == {"dump", "file", "replace"}

VARIABLES
    up,        \* the process: "up", "closing" from atexit on, "down"
    mem,       \* _events and _flow_reports
    flowOn,    \* a flow of this process goes on filling in the newest report
    say,       \* the event loop: "idle", "ended" a flow, "changed" and not yet asked for a flush
    dirty, flush, stop,  \* _dirty, _flush_evt, _stop_evt
    w, wCopy,  \* the writer thread, and what it writes
    c, cCopy,  \* close, and what it writes
    disk,
    overlap,   \* history: close went on while the thread was at the file
    failedLast,\* history: close could not write
    troubles

loop == <<mem, flowOn, say>>
thread == <<w, wCopy>>
closer == <<c, cCopy>>
ghosts == <<overlap, failedLast>>
vars == <<up, loop, dirty, flush, stop, thread, closer, disk, ghosts, troubles>>

PlacesOK ==
    /\ up \in {"up", "closing", "down"} /\ say \in {"idle", "ended", "changed"}
    /\ w \in {"wait", "woken", "debounce", "copy", "failed", "sleep", "done"} \cup Writing
    /\ c \in {"none", "flush", "join", "copy", "done"} \cup Writing
FlagsOK ==
    /\ flowOn \in BOOLEAN /\ dirty \in BOOLEAN /\ flush \in BOOLEAN /\ stop \in BOOLEAN
    /\ overlap \in BOOLEAN /\ failedLast \in BOOLEAN
ContentsOK ==
    /\ mem \in Contents /\ wCopy \in Contents /\ cCopy \in Contents /\ disk \in Contents
    /\ troubles \in Nat

TypeOK == PlacesOK /\ FlagsOK /\ ContentsOK

\* A process that has loaded what the last one left.
Fresh ==
    /\ up' = "up" /\ mem' = disk /\ flowOn' = FALSE /\ say' = "idle"
    /\ dirty' = FALSE /\ flush' = FALSE /\ stop' = FALSE
    /\ w' = "wait" /\ wCopy' = Empty /\ c' = "none" /\ cCopy' = Empty
    /\ overlap' = FALSE /\ failedLast' = FALSE

Init ==
    /\ up = "up" /\ disk = Empty /\ mem = Empty /\ flowOn = FALSE /\ say = "idle"
    /\ dirty = FALSE /\ flush = FALSE /\ stop = FALSE
    /\ w = "wait" /\ wCopy = Empty /\ c = "none" /\ cCopy = Empty
    /\ overlap = FALSE /\ failedLast = FALSE /\ troubles = 0

(***************************************************************************)
(* The event loop.                                                         *)
(***************************************************************************)
\* Under the lock: a change more, and dirty.
Records(report) ==
    /\ mem.entries < IF report = "running" THEN MaxEntries - 1 ELSE MaxEntries
    /\ mem' = [entries |-> mem.entries + 1, report |-> report]
    /\ dirty' = TRUE /\ say' = "changed"
    /\ UNCHANGED <<up, flush, stop, thread, closer, disk, ghosts, troubles>>

\* report.finish, where the report stands
Finished(m) == [entries |-> m.entries, report |-> IF m.report = "running" THEN "over" ELSE m.report]

AddEvent ==
    /\ up = "up" /\ say = "idle" /\ UNCHANGED flowOn
    /\ Records(mem.report)

FlowBegins ==
    /\ up = "up" /\ say = "idle" /\ ~flowOn
    /\ flowOn' = TRUE
    /\ Records("running")

\* The entries are gone, and a running flow's report with them.
Clear ==
    /\ up = "up" /\ say = "idle" /\ UNCHANGED flowOn
    /\ Records("none")

\* Variant: the entry is recorded first and the report finished after it.
FlowEnds_Faulty ==
    /\ up = "up" /\ say = "idle" /\ flowOn /\ flowOn' = FALSE
    /\ mem' = Finished(mem) /\ say' = "idle"
    /\ UNCHANGED <<up, dirty, flush, stop, thread, closer, disk, ghosts, troubles>>

\* run_sequence finishes the report where it stands and then records its end.
FlowEnds ==
    /\ up = "up" /\ say = "idle" /\ flowOn /\ flowOn' = FALSE
    /\ mem' = Finished(mem) /\ say' = "ended"
    /\ UNCHANGED <<up, dirty, flush, stop, thread, closer, disk, ghosts, troubles>>

FlowRecorded ==
    /\ up = "up" /\ say = "ended" /\ UNCHANGED flowOn
    /\ Records(mem.report)

RequestFlush ==
    /\ up = "up" /\ say = "changed"
    /\ flush' = TRUE /\ say' = "idle"
    /\ UNCHANGED <<up, mem, flowOn, dirty, stop, thread, closer, disk, ghosts, troubles>>

(***************************************************************************)
(* The writer thread.                                                      *)
(***************************************************************************)
Works(from, to) == up # "down" /\ w = from /\ w' = to
LoopHead == IF stop THEN "done" ELSE "wait"
RestOfThread == <<up, loop, closer, ghosts>>

Wakes ==
    /\ Works("wait", IF stop THEN "done" ELSE "woken") /\ flush
    /\ UNCHANGED <<RestOfThread, wCopy, dirty, flush, stop, disk, troubles>>

ClearsFlush ==
    /\ Works("woken", "debounce")
    /\ flush' = FALSE
    /\ UNCHANGED <<RestOfThread, wCopy, dirty, stop, disk, troubles>>

DebounceAgain ==
    /\ Works("debounce", "debounce") /\ ~stop /\ flush
    /\ flush' = FALSE
    /\ UNCHANGED <<RestOfThread, wCopy, dirty, stop, disk, troubles>>

DebounceOver ==
    /\ Works("debounce", "copy")
    /\ UNCHANGED <<RestOfThread, wCopy, dirty, flush, stop, disk, troubles>>

Copies ==
    /\ Works("copy", IF dirty THEN "dump" ELSE LoopHead)
    /\ wCopy' = (IF dirty THEN mem ELSE wCopy) /\ dirty' = FALSE
    /\ UNCHANGED <<RestOfThread, flush, stop, disk, troubles>>

\* The JSON has the report as it is by now, if it is still the same one.
AsItIsNow(copy) == IF copy.report = "running" /\ mem.report = "over" THEN {copy, Finished(copy)} ELSE {copy}

Dumps ==
    /\ Works("dump", "file")
    /\ wCopy' \in AsItIsNow(wCopy)
    /\ UNCHANGED <<RestOfThread, dirty, flush, stop, disk, troubles>>

WritesFile ==
    /\ Works("file", "replace")
    /\ UNCHANGED <<RestOfThread, wCopy, dirty, flush, stop, disk, troubles>>

\* Two writers in the same temporary file may spoil it.
Replaced(copy) == disk' \in (IF overlap THEN {copy, wCopy, cCopy, Empty} ELSE {copy})

Replaces ==
    /\ Works("replace", LoopHead)
    /\ Replaced(wCopy)
    /\ UNCHANGED <<RestOfThread, wCopy, dirty, flush, stop, troubles>>

Trouble == troubles < MaxTroubles /\ troubles' = troubles + 1

WriteFails ==
    /\ w \in Writing /\ Works(w, "failed") /\ Trouble
    /\ dirty' = TRUE
    /\ UNCHANGED <<RestOfThread, wCopy, flush, stop, disk>>

FlushAgain ==
    /\ Works("failed", "sleep")
    /\ flush' = TRUE
    /\ UNCHANGED <<RestOfThread, wCopy, dirty, stop, disk, troubles>>

RetryDelayOver ==
    /\ Works("sleep", LoopHead)
    /\ UNCHANGED <<RestOfThread, wCopy, dirty, flush, stop, disk, troubles>>

(***************************************************************************)
(* close, from atexit, when the event loop has ended.                      *)
(***************************************************************************)
Closes(from, to) == up = "closing" /\ c = from /\ c' = to
RestOfClose == <<up, loop, thread>>

Exit ==
    /\ up = "up" /\ say = "idle" /\ up' = "closing"
    /\ stop' = TRUE /\ c' = "flush"
    /\ UNCHANGED <<loop, dirty, flush, thread, cCopy, disk, ghosts, troubles>>

StopFlush ==
    /\ Closes("flush", "join")
    /\ flush' = TRUE
    /\ UNCHANGED <<RestOfClose, dirty, stop, cCopy, disk, ghosts, troubles>>

Joined ==
    /\ Closes("join", "copy") /\ w = "done"
    /\ UNCHANGED <<RestOfClose, dirty, flush, stop, cCopy, disk, ghosts, troubles>>

\* Only what takes time can outlast the second: the file, and the sleep after a failure.
JoinTimeout ==
    /\ Closes("join", "copy") /\ w \in Writing \cup {"sleep"}
    /\ overlap' = (w \in Writing)
    /\ UNCHANGED <<RestOfClose, dirty, flush, stop, cCopy, disk, failedLast, troubles>>

CloseCopies ==
    /\ Closes("copy", IF dirty THEN "dump" ELSE "done")
    /\ cCopy' = (IF dirty THEN mem ELSE cCopy) /\ dirty' = FALSE
    /\ UNCHANGED <<RestOfClose, flush, stop, disk, ghosts, troubles>>

CloseDumps ==
    /\ Closes("dump", "file")
    /\ cCopy' \in AsItIsNow(cCopy)
    /\ UNCHANGED <<RestOfClose, dirty, flush, stop, disk, ghosts, troubles>>

CloseWritesFile ==
    /\ Closes("file", "replace")
    /\ UNCHANGED <<RestOfClose, dirty, flush, stop, cCopy, disk, ghosts, troubles>>

CloseReplaces ==
    /\ Closes("replace", "done")
    /\ Replaced(cCopy)
    /\ UNCHANGED <<RestOfClose, dirty, flush, stop, cCopy, ghosts, troubles>>

CloseFails ==
    /\ c \in Writing /\ Closes(c, "done") /\ Trouble
    /\ failedLast' = TRUE
    /\ UNCHANGED <<RestOfClose, dirty, flush, stop, cCopy, disk, overlap>>

\* The thread is a daemon: it ends where it is.
Gone ==
    /\ up = "closing" /\ c = "done"
    /\ up' = "down"
    /\ UNCHANGED <<loop, dirty, flush, stop, thread, closer, disk, ghosts, troubles>>

Dies ==
    /\ up # "down" /\ Trouble
    /\ up' = "down"
    /\ c' = "none"
    /\ UNCHANGED <<loop, dirty, flush, stop, thread, cCopy, disk, ghosts>>

Starts ==
    /\ up = "down"
    /\ Fresh
    /\ UNCHANGED <<disk, troubles>>

EventLoop == AddEvent \/ FlowBegins \/ Clear \/ FlowEnds \/ FlowRecorded \/ RequestFlush
Writer == \/ Wakes \/ ClearsFlush \/ DebounceAgain \/ DebounceOver \/ Copies \/ Dumps
          \/ WritesFile \/ Replaces \/ WriteFails \/ FlushAgain \/ RetryDelayOver
Close == \/ Exit \/ StopFlush \/ Joined \/ JoinTimeout \/ CloseCopies \/ CloseDumps
         \/ CloseWritesFile \/ CloseReplaces \/ CloseFails \/ Gone

Next == EventLoop \/ Writer \/ Close \/ Dies \/ Starts

Spec == Init /\ [][Next]_vars

(***************************************************************************)
(* Properties.                                                             *)
(***************************************************************************)
Saved == disk = mem
InHand(place, copy) == place \in Writing /\ copy = mem

\* The thread will get to it: it is past its wait, or a flush will wake it.
ThreadWillCopy == w \in {"woken", "debounce", "copy", "failed"} \/ flush \/ say = "changed"

\* What is recorded and not yet on the disk is always on its way there: dirty
\* with a thread that will look, or in the hands of a writer.  From the moment
\* close has written it is on the disk, when close itself did not fail and did
\* not run into a thread still at the file.
NothingForgotten ==
    /\ up = "up" /\ ~Saved => say = "ended" \/ (dirty /\ ThreadWillCopy) \/ InHand(w, wCopy)
    /\ up = "closing" /\ c \in {"flush", "join", "copy"} /\ ~overlap /\ ~Saved => dirty \/ InHand(w, wCopy)
    /\ c = "done" /\ ~overlap /\ ~failedLast => Saved

(***************************************************************************)
(* Why it holds: the inductive invariant of HistoryWriterProofs.           *)
(***************************************************************************)
\* Phases of the process, close and the thread go together.
Phases ==
    /\ up = "up" => ~stop /\ c = "none" /\ ~overlap /\ ~failedLast
    /\ up = "closing" => stop /\ c # "none" /\ say = "idle"
    /\ up = "closing" /\ overlap => c \notin {"flush", "join"}
    /\ up # "down" /\ w = "done" => stop
    /\ up # "down" /\ failedLast => c = "done"
    /\ w = "sleep" => flush

\* No change is left that no thread will look at.
DirtyIsSeen == up = "up" /\ dirty => ThreadWillCopy

\* Past its join close is alone with the file.
Alone == up = "closing" /\ ~overlap /\ c \in {"copy", "done"} \cup Writing => w \in {"done", "sleep"}

\* What a writer holds is out of date only when there is more to write.
Clean == up # "down" /\ ~overlap /\ ~dirty /\ say # "ended"
CopyIsFresh ==
    /\ Clean /\ w \in Writing => wCopy = mem
    /\ up = "closing" /\ c \in Writing => cCopy = mem
    /\ Clean /\ ~failedLast /\ w \notin Writing /\ c \notin Writing => Saved
    /\ c = "done" /\ ~overlap /\ ~failedLast => Saved

IInv == TypeOK /\ Phases /\ DirtyIsSeen /\ Alone /\ CopyIsFresh
=============================================================================
