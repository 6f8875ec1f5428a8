----------------------------- MODULE FlowProofs -----------------------------
(***************************************************************************)
(* For any number of attempts, failures, cancellations and uses of the TV  *)
(* a flow leaves nothing at work, the hub believes of the TV what is so,   *)
(* and a flow that ends well has left the TV where it wanted it.           *)
(***************************************************************************)
EXTENDS Flow, SequenceTheorems, TLAPS

Places == {"off", "delay", "queued"} \cup Requests
Results == {"none", "ok", "failed"}
Ends == {"none", "ok", "failed", "timeout"}
FlowClients == {"refresh", "power", "input"}

AtOK == at \in [Clients -> Places]
ResultOK == result \in [FlowClients -> Results]

\* Every flow fits into the jobs.
LEMMA FlowsFit ==
  ASSUME NEW f \in Flows
  PROVE  Len(Steps[f]) \in 0..MaxSteps
<1>1. f \in {"listen", "watch", "listen_signal", "watch_signal", "power_off"}
  BY DEF Flows, Steps
<1>2. QED
  BY <1>1 DEF Steps, MaxSteps

\* The step a flow is at is one of the jobs.
LEMMA PcFits ==
  ASSUME JobsOK, stage # "idle", pc <= Len(Steps[flow])
  PROVE  pc \in 1..MaxSteps /\ Len(Steps[flow]) \in Nat
<1>1. flow \in Flows /\ pc \in Nat /\ pc # 0
  BY DEF JobsOK
<1>2. Len(Steps[flow]) \in 0..MaxSteps
  BY <1>1, FlowsFit
<1>3. ASSUME NEW n \in 0..MaxSteps, NEW p \in Nat, p # 0, p <= n
      PROVE  p \in 1..MaxSteps /\ n \in Nat
  BY <1>3 DEF MaxSteps
<1>4. QED
  BY <1>1, <1>2, <1>3

\* A client that leaves the lock or goes on moves nobody else.
LEMMA LeavesMoves ==
  ASSUME AtOK, ResultOK, NEW c \in Clients, NEW how \in {"ok", "failed"}, Leaves(c, how)
  PROVE  /\ AtOK' /\ ResultOK' /\ at'[c] = "off"
         /\ \A d \in Clients : d # c => at'[d] = at[d]
  BY DEF Leaves, AtOK, ResultOK, Places, Results, Requests, FlowClients

LEMMA GoesOnMoves ==
  ASSUME AtOK, ResultOK, NEW c \in Clients, NEW request \in Requests, GoesOn(c, request)
  PROVE  /\ AtOK' /\ ResultOK'
         /\ \A d \in Clients : d # c => at'[d] = at[d]
  BY DEF GoesOn, AtOK, ResultOK, Places

LEMMA FirstIsRequest ==
  ASSUME NEW c \in Clients
  PROVE  FirstRequest(c) \in Requests
  BY DEF FirstRequest, Requests

LEMMA TriesAgainMoves ==
  ASSUME AtOK, ResultOK, NEW c \in Clients, TriesAgain(c)
  PROVE  /\ AtOK' /\ ResultOK'
         /\ \A d \in Clients : d # c => at'[d] = at[d]
<1>1. CASE GoesOn(c, FirstRequest(c))
  BY <1>1, FirstIsRequest, GoesOnMoves
<1>2. CASE Leaves(c, "failed")
  BY <1>2, LeavesMoves
<1>3. QED
  BY <1>1, <1>2 DEF TriesAgain

LEMMA CancelledMoves ==
  ASSUME AtOK, ResultOK, NEW c \in Clients, Cancelled(c)
  PROVE  /\ AtOK' /\ ResultOK' /\ at'[c] = "off"
         /\ \A d \in Clients : d # c => at'[d] = at[d]
  BY LeavesMoves DEF Cancelled

\* What goes on between the hub and the TV begins no step of a flow.
NobodyStarts == AtOK' /\ ResultOK' /\ \A c \in FlowClients : at[c] = "off" => at'[c] = "off"

LEMMA HandlesStartsNothing ==
  ASSUME AtOK, ResultOK, TvHandles
  PROVE  NobodyStarts
<1> USE DEF NobodyStarts, FlowClients, Clients
<1>1. ASSUME NEW c \in Clients, Granted(c) PROVE NobodyStarts
  BY <1>1, FirstIsRequest DEF Granted, AtOK, ResultOK, Places, ends
<1>2. ASSUME NEW c \in Clients, PowerRead(c) PROVE NobodyStarts
  <2>1. at[c] # "off"
    BY <1>2 DEF PowerRead, Back
  <2>2. GoesOn(c, "source") \/ Leaves(c, "ok")
    BY <1>2 DEF PowerRead
  <2>3. QED
    BY <2>1, <2>2, GoesOnMoves, LeavesMoves DEF Requests
<1>3. ASSUME NEW c \in Clients, SourceRead(c) PROVE NobodyStarts
  <2>1. at[c] # "off"
    BY <1>3 DEF SourceRead, Back
  <2>2. GoesOn(c, "switch") \/ Leaves(c, "ok")
    BY <1>3 DEF SourceRead
  <2>3. QED
    BY <2>1, <2>2, GoesOnMoves, LeavesMoves DEF Requests
<1>4. CASE DelayOver
  BY <1>4 DEF DelayOver, Asks, AtOK, ResultOK, Places, ends
<1>5. CASE Ordered
  BY <1>5, GoesOnMoves DEF Ordered, Back, Requests
<1>6. CASE Verified
  <2>1. at["power"] # "off"
    BY <1>6 DEF Verified, Back
  <2>2. GoesOn("power", "verify") \/ Leaves("power", "ok")
    BY <1>6 DEF Verified
  <2>3. QED
    BY <2>1, <2>2, GoesOnMoves, LeavesMoves DEF Requests
<1>7. CASE VerifyDeadline
  BY <1>7, LeavesMoves DEF VerifyDeadline
<1>8. CASE Switched
  BY <1>8, GoesOnMoves DEF Switched, Back, Requests
<1>9. CASE Checked
  <2>1. at["input"] # "off"
    BY <1>9 DEF Checked, Back
  <2>2. Leaves("input", "ok") \/ TriesAgain("input")
    BY <1>9 DEF Checked
  <2>3. QED
    BY <2>1, <2>2, LeavesMoves, TriesAgainMoves
<1>10. QED
  BY <1>1, <1>2, <1>3, <1>4, <1>5, <1>6, <1>7, <1>8, <1>9 DEF TvHandles

LEMMA TvStartsNothing ==
  ASSUME AtOK, ResultOK, TvNext
  PROVE  NobodyStarts
<1>1. CASE TvHandles
  BY <1>1, HandlesStartsNothing
<1>2. CASE UsedByHand \/ AnnouncementLost \/ Obeys
  BY <1>2 DEF UsedByHand, AnnouncementLost, Obeys, lock, ends, NobodyStarts, AtOK, ResultOK
<1>3. CASE ApiRefresh
  BY <1>3 DEF ApiRefresh, Asks, ends, NobodyStarts, AtOK, ResultOK, Places, FlowClients, Clients
<1>4. CASE AnnouncementHeard
  BY <1>4 DEF AnnouncementHeard, ends, NobodyStarts, AtOK, ResultOK, Places, FlowClients, Clients
<1>5. ASSUME NEW c \in Clients, TvAnswers(c) PROVE NobodyStarts
  BY <1>5 DEF TvAnswers, ends, NobodyStarts, AtOK, ResultOK
<1>6. ASSUME NEW c \in Clients, RequestFails(c) PROVE NobodyStarts
  <2>1. at[c] # "off"
    BY <1>6 DEF RequestFails, Requests
  <2>2. TriesAgain(c) \/ GoesOn(c, "source") \/ Leaves(c, "failed")
    BY <1>6 DEF RequestFails
  <2>3. QED
    BY <2>1, <2>2, TriesAgainMoves, GoesOnMoves, LeavesMoves DEF Requests, NobodyStarts, FlowClients, Clients
<1>7. QED
  BY <1>1, <1>2, <1>3, <1>4, <1>5, <1>6 DEF TvNext, TvOutside

\* What a flow has in the background when it asks the speaker to leave its group.
LEMMA GroupIsLeft ==
  ASSUME NEW f \in Flows, NEW i \in 1..MaxSteps, i <= Len(Steps[f]), Steps[f][i].does = "group",
         NEW j \in 1..MaxSteps, j < i, Steps[f][j].background
  PROVE  Steps[f][j].does = "ble"
<1>0. i \in 1..6 /\ j \in 1..6
  BY DEF MaxSteps
<1> USE <1>0 DEF StopSpeaker, Step, Background
<1>1. CASE f = "listen"
  BY <1>1 DEF Steps
<1>2. CASE f = "watch"
  BY <1>2 DEF Steps
<1>3. CASE f = "listen_signal"
  BY <1>3 DEF Steps
<1>4. CASE f = "watch_signal"
  BY <1>4 DEF Steps
<1>5. CASE f = "power_off"
  BY <1>5 DEF Steps
<1>6. f \in {"listen", "watch", "listen_signal", "watch_signal", "power_off"}
  BY DEF Flows, Steps
<1>7. QED
  BY <1>1, <1>2, <1>3, <1>4, <1>5, <1>6

LEMMA GroupIsForeground ==
  ASSUME NEW f \in Flows, NEW i \in 1..MaxSteps, i <= Len(Steps[f]), Steps[f][i].does = "group"
  PROVE  ~Steps[f][i].background
<1>0. i \in 1..6
  BY DEF MaxSteps
<1> USE <1>0 DEF StopSpeaker, Step, Background
<1>1. CASE f = "listen"
  BY <1>1 DEF Steps
<1>2. CASE f = "watch"
  BY <1>2 DEF Steps
<1>3. CASE f = "listen_signal"
  BY <1>3 DEF Steps
<1>4. CASE f = "watch_signal"
  BY <1>4 DEF Steps
<1>5. CASE f = "power_off"
  BY <1>5 DEF Steps
<1>6. f \in {"listen", "watch", "listen_signal", "watch_signal", "power_off"}
  BY DEF Flows, Steps
<1>7. QED
  BY <1>1, <1>2, <1>3, <1>4, <1>5, <1>6

LEMMA InitKeeps == Init => IInv
<1> SUFFICES ASSUME Init PROVE IInv
  OBVIOUS
<1> USE DEF Init, TvInit, NoJobs
<1>1. JobsOK
  BY DEF JobsOK, Clients, MaxSteps
<1>2. JobsInPlace /\ TalksHaveJobs /\ TimesOutInPlace
  BY DEF JobsInPlace, TalksHaveJobs, TimesOutInPlace, Clients
<1>3. QED
  BY <1>1, <1>2 DEF IInv

\* While the flow does nothing, what it started stays where it is.
LEMMA TvKeeps ==
  ASSUME IInv, TvNext, UNCHANGED flowVars
  PROVE  IInv'
<1>1. AtOK /\ ResultOK
  BY DEF IInv, JobsOK, AtOK, ResultOK, Places, Results, FlowClients
<1>2. NobodyStarts
  BY <1>1, TvStartsNothing
<1>3. JobsOK'
  BY <1>2 DEF IInv, JobsOK, NobodyStarts, AtOK, ResultOK, Places, Results, FlowClients, flowVars
<1>4. JobsInPlace' /\ TimesOutInPlace'
  BY DEF IInv, JobsInPlace, TimesOutInPlace, flowVars
<1>5. TalksHaveJobs'
  BY <1>2 DEF IInv, TalksHaveJobs, TalksFor, NobodyStarts, FlowClients, flowVars
<1>6. QED
  BY <1>3, <1>4, <1>5 DEF IInv

LEMMA RefreshKeeps ==
  ASSUME IInv, Begin \/ RefreshEnds \/ RefreshTimeout
  PROVE  IInv'
<1> USE DEF IInv
<1>1. CASE Begin
  <2> USE <1>1 DEF Begin, Asks, ends, NoJobs
  <2>1. JobsOK'
    BY DEF JobsOK, Clients, MaxSteps
  <2>2. JobsInPlace' /\ TimesOutInPlace'
    BY DEF JobsInPlace, TimesOutInPlace
  <2>3. TalksHaveJobs'
    BY DEF TalksHaveJobs, JobsOK, Clients
  <2>4. QED
    BY <2>1, <2>2, <2>3
<1>2. CASE RefreshEnds
  <2> USE <1>2 DEF RefreshEnds, Snapshot, tvVars, lock, ends
  <2>1. JobsOK'
    BY DEF JobsOK
  <2>2. JobsInPlace' /\ TimesOutInPlace'
    BY DEF JobsInPlace, TimesOutInPlace
  <2>3. TalksHaveJobs'
    BY DEF TalksHaveJobs
  <2>4. QED
    BY <2>1, <2>2, <2>3
<1>3. CASE RefreshTimeout
  <2> USE <1>3 DEF RefreshTimeout, Snapshot
  <2>1. AtOK /\ ResultOK
    BY DEF JobsOK, AtOK, ResultOK, Places, Results, FlowClients
  <2>2. /\ AtOK' /\ ResultOK' /\ at'["refresh"] = "off"
        /\ at'["power"] = at["power"] /\ at'["input"] = at["input"]
    BY <2>1, CancelledMoves DEF Clients
  <2>3. JobsOK'
    BY <2>2 DEF JobsOK, AtOK, ResultOK, Places, Results, FlowClients
  <2>4. JobsInPlace' /\ TimesOutInPlace'
    BY DEF JobsInPlace, TimesOutInPlace
  <2>5. TalksHaveJobs'
    BY <2>2 DEF TalksHaveJobs
  <2>6. QED
    BY <2>3, <2>4, <2>5
<1>4. QED
  BY <1>1, <1>2, <1>3

\* A step is started where the flow is; the flow waits for it or leaves it behind.
LEMMA StartKeeps ==
  ASSUME IInv, Start
  PROVE  IInv'
<1> USE DEF IInv, Start, AtStep
<1>1. pc \in 1..MaxSteps /\ pc <= Len(Steps[flow]) /\ Len(Steps[flow]) \in Nat
  <2>1. JobsOK /\ stage # "idle" /\ pc <= Len(Steps[flow])
    OBVIOUS
  <2>2. QED
    BY <2>1, PcFits
<1>2. job' = [job EXCEPT ![pc] = "running"] /\ job'[pc] = "running"
  BY <1>1 DEF JobsOK
<1>3. JobsOK'
  <2>1. CASE IsTv(Current)
    BY <1>1, <1>2, <2>1 DEF JobsOK, IsTv, Asks, Clients
  <2>2. CASE ~IsTv(Current)
    BY <1>1, <1>2, <2>2 DEF JobsOK
  <2>3. QED
    BY <2>1, <2>2
<1>4. JobsInPlace'
  <2> SUFFICES ASSUME NEW i \in 1..MaxSteps, job'[i] = "running"
               PROVE  i <= Len(Steps[flow]) /\ i <= pc' /\ (i < pc' => Steps[flow][i].background)
    BY DEF JobsInPlace
  <2>1. CASE i = pc
    BY <1>1, <2>1 DEF Current
  <2>2. CASE i # pc
    <3>1. job[i] = "running"
      BY <1>2, <2>2 DEF JobsOK
    <3>2. i <= Len(Steps[flow]) /\ i < pc /\ Steps[flow][i].background
      BY <1>1, <2>2, <3>1 DEF JobsInPlace
    <3>3. QED
      BY <1>1, <3>2
  <2>3. QED
    BY <2>1, <2>2
<1>5. TalksHaveJobs'
  <2>1. at'["refresh"] = "off"
    BY DEF TalksHaveJobs, Asks, IsTv, JobsOK, Clients
  <2>2. ASSUME NEW c \in {"power", "input"}, at'[c] # "off" PROVE TalksFor(c)'
    <3>1. CASE at[c] # "off"
      <4>1. PICK i \in 1..MaxSteps : i <= Len(Steps[flow]) /\ Steps[flow][i].does = c /\ job[i] = "running"
        BY <3>1 DEF TalksHaveJobs, TalksFor
      <4>2. job'[i] = "running"
        BY <1>2, <4>1 DEF JobsOK
      <4>3. QED
        BY <4>1, <4>2 DEF TalksFor
    <3>2. CASE at[c] = "off"
      <4>1. IsTv(Current) /\ Current.does = c
        BY <2>2, <3>2 DEF Asks, IsTv, JobsOK, Clients
      <4>2. QED
        BY <1>1, <1>2, <4>1 DEF TalksFor, Current
    <3>3. QED
      BY <3>1, <3>2
  <2>3. QED
    BY <2>1, <2>2 DEF TalksHaveJobs
<1>6. TimesOutInPlace'
  BY <1>1, <1>2 DEF TimesOutInPlace, JobsOK
<1>7. QED
  BY <1>3, <1>4, <1>5, <1>6

\* A flow that dies has nothing at work but its keys for the Apple TV.
LEMMA DyingLeavesKeys ==
  ASSUME IInv, FlowDies, NEW i \in 1..MaxSteps, job[i] = "running"
  PROVE  i <= Len(Steps[flow]) /\ Steps[flow][i].does = "ble"
<1>1. stage = "steps" /\ pc \in 1..MaxSteps /\ pc <= Len(Steps[flow]) /\ flow \in Flows /\ job[pc] = "timeout"
  BY PcFits DEF FlowDies, Awaited, IInv, JobsOK
<1>2. Steps[flow][pc].does = "group"
  BY <1>1 DEF IInv, TimesOutInPlace
<1>3. i <= Len(Steps[flow]) /\ i <= pc /\ (i < pc => Steps[flow][i].background)
  BY <1>1 DEF IInv, JobsInPlace
<1>4. i < pc
  BY <1>1, <1>3
<1>5. QED
  BY <1>1, <1>2, <1>3, <1>4, GroupIsLeft

LEMMA DyingTalksNot ==
  ASSUME IInv, FlowDies
  PROVE  at["power"] = "off" /\ at["input"] = "off" /\ at["refresh"] = "off"
<1>1. ASSUME NEW c \in {"power", "input"}, at[c] # "off" PROVE FALSE
  <2>1. PICK i \in 1..MaxSteps : Steps[flow][i].does = c /\ job[i] = "running"
    BY <1>1 DEF IInv, TalksHaveJobs, TalksFor
  <2>2. QED
    BY <2>1, DyingLeavesKeys
<1>2. stage # "refresh"
  BY DEF FlowDies, Awaited
<1>3. QED
  BY <1>1, <1>2 DEF IInv, TalksHaveJobs

\* The flow goes on only when the step it waits for, or has to settle, has ended.
LEMMA GoingOnKeeps ==
  ASSUME IInv, Skip \/ StepDone \/ FlowDies \/ StepsDone \/ Settles \/ FlowOver
  PROVE  IInv'
<1> USE DEF IInv
<1>1. stage # "idle" => Len(Steps[flow]) \in 0..MaxSteps
  BY FlowsFit DEF JobsOK
<1>2. CASE Skip
  <2> USE <1>2 DEF Skip, AtStep, Passes, tvVars, lock, ends
  <2>1. JobsOK'
    BY DEF JobsOK
  <2>2. JobsInPlace'
    BY <1>1 DEF JobsInPlace, JobsOK
  <2>3. TalksHaveJobs'
    BY DEF TalksHaveJobs, TalksFor
  <2>4. TimesOutInPlace'
    <3>1. pc \in 1..MaxSteps
      BY PcFits
    <3>2. QED
      BY <3>1 DEF TimesOutInPlace
  <2>5. QED
    BY <2>1, <2>2, <2>3, <2>4
<1>3. ASSUME Passes, UNCHANGED tvVars, job' = [job EXCEPT ![pc] = "none"], job[pc] # "running",
             stage \in {"steps", "settle"}, pc <= Len(Steps[flow])
      PROVE  IInv'
  <2> USE <1>3 DEF Passes, tvVars, lock, ends
  <2>1. pc \in 1..MaxSteps
    BY PcFits
  <2>2. \A i \in 1..MaxSteps : (job'[i] = "running") = (job[i] = "running")
    BY <2>1 DEF JobsOK
  <2>3. JobsOK'
    BY <2>1 DEF JobsOK
  <2>4. JobsInPlace'
    BY <2>1, <2>2 DEF JobsInPlace, JobsOK
  <2>5. TalksHaveJobs'
    BY <2>2 DEF TalksHaveJobs, TalksFor
  <2>6. TimesOutInPlace'
    BY <2>1 DEF TimesOutInPlace, JobsOK
  <2>7. QED
    BY <2>3, <2>4, <2>5, <2>6
<1>4. CASE StepDone
  BY <1>3, <1>4 DEF StepDone, Awaited
<1>5. CASE Settles
  <2>1. stage = "settle" /\ pc <= Len(Steps[flow]) /\ pc \in 1..MaxSteps
    BY <1>5, PcFits DEF Settles, Settling
  <2>2. ASSUME job[pc] = "running" PROVE FALSE
    <3>1. Steps[flow][pc].background
      BY <2>1, <2>2 DEF JobsInPlace
    <3>2. QED
      BY <1>5, <2>2, <3>1 DEF Settles, ToSettle, Current
  <2>3. QED
    BY <1>3, <1>5, <2>1, <2>2 DEF Settles
<1>6. CASE StepsDone
  <2> USE <1>6 DEF StepsDone, tvVars, lock, ends
  <2>1. JobsOK'
    BY DEF JobsOK
  <2>2. JobsInPlace'
    BY <1>1 DEF JobsInPlace, JobsOK
  <2>3. TalksHaveJobs'
    BY DEF TalksHaveJobs, TalksFor
  <2>4. TimesOutInPlace'
    <3>1. ASSUME NEW i \in 1..MaxSteps, job[i] = "timeout" PROVE FALSE
      BY <1>1, <3>1 DEF TimesOutInPlace, JobsOK
    <3>2. QED
      BY <3>1 DEF TimesOutInPlace
  <2>5. QED
    BY <2>1, <2>2, <2>3, <2>4
<1>7. ASSUME FlowIsOver, stage # "idle", at["power"] = "off", at["input"] = "off", at["refresh"] = "off"
      PROVE  IInv'
  <2> USE <1>7 DEF FlowIsOver, NoJobs, lock
  <2>1. JobsOK'
    BY DEF JobsOK, MaxSteps
  <2>2. JobsInPlace' /\ TimesOutInPlace' /\ TalksHaveJobs'
    BY DEF JobsInPlace, TimesOutInPlace, TalksHaveJobs
  <2>3. QED
    BY <2>1, <2>2
<1>8. CASE FlowOver
  <2>1. stage = "settle" /\ pc > Len(Steps[flow]) /\ FlowIsOver
    BY <1>8 DEF FlowOver, Ended
  <2>2. \A i \in 1..MaxSteps : ~(i <= Len(Steps[flow]) /\ job[i] = "running")
    BY <1>1, <2>1 DEF JobsInPlace, JobsOK
  <2>3. at["power"] = "off" /\ at["input"] = "off" /\ at["refresh"] = "off"
    BY <2>1, <2>2 DEF TalksHaveJobs, TalksFor
  <2>4. QED
    BY <1>7, <2>1, <2>3
<1>9. CASE FlowDies
  <2>1. stage = "steps" /\ pc \in 1..MaxSteps /\ pc <= Len(Steps[flow]) /\ flow \in Flows /\ FlowIsOver
    BY <1>9, PcFits DEF FlowDies, Awaited, JobsOK
  <2>2. at["power"] = "off" /\ at["input"] = "off" /\ at["refresh"] = "off"
    BY <1>9, <2>1, DyingTalksNot
  <2>3. QED
    BY <1>7, <2>1, <2>2
<1>10. QED
  BY <1>2, <1>4, <1>5, <1>6, <1>8, <1>9

\* A step that ends or is stopped takes its conversation with the TV along.
LEMMA EndingKeeps ==
  ASSUME IInv, SettleTimeout \/ \E i \in 1..MaxSteps : JobEnds(i) \/ StepTimeout(i)
  PROVE  IInv'
<1> USE DEF IInv
<1>1. ASSUME NEW i \in 1..MaxSteps, job[i] = "running", stage' = stage, flow' = flow,
             pc' \in Nat, stage = "steps" => pc' = pc, stage = "settle" => pc' = pc \/ (pc = i /\ pc' = pc + 1),
             AtOK', ResultOK', NEW how \in Ends, job' = [job EXCEPT ![i] = how],
             how = "timeout" => stage = "steps" /\ i = pc /\ Steps[flow][i].does = "group",
             \A c \in FlowClients : at'[c] \in {"off", at[c]},
             \A c \in {"power", "input"} : Steps[flow][i].does = c => at'[c] = "off"
      PROVE  IInv'
  <2>1. \A j \in 1..MaxSteps : job'[j] = "running" => j # i /\ job[j] = "running"
    BY <1>1 DEF JobsOK, Ends
  <2>2. JobsOK'
    BY <1>1 DEF JobsOK, AtOK, ResultOK, Places, Results, Ends, FlowClients, JobsInPlace
  <2>3. JobsInPlace'
    BY <1>1, <2>1 DEF JobsInPlace, JobsOK
  <2>4. TalksHaveJobs'
    <3>1. stage' # "refresh" => at'["refresh"] = "off"
      BY <1>1 DEF TalksHaveJobs, FlowClients
    <3>2. ASSUME NEW c \in {"power", "input"}, at'[c] # "off"
          PROVE  stage' \in {"steps", "settle"} /\ TalksFor(c)'
      <4>1. at[c] # "off" /\ Steps[flow][i].does # c
        BY <1>1, <3>2 DEF FlowClients
      <4>2. PICK j \in 1..MaxSteps : j <= Len(Steps[flow]) /\ Steps[flow][j].does = c /\ job[j] = "running"
        BY <4>1 DEF TalksHaveJobs, TalksFor
      <4>3. job'[j] = "running" /\ stage \in {"steps", "settle"}
        BY <1>1, <4>1, <4>2 DEF JobsOK, TalksHaveJobs
      <4>4. QED
        BY <1>1, <4>2, <4>3 DEF TalksFor
    <3>3. QED
      BY <3>1, <3>2 DEF TalksHaveJobs
  <2>5. TimesOutInPlace'
    <3>1. ASSUME NEW j \in 1..MaxSteps, job'[j] = "timeout"
          PROVE  stage = "steps" /\ j = pc /\ j <= Len(Steps[flow]) /\ Steps[flow][j].does = "group"
      <4>1. job'[j] = IF j = i THEN how ELSE job[j]
        BY <1>1 DEF JobsOK
      <4>2. CASE j = i
        BY <1>1, <3>1, <4>1, <4>2 DEF JobsInPlace
      <4>3. CASE j # i
        BY <3>1, <4>1, <4>3 DEF TimesOutInPlace
      <4>4. QED
        BY <4>2, <4>3
    <3>2. stage \in {"steps", "settle"}
      BY <1>1 DEF JobsInPlace
    <3>3. QED
      BY <1>1, <3>1, <3>2 DEF TimesOutInPlace
  <2>6. QED
    BY <2>2, <2>3, <2>4, <2>5
<1>2. AtOK /\ ResultOK
  BY DEF JobsOK, AtOK, ResultOK, Places, Results, FlowClients
<1>3. ASSUME NEW i \in 1..MaxSteps, StopsJob(i)
      PROVE  /\ AtOK' /\ ResultOK' /\ \A c \in FlowClients : at'[c] \in {"off", at[c]}
             /\ \A c \in {"power", "input"} : Steps[flow][i].does = c => at'[c] = "off"
  <2>1. CASE IsTv(Steps[flow][i])
    BY <1>2, <1>3, <2>1, CancelledMoves DEF StopsJob, IsTv, FlowClients, Clients
  <2>2. CASE ~IsTv(Steps[flow][i])
    BY <1>2, <1>3, <2>2 DEF StopsJob, IsTv, tvVars, lock, ends, AtOK, ResultOK
  <2>3. QED
    BY <2>1, <2>2
<1>4. ASSUME NEW i \in 1..MaxSteps, JobEnds(i) PROVE IInv'
  <2>1. AtOK' /\ ResultOK' /\ UNCHANGED <<at, flow, stage, pc>>
    BY <1>2, <1>4 DEF JobEnds, tvVars, lock, ends, AtOK, ResultOK
  <2>2. \A c \in {"power", "input"} : Steps[flow][i].does = c => at'[c] = "off"
    BY <1>4, <2>1 DEF JobEnds, IsTv
  <2>3. PICK how \in Ends : /\ job' = [job EXCEPT ![i] = how]
                            /\ how = "timeout" => i = pc /\ Steps[flow][i].does = "group"
    <3>1. CASE IsTv(Steps[flow][i])
      BY <1>2, <1>4, <3>1 DEF JobEnds, IsTv, ResultOK, Results, Ends, FlowClients
    <3>2. CASE ~IsTv(Steps[flow][i])
      BY <1>4, <3>2 DEF JobEnds, Ends
    <3>3. QED
      BY <3>1, <3>2
  <2>6. how = "timeout" => stage = "steps"
    <3> SUFFICES ASSUME how = "timeout" PROVE stage = "steps"
      OBVIOUS
    <3>1. flow \in Flows /\ i <= Len(Steps[flow]) /\ stage \in {"steps", "settle"}
      BY <1>4 DEF JobEnds, JobsInPlace, JobsOK
    <3>2. ~Steps[flow][i].background
      BY <2>3, <3>1, GroupIsForeground
    <3>3. QED
      BY <1>4, <3>1, <3>2 DEF JobEnds, JobsInPlace
  <2>4. pc \in Nat /\ job[i] = "running"
    BY <1>4 DEF JobsOK, JobEnds
  <2>5. QED
    BY <1>1, <2>1, <2>2, <2>3, <2>4, <2>6 DEF FlowClients
<1>5. ASSUME NEW i \in 1..MaxSteps, StepTimeout(i) PROVE IInv'
  <2>1. UNCHANGED <<flow, stage, pc>> /\ job' = [job EXCEPT ![i] = "failed"] /\ job[i] = "running" /\ StopsJob(i)
    BY <1>5 DEF StepTimeout, StopsJob
  <2>2. pc \in Nat
    BY DEF JobsOK
  <2>3. QED
    BY <1>1, <1>3, <2>1, <2>2 DEF Ends
<1>6. CASE SettleTimeout
  <2>1. pc \in 1..MaxSteps
    BY <1>6, PcFits DEF SettleTimeout, Settling
  <2>2. /\ UNCHANGED <<flow, stage>> /\ pc' = pc + 1 /\ stage = "settle"
        /\ job' = [job EXCEPT ![pc] = "failed"] /\ job[pc] = "running" /\ StopsJob(pc)
    BY <1>6 DEF SettleTimeout, Settling, StopsJob, Passes
  <2>3. pc' \in Nat /\ "failed" \in Ends
    BY <2>1, <2>2 DEF JobsOK, Ends
  <2>4. /\ AtOK' /\ ResultOK' /\ \A c \in FlowClients : at'[c] \in {"off", at[c]}
        /\ \A c \in {"power", "input"} : Steps[flow][pc].does = c => at'[c] = "off"
    BY <1>3, <2>1, <2>2
  <2>5. QED
    BY <1>1, <2>1, <2>2, <2>3, <2>4
<1>7. QED
  BY <1>4, <1>5, <1>6

LEMMA SameKeeps ==
  ASSUME IInv, UNCHANGED <<tvVars, flowVars>>
  PROVE  IInv'
BY DEF tvVars, flowVars, lock, ends, IInv, JobsOK, JobsInPlace, TalksHaveJobs, TalksFor, TimesOutInPlace

LEMMA StepKeeps == IInv /\ [Next]_vars => IInv'
<1> SUFFICES ASSUME IInv, [Next]_vars PROVE IInv'
  OBVIOUS
<1>1. CASE UNCHANGED vars
  BY <1>1, SameKeeps DEF vars
<1>2. CASE StrayEnds
  BY <1>2, SameKeeps DEF StrayEnds
<1>3. CASE Begin \/ RunsSteps \/ (TvNext /\ UNCHANGED flowVars)
  BY <1>3, TvKeeps, RefreshKeeps, StartKeeps, GoingOnKeeps, EndingKeeps DEF RunsSteps
<1>4. QED
  BY <1>1, <1>2, <1>3 DEF Next

LEMMA PlacesHold == Spec => []IInv
BY InitKeeps, StepKeeps, PTL DEF Spec

\* A flow that goes to its end leaves no step at work behind, one that dies only
\* its keys for the Apple TV.
KeysLeft == left \subseteq {"ble"}

LEMMA LeftHolds == Spec => []KeysLeft
<1>1. Init => KeysLeft
  BY DEF Init, KeysLeft
<1>2. ASSUME IInv, left \subseteq {"ble"}, Begin \/ RunsSteps \/ (TvNext /\ UNCHANGED flowVars), LeavesBehind
      PROVE  left' \subseteq {"ble"}
  <2> SUFFICES ASSUME stage' = "idle", NEW i \in 1..MaxSteps, job[i] = "running"
               PROVE  Steps[flow][i].does = "ble"
    BY <1>2 DEF LeavesBehind, AtWork
  <2>1. stage \in {"steps", "settle"} /\ i <= Len(Steps[flow]) /\ (stage = "settle" => i >= pc)
    BY <1>2 DEF IInv, JobsInPlace
  <2>2. FlowDies \/ FlowOver
    BY <1>2, <2>1 DEF Begin, RunsSteps, RefreshEnds, RefreshTimeout, Snapshot, Skip, Start, StepDone, StepsDone,
                      Settles, SettleTimeout, JobEnds, StepTimeout, Passes, flowVars
  <2>3. CASE FlowDies
    BY <1>2, <2>3, DyingLeavesKeys
  <2>4. CASE FlowOver
    <3>1. pc > Len(Steps[flow]) /\ stage = "settle" /\ pc \in Nat /\ Len(Steps[flow]) \in 0..MaxSteps
      BY <1>2, <2>1, <2>4, FlowsFit DEF FlowOver, Ended, IInv, JobsOK
    <3>2. QED
      BY <2>1, <3>1
  <2>5. QED
    BY <2>2, <2>3, <2>4
<1>3. IInv /\ KeysLeft /\ [Next]_vars => KeysLeft'
  BY <1>2 DEF Next, vars, StrayEnds, KeysLeft
<1>4. QED
  BY <1>1, <1>3, PlacesHold, PTL DEF Spec

\* FlowRunner: when a flow is over, whatever failed, hung or was cancelled, no
\* step of it is at work, and none holds or waits for the TV's lock; a flow that
\* dies of a group it did not leave in time may leave keys for the Apple TV.
THEOREM LeavesNothing == Spec => []NothingLeftRunning
<1>1. IInv /\ KeysLeft => NothingLeftRunning
  <2> SUFFICES ASSUME IInv, KeysLeft, Ended \/ stage = "idle" PROVE NothingLeftRunning
    BY DEF NothingLeftRunning, KeysLeft
  <2>1. stage # "idle" => Len(Steps[flow]) \in 0..MaxSteps
    BY FlowsFit DEF IInv, JobsOK
  <2>2. \A i \in 1..MaxSteps : job[i] # "running"
    BY <2>1 DEF IInv, JobsOK, JobsInPlace, Ended
  <2>3. at["refresh"] = "off" /\ at["power"] = "off" /\ at["input"] = "off"
    BY <2>2 DEF IInv, TalksHaveJobs, TalksFor, Ended
  <2>4. QED
    BY <2>2, <2>3 DEF NothingLeftRunning, KeysLeft
<1>2. QED
  BY <1>1, PlacesHold, LeftHolds, PTL

----------------------------------------------------------------------------
(***************************************************************************)
(* The lock, and the answers on their way.                                 *)
(***************************************************************************)
LockOK ==
    /\ queue \in Seq(Clients) /\ OneEach
    /\ at \in [Clients -> Places]
    /\ \A c \in Clients : at[c] \in Requests => Head(queue) = c
    /\ \A c \in Clients : (at[c] \in {"off", "delay"}) = ~Waits(c)

Answers == Powers \cup Inputs \cup {"none", "ack"}

WaysOK == LockOK /\ got \in [Clients -> Answers] /\ AnswersFit

ValuesOK ==
    /\ power \in Powers /\ input \in Inputs /\ obey \in Powers \cup {"none"} /\ announced \in BOOLEAN
    /\ presence \in Powers \cup {"unknown"} /\ target \in Powers
    /\ tries \in [{"power", "input"} -> 0..Attempts] /\ ResultOK
    /\ missed \in BOOLEAN /\ events \in 0..MaxEvents

LEMMA TvInvIs == TvInv <=> WaysOK /\ ValuesOK /\ TriesLeft /\ NewsIsRead
BY DEF TvInv, TvTypeOK, WaysOK, ValuesOK, LockOK, Answers, Places, ResultOK, Results, FlowClients

\* A sequence without one of its items.
LEMMA RemoveAtIs ==
  ASSUME NEW S, NEW s \in Seq(S), NEW i \in DOMAIN s
  PROVE  /\ RemoveAt(s, i) \in Seq(S)
         /\ Len(RemoveAt(s, i)) = Len(s) - 1
         /\ \A j \in 1..Len(s) - 1 : RemoveAt(s, i)[j] = IF j < i THEN s[j] ELSE s[j + 1]
<1>1. i \in 1..Len(s) /\ Len(s) \in Nat
  OBVIOUS
<1>2. SubSeq(s, 1, i - 1) \in Seq(S) /\ Len(SubSeq(s, 1, i - 1)) = i - 1
      /\ \A j \in 1..i - 1 : SubSeq(s, 1, i - 1)[j] = s[j]
  BY <1>1
<1>3. SubSeq(s, i + 1, Len(s)) \in Seq(S) /\ Len(SubSeq(s, i + 1, Len(s))) = Len(s) - i
      /\ \A j \in 1..Len(s) - i : SubSeq(s, i + 1, Len(s))[j] = s[i + j]
  BY <1>1
<1> DEFINE a == SubSeq(s, 1, i - 1)
           b == SubSeq(s, i + 1, Len(s))
<1>4. RemoveAt(s, i) = a \o b
  BY DEF RemoveAt
<1>5. a \in Seq(S) /\ b \in Seq(S) /\ Len(a) = i - 1 /\ Len(b) = Len(s) - i
  BY <1>2, <1>3
<1> HIDE DEF a, b
<1>6. /\ a \o b \in Seq(S) /\ Len(a \o b) = Len(s) - 1
      /\ \A j \in 1..Len(s) - 1 : (a \o b)[j] = IF j < i THEN a[j] ELSE b[j - (i - 1)]
  <2>1. a \o b \in Seq(S) /\ Len(a \o b) = Len(a) + Len(b)
    BY <1>5, ConcatProperties
  <2>2. \A j \in 1..Len(a) + Len(b) : (a \o b)[j] = IF j <= Len(a) THEN a[j] ELSE b[j - Len(a)]
    BY <1>5, ConcatProperties
  <2>3. Len(a) + Len(b) = Len(s) - 1
    BY <1>1, <1>5
  <2>4. \A j \in 1..Len(s) - 1 : j <= Len(a) <=> j < i
    BY <1>1, <1>5
  <2>5. QED
    BY <1>5, <2>1, <2>2, <2>3, <2>4
<1>7. ASSUME NEW j \in 1..Len(s) - 1 PROVE (a \o b)[j] = IF j < i THEN s[j] ELSE s[j + 1]
  <2>1. CASE j < i
    <3>1. j \in 1..i - 1
      BY <1>1, <2>1
    <3>2. a[j] = s[j]
      BY <1>2, <3>1 DEF a
    <3>3. QED
      BY <1>6, <2>1, <3>2
  <2>2. CASE ~(j < i)
    <3>1. j - (i - 1) \in 1..Len(s) - i /\ i + (j - (i - 1)) = j + 1
      BY <1>1, <2>2
    <3>2. b[j - (i - 1)] = s[i + (j - (i - 1))]
      BY <1>3, <3>1 DEF b
    <3>3. QED
      BY <1>6, <2>2, <3>1, <3>2
  <2>3. QED
    BY <2>1, <2>2
<1>8. QED
  BY <1>4, <1>6, <1>7

\* Who leaves is no longer in the queue, and the others stay in their order.
LEMMA WithoutIs ==
  ASSUME LockOK, NEW c \in Clients, queue' = Without(c)
  PROVE  /\ queue' \in Seq(Clients) /\ OneEach'
         /\ \A d \in Clients : Waits(d)' <=> Waits(d) /\ d # c
         /\ queue # << >> /\ Head(queue) # c => Head(queue') = Head(queue)
<1>1. CASE ~Waits(c)
  BY <1>1 DEF Without, LockOK, OneEach, Waits
<1>2. CASE Waits(c)
  <2> DEFINE i == CHOOSE k \in DOMAIN queue : queue[k] = c
  <2>1. i \in DOMAIN queue /\ queue[i] = c
    BY <1>2 DEF Waits
  <2>2. queue \in Seq(Clients) /\ queue' = RemoveAt(queue, i)
    BY <1>2 DEF Without, LockOK
  <2> HIDE DEF i
  <2>3. PICK k : k = i
    OBVIOUS
  <2>4. /\ queue' \in Seq(Clients) /\ Len(queue') = Len(queue) - 1
        /\ \A j \in 1..Len(queue) - 1 : queue'[j] = IF j < k THEN queue[j] ELSE queue[j + 1]
    BY <2>1, <2>2, <2>3, RemoveAtIs
  <2>5. k \in 1..Len(queue) /\ Len(queue) \in Nat /\ queue[k] = c
    BY <2>1, <2>2, <2>3
  <2>6. DOMAIN queue' = 1..Len(queue) - 1
    BY <2>4
  <2>7. \A m, n \in 1..Len(queue) : queue[m] = queue[n] => m = n
    BY DEF LockOK, OneEach
  <2>8. OneEach'
    <3> SUFFICES ASSUME NEW m \in 1..Len(queue) - 1, NEW n \in 1..Len(queue) - 1, queue'[m] = queue'[n]
                 PROVE  m = n
      BY <2>6 DEF OneEach
    <3> DEFINE up(j) == IF j < k THEN j ELSE j + 1
    <3>1. \A j \in 1..Len(queue) - 1 : up(j) \in 1..Len(queue) /\ queue'[j] = queue[up(j)]
      BY <2>4, <2>5
    <3>2. queue[up(m)] = queue[up(n)] /\ up(m) \in 1..Len(queue) /\ up(n) \in 1..Len(queue)
      BY <3>1
    <3>3. up(m) = up(n)
      BY <2>7, <3>2
    <3>4. QED
      BY <2>5, <3>3
  <2>9. ASSUME NEW d \in Clients, Waits(d)' PROVE Waits(d) /\ d # c
    <3>1. PICK j \in 1..Len(queue) - 1 : queue'[j] = d
      BY <2>6, <2>9 DEF Waits
    <3>2. PICK m \in 1..Len(queue) : queue[m] = d /\ m # k
      BY <2>4, <2>5, <3>1
    <3>3. QED
      BY <2>5, <2>7, <3>2 DEF Waits
  <2>10. ASSUME NEW d \in Clients, Waits(d), d # c PROVE Waits(d)'
    <3>1. PICK m \in 1..Len(queue) : queue[m] = d
      BY <2>2, <2>10 DEF Waits
    <3>2. m # k
      BY <2>5, <2>10, <3>1
    <3>3. CASE m < k
      <4>1. m \in 1..Len(queue) - 1 /\ queue'[m] = d
        BY <2>4, <2>5, <3>1, <3>3
      <4>2. QED
        BY <2>6, <4>1 DEF Waits
    <3>4. CASE m > k
      <4>1. m - 1 \in 1..Len(queue) - 1 /\ queue'[m - 1] = d
        BY <2>4, <2>5, <3>1, <3>4
      <4>2. QED
        BY <2>6, <4>1 DEF Waits
    <3>5. QED
      BY <2>5, <3>1, <3>2, <3>3, <3>4
  <2>11. ASSUME Head(queue) # c PROVE Head(queue') = Head(queue)
    <3>1. k # 1
      BY <2>2, <2>5, <2>11
    <3>2. 1 \in 1..Len(queue) - 1 /\ queue'[1] = queue[1] /\ queue' # << >>
      BY <2>4, <2>5, <3>1
    <3>3. QED
      BY <2>2, <2>4, <2>5, <3>2
  <2>12. QED
    BY <2>4, <2>8, <2>9, <2>10, <2>11
<1>3. QED
  BY <1>1, <1>2

\* Who has a request on its way has the lock, and nobody else has.
LEMMA OneTalks ==
  ASSUME WaysOK, NEW c \in Clients, at[c] \in Requests, NEW d \in Clients, d # c
  PROVE  at[d] \notin Requests /\ got[d] = "none"
BY DEF WaysOK, LockOK, AnswersFit

LEMMA TalksIsFirst ==
  ASSUME LockOK, NEW c \in Clients, at[c] \in Requests
  PROVE  queue # << >> /\ Head(queue) = c
BY DEF LockOK, Waits, Requests

\* Who gets into the queue, leaves it, or goes on to another request.
LEMMA AsksWays ==
  ASSUME WaysOK, NEW c \in Clients, at[c] \in {"off", "delay"}, Asks(c), got' = got
  PROVE  WaysOK' /\ \A d \in Clients : at'[d] = IF d = c THEN "queued" ELSE at[d]
<1>1. at \in [Clients -> Places] /\ queue \in Seq(Clients)
  BY DEF WaysOK, LockOK
<1>2. \A d \in Clients : at'[d] = IF d = c THEN "queued" ELSE at[d]
  BY <1>1 DEF Asks
<1>3. at' \in [Clients -> Places]
  BY <1>1 DEF Asks, Places
<1>4. /\ queue' \in Seq(Clients) /\ Len(queue') = Len(queue) + 1
      /\ \A i \in 1..Len(queue) : queue'[i] = queue[i]
      /\ queue'[Len(queue) + 1] = c /\ Len(queue) \in Nat
  BY <1>1, AppendProperties DEF Asks
<1>5. DOMAIN queue' = 1..Len(queue) + 1 /\ DOMAIN queue = 1..Len(queue)
  BY <1>1, <1>4
<1>6. ~Waits(c)
  BY DEF WaysOK, LockOK
<1>7. OneEach'
  BY <1>4, <1>5, <1>6 DEF OneEach, WaysOK, LockOK, Waits
<1>8. ASSUME NEW d \in Clients PROVE Waits(d)' <=> Waits(d) \/ d = c
  <2>1. ASSUME Waits(d)' PROVE Waits(d) \/ d = c
    BY <1>4, <1>5, <2>1 DEF Waits
  <2>2. ASSUME Waits(d) PROVE Waits(d)'
    <3>1. PICK i \in 1..Len(queue) : queue[i] = d
      BY <1>5, <2>2 DEF Waits
    <3>2. i \in 1..Len(queue) + 1 /\ queue'[i] = d
      BY <1>4, <3>1
    <3>3. QED
      BY <1>5, <3>2 DEF Waits
  <2>3. Len(queue) + 1 \in 1..Len(queue) + 1
    BY <1>4
  <2>4. Waits(c)'
    BY <1>4, <1>5, <2>3 DEF Waits
  <2>5. QED
    BY <2>1, <2>2, <2>4
<1>9. ASSUME NEW d \in Clients, at'[d] \in Requests PROVE Head(queue') = d
  <2>1. at[d] \in Requests
    BY <1>2, <1>9 DEF Requests
  <2>2. queue # << >> /\ Head(queue) = d
    BY <2>1, TalksIsFirst DEF WaysOK
  <2>3. 1 \in 1..Len(queue) /\ queue[1] = d
    BY <1>1, <2>2
  <2>4. queue'[1] = d /\ queue' # << >>
    BY <1>4, <2>3
  <2>5. QED
    BY <1>4, <2>4
<1>10. LockOK'
  BY <1>2, <1>3, <1>4, <1>7, <1>8, <1>9 DEF LockOK, WaysOK
<1>11. AnswersFit'
  BY <1>2 DEF AnswersFit, WaysOK, Roads, Requests, Clients
<1>12. QED
  BY <1>2, <1>10, <1>11 DEF WaysOK

LEMMA LeavesWays ==
  ASSUME WaysOK, NEW c \in Clients, NEW how, Leaves(c, how)
  PROVE  /\ WaysOK'
         /\ \A d \in Clients : at'[d] = IF d = c THEN "off" ELSE at[d]
         /\ \A d \in Clients : got'[d] = IF d = c THEN "none" ELSE got[d]
<1>1. at \in [Clients -> Places] /\ got \in [Clients -> Answers]
  BY DEF WaysOK, LockOK
<1>2. at' \in [Clients -> Places] /\ \A d \in Clients : at'[d] = IF d = c THEN "off" ELSE at[d]
  BY <1>1 DEF Leaves, Places
<1>3. got' \in [Clients -> Answers] /\ \A d \in Clients : got'[d] = IF d = c THEN "none" ELSE got[d]
  BY <1>1 DEF Leaves, Answers
<1>4. /\ queue' \in Seq(Clients) /\ OneEach' /\ \A d \in Clients : Waits(d)' <=> Waits(d) /\ d # c
      /\ queue # << >> /\ Head(queue) # c => Head(queue') = Head(queue)
  BY WithoutIs DEF Leaves, WaysOK
<1>5. ASSUME NEW d \in Clients, at'[d] \in Requests PROVE Head(queue') = d
  <2>1. at[d] \in Requests /\ d # c
    BY <1>2, <1>5 DEF Requests
  <2>2. queue # << >> /\ Head(queue) = d
    BY <2>1, TalksIsFirst DEF WaysOK
  <2>3. QED
    BY <1>4, <2>1, <2>2
<1>6. LockOK'
  BY <1>2, <1>4, <1>5 DEF LockOK, WaysOK
<1>7. AnswersFit'
  BY <1>2, <1>3 DEF AnswersFit, WaysOK
<1>8. QED
  BY <1>2, <1>3, <1>6, <1>7 DEF WaysOK

LEMMA GoesOnWays ==
  ASSUME WaysOK, NEW c \in Clients, at[c] \in Requests, NEW request \in Requests, request \in Roads[c],
         GoesOn(c, request)
  PROVE  /\ WaysOK'
         /\ \A d \in Clients : at'[d] = IF d = c THEN request ELSE at[d]
         /\ \A d \in Clients : got'[d] = IF d = c THEN "none" ELSE got[d]
<1>1. at \in [Clients -> Places] /\ got \in [Clients -> Answers]
  BY DEF WaysOK, LockOK
<1>2. at' \in [Clients -> Places] /\ \A d \in Clients : at'[d] = IF d = c THEN request ELSE at[d]
  BY <1>1 DEF GoesOn, Places
<1>3. got' \in [Clients -> Answers] /\ \A d \in Clients : got'[d] = IF d = c THEN "none" ELSE got[d]
  BY <1>1 DEF GoesOn, Answers
<1>4. Head(queue) = c
  BY DEF WaysOK, LockOK
<1>5. LockOK'
  BY <1>2, <1>4 DEF LockOK, WaysOK, GoesOn, OneEach, Waits, Requests
<1>6. AnswersFit'
  BY <1>2, <1>3 DEF AnswersFit, WaysOK
<1>7. QED
  BY <1>2, <1>3, <1>5, <1>6 DEF WaysOK

LEMMA FirstIsOnRoad ==
  ASSUME NEW c \in Clients
  PROVE  FirstRequest(c) \in Requests /\ FirstRequest(c) \in Roads[c]
BY DEF FirstRequest, Requests, Roads, Clients

\* What a client that has a request on its way does with its answer.
Moves(c) ==
    /\ WaysOK' /\ ResultOK'
    /\ \A d \in Clients : d # c => at'[d] = at[d] /\ got'[d] = got[d]
    /\ got'[c] = "none"

LEMMA LeavesOrGoesOn ==
  ASSUME WaysOK, ResultOK, NEW c \in Clients, at[c] \in Requests, NEW request \in Requests, request \in Roads[c],
         NEW how \in {"ok", "failed"}, Leaves(c, how) \/ GoesOn(c, request)
  PROVE  Moves(c)
<1>1. AtOK
  BY DEF WaysOK, LockOK, AtOK
<1>2. ResultOK'
  BY <1>1, LeavesMoves, GoesOnMoves
<1>3. QED
  BY <1>2, LeavesWays, GoesOnWays DEF Moves

LEMMA TriesAgainDoes ==
  ASSUME WaysOK, ValuesOK, TriesLeft, NEW c \in {"power", "input"}, at[c] \in Requests, TriesAgain(c)
  PROVE  /\ Moves(c) /\ TriesLeft'
         /\ tries' \in [{"power", "input"} -> 0..Attempts]
<1>1. c \in Clients /\ FirstRequest(c) \in Requests /\ FirstRequest(c) \in Roads[c]
  BY FirstIsOnRoad DEF Clients
<1>2. GoesOn(c, FirstRequest(c)) \/ Leaves(c, "failed")
  BY DEF TriesAgain
<1>3. Moves(c)
  BY <1>1, <1>2, LeavesOrGoesOn DEF ValuesOK
<1>4. tries \in [{"power", "input"} -> 0..Attempts] /\ tries[c] # 0 /\ Attempts \in Nat
  BY FrameTvBounds DEF ValuesOK, TriesLeft, Requests
<1>5. tries[c] - 1 \in 0..Attempts
  BY <1>4
<1>6. /\ tries' \in [{"power", "input"} -> 0..Attempts]
      /\ \A d \in {"power", "input"} : tries'[d] = IF d = c THEN tries[c] - 1 ELSE tries[d]
  BY <1>4, <1>5 DEF TriesAgain
<1>7. TriesLeft'
  <2>1. CASE tries[c] > 1
    <3>1. tries[c] - 1 # 0
      BY <1>4, <2>1
    <3>2. QED
      BY <1>3, <1>6, <3>1 DEF TriesLeft, Moves, Clients
  <2>2. CASE ~(tries[c] > 1)
    <3>1. at'[c] = "off"
      BY <1>1, <2>2, LeavesWays DEF TriesAgain
    <3>2. QED
      BY <1>3, <1>6, <3>1 DEF TriesLeft, Moves, Clients
  <2>3. QED
    BY <2>1, <2>2
<1>8. QED
  BY <1>3, <1>6, <1>7

\* The belief follows: no news is left out by what changes neither the TV nor it.
LEMMA NewsStays ==
  ASSUME WaysOK, NewsIsRead, UNCHANGED <<power, announced, presence, missed>>,
         \A d \in Clients : got'[d] \in {got[d], "none"},
         at'["announce"] = "off" => at["announce"] = "off"
  PROVE  NewsIsRead'
<1>1. at["announce"] = "off" => got["announce"] = "none"
  BY DEF WaysOK, AnswersFit, Clients, Requests
<1>2. QED
  BY <1>1 DEF NewsIsRead, Powers, Clients

\* A reading is put in place of the belief.
LEMMA CommitKeepsNews ==
  ASSUME WaysOK, NewsIsRead, NEW c \in Clients, at[c] \in {"read", "verify"}, got[c] # "none",
         Commit(c), Moves(c), UNCHANGED <<power, announced>>
  PROVE  NewsIsRead'
<1>1. at[c] \in Requests /\ got[c] \in Powers
  BY DEF WaysOK, AnswersFit, Requests
<1>2. \A d \in Clients : got'[d] = "none"
  BY <1>1, OneTalks DEF Moves
<1>3. ASSUME ~announced, ~missed', at'["announce"] = "off" PROVE got[c] = power
  <2>1. CASE missed
    BY <1>3, <2>1 DEF Commit
  <2>2. CASE ~missed /\ c = "announce"
    BY <1>1, <1>3, <2>2 DEF NewsIsRead, Requests
  <2>3. CASE ~missed /\ c # "announce"
    <3>1. at["announce"] = "off"
      BY <1>3, <2>3 DEF Moves, Clients
    <3>2. QED
      BY <1>1, <1>3, <2>3, <3>1 DEF NewsIsRead
  <2>4. QED
    BY <2>1, <2>2, <2>3
<1>4. "none" \notin Powers /\ presence' = got[c] /\ "announce" \in Clients
  BY DEF Powers, Commit, Clients
<1>5. QED
  BY <1>2, <1>3, <1>4 DEF NewsIsRead

TvParts == WaysOK /\ ValuesOK /\ TriesLeft /\ NewsIsRead

\* An answer is handled that is no reading to believe.
LEMMA MovesKeeps ==
  ASSUME TvParts, NEW c \in Clients, c # "announce", at[c] \in Requests, Moves(c),
         UNCHANGED <<tv, presence, target, tries, missed, events>>
  PROVE  TvParts'
<1> USE DEF TvParts
<1>1. WaysOK'
  BY DEF Moves
<1>2. ValuesOK'
  BY DEF ValuesOK, Moves, tv
<1>3. TriesLeft'
  BY DEF TriesLeft, Moves, Clients, Requests
<1>4. NewsIsRead'
  BY NewsStays DEF Moves, Clients, tv
<1>5. QED
  BY <1>1, <1>2, <1>3, <1>4

LEMMA ReadingKeeps ==
  ASSUME TvParts, NEW c \in Clients, at[c] \in {"read", "verify"}, got[c] # "none", Commit(c), Moves(c),
         UNCHANGED <<tv, target, tries, events>>
  PROVE  TvParts'
<1> USE DEF TvParts
<1>1. WaysOK' /\ at[c] \in Requests
  BY DEF Moves, Requests
<1>2. ValuesOK'
  <2>1. got[c] \in Powers /\ presence' = got[c] /\ missed' \in BOOLEAN
    BY DEF WaysOK, AnswersFit, Commit
  <2>2. QED
    BY <2>1 DEF ValuesOK, Moves, tv
<1>3. TriesLeft'
  BY <1>1 DEF TriesLeft, Moves, Clients, Requests
<1>4. NewsIsRead'
  BY CommitKeepsNews DEF tv
<1>5. QED
  BY <1>1, <1>2, <1>3, <1>4

LEMMA HandlesKeepsTv ==
  ASSUME TvParts, TvHandles
  PROVE  TvParts'
<1> USE DEF TvParts
<1>r. ResultOK /\ AnswersFit
  BY DEF ValuesOK, WaysOK
<1>1. ASSUME NEW c \in Clients, Granted(c) PROVE TvParts'
  <2>1. at \in [Clients -> Places] /\ got[c] = "none" /\ Head(queue) = c
    BY <1>1 DEF Granted, WaysOK, LockOK, AnswersFit, Requests
  <2>2. FirstRequest(c) \in Requests /\ FirstRequest(c) \in Roads[c]
    BY FirstIsOnRoad
  <2>3. at' \in [Clients -> Places] /\ \A d \in Clients : at'[d] = IF d = c THEN FirstRequest(c) ELSE at[d]
    BY <1>1, <2>1, <2>2 DEF Granted, Places
  <2>4. ASSUME NEW d \in Clients, at[d] \in Requests PROVE d = c
    BY <2>1, <2>4 DEF WaysOK, LockOK
  <2>5. LockOK'
    BY <1>1, <2>1, <2>2, <2>3, <2>4 DEF Granted, LockOK, WaysOK, OneEach, Waits, Requests
  <2>6. AnswersFit'
    BY <1>1, <2>1, <2>2, <2>3 DEF Granted, AnswersFit, WaysOK
  <2>7. ValuesOK'
    BY <1>1 DEF Granted, ValuesOK, tv, ends, ResultOK
  <2>8. TriesLeft'
    BY <1>1, <2>3 DEF Granted, TriesLeft, ends, Clients
  <2>9. at'["announce"] = "off" => at["announce"] = "off"
    BY <2>2, <2>3 DEF Requests, Clients
  <2>10. NewsIsRead'
    BY <1>1, <2>9, NewsStays DEF Granted, tv
  <2>11. QED
    BY <1>1, <2>5, <2>6, <2>7, <2>8, <2>10 DEF WaysOK, Granted
<1>2. ASSUME NEW c \in Clients, PowerRead(c) PROVE TvParts'
  <2>1. at[c] = "read" /\ got[c] # "none" /\ Commit(c) /\ UNCHANGED <<tv, target, tries, events>>
    BY <1>2 DEF PowerRead, Back
  <2>2. (c = "api" /\ GoesOn(c, "source")) \/ Leaves(c, "ok")
    BY <1>2 DEF PowerRead
  <2>3. Moves(c)
    BY <1>r, <2>1, <2>2, LeavesOrGoesOn, FirstIsOnRoad DEF Requests, Roads
  <2>4. QED
    BY <2>1, <2>3, ReadingKeeps
<1>3. ASSUME NEW c \in Clients, SourceRead(c) PROVE TvParts'
  <2>1. at[c] = "source" /\ UNCHANGED <<tv, presence, target, tries, missed, events>>
    BY <1>3 DEF SourceRead, Back
  <2>2. c \in {"api", "input"}
    BY <1>r, <2>1 DEF AnswersFit, Roads, Clients
  <2>3. Leaves(c, "ok") \/ (c = "input" /\ GoesOn(c, "switch"))
    <3>1. CASE c = "api"
      BY <1>3, <3>1 DEF SourceRead
    <3>2. CASE c = "input"
      <4>1. CASE got[c] = "hdmi1"
        BY <1>3, <3>2, <4>1 DEF SourceRead
      <4>2. CASE got[c] # "hdmi1"
        BY <1>3, <3>2, <4>2 DEF SourceRead
      <4>3. QED
        BY <4>1, <4>2
    <3>3. QED
      BY <2>2, <3>1, <3>2
  <2>4. Moves(c)
    BY <1>r, <2>1, <2>3, LeavesOrGoesOn, FirstIsOnRoad DEF Requests, Roads
  <2>5. QED
    BY <2>1, <2>2, <2>4, MovesKeeps DEF Requests
<1>4. CASE DelayOver
  <2>1. at["announce"] = "delay" /\ "announce" \in Clients
    BY <1>4 DEF DelayOver, Clients
  <2>2. WaysOK' /\ \A d \in Clients : at'[d] = IF d = "announce" THEN "queued" ELSE at[d]
    BY <1>4, <2>1, AsksWays DEF DelayOver
  <2>3. ValuesOK'
    BY <1>4 DEF DelayOver, ValuesOK, tv, ends, ResultOK
  <2>4. TriesLeft'
    BY <1>4, <2>2 DEF DelayOver, TriesLeft, ends, Clients
  <2>5. NewsIsRead'
    BY <1>4, <2>1, <2>2, NewsStays DEF DelayOver, tv
  <2>6. QED
    BY <2>2, <2>3, <2>4, <2>5
<1>5. "power" \in Clients /\ "input" \in Clients
  BY DEF Clients
<1>6. CASE Ordered
  <2>1. Moves("power")
    BY <1>r, <1>5, <1>6, LeavesOrGoesOn DEF Ordered, Back, Requests, Roads
  <2>2. QED
    BY <1>5, <1>6, <2>1, MovesKeeps DEF Ordered, Back, Requests
<1>7. CASE Verified
  <2>1. at["power"] = "verify" /\ got["power"] # "none" /\ Commit("power") /\ UNCHANGED <<tv, target, tries, events>>
    BY <1>7 DEF Verified, Back
  <2>2. Leaves("power", "ok") \/ GoesOn("power", "verify")
    BY <1>7 DEF Verified
  <2>3. Moves("power")
    BY <1>r, <1>5, <2>1, <2>2, LeavesOrGoesOn DEF Requests, Roads
  <2>4. QED
    BY <1>5, <2>1, <2>3, ReadingKeeps
<1>8. CASE VerifyDeadline
  <2>1. Moves("power")
    BY <1>r, <1>5, <1>8, LeavesOrGoesOn DEF VerifyDeadline, Requests, Roads
  <2>2. QED
    BY <1>5, <1>8, <2>1, MovesKeeps DEF VerifyDeadline, Requests
<1>9. CASE Switched
  <2>1. Moves("input")
    BY <1>r, <1>5, <1>9, LeavesOrGoesOn DEF Switched, Back, Requests, Roads
  <2>2. QED
    BY <1>5, <1>9, <2>1, MovesKeeps DEF Switched, Back, Requests
<1>10. CASE Checked
  <2>1. at["input"] = "check" /\ UNCHANGED <<tv, presence, target, missed, events>>
    BY <1>10 DEF Checked, Back
  <2>2. CASE Leaves("input", "ok") /\ UNCHANGED tries
    <3>1. Moves("input")
      BY <1>r, <1>5, <2>1, <2>2, LeavesOrGoesOn DEF Requests, Roads
    <3>2. QED
      BY <1>5, <2>1, <2>2, <3>1, MovesKeeps DEF Requests
  <2>3. CASE TriesAgain("input")
    <3>1. Moves("input") /\ TriesLeft' /\ tries' \in [{"power", "input"} -> 0..Attempts]
      BY <2>1, <2>3, TriesAgainDoes DEF Requests
    <3>2. ValuesOK'
      BY <2>1, <3>1 DEF ValuesOK, Moves, tv
    <3>3. NewsIsRead'
      BY <2>1, <3>1, NewsStays DEF Moves, Clients, tv
    <3>4. QED
      BY <3>1, <3>2, <3>3 DEF Moves
  <2>4. QED
    BY <1>10, <2>2, <2>3 DEF Checked
<1>11. QED
  BY <1>1, <1>2, <1>3, <1>4, <1>6, <1>7, <1>8, <1>9, <1>10 DEF TvHandles

LEMMA TvKeepsTv ==
  ASSUME TvParts, TvNext
  PROVE  TvParts'
<1> USE DEF TvParts
<1>r. ResultOK /\ AnswersFit /\ at \in [Clients -> Places] /\ got \in [Clients -> Answers] /\ MaxEvents \in Nat
  BY FrameTvBounds DEF ValuesOK, WaysOK, LockOK
<1>e. ASSUME Event PROVE events' \in 0..MaxEvents
  BY <1>r, <1>e DEF Event, ValuesOK
<1>1. CASE TvHandles
  BY <1>1, HandlesKeepsTv
<1>2. ASSUME UNCHANGED <<lock, target, ends, presence>>, obey' \in Powers \cup {"none"},
             input' \in Inputs, events' \in 0..MaxEvents, announced' \in BOOLEAN, power' \in Powers, missed' \in BOOLEAN,
             UNCHANGED <<announced, missed, power>> \/ announced' \/ missed'
      PROVE  TvParts'
  <2> USE <1>2 DEF lock, ends
  <2>1. WaysOK'
    BY DEF WaysOK, LockOK, OneEach, Waits, AnswersFit
  <2>2. ValuesOK' /\ TriesLeft'
    BY DEF ValuesOK, ResultOK, TriesLeft
  <2>3. NewsIsRead'
    BY DEF NewsIsRead
  <2>4. QED
    BY <2>1, <2>2, <2>3
<1>3. CASE UsedByHand
  <2>1. power' \in Powers /\ announced' \in BOOLEAN /\ input' \in Inputs
    BY <1>3 DEF UsedByHand, Turns, ValuesOK, Powers, Inputs
  <2>2. UNCHANGED <<announced, power>> \/ announced'
    BY <1>3 DEF UsedByHand, Turns, ValuesOK, Powers
  <2>3. QED
    BY <1>2, <1>3, <1>e, <2>1, <2>2 DEF UsedByHand, ValuesOK
<1>4. CASE Obeys
  <2>1. power' \in Powers /\ announced' \in BOOLEAN /\ (UNCHANGED <<announced, power>> \/ announced')
    BY <1>4 DEF Obeys, Turns, ValuesOK, Powers
  <2>2. QED
    BY <1>2, <1>4, <2>1 DEF Obeys, ValuesOK
<1>5. CASE AnnouncementLost
  BY <1>2, <1>5, <1>e DEF AnnouncementLost, ValuesOK
<1>6. CASE ApiRefresh
  <2>1. "api" \in Clients /\ at["api"] \in {"off", "delay"}
    BY <1>6 DEF ApiRefresh, Clients
  <2>2. WaysOK' /\ \A d \in Clients : at'[d] = IF d = "api" THEN "queued" ELSE at[d]
    BY <1>6, <2>1, AsksWays DEF ApiRefresh
  <2>3. ValuesOK'
    BY <1>6, <1>e DEF ApiRefresh, ValuesOK, tv, ends, ResultOK
  <2>4. TriesLeft'
    BY <1>6, <2>2 DEF ApiRefresh, TriesLeft, ends, Clients
  <2>5. NewsIsRead'
    BY <1>6, <2>2, NewsStays DEF ApiRefresh, tv, Clients
  <2>6. QED
    BY <2>2, <2>3, <2>4, <2>5
<1>7. CASE AnnouncementHeard
  <2> USE <1>7 DEF AnnouncementHeard, ends
  <2>1. "announce" \in Clients
    BY DEF Clients
  <2>2. at' \in [Clients -> Places] /\ \A d \in Clients :
          at'[d] = IF d = "announce" /\ at[d] = "off" THEN "delay" ELSE at[d]
    BY <1>r, <2>1 DEF Places
  <2>3. LockOK'
    <3>1. \A d \in Clients : Waits(d)' <=> Waits(d)
      BY DEF Waits
    <3>2. \A d \in Clients : /\ at'[d] \in Requests => at[d] \in Requests
                            /\ (at'[d] \in {"off", "delay"}) = (at[d] \in {"off", "delay"})
      BY <2>2 DEF Requests
    <3>3. QED
      BY <2>2, <3>1, <3>2 DEF LockOK, WaysOK, OneEach
  <2>4. AnswersFit'
    BY <2>2 DEF AnswersFit, WaysOK, Roads, Requests, Clients
  <2>5. ValuesOK' /\ TriesLeft'
    <3>1. missed' \in BOOLEAN
      <4>1. CASE got["announce"] \in Powers \ {power}
        BY <4>1
      <4>2. CASE got["announce"] \notin Powers \ {power}
        BY <4>2
      <4>3. QED
        BY <4>1, <4>2
    <3>2. ValuesOK'
      BY <3>1 DEF ValuesOK, ResultOK
    <3>3. TriesLeft'
      BY <2>2 DEF TriesLeft, Clients
    <3>4. QED
      BY <3>2, <3>3
  <2>6. NewsIsRead'
    BY <2>1, <2>2 DEF NewsIsRead
  <2>7. QED
    BY <2>3, <2>4, <2>5, <2>6, <1>r DEF WaysOK
<1>8. ASSUME NEW c \in Clients, TvAnswers(c) PROVE TvParts'
  <2> USE <1>8 DEF TvAnswers, ends
  <2>1. at[c] \in Requests /\ got[c] = "none" /\ power \in Powers /\ input \in Inputs
    BY DEF ValuesOK
  <2>2. PICK a : /\ a = CASE at[c] \in {"read", "verify"} -> power
                          [] at[c] \in {"source", "check"} -> input
                          [] OTHER -> "ack"
                 /\ got' = [got EXCEPT ![c] = a]
    OBVIOUS
  <2>3. /\ a \in Answers /\ (at[c] \in {"read", "verify"} => a = power)
        /\ (at[c] \in {"source", "check"} => a = input) /\ (a \in Powers => a = power)
    BY <2>1, <2>2 DEF Answers, Powers, Inputs, Requests
  <2>4. got' \in [Clients -> Answers] /\ \A d \in Clients : got'[d] = IF d = c THEN a ELSE got[d]
    BY <1>r, <2>2, <2>3
  <2>5. LockOK'
    BY DEF LockOK, WaysOK, OneEach, Waits
  <2>6. AnswersFit'
    BY <2>1, <2>3, <2>4 DEF AnswersFit, WaysOK
  <2>7. ValuesOK' /\ TriesLeft'
    BY DEF ValuesOK, ResultOK, TriesLeft, Inputs
  <2>8. NewsIsRead'
    BY <2>3, <2>4 DEF NewsIsRead, Clients
  <2>9. QED
    BY <2>4, <2>5, <2>6, <2>7, <2>8 DEF WaysOK
<1>9. ASSUME NEW c \in Clients, RequestFails(c) PROVE TvParts'
  <2> USE <1>9 DEF RequestFails
  <2>1. at[c] \in Requests /\ events' \in 0..MaxEvents /\ obey' \in Powers \cup {"none"}
    BY <1>e DEF Astray, ValuesOK
  <2>2. Moves(c) /\ TriesLeft' /\ tries' \in [{"power", "input"} -> 0..Attempts]
    <3>1. CASE TriesAgain(c) /\ c \in {"power", "input"}
      BY <2>1, <3>1, TriesAgainDoes
    <3>2. CASE /\ (c = "api" /\ GoesOn(c, "source")) \/ Leaves(c, "failed")
               /\ UNCHANGED tries
      <4>1. Moves(c)
        BY <1>r, <2>1, <3>2, LeavesOrGoesOn, FirstIsOnRoad DEF Requests, Roads
      <4>2. QED
        BY <2>1, <3>2, <4>1 DEF TriesLeft, ValuesOK, Moves, Clients, Requests
    <3>3. QED
      BY <3>1, <3>2 DEF Clients
  <2>3. ValuesOK'
    BY <2>1, <2>2 DEF ValuesOK, Moves
  <2>4. NewsIsRead'
    <3>1. CASE c = "announce"
      BY <3>1 DEF NewsIsRead
    <3>2. CASE c # "announce"
      <4>1. missed' = missed
        BY <3>2 DEF ValuesOK
      <4>2. QED
        BY <2>2, <3>2, <4>1, NewsStays DEF Moves, Clients
    <3>3. QED
      BY <3>1, <3>2
  <2>5. QED
    BY <2>2, <2>3, <2>4 DEF Moves
<1>10. QED
  BY <1>1, <1>3, <1>4, <1>5, <1>6, <1>7, <1>8, <1>9 DEF TvNext, TvOutside

----------------------------------------------------------------------------
(***************************************************************************)
(* What a flow does to them.                                               *)
(***************************************************************************)
\* A flow has one power step and one input step at most.
LEMMA OneStepEach ==
  ASSUME NEW f \in Flows, NEW i \in 1..MaxSteps, i <= Len(Steps[f]), IsTv(Steps[f][i]),
         NEW j \in 1..MaxSteps, j <= Len(Steps[f]), Steps[f][j].does = Steps[f][i].does
  PROVE  i = j
<1>0. i \in 1..6 /\ j \in 1..6
  BY DEF MaxSteps
<1> USE <1>0 DEF IsTv, StopSpeaker, Step, Background
<1>1. CASE f = "listen"
  BY <1>1 DEF Steps
<1>2. CASE f = "watch"
  BY <1>2 DEF Steps
<1>3. CASE f = "listen_signal"
  BY <1>3 DEF Steps
<1>4. CASE f = "watch_signal"
  BY <1>4 DEF Steps
<1>5. CASE f = "power_off"
  BY <1>5 DEF Steps
<1>6. f \in {"listen", "watch", "listen_signal", "watch_signal", "power_off"}
  BY DEF Flows, Steps
<1>7. QED
  BY <1>1, <1>2, <1>3, <1>4, <1>5, <1>6

\* A step of the TV that is to start finds its client away from the lock.
LEMMA StartsFromOff ==
  ASSUME IInv, Start, IsTv(Current)
  PROVE  Current.does \in {"power", "input"} /\ at[Current.does] = "off"
<1>1. Current.does \in {"power", "input"}
  BY DEF IsTv
<1>2. pc \in 1..MaxSteps /\ pc <= Len(Steps[flow]) /\ flow \in Flows /\ job[pc] = "none" /\ stage = "steps"
  BY PcFits DEF IInv, JobsOK, Start, AtStep
<1>3. ASSUME at[Current.does] # "off" PROVE FALSE
  <2>1. PICK i \in 1..MaxSteps : i <= Len(Steps[flow]) /\ Steps[flow][i].does = Current.does /\ job[i] = "running"
    BY <1>1, <1>3 DEF IInv, TalksHaveJobs, TalksFor
  <2>2. i = pc
    BY <1>2, <2>1, OneStepEach DEF Current
  <2>3. QED
    BY <1>2, <2>1, <2>2
<1>4. QED
  BY <1>1, <1>3

LEMMA SameKeepsTv ==
  ASSUME TvParts, UNCHANGED tvVars
  PROVE  TvParts'
<1> USE DEF TvParts, tvVars, tv, lock, ends
<1>1. WaysOK'
  BY DEF WaysOK, LockOK, OneEach, Waits, AnswersFit
<1>2. ValuesOK' /\ TriesLeft' /\ NewsIsRead'
  BY DEF ValuesOK, ResultOK, TriesLeft, NewsIsRead
<1>3. QED
  BY <1>1, <1>2

LEMMA CancelledKeepsTv ==
  ASSUME TvParts, NEW c \in FlowClients, Cancelled(c)
  PROVE  /\ TvParts'
         /\ \A d \in Clients : at'[d] = IF d = c THEN "off" ELSE at[d]
         /\ \A d \in Clients : got'[d] = IF d = c THEN "none" ELSE got[d]
         /\ \A d \in FlowClients : result'[d] = IF d = c THEN "failed" ELSE result[d]
<1> USE DEF TvParts, Cancelled
<1>1. c \in Clients /\ c # "announce" /\ result \in [FlowClients -> Results] /\ DOMAIN result = FlowClients
  BY DEF FlowClients, Clients, ValuesOK, ResultOK
<1>2. /\ WaysOK'
      /\ \A d \in Clients : at'[d] = IF d = c THEN "off" ELSE at[d]
      /\ \A d \in Clients : got'[d] = IF d = c THEN "none" ELSE got[d]
  BY <1>1, LeavesWays
<1>3. ResultOK' /\ \A d \in FlowClients : result'[d] = IF d = c THEN "failed" ELSE result[d]
  BY <1>1 DEF Leaves, ResultOK, Results
<1>4. ValuesOK'
  BY <1>3 DEF ValuesOK, Astray
<1>5. TriesLeft'
  BY <1>2 DEF TriesLeft, Clients
<1>6. NewsIsRead'
  BY <1>1, <1>2, NewsStays DEF Clients
<1>7. QED
  BY <1>2, <1>3, <1>4, <1>5, <1>6

LEMMA FlowKeepsTv ==
  ASSUME IInv, TvParts, Begin \/ RunsSteps
  PROVE  TvParts'
<1> USE DEF TvParts
<1>1. CASE Begin
  <2> USE <1>1 DEF Begin
  <2>1. at["refresh"] = "off" /\ "refresh" \in Clients
    BY DEF IInv, TalksHaveJobs, Clients
  <2>2. WaysOK' /\ \A d \in Clients : at'[d] = IF d = "refresh" THEN "queued" ELSE at[d]
    BY <2>1, AsksWays
  <2>3. target' \in Powers /\ events' \in 0..MaxEvents
    BY FrameTvBounds DEF Wanted, Powers, Event, ValuesOK
  <2>4. ValuesOK'
    BY <2>3 DEF ValuesOK, tv, ends, ResultOK
  <2>5. TriesLeft'
    BY <2>2 DEF TriesLeft, ends, Clients
  <2>6. NewsIsRead'
    BY <2>2, NewsStays DEF tv, Clients
  <2>7. QED
    BY <2>2, <2>4, <2>5, <2>6
<1>2. CASE Start
  <2>1. CASE ~IsTv(Current)
    BY <1>2, <2>1, SameKeepsTv DEF Start, tvVars, lock, ends
  <2>2. CASE IsTv(Current)
    <3> DEFINE c == Current.does
    <3>1. c \in {"power", "input"} /\ at[c] = "off" /\ c \in Clients
      BY <1>2, <2>2, StartsFromOff DEF Clients
    <3>2. /\ Asks(c) /\ tries' = [tries EXCEPT ![c] = Attempts]
          /\ UNCHANGED <<tv, presence, got, target, result, missed, events>>
      BY <1>2, <2>2 DEF Start
    <3> HIDE DEF c
    <3>3. WaysOK' /\ \A d \in Clients : at'[d] = IF d = c THEN "queued" ELSE at[d]
      BY <3>1, <3>2, AsksWays
    <3>4. Attempts \in 0..Attempts /\ Attempts # 0
      BY FrameTvBounds
    <3>5. /\ tries' \in [{"power", "input"} -> 0..Attempts]
          /\ \A d \in {"power", "input"} : tries'[d] = IF d = c THEN Attempts ELSE tries[d]
      BY <3>1, <3>2, <3>4 DEF ValuesOK
    <3>6. ValuesOK'
      BY <3>2, <3>5 DEF ValuesOK, tv, ResultOK
    <3>7. TriesLeft'
      BY <3>3, <3>4, <3>5 DEF TriesLeft, Clients
    <3>8. NewsIsRead'
      BY <3>1, <3>2, <3>3, NewsStays DEF tv, Clients
    <3>9. QED
      BY <3>3, <3>6, <3>7, <3>8
  <2>3. QED
    BY <2>1, <2>2
<1>3. CASE FlowOver \/ FlowDies
  <2> USE <1>3 DEF FlowOver, FlowDies, FlowIsOver, lock
  <2>1. WaysOK'
    BY DEF WaysOK, LockOK, OneEach, Waits, AnswersFit
  <2>2. ValuesOK'
    BY DEF ValuesOK, ResultOK, Results, Powers, tv
  <2>3. TriesLeft' /\ NewsIsRead'
    BY DEF TriesLeft, NewsIsRead, tv
  <2>4. QED
    BY <2>1, <2>2, <2>3
<1>4. CASE RefreshTimeout
  BY <1>4, CancelledKeepsTv DEF RefreshTimeout, FlowClients
<1>5. ASSUME NEW i, StopsJob(i) PROVE TvParts'
  BY <1>5, CancelledKeepsTv, SameKeepsTv DEF StopsJob, IsTv, FlowClients
<1>6. CASE SettleTimeout \/ \E i \in 1..MaxSteps : StepTimeout(i)
  BY <1>5, <1>6 DEF SettleTimeout, StepTimeout
<1>7. CASE RefreshEnds \/ Skip \/ StepDone \/ StepsDone \/ Settles \/ \E i \in 1..MaxSteps : JobEnds(i)
  BY <1>7, SameKeepsTv DEF RefreshEnds, Skip, StepDone, StepsDone, Settles, JobEnds
<1>8. QED
  BY <1>1, <1>2, <1>3, <1>4, <1>6, <1>7 DEF RunsSteps

LEMMA TvPartsHold == Spec => []TvParts
<1>1. Init => TvParts
  <2> SUFFICES ASSUME Init PROVE TvParts
    OBVIOUS
  <2> USE DEF Init, TvInit
  <2>1. LockOK
    BY DEF LockOK, OneEach, Waits, Places, Requests, Clients
  <2>2. WaysOK
    BY <2>1 DEF WaysOK, AnswersFit, Answers, Requests
  <2>3. ValuesOK
    <3>1. 0 \in 0..Attempts /\ 0 \in 0..MaxEvents
      BY FrameTvBounds
    <3>2. tries \in [{"power", "input"} -> 0..Attempts] /\ ResultOK
      BY <3>1 DEF ResultOK, Results, FlowClients
    <3>3. QED
      BY <3>1, <3>2 DEF ValuesOK, Powers
  <2>4. TriesLeft /\ NewsIsRead
    BY DEF TriesLeft, NewsIsRead, Clients
  <2>5. QED
    BY <2>2, <2>3, <2>4 DEF TvParts
<1>2. IInv /\ TvParts /\ [Next]_vars => TvParts'
  BY TvKeepsTv, FlowKeepsTv, SameKeepsTv DEF Next, StrayEnds, vars
<1>3. QED
  BY <1>1, <1>2, PlacesHold, PTL DEF Spec

\* SamsungFrameTv: with nothing on its way the hub believes of the TV's power what
\* is so, unless the last announcement was lost, its read failed, or it came
\* between the answer to an earlier read and its handling.
THEOREM BeliefIsTruth == Spec => []BeliefFollows
<1>1. TvParts => BeliefFollows
  BY DEF TvParts, NewsIsRead, BeliefFollows, AtRest, Clients
<1>2. QED
  BY <1>1, TvPartsHold, PTL

----------------------------------------------------------------------------
(***************************************************************************)
(* What a flow learns of the TV.                                           *)
(***************************************************************************)
\* Whatever goes on between the hub and the TV: an answer that comes is true when
\* it comes, a belief is an answer, and a client that ends well ends on one.
ClientTells(c) ==
    /\ at[c] = "off" => at'[c] = "off"
    /\ \/ result'[c] = result[c] /\ (at'[c] = "off" => at[c] = "off")
       \/ /\ at[c] # "off" /\ at'[c] = "off" /\ result'[c] \in {"ok", "failed"}
          /\ result'[c] = "ok" =>
               /\ c = "power" => got[c] = target
               /\ c = "input" => got[c] = "hdmi1"
               /\ c = "refresh" => presence' = got[c] /\ got[c] \in Powers /\ \A d \in Clients : got'[d] = "none"

Tells ==
    /\ target' = target
    /\ \A c \in Clients :
         \/ got'[c] \in {got[c], "none", "ack"}
         \/ got'[c] \in Powers /\ got'[c] = power'
         \/ got'[c] \in Inputs /\ got'[c] = input'
    /\ presence' = presence \/ \E c \in Clients : got[c] \in Powers /\ presence' = got[c]
    /\ \A c \in FlowClients : ClientTells(c)

LEMMA ClientsAre ==
  FlowClients \subseteq Clients /\ "announce" \notin FlowClients /\ "api" \notin FlowClients
BY DEF FlowClients, Clients

\* A client that does nothing but leave or go on.
LEMMA MovingTells ==
  ASSUME WaysOK, ResultOK, NEW c \in Clients, at[c] \in Requests, NEW request \in Requests, request \in Roads[c],
         NEW how \in {"ok", "failed"}, Leaves(c, how) \/ GoesOn(c, request), target' = target,
         presence' = presence \/ (got[c] \in Powers /\ presence' = got[c]),
         Leaves(c, how) /\ how = "ok" =>
            /\ c = "power" => got[c] = target
            /\ c = "input" => got[c] = "hdmi1"
            /\ c = "refresh" => presence' = got[c] /\ got[c] \in Powers
  PROVE  Tells
<1>1. Moves(c)
  BY LeavesOrGoesOn
<1>2. \A d \in Clients : got'[d] \in {got[d], "none"}
  BY <1>1 DEF Moves
<1>3. \A d \in Clients : got'[d] = "none"
  BY <1>1, OneTalks DEF Moves
<1>4. result \in [FlowClients -> Results] /\ at[c] # "off"
  BY DEF ResultOK, Requests
<1>5. ASSUME NEW d \in FlowClients, d # c PROVE result'[d] = result[d] /\ at'[d] = at[d]
  BY <1>1, <1>4, <1>5, ClientsAre DEF Moves, Leaves, GoesOn
<1>6. CASE Leaves(c, how)
  <2>1. at'[c] = "off" /\ (c \in FlowClients => result'[c] = how)
    BY <1>4, <1>6, LeavesWays DEF Leaves
  <2>2. ASSUME how = "ok"
        PROVE  /\ c = "power" => got[c] = target
               /\ c = "input" => got[c] = "hdmi1"
               /\ c = "refresh" => presence' = got[c] /\ got[c] \in Powers /\ \A d \in Clients : got'[d] = "none"
    BY <1>3, <1>6, <2>2
  <2>3. presence' = presence \/ \E d \in Clients : got[d] \in Powers /\ presence' = got[d]
    OBVIOUS
  <2>4. ASSUME NEW d \in FlowClients PROVE ClientTells(d)
    <3>1. CASE d = c
      BY <1>4, <1>6, <2>1, <2>2, <3>1 DEF ClientTells
    <3>2. CASE d # c
      BY <1>5, <3>2 DEF ClientTells
    <3>3. QED
      BY <3>1, <3>2
  <2>5. QED
    BY <1>2, <2>3, <2>4 DEF Tells
<1>7. CASE GoesOn(c, request)
  <2>1. at'[c] = request
    BY <1>7, GoesOnWays
  <2>2. result' = result /\ request # "off"
    BY <1>7 DEF GoesOn, Requests
  <2>3. presence' = presence \/ \E d \in Clients : got[d] \in Powers /\ presence' = got[d]
    OBVIOUS
  <2>4. ASSUME NEW d \in FlowClients PROVE ClientTells(d)
    BY <1>4, <1>5, <2>1, <2>2 DEF ClientTells
  <2>5. QED
    BY <1>2, <2>3, <2>4 DEF Tells
<1>8. QED
  BY <1>6, <1>7

LEMMA TriesAgainTells ==
  ASSUME WaysOK, ResultOK, NEW c \in Clients, at[c] \in Requests, TriesAgain(c),
         UNCHANGED <<target, presence>>
  PROVE  Tells
BY MovingTells, FirstIsOnRoad DEF TriesAgain

LEMMA HandlesTells ==
  ASSUME TvParts, TvHandles
  PROVE  Tells
<1>w. WaysOK /\ ResultOK /\ AnswersFit /\ AtOK
  BY DEF TvParts, WaysOK, LockOK, ValuesOK, AtOK
<1>1. ASSUME NEW c \in Clients, Granted(c) PROVE Tells
  <2>1. FirstRequest(c) # "off" /\ \A d \in Clients : at'[d] = IF d = c THEN FirstRequest(c) ELSE at[d]
    BY <1>1, <1>w, FirstIsOnRoad DEF Granted, AtOK, Requests
  <2>2. QED
    BY <1>1, <2>1, ClientsAre DEF Tells, ClientTells, Granted, ends
<1>2. ASSUME NEW c \in Clients, PowerRead(c) PROVE Tells
  <2>1. at[c] = "read" /\ at[c] \in Requests /\ got[c] \in Powers /\ presence' = got[c] /\ target' = target
    BY <1>2, <1>w DEF PowerRead, Back, Commit, AnswersFit, Requests
  <2>2. c # "power" /\ c # "input"
    BY <1>w, <2>1 DEF AnswersFit, Roads, Clients
  <2>3. (c = "api" /\ GoesOn(c, "source")) \/ Leaves(c, "ok")
    BY <1>2 DEF PowerRead
  <2>4. CASE Leaves(c, "ok")
    BY <1>w, <2>1, <2>2, <2>4, MovingTells, FirstIsOnRoad
  <2>5. CASE c = "api" /\ GoesOn(c, "source")
    <3>1. "source" \in Requests /\ "source" \in Roads[c] /\ "failed" \in {"ok", "failed"} /\ ~("failed" = "ok")
      BY <2>5 DEF Requests, Roads
    <3>2. QED
      BY <1>w, <2>1, <2>5, <3>1, MovingTells
  <2>6. QED
    BY <2>3, <2>4, <2>5
<1>3. ASSUME NEW c \in Clients, SourceRead(c) PROVE Tells
  <2>1. at[c] = "source" /\ at[c] \in Requests /\ UNCHANGED <<presence, target>>
    BY <1>3 DEF SourceRead, Back, Requests
  <2>2. c \in {"api", "input"}
    BY <1>w, <2>1 DEF AnswersFit, Roads, Clients
  <2>3. CASE c = "api" \/ got[c] = "hdmi1"
    <3>1. Leaves(c, "ok")
      <4>1. CASE c = "api"
        BY <1>3, <4>1 DEF SourceRead
      <4>2. CASE c # "api"
        BY <1>3, <2>3, <4>2 DEF SourceRead
      <4>3. QED
        BY <4>1, <4>2
    <3>2. QED
      BY <1>w, <2>1, <2>2, <2>3, <3>1, MovingTells, FirstIsOnRoad
  <2>4. CASE c # "api" /\ got[c] # "hdmi1"
    <3>1. GoesOn(c, "switch") /\ c = "input"
      BY <1>3, <2>2, <2>4 DEF SourceRead
    <3>2. "switch" \in Requests /\ "switch" \in Roads[c] /\ "failed" \in {"ok", "failed"} /\ ~("failed" = "ok")
      BY <3>1 DEF Requests, Roads
    <3>3. QED
      BY <1>w, <2>1, <3>1, <3>2, MovingTells
  <2>5. QED
    BY <2>3, <2>4
<1>4. CASE DelayOver
  BY <1>4, <1>w, ClientsAre DEF DelayOver, Asks, Tells, ClientTells, ends, AtOK
<1>5. "power" \in Clients /\ "input" \in Clients /\ "failed" \in {"ok", "failed"} /\ ~("failed" = "ok")
  BY DEF Clients
<1>6. CASE Ordered
  <2>1. /\ at["power"] \in Requests /\ "verify" \in Requests /\ "verify" \in Roads["power"]
        /\ GoesOn("power", "verify") /\ UNCHANGED <<presence, target>>
    BY <1>6 DEF Ordered, Back, Requests, Roads
  <2>2. QED
    BY <1>w, <1>5, <2>1, MovingTells
<1>7. CASE Verified
  <2>1. /\ at["power"] \in Requests /\ "verify" \in Requests /\ "verify" \in Roads["power"]
        /\ got["power"] \in Powers /\ presence' = got["power"] /\ target' = target
    BY <1>5, <1>7, <1>w DEF Verified, Back, Requests, Roads, Commit, AnswersFit
  <2>2. CASE Leaves("power", "ok") /\ got["power"] = target
    BY <1>w, <1>5, <2>1, <2>2, MovingTells
  <2>3. CASE GoesOn("power", "verify")
    BY <1>w, <1>5, <2>1, <2>3, MovingTells
  <2>4. QED
    BY <1>7, <2>2, <2>3 DEF Verified
<1>8. CASE VerifyDeadline
  <2>1. /\ at["power"] \in Requests /\ "verify" \in Requests /\ "verify" \in Roads["power"]
        /\ Leaves("power", "failed") /\ UNCHANGED <<presence, target>>
    BY <1>8 DEF VerifyDeadline, Requests, Roads
  <2>2. QED
    BY <1>w, <1>5, <2>1, MovingTells
<1>9. CASE Switched
  <2>1. /\ at["input"] \in Requests /\ "check" \in Requests /\ "check" \in Roads["input"]
        /\ GoesOn("input", "check") /\ UNCHANGED <<presence, target>>
    BY <1>9 DEF Switched, Back, Requests, Roads
  <2>2. QED
    BY <1>w, <1>5, <2>1, MovingTells
<1>10. CASE Checked
  <2>1. at["input"] \in Requests /\ UNCHANGED <<presence, target>>
    BY <1>10 DEF Checked, Back, Requests
  <2>2. CASE Leaves("input", "ok") /\ got["input"] = "hdmi1"
    BY <1>w, <1>5, <2>1, <2>2, MovingTells, FirstIsOnRoad
  <2>3. CASE TriesAgain("input")
    BY <1>w, <1>5, <2>1, <2>3, TriesAgainTells
  <2>4. QED
    BY <1>10, <2>2, <2>3 DEF Checked
<1>11. QED
  BY <1>1, <1>2, <1>3, <1>4, <1>6, <1>7, <1>8, <1>9, <1>10 DEF TvHandles

LEMMA TvTells ==
  ASSUME TvParts, TvNext
  PROVE  Tells
<1>w. WaysOK /\ ResultOK /\ AnswersFit /\ AtOK /\ got \in [Clients -> Answers]
  BY DEF TvParts, WaysOK, LockOK, ValuesOK, AtOK
<1>1. CASE TvHandles
  BY <1>1, HandlesTells
<1>2. CASE UsedByHand \/ Obeys \/ AnnouncementLost
  BY <1>2 DEF UsedByHand, Obeys, AnnouncementLost, Tells, ClientTells, lock, ends
<1>3. CASE ApiRefresh
  BY <1>3, <1>w, ClientsAre DEF ApiRefresh, Asks, Tells, ClientTells, ends, AtOK
<1>4. CASE AnnouncementHeard
  BY <1>4, <1>w, ClientsAre DEF AnnouncementHeard, Tells, ClientTells, ends, AtOK
<1>5. ASSUME NEW c \in Clients, TvAnswers(c) PROVE Tells
  <2> USE <1>5 DEF TvAnswers, ends
  <2>1. PICK a : /\ a = CASE at[c] \in {"read", "verify"} -> power
                          [] at[c] \in {"source", "check"} -> input
                          [] OTHER -> "ack"
                 /\ got' = [got EXCEPT ![c] = a]
    OBVIOUS
  <2>2. power \in Powers /\ input \in Inputs
    BY DEF TvParts, ValuesOK
  <2>3. \/ a \in Powers /\ a = power'
        \/ a \in Inputs /\ a = input'
        \/ a = "ack"
    BY <2>1, <2>2 DEF Requests
  <2>4. \A d \in Clients : got'[d] = IF d = c THEN a ELSE got[d]
    BY <1>w, <2>1
  <2>5. QED
    BY <2>3, <2>4 DEF Tells, ClientTells
<1>6. ASSUME NEW c \in Clients, RequestFails(c) PROVE Tells
  <2> USE <1>6 DEF RequestFails
  <2>1. at[c] \in Requests /\ UNCHANGED <<presence, target>>
    OBVIOUS
  <2>2. TriesAgain(c) \/ (c = "api" /\ GoesOn(c, "source")) \/ Leaves(c, "failed")
    OBVIOUS
  <2>3. "failed" \in {"ok", "failed"} /\ ~("failed" = "ok")
    OBVIOUS
  <2>4. CASE TriesAgain(c)
    BY <1>w, <2>1, <2>4, TriesAgainTells
  <2>5. CASE c = "api" /\ GoesOn(c, "source")
    <3>1. "source" \in Requests /\ "source" \in Roads[c]
      BY <2>5 DEF Requests, Roads
    <3>2. QED
      BY <1>w, <2>1, <2>3, <2>5, <3>1, MovingTells
  <2>6. CASE Leaves(c, "failed")
    BY <1>w, <2>1, <2>3, <2>6, MovingTells, FirstIsOnRoad
  <2>7. QED
    BY <2>2, <2>4, <2>5, <2>6
<1>7. QED
  BY <1>1, <1>2, <1>3, <1>4, <1>5, <1>6 DEF TvNext, TvOutside

----------------------------------------------------------------------------
(***************************************************************************)
(* What the end of a flow means.                                           *)
(***************************************************************************)
FlowTypes ==
    /\ flow \in Flows \cup {"none"} /\ stage \in {"idle", "refresh", "steps", "settle"} /\ pc \in 1..MaxSteps + 1
    /\ tvWasOn \in BOOLEAN /\ failures \in BOOLEAN /\ blind \in BOOLEAN
    /\ found \in BOOLEAN /\ foundInput \in BOOLEAN
    /\ job \in [1..MaxSteps -> {"none", "running", "ok", "failed", "timeout"}]
    /\ (flow = "none") = (stage = "idle")

FlowPlaces ==
    /\ stage # "idle" => target = Wanted(flow)
    /\ stage = "refresh" => pc = 1 /\ job = NoJobs
    /\ stage \in {"steps", "settle"} => pc <= Len(Steps[flow]) + 1

StepBrings(i) ==
    /\ job[i] = "ok" /\ IsTv(Steps[flow][i]) => Brought(i)
    /\ Due(i) =>
         /\ Past(i) => failures \/ Brought(i)
         /\ Steps[flow][i].background /\ ~Past(i) /\ (stage = "steps" => i < pc) => job[i] # "none"

SnapshotBrings == ~blind /\ tvWasOn = (target = "on") => found

AllBring == stage \in {"steps", "settle"} => SnapshotBrings /\ \A i \in 1..MaxSteps : StepBrings(i)

FlowParts == FlowTypes /\ FlowPlaces /\ EndsAreKnown /\ ReadIsFound /\ AllBring

\* What was found stays found until the flow is over.
LEMMA FoundStays ==
  ASSUME Observes
  PROVE  /\ found' \in BOOLEAN /\ foundInput' \in BOOLEAN
         /\ stage # "idle" /\ stage' # "idle" =>
              /\ found => found'
              /\ foundInput => foundInput'
         /\ stage' # "idle" =>
              /\ power' = Wanted(flow') => found'
              /\ input' = "hdmi1" => foundInput'
<1>1. found' \in BOOLEAN
  <2>1. CASE stage' # "idle" /\ ((stage # "idle" /\ found) \/ power' = Wanted(flow'))
    BY <2>1 DEF Observes
  <2>2. CASE ~(stage' # "idle" /\ ((stage # "idle" /\ found) \/ power' = Wanted(flow')))
    BY <2>2 DEF Observes
  <2>3. QED
    BY <2>1, <2>2
<1>2. foundInput' \in BOOLEAN
  <2>1. CASE stage' # "idle" /\ ((stage # "idle" /\ foundInput) \/ input' = "hdmi1")
    BY <2>1 DEF Observes
  <2>2. CASE ~(stage' # "idle" /\ ((stage # "idle" /\ foundInput) \/ input' = "hdmi1"))
    BY <2>2 DEF Observes
  <2>3. QED
    BY <2>1, <2>2
<1>3. QED
  BY <1>1, <1>2 DEF Observes

\* A step that nothing has happened to.
LEMMA StepKept ==
  ASSUME Observes, NEW i \in 1..MaxSteps, StepBrings(i), stage # "idle", stage' # "idle",
         UNCHANGED <<flow, tvWasOn>>, job'[i] = job[i], failures => failures',
         Past(i)' = Past(i), Steps[flow][i].background /\ ~Past(i) /\ (stage' = "steps" => i < pc') => (stage = "steps" => i < pc)
  PROVE  StepBrings(i)'
<1>1. Brought(i) => Brought(i)'
  BY FoundStays DEF Brought
<1>2. QED
  BY <1>1 DEF StepBrings, Due

\* While the TV is talked to and the flow does nothing.
LEMMA TvKeepsFlow ==
  ASSUME IInv, TvParts, FlowParts, TvNext, UNCHANGED flowVars, Observes
  PROVE  FlowParts'
<1> USE DEF flowVars, FlowParts
<1>1. Tells
  BY TvTells
<1>2. /\ at["power"] # "off" => stage \in {"steps", "settle"}
      /\ at["input"] # "off" => stage \in {"steps", "settle"}
      /\ at["refresh"] # "off" => stage = "refresh"
  BY DEF IInv, TalksHaveJobs
<1>3. /\ target \in Powers /\ presence \in Powers \cup {"unknown"} /\ AnswersFit /\ target' = target
      /\ "unknown" \notin Powers /\ "none" \notin Powers /\ "ack" \notin Powers /\ Powers \cap Inputs = {}
      /\ "hdmi1" \notin Powers /\ result \in [FlowClients -> Results]
      /\ {"power", "input", "refresh"} \subseteq Clients /\ FlowClients = {"refresh", "power", "input"}
  BY <1>1 DEF TvParts, ValuesOK, WaysOK, Powers, Inputs, Tells, ResultOK, Clients, FlowClients
<1>4. FlowTypes'
  BY FoundStays DEF FlowTypes
<1>5. FlowPlaces'
  BY <1>3 DEF FlowPlaces
<1>6. \A c \in FlowClients : ClientTells(c)
  BY <1>1 DEF Tells
<1>7. EndsAreKnown'
  <2>1. ASSUME stage = "idle", NEW c \in FlowClients PROVE result'[c] = "none"
    BY <1>2, <1>3, <1>6, <2>1 DEF EndsAreKnown, ClientTells
  <2>2. DOMAIN result = FlowClients /\ DOMAIN result' = FlowClients
    <3>1. ResultOK'
      BY TvKeepsTv DEF TvParts, ValuesOK
    <3>2. QED
      BY <1>3, <3>1 DEF ResultOK
  <2>3. stage = "refresh" => (at'["refresh"] = "off") = (result'["refresh"] # "none")
    BY <1>3, <1>6 DEF EndsAreKnown, ClientTells
  <2>4. ASSUME NEW i \in 1..MaxSteps, job[i] = "running", IsTv(Steps[flow][i]), at'[Steps[flow][i].does] = "off"
        PROVE  result'[Steps[flow][i].does] # "none"
    <3>1. PICK c \in FlowClients : c = Steps[flow][i].does
      BY <1>3, <2>4 DEF IsTv
    <3>2. at[c] = "off" => result[c] # "none"
      BY <2>4, <3>1 DEF EndsAreKnown
    <3>3. result'[c] # "none"
      BY <1>6, <2>4, <3>1, <3>2 DEF ClientTells
    <3>4. QED
      BY <3>1, <3>3
  <2>5. QED
    BY <2>1, <2>2, <2>3, <2>4 DEF EndsAreKnown
<1>8. ReadIsFound'
  <2> SUFFICES ASSUME stage # "idle"
               PROVE  /\ got'["power"] = target \/ got'["refresh"] = target \/ result'["power"] = "ok" => found'
                      /\ got'["input"] = "hdmi1" \/ result'["input"] = "ok" => foundInput'
                      /\ stage = "refresh" /\ result'["refresh"] = "ok" =>
                           /\ presence' # "unknown"
                           /\ presence' = target \/ (\E c \in Clients : got'[c] = target) => found'
    BY <1>3 DEF ReadIsFound
  <2>1. /\ found => found'
        /\ foundInput => foundInput'
        /\ power' = target => found'
        /\ input' = "hdmi1" => foundInput'
    BY FoundStays DEF FlowPlaces
  <2>2. \A c \in Clients : got'[c] = target => got[c] = target \/ found'
    BY <1>1, <1>3, <2>1 DEF Tells
  <2>3. got'["input"] = "hdmi1" => got["input"] = "hdmi1" \/ foundInput'
    BY <1>1, <1>3, <2>1 DEF Tells
  <2>4. (got["power"] = target \/ got["refresh"] = target \/ result["power"] = "ok" => found)
        /\ (got["input"] = "hdmi1" \/ result["input"] = "ok" => foundInput)
    BY DEF ReadIsFound
  <2>5. result'["power"] = "ok" => result["power"] = "ok" \/ got["power"] = target
    BY <1>3, <1>6 DEF ClientTells
  <2>6. result'["input"] = "ok" => result["input"] = "ok" \/ got["input"] = "hdmi1"
    BY <1>3, <1>6 DEF ClientTells
  <2>7. ASSUME stage = "refresh", result'["refresh"] = "ok"
        PROVE  /\ presence' # "unknown"
               /\ presence' = target \/ (\E c \in Clients : got'[c] = target) => found'
    <3>1. CASE result["refresh"] = "ok"
      <4>1. presence # "unknown" /\ (presence = target \/ (\E c \in Clients : got[c] = target) => found)
        BY <2>7, <3>1 DEF ReadIsFound
      <4>2. QED
        BY <1>1, <1>3, <2>1, <2>2, <4>1 DEF Tells
    <3>2. CASE result["refresh"] # "ok"
      <4>1. presence' = got["refresh"] /\ got["refresh"] \in Powers /\ \A d \in Clients : got'[d] = "none"
        BY <1>3, <1>6, <2>7, <3>2 DEF ClientTells
      <4>2. QED
        BY <1>3, <2>1, <2>4, <4>1
    <3>3. QED
      BY <3>1, <3>2
  <2>8. QED
    BY <1>3, <2>1, <2>2, <2>3, <2>4, <2>5, <2>6, <2>7
<1>9. AllBring'
  <2> SUFFICES ASSUME stage \in {"steps", "settle"}
               PROVE  SnapshotBrings' /\ \A i \in 1..MaxSteps : StepBrings(i)'
    BY DEF AllBring
  <2>1. SnapshotBrings'
    BY <1>3, FoundStays DEF AllBring, SnapshotBrings
  <2>2. ASSUME NEW i \in 1..MaxSteps PROVE StepBrings(i)'
    <3>1. StepBrings(i)
      BY DEF AllBring
    <3>2. Past(i)' = Past(i)
      BY DEF Past
    <3>3. QED
      BY <3>1, <3>2, StepKept
  <2>3. QED
    BY <2>1, <2>2
<1>10. QED
  BY <1>4, <1>5, <1>7, <1>8, <1>9

\* What an action of the flow's own that leaves the TV alone cannot disturb.
LEMMA AloneKeepsReading ==
  ASSUME IInv, TvParts, FlowParts, Observes, UNCHANGED <<target, got, result, presence, flow>>,
         stage # "idle", stage' # "idle", stage' = "refresh" => stage = "refresh"
  PROVE  ReadIsFound'
BY FoundStays DEF ReadIsFound, FlowParts

LEMMA BeginKeepsFlow ==
  ASSUME IInv, TvParts, FlowParts, Begin, Observes
  PROVE  FlowParts'
<1> USE DEF FlowParts, Begin
<1>1. /\ at["power"] = "off" /\ at["input"] = "off" /\ at["refresh"] = "off"
      /\ at \in [Clients -> Places] /\ AnswersFit
  BY DEF IInv, TalksHaveJobs, TvParts, WaysOK, LockOK
<1>2. got["power"] = "none" /\ got["input"] = "none" /\ got["refresh"] = "none"
  BY <1>1 DEF AnswersFit, Clients, Requests
<1>3. result \in [FlowClients -> Results] /\ \A c \in FlowClients : result[c] = "none"
  BY DEF EndsAreKnown, TvParts, ValuesOK, ResultOK
<1>4. at'["refresh"] = "queued"
  BY <1>1 DEF Asks, Clients
<1>5. flow' \in Flows /\ target' = Wanted(flow') /\ target' \in Powers /\ "none" \notin Powers
  BY DEF Wanted, Powers
<1>6. FlowTypes'
  <2>1. 1 \in 1..MaxSteps + 1 /\ NoJobs \in [1..MaxSteps -> {"none", "running", "ok", "failed", "timeout"}]
    BY DEF MaxSteps, NoJobs
  <2>2. "none" \notin Flows
    BY DEF Flows, Steps
  <2>3. QED
    BY <1>5, <2>1, <2>2, FoundStays DEF FlowTypes
<1>7. FlowPlaces'
  BY <1>5 DEF FlowPlaces
<1>8. EndsAreKnown'
  <2>1. \A i \in 1..MaxSteps : job'[i] # "running"
    BY DEF NoJobs
  <2>2. result'["refresh"] = "none"
    BY <1>3 DEF ends, FlowClients
  <2>3. QED
    BY <1>4, <2>1, <2>2 DEF EndsAreKnown
<1>9. ReadIsFound'
  BY <1>2, <1>3, <1>5 DEF ReadIsFound, ends, FlowClients
<1>10. AllBring'
  BY DEF AllBring
<1>11. QED
  BY <1>6, <1>7, <1>8, <1>9, <1>10

\* The snapshot is what the refresh read, or blind.
LEMMA SnapshotKeepsFlow ==
  ASSUME IInv, TvParts, FlowParts, RefreshEnds \/ RefreshTimeout, Observes
  PROVE  FlowParts'
<1> USE DEF FlowParts
<1>1. /\ stage = "refresh" /\ stage' = "steps" /\ UNCHANGED <<flow, pc, job, failures, target, presence>>
      /\ tvWasOn' = (presence = "on") /\ pc = 1 /\ job = NoJobs
  BY DEF RefreshEnds, RefreshTimeout, Snapshot, Cancelled, FlowPlaces, tvVars
<1>2. /\ result \in [FlowClients -> Results] /\ presence \in Powers \cup {"unknown"} /\ target \in Powers
      /\ "none" \notin Powers
  BY DEF TvParts, ValuesOK, ResultOK, Powers
<1>3. \A i \in 1..MaxSteps : job'[i] = "none"
  BY <1>1 DEF NoJobs
<1>4. /\ got'["power"] \in {got["power"], "none"} /\ got'["refresh"] \in {got["refresh"], "none"}
      /\ got'["input"] \in {got["input"], "none"}
      /\ result'["power"] = result["power"] /\ result'["input"] = result["input"]
  <2>1. CASE RefreshEnds
    BY <2>1 DEF RefreshEnds, tvVars, lock, ends
  <2>2. CASE RefreshTimeout
    BY <2>2, CancelledKeepsTv DEF RefreshTimeout, FlowClients, Clients
  <2>3. QED
    BY <2>1, <2>2
<1>5. ~blind' => presence # "unknown" /\ (presence = target => found)
  <2>1. CASE RefreshEnds
    <3>1. result["refresh"] \in {"ok", "failed"} /\ blind' = (result["refresh"] = "failed")
      BY <1>2, <2>1 DEF RefreshEnds, Snapshot, EndsAreKnown, Results, FlowClients
    <3>2. QED
      BY <1>1, <3>1 DEF ReadIsFound
  <2>2. CASE RefreshTimeout
    BY <2>2 DEF RefreshTimeout, Snapshot
  <2>3. QED
    BY <2>1, <2>2
<1>6. FlowTypes'
  <2>1. tvWasOn' \in BOOLEAN
    <3>1. CASE presence = "on"
      BY <1>1, <3>1
    <3>2. CASE presence # "on"
      BY <1>1, <3>2
    <3>3. QED
      BY <3>1, <3>2
  <2>2. blind' \in BOOLEAN
    <3>1. CASE RefreshTimeout
      BY <3>1 DEF RefreshTimeout, Snapshot
    <3>2. CASE RefreshEnds /\ result["refresh"] = "failed"
      BY <3>2 DEF RefreshEnds, Snapshot
    <3>3. CASE RefreshEnds /\ result["refresh"] # "failed"
      BY <3>3 DEF RefreshEnds, Snapshot
    <3>4. QED
      BY <3>1, <3>2, <3>3
  <2>3. QED
    BY <1>1, <2>1, <2>2, FoundStays DEF FlowTypes
<1>7. FlowPlaces'
  <2>1. Len(Steps[flow]) \in 0..MaxSteps
    BY <1>1, FlowsFit DEF FlowTypes
  <2>2. pc' <= Len(Steps[flow']) + 1
    BY <1>1, <2>1
  <2>3. QED
    BY <1>1, <2>2 DEF FlowPlaces
<1>8. EndsAreKnown'
  BY <1>1, <1>3 DEF EndsAreKnown
<1>9. ReadIsFound'
  BY <1>1, <1>2, <1>4, FoundStays DEF ReadIsFound, Inputs
<1>10. AllBring'
  <2>1. SnapshotBrings'
    <3>1. ASSUME ~blind', tvWasOn' = (target = "on") PROVE presence = target
      BY <1>1, <1>2, <1>5, <3>1 DEF Powers
    <3>2. QED
      BY <1>1, <1>5, <3>1, FoundStays DEF SnapshotBrings
  <2>2. ASSUME NEW i \in 1..MaxSteps PROVE StepBrings(i)'
    BY <1>1, <1>3 DEF StepBrings, Past
  <2>3. QED
    BY <2>1, <2>2 DEF AllBring
<1>11. QED
  BY <1>6, <1>7, <1>8, <1>9, <1>10

\* A flow at its steps or settling, that does not turn to another snapshot.
GoesOnWithin ==
    /\ stage \in {"steps", "settle"} /\ stage' \in {"steps", "settle"}
    /\ UNCHANGED <<flow, tvWasOn, blind, target>>
    /\ failures' \in BOOLEAN /\ (failures => failures')
    /\ pc' \in Nat \ {0} /\ pc' <= Len(Steps[flow]) + 1
    /\ job' \in [1..MaxSteps -> {"none", "running", "ok", "failed", "timeout"}]

LEMMA WithinKeeps ==
  ASSUME FlowParts, Observes, GoesOnWithin
  PROVE  FlowTypes' /\ FlowPlaces' /\ SnapshotBrings' /\ flow \in Flows /\ Len(Steps[flow]) \in 0..MaxSteps
<1> USE DEF FlowParts, GoesOnWithin
<1>1. flow \in Flows /\ stage # "idle" /\ stage' # "idle"
  BY DEF FlowTypes
<1>2. Len(Steps[flow]) \in 0..MaxSteps /\ MaxSteps \in Nat
  BY <1>1, FlowsFit DEF MaxSteps
<1>3. pc' \in 1..MaxSteps + 1
  BY <1>2
<1>4. FlowTypes'
  BY <1>1, <1>3, FoundStays DEF FlowTypes
<1>5. FlowPlaces'
  BY <1>1 DEF FlowPlaces
<1>6. SnapshotBrings'
  BY <1>1, FoundStays DEF AllBring, SnapshotBrings
<1>7. QED
  BY <1>1, <1>2, <1>4, <1>5, <1>6

\* No client has moved, and no job has begun.
LEMMA AloneKeepsEnds ==
  ASSUME FlowParts, UNCHANGED <<at, result, flow>>, stage \in {"steps", "settle"}, stage' \in {"steps", "settle"},
         \A i \in 1..MaxSteps : job'[i] = "running" => job[i] = "running"
  PROVE  EndsAreKnown'
BY DEF FlowParts, EndsAreKnown

LEMMA SkipKeepsFlow ==
  ASSUME IInv, TvParts, FlowParts, Skip, Observes
  PROVE  FlowParts'
<1> USE DEF FlowParts, Skip, AtStep, Passes
<1>1. UNCHANGED <<at, got, result, target, presence>>
  BY DEF tvVars, lock, ends
<1>2. pc \in 1..MaxSteps /\ pc <= Len(Steps[flow]) /\ Len(Steps[flow]) \in Nat
  BY PcFits DEF IInv
<1>3. GoesOnWithin
  BY <1>1, <1>2 DEF GoesOnWithin, FlowTypes
<1>4. EndsAreKnown' /\ ReadIsFound'
  BY <1>1, AloneKeepsEnds, AloneKeepsReading
<1>5. ASSUME NEW i \in 1..MaxSteps PROVE StepBrings(i)'
  <2>1. StepBrings(i)
    BY DEF AllBring
  <2>2. CASE i = pc
    <3>1. ~Due(i)'
      BY <2>2 DEF Due, MaySkip, Current
    <3>2. Brought(i) => Brought(i)'
      BY FoundStays DEF Brought
    <3>3. QED
      BY <2>1, <3>1, <3>2 DEF StepBrings
  <2>3. CASE i # pc
    <3>1. (i < pc') = (i < pc)
      BY <1>2, <2>3
    <3>2. Past(i)' = Past(i)
      BY <3>1 DEF Past
    <3>3. QED
      BY <2>1, <3>1, <3>2, StepKept
  <2>4. QED
    BY <2>2, <2>3
<1>6. QED
  BY <1>3, <1>4, <1>5, WithinKeeps DEF AllBring

LEMMA StartKeepsFlow ==
  ASSUME IInv, TvParts, FlowParts, Start, Observes
  PROVE  FlowParts'
<1> USE DEF FlowParts, Start, AtStep
<1>1. UNCHANGED <<got, result, target, presence>>
  BY DEF ends
<1>2. pc \in 1..MaxSteps /\ pc <= Len(Steps[flow]) /\ Len(Steps[flow]) \in Nat /\ flow \in Flows
  BY PcFits DEF IInv, JobsOK
<1>3. /\ job' \in [1..MaxSteps -> {"none", "running", "ok", "failed", "timeout"}]
      /\ \A i \in 1..MaxSteps : job'[i] = IF i = pc THEN "running" ELSE job[i]
  BY <1>2 DEF FlowTypes
<1>4. GoesOnWithin
  <2>1. pc' \in Nat \ {0} /\ pc' <= Len(Steps[flow]) + 1
    BY <1>2
  <2>2. QED
    BY <1>1, <1>3, <2>1 DEF GoesOnWithin, FlowTypes
<1>5. EndsAreKnown'
  <2> SUFFICES ASSUME NEW i \in 1..MaxSteps, job'[i] = "running", IsTv(Steps[flow][i]), at'[Steps[flow][i].does] = "off"
               PROVE  result[Steps[flow][i].does] # "none"
    BY <1>1 DEF EndsAreKnown
  <2>1. Steps[flow][i].does \in Clients /\ at \in [Clients -> Places]
    BY DEF IsTv, Clients, TvParts, WaysOK, LockOK
  <2>2. CASE i = pc
    <3>1. at'[Steps[flow][i].does] = "queued"
      BY <2>1, <2>2 DEF Asks, Current
    <3>2. QED
      BY <3>1
  <2>3. CASE i # pc
    <3>1. job[i] = "running"
      BY <1>3, <2>3
    <3>2. at[Steps[flow][i].does] = "off"
      BY <2>1 DEF Asks, IsTv, Current, Clients
    <3>3. QED
      BY <3>1, <3>2 DEF EndsAreKnown
  <2>4. QED
    BY <2>2, <2>3
<1>6. ReadIsFound'
  BY <1>1, AloneKeepsReading
<1>7. ASSUME NEW i \in 1..MaxSteps PROVE StepBrings(i)'
  <2>1. StepBrings(i)
    BY DEF AllBring
  <2>2. CASE i = pc
    <3>1. job'[i] = "running" /\ ~Past(i)'
      BY <1>2, <1>3, <2>2 DEF Past, Current
    <3>2. QED
      BY <3>1 DEF StepBrings
  <2>3. CASE i # pc
    <3>1. (i < pc') = (i < pc) /\ job'[i] = job[i]
      BY <1>2, <1>3, <2>3
    <3>2. Past(i)' = Past(i)
      BY <3>1 DEF Past
    <3>3. QED
      BY <2>1, <3>1, <3>2, StepKept
  <2>4. QED
    BY <2>2, <2>3
<1>8. QED
  BY <1>4, <1>5, <1>6, <1>7, WithinKeeps DEF AllBring

\* A step the flow waited for has ended and is looked at.
LEMMA StepDoneKeepsFlow ==
  ASSUME IInv, TvParts, FlowParts, StepDone, Observes
  PROVE  FlowParts'
<1> USE DEF FlowParts, StepDone, Awaited, Passes
<1>1. UNCHANGED <<at, got, result, target, presence>>
  BY DEF tvVars, lock, ends
<1>2. pc \in 1..MaxSteps /\ pc <= Len(Steps[flow]) /\ Len(Steps[flow]) \in Nat
  BY PcFits DEF IInv
<1>3. /\ job' \in [1..MaxSteps -> {"none", "running", "ok", "failed", "timeout"}]
      /\ \A i \in 1..MaxSteps : job'[i] = IF i = pc THEN "none" ELSE job[i]
  BY <1>2 DEF FlowTypes
<1>4. failures' \in BOOLEAN /\ (failures => failures') /\ (job[pc] = "failed" => failures')
  <2>1. CASE failures \/ job[pc] = "failed"
    BY <2>1
  <2>2. CASE ~(failures \/ job[pc] = "failed")
    BY <2>2
  <2>3. QED
    BY <2>1, <2>2
<1>5. GoesOnWithin
  BY <1>1, <1>2, <1>3, <1>4 DEF GoesOnWithin, FlowTypes
<1>6. EndsAreKnown' /\ ReadIsFound'
  BY <1>1, <1>3, AloneKeepsEnds, AloneKeepsReading
<1>7. ASSUME NEW i \in 1..MaxSteps PROVE StepBrings(i)'
  <2>1. StepBrings(i)
    BY DEF AllBring
  <2>2. CASE i = pc
    <3>1. job'[i] # "ok" /\ ~Steps[flow][i].background
      BY <1>3, <2>2 DEF Current
    <3>2. Due(i) => failures' \/ Brought(i)
      BY <1>4, <2>1, <2>2 DEF StepBrings, Due
    <3>3. Brought(i) => Brought(i)'
      BY FoundStays DEF Brought
    <3>4. QED
      BY <3>1, <3>2, <3>3 DEF StepBrings, Due
  <2>3. CASE i # pc
    <3>1. (i < pc') = (i < pc) /\ job'[i] = job[i]
      BY <1>2, <1>3, <2>3
    <3>2. Past(i)' = Past(i)
      BY <3>1 DEF Past
    <3>3. QED
      BY <1>4, <2>1, <3>1, <3>2, StepKept
  <2>4. QED
    BY <2>2, <2>3
<1>8. QED
  BY <1>5, <1>6, <1>7, WithinKeeps DEF AllBring

\* All steps are past or at work: the flow settles.
LEMMA StepsDoneKeepsFlow ==
  ASSUME IInv, TvParts, FlowParts, StepsDone, Observes
  PROVE  FlowParts'
<1> USE DEF FlowParts, StepsDone
<1>1. UNCHANGED <<at, got, result, target, presence>>
  BY DEF tvVars, lock, ends
<1>2. flow \in Flows /\ Len(Steps[flow]) \in 0..MaxSteps /\ pc \in 1..MaxSteps + 1 /\ MaxSteps \in Nat
  BY FlowsFit DEF FlowTypes, MaxSteps
<1>3. GoesOnWithin
  BY <1>1, <1>2 DEF GoesOnWithin, FlowTypes
<1>4. EndsAreKnown' /\ ReadIsFound'
  BY <1>1, AloneKeepsEnds, AloneKeepsReading
<1>5. ASSUME NEW i \in 1..MaxSteps PROVE StepBrings(i)'
  <2>1. StepBrings(i) /\ (Brought(i) => Brought(i)')
    BY FoundStays DEF AllBring, Brought
  <2>2. Due(i)' = Due(i)
    BY DEF Due
  <2>3. Due(i) => i < pc
    BY <1>2 DEF Due
  <2>4. ~(i < pc')
    BY <1>2
  <2>5. QED
    BY <2>1, <2>2, <2>3, <2>4 DEF StepBrings, Past
<1>6. QED
  BY <1>3, <1>4, <1>5, WithinKeeps DEF AllBring

LEMMA SettlesKeepsFlow ==
  ASSUME IInv, TvParts, FlowParts, Settles, Observes
  PROVE  FlowParts'
<1> USE DEF FlowParts, Settles, Settling, Passes
<1>1. UNCHANGED <<at, got, result, target, presence>>
  BY DEF tvVars, lock, ends
<1>2. pc \in 1..MaxSteps /\ pc <= Len(Steps[flow]) /\ Len(Steps[flow]) \in Nat
  BY PcFits DEF IInv
<1>3. /\ job' \in [1..MaxSteps -> {"none", "running", "ok", "failed", "timeout"}]
      /\ \A i \in 1..MaxSteps : job'[i] = IF i = pc THEN "none" ELSE job[i]
  BY <1>2 DEF FlowTypes
<1>4. failures' \in BOOLEAN /\ (failures => failures') /\ (ToSettle /\ job[pc] = "failed" => failures')
  <2>1. CASE failures \/ (ToSettle /\ job[pc] = "failed")
    BY <2>1
  <2>2. CASE ~(failures \/ (ToSettle /\ job[pc] = "failed"))
    BY <2>2
  <2>3. QED
    BY <2>1, <2>2
<1>5. GoesOnWithin
  BY <1>1, <1>2, <1>3, <1>4 DEF GoesOnWithin, FlowTypes
<1>6. EndsAreKnown' /\ ReadIsFound'
  BY <1>1, <1>3, AloneKeepsEnds, AloneKeepsReading
<1>7. ASSUME NEW i \in 1..MaxSteps PROVE StepBrings(i)'
  <2>1. StepBrings(i)
    BY DEF AllBring
  <2>2. CASE i = pc
    <3>1. job'[i] # "ok" /\ Due(i)' = Due(i) /\ Past(i)'
      BY <1>2, <1>3, <2>2 DEF Due, Past
    <3>2. Due(i) => failures' \/ Brought(i)
      <4>1. CASE Steps[flow][i].background
        <5>1. Due(i) => job[pc] # "none"
          BY <1>2, <2>1, <2>2, <4>1 DEF StepBrings, Past
        <5>2. Due(i) => ToSettle /\ job[pc] \in {"ok", "failed"}
          BY <2>2, <4>1, <5>1 DEF ToSettle, Current
        <5>3. QED
          BY <1>4, <2>1, <2>2, <5>2 DEF StepBrings, Due
      <4>2. CASE ~Steps[flow][i].background
        BY <1>4, <2>1, <4>2 DEF StepBrings, Past
      <4>3. QED
        BY <4>1, <4>2
    <3>3. Brought(i) => Brought(i)'
      BY FoundStays DEF Brought
    <3>4. QED
      BY <3>1, <3>2, <3>3 DEF StepBrings
  <2>3. CASE i # pc
    <3>1. (i < pc') = (i < pc) /\ job'[i] = job[i]
      BY <1>2, <1>3, <2>3
    <3>2. Past(i)' = Past(i)
      BY <3>1 DEF Past
    <3>3. QED
      BY <1>4, <2>1, <3>1, <3>2, StepKept
  <2>4. QED
    BY <2>2, <2>3
<1>8. QED
  BY <1>5, <1>6, <1>7, WithinKeeps DEF AllBring

\* A step that is stopped takes its client along, which then has failed.
LEMMA StopsJobDoes ==
  ASSUME TvParts, NEW i \in 1..MaxSteps, StopsJob(i)
  PROVE  /\ UNCHANGED <<target, presence>>
         /\ \A d \in Clients : got'[d] \in {got[d], "none"}
         /\ \A c \in FlowClients : (at'[c] = at[c] /\ result'[c] = result[c]) \/ result'[c] = "failed"
<1>1. CASE IsTv(Steps[flow][i])
  <2>1. Steps[flow][i].does \in FlowClients /\ Cancelled(Steps[flow][i].does)
    BY <1>1 DEF StopsJob, IsTv, FlowClients
  <2>2. QED
    BY <2>1, CancelledKeepsTv, ClientsAre DEF Cancelled
<1>2. CASE ~IsTv(Steps[flow][i])
  BY <1>2 DEF StopsJob, tvVars, lock, ends
<1>3. QED
  BY <1>1, <1>2

LEMMA StoppedKeepsReading ==
  ASSUME TvParts, FlowParts, Observes, NEW i \in 1..MaxSteps, StopsJob(i), UNCHANGED <<flow, stage>>,
         stage \in {"steps", "settle"}, job[i] = "running",
         \A j \in 1..MaxSteps : job'[j] = IF j = i THEN "failed" ELSE job[j]
  PROVE  EndsAreKnown' /\ ReadIsFound'
<1>1. /\ UNCHANGED <<target, presence>>
      /\ \A d \in Clients : got'[d] \in {got[d], "none"}
      /\ \A c \in FlowClients : (at'[c] = at[c] /\ result'[c] = result[c]) \/ result'[c] = "failed"
  BY StopsJobDoes
<1>2. EndsAreKnown'
  <2> SUFFICES ASSUME NEW j \in 1..MaxSteps, job'[j] = "running", IsTv(Steps[flow][j]), at'[Steps[flow][j].does] = "off"
               PROVE  result'[Steps[flow][j].does] # "none"
    BY DEF EndsAreKnown
  <2>1. job[j] = "running" /\ Steps[flow][j].does \in FlowClients
    BY DEF IsTv, FlowClients
  <2>2. QED
    BY <1>1, <2>1 DEF FlowParts, EndsAreKnown
<1>3. target \in Powers
  BY DEF TvParts, ValuesOK
<1>4. ReadIsFound'
  BY <1>1, <1>3, FoundStays DEF FlowParts, ReadIsFound, Powers, FlowClients, Clients
<1>5. QED
  BY <1>2, <1>4

\* A step ends, or runs out of time.
LEMMA EndingKeepsFlow ==
  ASSUME IInv, TvParts, FlowParts, NEW i \in 1..MaxSteps, JobEnds(i) \/ StepTimeout(i), Observes
  PROVE  FlowParts'
<1> USE DEF FlowParts
<1>1. UNCHANGED <<flow, stage, pc, tvWasOn, failures, blind>> /\ job[i] = "running"
  BY DEF JobEnds, StepTimeout
<1>2. stage \in {"steps", "settle"} /\ i <= Len(Steps[flow])
  BY <1>1 DEF IInv, JobsInPlace
<1>3. PICK how \in Ends : job' = [job EXCEPT ![i] = how]
  <2>1. CASE JobEnds(i)
    BY <2>1 DEF JobEnds, IsTv, TvParts, ValuesOK, ResultOK, Results, Ends, FlowClients
  <2>2. CASE StepTimeout(i)
    BY <2>2 DEF StepTimeout, StopsJob, Ends
  <2>3. QED
    BY <2>1, <2>2
<1>4. /\ job' \in [1..MaxSteps -> {"none", "running", "ok", "failed", "timeout"}]
      /\ \A j \in 1..MaxSteps : job'[j] = IF j = i THEN how ELSE job[j]
  BY <1>3 DEF FlowTypes, Ends
<1>5. EndsAreKnown' /\ ReadIsFound' /\ target' = target
  <2>1. CASE JobEnds(i)
    <3>1. UNCHANGED <<at, got, result, target, presence>>
      BY <2>1 DEF JobEnds, tvVars, lock, ends
    <3>2. \A j \in 1..MaxSteps : job'[j] = "running" => job[j] = "running"
      BY <1>4, <1>1
    <3>3. QED
      BY <1>1, <1>2, <3>1, <3>2, AloneKeepsEnds, AloneKeepsReading
  <2>2. CASE StepTimeout(i)
    <3>1. StopsJob(i) /\ job' = [job EXCEPT ![i] = "failed"]
      BY <2>2 DEF StepTimeout, StopsJob
    <3>2. \A j \in 1..MaxSteps : job'[j] = IF j = i THEN "failed" ELSE job[j]
      BY <3>1 DEF FlowTypes
    <3>3. QED
      BY <1>1, <1>2, <3>1, <3>2, StoppedKeepsReading, StopsJobDoes
  <2>3. QED
    BY <2>1, <2>2
<1>6. GoesOnWithin
  <2>1. pc \in Nat \ {0} /\ pc <= Len(Steps[flow]) + 1
    BY <1>2 DEF FlowTypes, FlowPlaces
  <2>2. QED
    BY <1>1, <1>2, <1>4, <1>5, <2>1 DEF GoesOnWithin, FlowTypes
<1>7. IsTv(Steps[flow][i]) => how # "none" /\ (how = "ok" => Brought(i))
  <2> SUFFICES ASSUME IsTv(Steps[flow][i]) PROVE how # "none" /\ (how = "ok" => Brought(i))
    OBVIOUS
  <2>1. job'[i] = how
    BY <1>4
  <2>2. CASE StepTimeout(i)
    <3>1. job' = [job EXCEPT ![i] = "failed"]
      BY <2>2 DEF StepTimeout, StopsJob
    <3>2. how = "failed"
      BY <2>1, <3>1 DEF FlowTypes
    <3>3. QED
      BY <3>2
  <2>3. CASE JobEnds(i)
    <3>1. at[Steps[flow][i].does] = "off" /\ job' = [job EXCEPT ![i] = result[Steps[flow][i].does]]
      BY <2>3 DEF JobEnds
    <3>2. how = result[Steps[flow][i].does]
      BY <2>1, <3>1 DEF FlowTypes
    <3>3. how # "none"
      BY <1>1, <3>1, <3>2 DEF EndsAreKnown
    <3>4. Steps[flow][i].does \in {"power", "input"}
      BY DEF IsTv
    <3>5. how = "ok" => Brought(i)
      BY <1>2, <3>2, <3>4 DEF ReadIsFound, Brought
    <3>6. QED
      BY <3>3, <3>5
  <2>4. QED
    BY <2>2, <2>3
<1>8. ASSUME NEW j \in 1..MaxSteps PROVE StepBrings(j)'
  <2>1. StepBrings(j)
    BY <1>2 DEF AllBring
  <2>2. Past(j)' = Past(j) /\ Due(j)' = Due(j)
    BY <1>1 DEF Past, Due
  <2>3. CASE j = i
    <3>1. Brought(i) => Brought(i)'
      BY <1>1, <1>2, FoundStays DEF Brought
    <3>2. job'[i] = how
      BY <1>4
    <3>3. QED
      BY <1>1, <1>7, <2>1, <2>2, <2>3, <3>1, <3>2 DEF StepBrings, Due
  <2>4. CASE j # i
    BY <1>1, <1>2, <1>4, <2>1, <2>2, <2>4, StepKept
  <2>5. QED
    BY <2>3, <2>4
<1>9. QED
  BY <1>5, <1>6, <1>8, WithinKeeps DEF AllBring

\* A background step that is given up is a failure.
LEMMA SettleTimeoutKeepsFlow ==
  ASSUME IInv, TvParts, FlowParts, SettleTimeout, Observes
  PROVE  FlowParts'
<1> USE DEF FlowParts, SettleTimeout, Settling, Passes
<1>1. pc \in 1..MaxSteps /\ pc <= Len(Steps[flow]) /\ Len(Steps[flow]) \in Nat
  BY PcFits DEF IInv
<1>2. job' = [job EXCEPT ![pc] = "failed"]
  BY DEF StopsJob
<1>3. /\ job' \in [1..MaxSteps -> {"none", "running", "ok", "failed", "timeout"}]
      /\ \A i \in 1..MaxSteps : job'[i] = IF i = pc THEN "failed" ELSE job[i]
  BY <1>1, <1>2 DEF FlowTypes
<1>4. UNCHANGED <<target, presence>>
  BY <1>1, StopsJobDoes
<1>5. EndsAreKnown' /\ ReadIsFound'
  BY <1>1, <1>3, StoppedKeepsReading
<1>6. GoesOnWithin
  BY <1>1, <1>3, <1>4 DEF GoesOnWithin, FlowTypes
<1>7. ASSUME NEW i \in 1..MaxSteps PROVE StepBrings(i)'
  <2>1. StepBrings(i)
    BY DEF AllBring
  <2>2. CASE i = pc
    BY <1>3, <2>2 DEF StepBrings
  <2>3. CASE i # pc
    <3>1. (i < pc') = (i < pc) /\ job'[i] = job[i]
      BY <1>1, <1>3, <2>3
    <3>2. Past(i)' = Past(i)
      BY <3>1 DEF Past
    <3>3. QED
      BY <2>1, <3>1, <3>2, StepKept
  <2>4. QED
    BY <2>2, <2>3
<1>8. QED
  BY <1>5, <1>6, <1>7, WithinKeeps DEF AllBring

LEMMA FlowOverKeepsFlow ==
  ASSUME IInv, TvParts, FlowParts, FlowIsOver, Observes
  PROVE  FlowParts'
<1> USE DEF FlowParts, FlowIsOver
<1>1. FlowTypes'
  <2>1. 1 \in 1..MaxSteps + 1 /\ NoJobs \in [1..MaxSteps -> {"none", "running", "ok", "failed", "timeout"}]
    BY DEF MaxSteps, NoJobs
  <2>2. QED
    BY <2>1, FoundStays DEF FlowTypes
<1>2. FlowPlaces' /\ ReadIsFound' /\ AllBring'
  BY DEF FlowPlaces, ReadIsFound, AllBring
<1>3. EndsAreKnown'
  <2>1. \A i \in 1..MaxSteps : job'[i] # "running"
    BY DEF NoJobs
  <2>2. QED
    BY <2>1 DEF EndsAreKnown
<1>4. QED
  BY <1>1, <1>2, <1>3

LEMMA SameKeepsFlow ==
  ASSUME FlowParts, UNCHANGED <<tvVars, flowVars, found, foundInput>>
  PROVE  FlowParts'
BY DEF tvVars, flowVars, lock, ends, FlowParts, FlowTypes, FlowPlaces, EndsAreKnown, ReadIsFound,
       AllBring, SnapshotBrings, StepBrings, Brought, Due, Past

LEMMA FlowPartsHold == Spec => []FlowParts
<1>1. Init => FlowParts
  <2> SUFFICES ASSUME Init PROVE FlowParts
    OBVIOUS
  <2> USE DEF Init, TvInit
  <2>1. 1 \in 1..MaxSteps + 1 /\ NoJobs \in [1..MaxSteps -> {"none", "running", "ok", "failed", "timeout"}]
    BY DEF MaxSteps, NoJobs
  <2>2. FlowTypes /\ FlowPlaces /\ ReadIsFound /\ AllBring
    BY <2>1 DEF FlowTypes, FlowPlaces, ReadIsFound, AllBring
  <2>3. \A i \in 1..MaxSteps : job[i] # "running"
    BY DEF NoJobs
  <2>4. EndsAreKnown
    BY <2>3 DEF EndsAreKnown
  <2>5. QED
    BY <2>2, <2>4 DEF FlowParts
<1>2. IInv /\ TvParts /\ FlowParts /\ [Next]_vars => FlowParts'
  <2> SUFFICES ASSUME IInv, TvParts, FlowParts, [Next]_vars PROVE FlowParts'
    OBVIOUS
  <2>1. CASE UNCHANGED vars
    BY <2>1, SameKeepsFlow DEF vars
  <2>2. CASE StrayEnds
    BY <2>2, SameKeepsFlow DEF StrayEnds
  <2>3. CASE (Begin \/ RunsSteps \/ (TvNext /\ UNCHANGED flowVars)) /\ Observes
    <3>1. Observes
      BY <2>3
    <3>2. CASE TvNext /\ UNCHANGED flowVars
      BY <3>1, <3>2, TvKeepsFlow
    <3>3. CASE Begin
      BY <3>1, <3>3, BeginKeepsFlow
    <3>4. CASE RefreshEnds \/ RefreshTimeout
      BY <3>1, <3>4, SnapshotKeepsFlow
    <3>5. CASE Skip \/ Start \/ StepDone \/ StepsDone \/ Settles
      BY <3>1, <3>5, SkipKeepsFlow, StartKeepsFlow, StepDoneKeepsFlow, StepsDoneKeepsFlow, SettlesKeepsFlow
    <3>6. CASE SettleTimeout \/ FlowOver \/ FlowDies \/ \E i \in 1..MaxSteps : JobEnds(i) \/ StepTimeout(i)
      BY <3>1, <3>6, EndingKeepsFlow, SettleTimeoutKeepsFlow, FlowOverKeepsFlow DEF FlowOver, FlowDies
    <3>7. QED
      BY <2>3, <3>2, <3>3, <3>4, <3>5, <3>6 DEF RunsSteps
  <2>4. QED
    BY <2>1, <2>2, <2>3 DEF Next
<1>3. QED
  BY <1>1, <1>2, PlacesHold, TvPartsHold, PTL DEF Spec

\* Every step of the lock, of the TV's clients and of a flow keeps its types; who
\* is at the lock is in its queue once, and who talks is at the queue's head.
THEOREM TypeCorrect == Spec => []TypeOK
<1>1. TvParts /\ FlowParts /\ KeysLeft => TypeOK
  BY TvInvIs DEF KeysLeft, TvParts, FlowParts, FlowTypes, FlowTypeOK, TypeOK, TvInv
<1>2. QED
  BY <1>1, TvPartsHold, FlowPartsHold, LeftHolds, PTL

\* Every flow has a step that brings the TV where it should be, and one that
\* watches has one that sets the input, each due when the TV was not there.
LEMMA FlowsBring ==
  ASSUME NEW f \in Flows
  PROVE  /\ \E i \in 1..MaxSteps :
              /\ i <= Len(Steps[f]) /\ Steps[f][i].does = "power"
              /\ Steps[f][i].when = (IF Watches(f) THEN "tv_is_off" ELSE "tv_is_on")
         /\ Watches(f) => \E i \in 1..MaxSteps :
              i <= Len(Steps[f]) /\ Steps[f][i].does = "input" /\ Steps[f][i].when = "tv_is_off"
<1> USE DEF Step, Background, StopSpeaker, Watches, MaxSteps
<1>1. CASE f = "listen"
  <2>1. 2 \in 1..6 /\ 2 <= Len(Steps[f]) /\ Steps[f][2].does = "power" /\ Steps[f][2].when = "tv_is_on"
    BY <1>1 DEF Steps
  <2>2. QED
    BY <1>1, <2>1
<1>2. CASE f = "watch"
  <2>1. 3 \in 1..6 /\ 3 <= Len(Steps[f]) /\ Steps[f][3].does = "power" /\ Steps[f][3].when = "tv_is_off"
    BY <1>2 DEF Steps
  <2>2. 4 \in 1..6 /\ 4 <= Len(Steps[f]) /\ Steps[f][4].does = "input" /\ Steps[f][4].when = "tv_is_off"
    BY <1>2 DEF Steps
  <2>3. QED
    BY <1>2, <2>1, <2>2
<1>3. CASE f = "listen_signal"
  <2>1. 1 \in 1..6 /\ 1 <= Len(Steps[f]) /\ Steps[f][1].does = "power" /\ Steps[f][1].when = "tv_is_on"
    BY <1>3 DEF Steps
  <2>2. QED
    BY <1>3, <2>1
<1>4. CASE f = "watch_signal"
  <2>1. 2 \in 1..6 /\ 2 <= Len(Steps[f]) /\ Steps[f][2].does = "power" /\ Steps[f][2].when = "tv_is_off"
    BY <1>4 DEF Steps
  <2>2. 3 \in 1..6 /\ 3 <= Len(Steps[f]) /\ Steps[f][3].does = "input" /\ Steps[f][3].when = "tv_is_off"
    BY <1>4 DEF Steps
  <2>3. QED
    BY <1>4, <2>1, <2>2
<1>5. CASE f = "power_off"
  <2>1. 2 \in 1..6 /\ 2 <= Len(Steps[f]) /\ Steps[f][2].does = "power" /\ Steps[f][2].when = "tv_is_on"
    BY <1>5 DEF Steps
  <2>2. QED
    BY <1>5, <2>1
<1>6. f \in {"listen", "watch", "listen_signal", "watch_signal", "power_off"}
  BY DEF Flows, Steps
<1>7. QED
  BY <1>1, <1>2, <1>3, <1>4, <1>5, <1>6

\* FlowRunner: a flow that ends without a failure has left the TV in the power
\* state, and on the input, it is for at some moment since it began, unless its
\* refresh gave no reading.
THEOREM SuccessMeansDone == Spec => []SuccessIsTrue
<1>1. FlowParts => SuccessIsTrue
  <2> SUFFICES ASSUME FlowParts, Ended, ~failures
               PROVE  (blind \/ found) /\ (Watches(flow) /\ ~tvWasOn => foundInput)
    BY DEF SuccessIsTrue
  <2> USE DEF FlowParts
  <2>1. stage = "settle" /\ flow \in Flows /\ pc > Len(Steps[flow]) /\ target = Wanted(flow) /\ pc \in Nat
    BY DEF Ended, FlowTypes, FlowPlaces
  <2>2. Len(Steps[flow]) \in 0..MaxSteps
    BY <2>1, FlowsFit
  <2>3. ASSUME NEW i \in 1..MaxSteps, Due(i) PROVE Brought(i)
    <3>1. i < pc
      BY <2>1, <2>2, <2>3 DEF Due
    <3>2. Past(i)
      BY <2>1, <3>1 DEF Past
    <3>3. QED
      BY <2>1, <2>3, <3>2 DEF AllBring, StepBrings
  <2>4. blind \/ found
    <3>1. CASE tvWasOn = (target = "on")
      BY <2>1, <3>1 DEF AllBring, SnapshotBrings
    <3>2. CASE tvWasOn # (target = "on")
      <4>1. PICK i \in 1..MaxSteps :
              /\ i <= Len(Steps[flow]) /\ Steps[flow][i].does = "power"
              /\ Steps[flow][i].when = (IF Watches(flow) THEN "tv_is_off" ELSE "tv_is_on")
        BY <2>1, FlowsBring
      <4>2. Due(i)
        BY <2>1, <3>2, <4>1 DEF Due, IsTv, Wanted, FlowTypes
      <4>3. QED
        BY <2>3, <4>1, <4>2 DEF Brought
    <3>3. QED
      BY <3>1, <3>2
  <2>5. ASSUME Watches(flow), ~tvWasOn PROVE foundInput
    <3>1. PICK i \in 1..MaxSteps :
            i <= Len(Steps[flow]) /\ Steps[flow][i].does = "input" /\ Steps[flow][i].when = "tv_is_off"
      BY <2>1, <2>5, FlowsBring
    <3>2. Due(i)
      BY <2>5, <3>1 DEF Due, IsTv
    <3>3. QED
      BY <2>3, <3>1, <3>2 DEF Brought
  <2>6. QED
    BY <2>4, <2>5
<1>2. QED
  BY <1>1, FlowPartsHold, PTL
=============================================================================
