------------------------------ MODULE FrameTv ------------------------------
(***************************************************************************)
(* SamsungFrameTv: power and input of a TV that is asked over the network. *)
(*                                                                         *)
(* Every conversation with the TV is under one lock, first come first      *)
(* served.  Five clients want it: the read an SSDP announcement sets off,  *)
(* a flow's refresh, its power step and its input step, and POST           *)
(* /api/refresh/tv.  A request is on its way until the TV answers; the     *)
(* answer is on its way until the client handles it.  The pauses between   *)
(* requests are part of the way.  The token is taken to be there.          *)
(***************************************************************************)
EXTENDS Naturals, SequencesExt

CONSTANTS
    MaxEvents, \* bound: uses of the TV, failed requests, lost announcements, refreshes, flows
    Attempts   \* _COMMAND_RETRIES

ASSUME FrameTvBounds == MaxEvents \in Nat /\ Attempts \in Nat \ {0}

Clients == {"announce", "refresh", "power", "input", "api"}

VARIABLES
    power, input, \* the TV's own state
    obey,      \* the power state it was ordered into and is on its way to
    announced, \* an SSDP announcement is on its way
    presence,  \* _presence_cached
    queue,     \* clients at _lock; the head has it
    at,        \* where a client is: "off", "delay", "queued", or its request
    got,       \* the answer on its way to it
    target,    \* what the power step wants
    tries,     \* attempts the power and the input step have left
    result,    \* how a flow's client ended
    missed,    \* history: the last announcement has led to no reading of its own
    events

tv      == <<power, input, obey, announced>>
lock    == <<queue, at, got>>
ends    == <<tries, result>>
tvVars  == <<tv, presence, lock, target, ends, missed, events>>

Powers == {"on", "off"}
Inputs == {"hdmi1", "other"}
Requests == {"read", "order", "verify", "source", "switch", "check"}

Waits(c) == \E i \in DOMAIN queue : queue[i] = c  \* or has the lock

TvTypeOK ==
    /\ power \in Powers /\ input \in Inputs /\ obey \in Powers \cup {"none"} /\ announced \in BOOLEAN
    /\ presence \in Powers \cup {"unknown"} /\ queue \in Seq(Clients)
    /\ at \in [Clients -> {"off", "delay", "queued"} \cup Requests]
    /\ got \in [Clients -> Powers \cup Inputs \cup {"none", "ack"}]
    /\ target \in Powers
    /\ tries \in [{"power", "input"} -> 0..Attempts]
    /\ result \in [{"refresh", "power", "input"} -> {"none", "ok", "failed"}]
    /\ missed \in BOOLEAN /\ events \in 0..MaxEvents
    /\ \A c \in Clients : at[c] \in Requests => Head(queue) = c
    /\ \A c \in Clients : (at[c] \in {"off", "delay"}) = ~Waits(c)

TvInit ==
    /\ power \in Powers /\ input \in Inputs /\ obey = "none" /\ announced = FALSE
    /\ presence = "unknown" /\ queue = << >>
    /\ at = [c \in Clients |-> "off"] /\ got = [c \in Clients |-> "none"]
    /\ target = "on"
    /\ tries = [c \in {"power", "input"} |-> 0]
    /\ result = [c \in {"refresh", "power", "input"} |-> "none"]
    /\ missed = TRUE /\ events = 0

Event == events < MaxEvents /\ events' = events + 1

(***************************************************************************)
(* The TV.                                                                 *)
(***************************************************************************)
\* It announces itself whenever its power changes.
Turns(p) == power' = p /\ announced' = (announced \/ p # power)

UsedByHand ==
    /\ Event
    /\ \/ Turns(IF power = "on" THEN "off" ELSE "on") /\ UNCHANGED input
       \/ input' = (IF input = "hdmi1" THEN "other" ELSE "hdmi1") /\ UNCHANGED <<power, announced>>
    /\ UNCHANGED <<obey, presence, lock, target, ends, missed>>

Obeys ==
    /\ obey # "none"
    /\ Turns(obey) /\ obey' = "none"
    /\ UNCHANGED <<input, presence, lock, target, ends, missed, events>>

\* A power order is acknowledged first and obeyed later; an order to change the
\* input may be acknowledged in vain.
TvAnswers(c) ==
    /\ at[c] \in Requests /\ got[c] = "none"
    /\ got' = [got EXCEPT ![c] = CASE at[c] \in {"read", "verify"} -> power
                                   [] at[c] \in {"source", "check"} -> input
                                   [] OTHER -> "ack"]
    /\ obey' = IF at[c] = "order" THEN target ELSE obey
    /\ \/ UNCHANGED input
       \/ at[c] = "switch" /\ input' = "hdmi1"
    /\ UNCHANGED <<power, announced, presence, queue, at, target, ends, missed, events>>

(***************************************************************************)
(* Announcements.                                                          *)
(***************************************************************************)
\* Variant: an announcement is dropped while there is any conversation.
AnnouncementHeard_Faulty ==
    /\ announced /\ announced' = FALSE
    /\ at' = IF at["announce"] = "off" /\ queue = << >> THEN [at EXCEPT !["announce"] = "delay"] ELSE at
    /\ missed' = (got["announce"] \in Powers \ {power})
    /\ UNCHANGED <<power, input, obey, presence, queue, got, target, ends, events>>

\* notify_ssdp: no read of its own while one is under way.
AnnouncementHeard ==
    /\ announced /\ announced' = FALSE
    /\ at' = IF at["announce"] = "off" THEN [at EXCEPT !["announce"] = "delay"] ELSE at
    /\ missed' = (got["announce"] \in Powers \ {power})
    /\ UNCHANGED <<power, input, obey, presence, queue, got, target, ends, events>>

AnnouncementLost ==
    /\ announced /\ Event
    /\ announced' = FALSE /\ missed' = TRUE
    /\ UNCHANGED <<power, input, obey, presence, lock, target, ends>>

(***************************************************************************)
(* The lock.                                                               *)
(***************************************************************************)
Asks(c) ==
    /\ queue' = Append(queue, c)
    /\ at' = [at EXCEPT ![c] = "queued"]

\* _read_after_announce, when the burst is over
DelayOver ==
    /\ at["announce"] = "delay"
    /\ Asks("announce")
    /\ UNCHANGED <<tv, presence, got, target, ends, missed, events>>

ApiRefresh ==
    /\ at["api"] = "off" /\ Event
    /\ Asks("api")
    /\ UNCHANGED <<tv, presence, got, target, ends, missed>>

FirstRequest(c) ==
    CASE c = "power" -> "order" [] c = "input" -> "source" [] OTHER -> "read"

\* Variant: nothing keeps the conversations apart.
Granted_Faulty(c) ==
    /\ at[c] = "queued"
    /\ at' = [at EXCEPT ![c] = FirstRequest(c)]
    /\ UNCHANGED <<tv, presence, queue, got, target, ends, missed, events>>

Granted(c) ==
    /\ at[c] = "queued" /\ Head(queue) = c
    /\ at' = [at EXCEPT ![c] = FirstRequest(c)]
    /\ UNCHANGED <<tv, presence, queue, got, target, ends, missed, events>>

Without(c) ==
    IF Waits(c) THEN RemoveAt(queue, CHOOSE i \in DOMAIN queue : queue[i] = c) ELSE queue

\* The client leaves the lock ...
Leaves(c, how) ==
    /\ at' = [at EXCEPT ![c] = "off"] /\ got' = [got EXCEPT ![c] = "none"]
    /\ queue' = Without(c)
    /\ result' = IF c \in DOMAIN result THEN [result EXCEPT ![c] = how] ELSE result

\* ... or goes on to another request.
GoesOn(c, request) ==
    /\ at' = [at EXCEPT ![c] = request] /\ got' = [got EXCEPT ![c] = "none"]
    /\ UNCHANGED <<queue, result>>

TriesAgain(c) ==
    /\ tries' = [tries EXCEPT ![c] = @ - 1]
    /\ IF tries[c] > 1 THEN GoesOn(c, FirstRequest(c)) ELSE Leaves(c, "failed")

(***************************************************************************)
(* Answers.                                                                *)
(***************************************************************************)
Commit(c) ==
    /\ presence' = got[c]
    /\ missed' = (missed /\ got[c] # power)

Back(c, request) == at[c] = request /\ got[c] # "none"

\* refresh_presence, and the first half of reconcile_presence
PowerRead(c) ==
    /\ Back(c, "read")
    /\ Commit(c)
    /\ IF c = "api" /\ presence' = "on" THEN GoesOn(c, "source") ELSE Leaves(c, "ok")
    /\ UNCHANGED <<tv, target, tries, events>>

Ordered ==
    /\ Back("power", "order")
    /\ GoesOn("power", "verify")
    /\ UNCHANGED <<tv, presence, target, tries, missed, events>>

\* _wait_for_power_state: poll until the TV is where it should be
Verified ==
    /\ Back("power", "verify")
    /\ Commit("power")
    /\ IF got["power"] = target THEN Leaves("power", "ok") ELSE GoesOn("power", "verify")
    /\ UNCHANGED <<tv, target, tries, events>>

VerifyDeadline ==
    /\ at["power"] = "verify"
    /\ Leaves("power", "failed")
    /\ UNCHANGED <<tv, presence, target, tries, missed, events>>

SourceRead(c) ==
    /\ Back(c, "source")
    /\ CASE c = "api" -> Leaves(c, "ok")
         [] got[c] = "hdmi1" -> Leaves(c, "ok")
         [] OTHER -> GoesOn(c, "switch")
    /\ UNCHANGED <<tv, presence, target, tries, missed, events>>

Switched ==
    /\ Back("input", "switch")
    /\ GoesOn("input", "check")
    /\ UNCHANGED <<tv, presence, target, tries, missed, events>>

Checked ==
    /\ Back("input", "check")
    /\ IF got["input"] = "hdmi1"
         THEN Leaves("input", "ok") /\ UNCHANGED tries
         ELSE TriesAgain("input")
    /\ UNCHANGED <<tv, presence, target, missed, events>>

(***************************************************************************)
(* Requests that fail, and clients that are cancelled.                     *)
(***************************************************************************)
\* An order that was sent may be obeyed all the same.
Astray(c) == obey' \in IF at[c] = "order" /\ got[c] = "none" THEN {obey, target} ELSE {obey}

\* A poll that fails is polled again, which is no other than a slow answer.
RequestFails(c) ==
    /\ at[c] \in Requests \ {"verify"} /\ Event
    /\ Astray(c)
    /\ CASE c \in {"power", "input"} -> TriesAgain(c)
         [] c = "api" /\ at[c] = "read" /\ presence = "on" -> GoesOn(c, "source") /\ UNCHANGED tries
         [] OTHER -> Leaves(c, "failed") /\ UNCHANGED tries
    /\ missed' = (missed \/ c = "announce")
    /\ UNCHANGED <<power, input, announced, presence, target>>

\* The client's task is cancelled, wherever it is.
Cancelled(c) ==
    /\ Leaves(c, "failed")
    /\ Astray(c)
    /\ UNCHANGED <<power, input, announced, presence, target, tries, missed, events>>

TvHandles ==
    \/ \E c \in Clients : Granted(c) \/ PowerRead(c) \/ SourceRead(c)
    \/ DelayOver \/ Ordered \/ Verified \/ VerifyDeadline \/ Switched \/ Checked

TvOutside ==
    \/ UsedByHand \/ AnnouncementLost \/ ApiRefresh
    \/ \E c \in Clients : RequestFails(c)

TvNext ==
    \/ TvHandles \/ TvOutside \/ Obeys \/ AnnouncementHeard
    \/ \E c \in Clients : TvAnswers(c)

(***************************************************************************)
(* Properties.                                                             *)
(***************************************************************************)
AtRest == ~announced /\ obey = "none" /\ \A c \in Clients : at[c] = "off"

\* However readings, flows and announcements cross, what the hub believes of the
\* TV's power is so once all is quiet; except when an announcement was lost, its
\* read failed, or it came between the answer to an earlier one and its handling.
BeliefFollows == AtRest /\ ~missed => presence = power

(***************************************************************************)
(* Why the belief follows: what FlowProofs needs of the lock and of the    *)
(* answers that are on their way.                                          *)
(***************************************************************************)
OneEach == \A i, j \in DOMAIN queue : queue[i] = queue[j] => i = j

Roads ==
    [announce |-> {"delay", "queued", "read"}, refresh |-> {"queued", "read"},
     power |-> {"queued", "order", "verify"}, input |-> {"queued", "source", "switch", "check"},
     api |-> {"queued", "read", "source"}]

\* Every client keeps to its own requests, and an answer is one to its request.
AnswersFit ==
    \A c \in Clients :
        /\ at[c] \in {"off"} \cup Roads[c]
        /\ got[c] # "none" => at[c] \in Requests
        /\ at[c] \in {"read", "verify"} => got[c] \in Powers \cup {"none"}
        /\ at[c] \in {"source", "check"} => got[c] \in Inputs \cup {"none"}

\* With no announcement on its way nor missed, the belief is right, and so is
\* every answer that will be put over it; or a read that will set it right is
\* under way, and its answer, if it is there, is right.
NewsIsRead ==
    ~announced /\ ~missed =>
        IF at["announce"] = "off"
          THEN presence = power /\ \A c \in Clients : got[c] \in Powers => got[c] = power
          ELSE got["announce"] \in Powers => got["announce"] = power

\* Who is at the lock has an attempt left.
TriesLeft == \A c \in {"power", "input"} : at[c] # "off" => tries[c] # 0

TvInv == TvTypeOK /\ OneEach /\ AnswersFit /\ TriesLeft /\ NewsIsRead
=============================================================================
