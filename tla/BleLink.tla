------------------------------ MODULE BleLink ------------------------------
(***************************************************************************)
(* BleDongleLink with the dongle at the other end of the serial port: the  *)
(* reconnect loop and its handshake, the writer and its queue, the lines   *)
(* the dongle sends, and the key edges the hub wants to reach the Apple    *)
(* TV.  The hub asks for the dongle's state once per opening and relies on *)
(* events from then on.                                                    *)
(***************************************************************************)
EXTENDS Dongle, FiniteSets

CONSTANTS
    TxMax,        \* tx_queue
    MaxKeys       \* bound: key edges and releases of all keys

\* Bounded with the dongle's troubles: writes the port refuses, handshakes given
\* up with the answer on its way, and PiHub started again.

ASSUME LinkBounds ==
    /\ TxMax \in Nat /\ TxMax >= 2 + Cardinality(Reports) /\ MaxKeys \in Nat

NoView == [connected |-> FALSE, ready |-> FALSE]
View == [connected : BOOLEAN, ready : BOOLEAN]

VARIABLES
    open,       \* _ser is not None
    alive,      \* the device behind the open port has not gone since
    linkDown,   \* _link_down
    connecting, \* the reconnect loop: "retry", "settle", "pinged", "idle"
    heard,      \* _transport_evt
    view,       \* state.connected, state.ready
    partial,    \* _rx_buf: the texts of a line whose newline has not come
    readLost,   \* a read has failed and _force_reconnect is scheduled
    txq,        \* _tx_q
    writer,     \* "waiting" or "backoff"
    asked,      \* the last edge the hub was asked for, per report
    escaped,    \* history: reports whose key-up got lost before the dongle read it
    keys

port == <<open, alive, linkDown>>
host == <<port, connecting, heard, view, partial, readLost, txq, writer, asked, escaped, keys>>
vars == <<dongle, host>>

Up(r) == <<r, "up">>
Down(r) == <<r, "down">>

TypeOK ==
    /\ DongleTypeOK
    /\ open \in BOOLEAN /\ alive \in BOOLEAN /\ linkDown \in BOOLEAN
    /\ connecting \in {"retry", "settle", "pinged", "idle"}
    /\ heard \in BOOLEAN
    /\ view \in View
    /\ partial \in Seq(Said)
    /\ readLost \in BOOLEAN
    /\ txq \in Seq(Frames \cup Requests) /\ Len(txq) <= TxMax
    /\ writer \in {"waiting", "backoff"}
    /\ asked \in [Reports -> Edges] /\ escaped \subseteq Reports

HostStarts ==
    /\ open' = FALSE /\ alive' = FALSE /\ linkDown' = TRUE
    /\ connecting' = "retry" /\ heard' = FALSE
    /\ view' = NoView /\ partial' = << >> /\ readLost' = FALSE
    /\ txq' = << >> /\ writer' = "waiting"

Init ==
    /\ DongleInit
    /\ open = FALSE /\ alive = FALSE /\ linkDown = TRUE
    /\ connecting = "retry" /\ heard = FALSE
    /\ view = NoView /\ partial = << >> /\ readLost = FALSE
    /\ txq = << >> /\ writer = "waiting"
    /\ asked = [r \in Reports |-> "up"] /\ escaped = {}
    /\ keys = 0

\* Reports with a key-up among some items: what is lost with them.
UpsAmong(items) == {r \in Reports : Contains(items, Up(r))}

----------------------------------------------------------------------------
\* _close_serial and _force_reconnect.

ForceReconnect_Faulty ==
    /\ open' = FALSE /\ alive' = FALSE /\ linkDown' = linkDown
    /\ txq' = << >>
    /\ view' = NoView /\ heard' = FALSE
    /\ escaped' = escaped \cup UpsAmong(txq)

ForceReconnect ==
    /\ open' = FALSE /\ alive' = FALSE /\ linkDown' = TRUE
    /\ txq' = << >>
    /\ view' = NoView /\ heard' = FALSE
    /\ escaped' = escaped \cup UpsAmong(txq)

----------------------------------------------------------------------------
\* The reconnect loop.

\* reset_output_buffer: of what was written, the last bytes may not have left.
Flushed(n) ==
    {SubSeq(rx, 1, n)} \cup IF n < Len(rx) THEN {Scrapped(SubSeq(rx, 1, n))} ELSE {}

\* Opening throws away what has come in so far of what the dongle had to say.
Open ==
    /\ connecting = "retry"
    /\ ~open /\ present /\ ~readLost
    /\ open' = TRUE /\ alive' = TRUE /\ linkDown' = FALSE
    /\ connecting' = "settle"
    /\ view' = NoView /\ heard' = FALSE /\ partial' = << >>
    /\ talks' = TRUE
    /\ \E kept \in 1..(Len(ring) + 1) : ring' = SubSeq(ring, kept, Len(ring))
    /\ \E n \in 0..Len(rx) :
         /\ rx' \in Flushed(n)
         /\ escaped' = escaped \cup UpsAmong(SubSeq(rx, n + 1, Len(rx)))
    /\ UNCHANGED <<present, radio, linkReady, cmd, atv, missed, refused, btEvents, troubles,
                   readLost, txq, writer, asked, keys>>

\* _write_line waits for room.
WriteLine(request) ==
    IF open
    THEN Len(txq) < TxMax /\ txq' = Append(txq, request)
    ELSE UNCHANGED txq

SendPing ==
    /\ connecting = "settle"
    /\ connecting' = "pinged"
    /\ WriteLine(<<"PING">>)
    /\ UNCHANGED <<dongle, port, heard, view, partial, readLost, writer,
                   asked, escaped, keys>>

HandshakeOk ==
    /\ connecting = "pinged" /\ heard
    /\ connecting' = "idle"
    /\ WriteLine(<<"STATUS">>)
    /\ UNCHANGED <<dongle, port, heard, view, partial, readLost, writer,
                   asked, escaped, keys>>

\* The PONG of this handshake may still come.
PongIsComing ==
    /\ alive
    /\ Contains(txq, <<"PING">>) \/ Contains(rx, <<"PING">>) \/ cmd # << >> \/ ring # << >>

HandshakeTimeout ==
    /\ connecting = "pinged" /\ ~heard
    /\ IF PongIsComing
       THEN Trouble
       ELSE UNCHANGED troubles
    /\ connecting' = "retry"
    /\ ForceReconnect
    /\ UNCHANGED <<firmware, partial, readLost, writer, asked, keys>>

LinkDownSeen ==
    /\ connecting = "idle" /\ linkDown
    /\ connecting' = "retry"
    /\ UNCHANGED <<dongle, port, heard, view, partial, readLost, txq, writer,
                   asked, escaped, keys>>

----------------------------------------------------------------------------
\* The writer.

\* What the dongle's ring has no room for is dropped: an item, or the end of one.
Spilt == (IF Len(rx) = RxMax THEN {rx} ELSE {}) \cup (IF Len(rx) + 1 = RxMax THEN {Scrapped(rx)} ELSE {})

WriterWrites ==
    /\ writer = "waiting" /\ txq # << >>
    /\ alive
    /\ txq' = Tail(txq)
    /\ \/ /\ Len(rx) < RxMax
          /\ rx' = Append(rx, Head(txq))
          /\ UNCHANGED <<missed, escaped>>
       \/ /\ rx' \in Spilt
          /\ missed' = (missed \/ Head(txq) = <<"STATUS">>)
          /\ escaped' = escaped \cup UpsAmong(<<Head(txq)>>)
    /\ UNCHANGED <<present, talks, radio, linkReady, cmd, ring, atv, refused, btEvents,
                   troubles, port, connecting, heard, view, partial, readLost,
                   writer, asked, keys>>

\* The device is gone, or takes nothing or only a part of the frame.
WriterFails ==
    /\ writer = "waiting" /\ txq # << >>
    /\ \/ ~alive /\ UNCHANGED <<rx, troubles>>
       \/ /\ Trouble
          /\ \/ UNCHANGED rx
             \/ alive /\ Len(rx) < RxMax /\ rx' = Scrapped(rx)
    /\ writer' = "backoff"
    /\ ForceReconnect
    /\ UNCHANGED <<present, talks, radio, linkReady, cmd, ring, atv, missed, refused, btEvents,
                   connecting, partial, readLost, asked, keys>>

WriterWakes ==
    /\ writer = "backoff"
    /\ writer' = "waiting"
    /\ UNCHANGED <<dongle, port, connecting, heard, view, partial, readLost, txq,
                   asked, escaped, keys>>

----------------------------------------------------------------------------
\* What comes in.

\* _handle_evt; a value that another text follows without a newline is not "1".
HandleEvt(e, whole) ==
    IF e.line = "CONN"
    THEN IF e.connected /\ whole
         THEN [view EXCEPT !.connected = TRUE]
         ELSE NoView
    ELSE IF e.ready /\ whole
         THEN [connected |-> TRUE, ready |-> TRUE]
         ELSE [view EXCEPT !.ready = FALSE]

\* _handle_line: the first text decides, and others on the same line are lost;
\* a PONG counts only alone.
HandleLine(texts) ==
    IF texts = << >>
    THEN UNCHANGED <<view, heard>>
    ELSE LET first == Head(texts)
         IN  /\ heard' = (heard \/ texts = <<Reply(<<"PING">>)>>)
             /\ view' = CASE first.line = "STATUS" ->
                               [connected |-> first.connected,
                                ready |-> first.connected /\ first.ready]
                          [] first.line \in {"CONN", "READY"} -> HandleEvt(first, Len(texts) = 1)
                          [] OTHER -> view

\* _on_serial_readable and _ingest_rx_bytes
Read ==
    /\ alive /\ ring # << >>
    /\ ring' = Tail(ring)
    /\ IF Head(ring) = NewLine
       THEN HandleLine(partial) /\ partial' = << >>
       ELSE partial' = Append(partial, Head(ring)) /\ UNCHANGED <<view, heard>>
    /\ UNCHANGED <<present, talks, radio, linkReady, rx, cmd, atv, missed, refused, btEvents, troubles,
                   port, connecting, readLost, txq, writer, asked, escaped,
                   keys>>

ReadFails ==
    /\ open /\ ~alive /\ ~readLost
    /\ readLost' = TRUE
    /\ UNCHANGED <<dongle, port, connecting, heard, view, partial, txq, writer,
                   asked, escaped, keys>>

ReadLossHandled ==
    /\ readLost
    /\ readLost' = FALSE
    /\ ForceReconnect
    /\ UNCHANGED <<dongle, connecting, partial, writer, asked, keys>>

----------------------------------------------------------------------------
\* Keys.

KeyEdge_Faulty(r, edge, strict) ==
    /\ keys < MaxKeys /\ keys' = keys + 1
    /\ asked[r] # edge
    /\ asked' = [asked EXCEPT ![r] = edge]
    /\ open /\ view.connected /\ view.ready
    /\ txq' = Append(txq, <<r, edge>>)
    /\ UNCHANGED <<dongle, port, connecting, heard, view, partial, readLost, escaped, writer>>

\* _enqueue_nowait drops the oldest item of a full queue, _enqueue_strict
\* raises; both take nothing while the link is not ready.
KeyEdge(r, edge, strict) ==
    /\ keys < MaxKeys /\ keys' = keys + 1
    /\ asked[r] # edge
    /\ asked' = [asked EXCEPT ![r] = edge]
    /\ LET f == <<r, edge>>
           full == Len(txq) = TxMax
           taken == open /\ view.connected /\ view.ready /\ ~(full /\ strict)
       IN  IF taken
           THEN /\ txq' = Append(IF full THEN Tail(txq) ELSE txq, f)
                /\ escaped' = escaped \cup (UpsAmong(txq) \ UpsAmong(txq'))
                /\ missed' = (missed \/ (full /\ ~IsFrame(Head(txq))))
           ELSE /\ escaped' = IF edge = "up" THEN escaped \cup {r} ELSE escaped
                /\ UNCHANGED <<txq, missed>>
    /\ UNCHANGED <<present, talks, radio, linkReady, rx, cmd, ring, atv, refused, btEvents, troubles,
                   port, connecting, heard, view, partial, readLost,
                   writer>>

\* A zero report for the keyboard, then one for the consumer keys.
Zeros ==
    (IF "kb" \in Reports THEN <<Up("kb")>> ELSE << >>) \o (IF "cc" \in Reports THEN <<Up("cc")>> ELSE << >>)

\* _drain_hid_frames: the requests stay, in their order.
Drained(kept) ==
    /\ \A i, j \in DOMAIN kept : i < j => kept[i] < kept[j]
    /\ {kept[i] : i \in DOMAIN kept} = {i \in DOMAIN txq : ~IsFrame(txq[i])}

ReleaseAll_Faulty ==
    /\ keys < MaxKeys /\ keys' = keys + 1
    /\ asked' = [r \in Reports |-> "up"]
    /\ IF open
       THEN txq' = Zeros \o txq /\ UNCHANGED escaped
       ELSE escaped' = Reports /\ UNCHANGED txq
    /\ UNCHANGED <<dongle, port, connecting, heard, view, partial, readLost,
                   writer>>

\* release_all: queued frames make room for one zero report each, whatever the
\* link's state; only a closed port keeps them back.
ReleaseAll ==
    /\ keys < MaxKeys /\ keys' = keys + 1
    /\ asked' = [r \in Reports |-> "up"]
    /\ IF open
       THEN /\ \E n \in 0..Len(txq) : \E kept \in [1..n -> DOMAIN txq] :
                 Drained(kept) /\ txq' = [i \in 1..n |-> txq[kept[i]]] \o Zeros
            /\ UNCHANGED escaped
       ELSE escaped' = Reports /\ UNCHANGED txq
    /\ UNCHANGED <<dongle, port, connecting, heard, view, partial, readLost,
                   writer>>

----------------------------------------------------------------------------
\* PiHub ends, in whatever way, and starts again; the dongle stays powered.
Restart ==
    /\ Trouble
    /\ HostStarts
    /\ asked' = [r \in Reports |-> "up"]
    /\ escaped' = Reports
    /\ UNCHANGED <<firmware, keys>>

----------------------------------------------------------------------------
\* A frame of a report is on its way to the dongle.
Pending(r) ==
    \/ \E i \in DOMAIN rx : IsFrame(rx[i]) /\ rx[i][1] = r
    \/ \E i \in DOMAIN txq : IsFrame(txq[i]) /\ txq[i][1] = r

\* A key-up that arrives makes good the ones that did not.
Escaped(lost) == escaped' = {r \in escaped \cup lost : atv'[r] = "down" \/ Pending(r)'}

DongleCommand ==
    /\ UNCHANGED <<port, connecting, heard, view, partial, readLost, txq, writer,
                   asked, keys>>
    /\ \/ CommandStep /\ Escaped({})
       \/ \E n \in 1..Len(rx) :
            /\ CommandMisreads(n)
            /\ Escaped(UpsAmong(SubSeq(rx, 1, n)) \cup {r \in Reports : atv'[r] # atv[r]})

DongleGone ==
    /\ Unplug
    /\ alive' = FALSE
    /\ UNCHANGED <<open, linkDown, connecting, heard, view, partial, readLost, txq, writer,
                   asked, escaped, keys>>

Connecting == Open \/ SendPing \/ HandshakeOk \/ HandshakeTimeout \/ LinkDownSeen
Writer == WriterWrites \/ WriterFails \/ WriterWakes
Reader == Read \/ ReadFails

Next ==
    \/ RadioStep /\ UNCHANGED host
    \/ DongleCommand
    \/ DongleGone
    \/ Plug /\ UNCHANGED host
    \/ Connecting
    \/ Writer
    \/ Reader
    \/ ReadLossHandled
    \/ \E r \in Reports, e \in Edges, strict \in BOOLEAN : KeyEdge(r, e, strict)
    \/ ReleaseAll
    \/ Restart

Spec == Init /\ [][Next]_vars

\* Tasks and threads that can go on do; the dongle need not come back, the
\* Apple TV need not do anything, nobody has to press a key.  A scrap alone may
\* be the beginning of a line and wait for ever.
Fairness ==
    /\ WF_vars(DongleCommand /\ ~(cmd = << >> /\ rx = <<Scrap>>))
    /\ WF_vars(Connecting)
    /\ WF_vars(Writer)
    /\ WF_vars(Reader)
    /\ WF_vars(ReadLossHandled)

FairSpec == Spec /\ Fairness

----------------------------------------------------------------------------
\* Properties.

\* link_ready follows everything it is computed from, whichever callback
\* changed it.
LinkReadyIsComputed == linkReady = CanCarryKeys

\* Nothing is under way in either direction.
Quiet ==
    /\ open /\ alive /\ connecting = "idle"
    /\ txq = << >> /\ rx = << >> /\ cmd = << >> /\ ring = << >> /\ partial = << >>

\* The hub then takes the link for what it is, unless the dongle could not
\* tell it: a STATUS was out of date when it was written or its request got
\* lost, an event's line ran into another one, or the ring was full.
HostAgrees ==
    Quiet /\ ~missed => view = [connected |-> conn, ready |-> linkReady]

\* A key-up among the items of a queue from one on.
Comes(items, from, r) == \E i \in DOMAIN items : i >= from /\ items[i] = Up(r)

\* On its way to the dongle, a key-down has a key-up of the same report behind it.
DownsEnd(r) ==
    /\ \A i \in DOMAIN rx : rx[i] = Down(r) => Comes(rx, i, r) \/ Comes(txq, 1, r)
    /\ \A i \in DOMAIN txq : txq[i] = Down(r) => Comes(txq, i, r)

\* A key the hub has been asked to release comes up on the Apple TV, after all
\* that was queued before, unless its key-up was lost.  It is lost on the hub if
\* the link is not ready, the port closed, the queue full, or PiHub starts again;
\* on its way if the dongle's ring is full, a reopening throws it away, or a part
\* of an earlier item swallows it; and on the dongle if the link or the Bluetooth
\* stack does not take it.
KeysComeUp ==
    \A r \in Reports \ (escaped \cup refused) :
        asked[r] = "up" =>
            /\ atv[r] = "down" => Comes(rx, 1, r) \/ Comes(txq, 1, r)
            /\ DownsEnd(r)

\* A dongle that is there gets opened and answers, unless it goes away.
LinkRecovers == (present /\ ~open) ~> ((open /\ connecting = "idle") \/ ~present)

----------------------------------------------------------------------------
\* Why they hold: the inductive invariant of BleLinkProofs.

\* The port and what waits for it belong to one opening, and to one handshake.
PortOK ==
    /\ linkDown = ~open
    /\ ~open => txq = << >>
    /\ alive => open /\ present /\ talks
    /\ connecting = "retry" => ~open

\* PING and STATUS are asked once per handshake.
OnceAsked ==
    /\ \A i, j \in DOMAIN txq : ~IsFrame(txq[i]) /\ txq[i] = txq[j] => i = j
    /\ connecting = "settle" => \A i \in DOMAIN txq : IsFrame(txq[i])
    /\ connecting = "pinged" => \A i \in DOMAIN txq : txq[i] # <<"STATUS">>

\* The command thread has a line to write, its newline, or nothing; what is
\* written by others ends with a newline.
LinesEnd ==
    /\ \/ cmd = << >> \/ cmd = <<NewLine>>
       \/ Len(cmd) = 2 /\ cmd[1].line \in {"PONG", "STATUS"} /\ cmd[2] = NewLine
    /\ cmd # << >> => talks
    /\ cmd # <<NewLine>> =>
         IF ring # << >> THEN ring[Len(ring)] = NewLine ELSE alive => partial = << >>

StatusComes ==
    \/ Contains(txq, <<"STATUS">>) \/ Contains(rx, <<"STATUS">>)
    \/ cmd # << >> /\ cmd[1].line = "STATUS"

\* The STATUS of this opening has been told, and nothing missed since.
Informed == alive /\ connecting = "idle" /\ ~missed /\ ~StatusComes

\* From the last STATUS on each line is a text and a newline.
LastStatus(i) == \A j \in DOMAIN ring : j > i => ring[j].line # "STATUS"
LinesWhole ==
    Informed =>
        /\ \A i \in DOMAIN ring : ring[i] # NewLine /\ LastStatus(i) =>
             /\ IF i = 1 THEN partial = << >> ELSE ring[i - 1] = NewLine
             /\ IF i = Len(ring) THEN cmd = <<NewLine>> ELSE ring[i + 1] = NewLine
        /\ partial # << >> /\ LastStatus(0) =>
             /\ Len(partial) = 1
             /\ IF ring = << >> THEN cmd = <<NewLine>> ELSE ring[1] = NewLine

\* What a text tells of the connection, and of readiness.
TellsConn(x) == x.line \in {"STATUS", "CONN"} \/ (x.line = "READY" /\ x.ready)
ConnTold(x) == x.line = "READY" \/ x.connected
TellsReady(x) == x.line \in {"STATUS", "READY"} \/ (x.line = "CONN" /\ ~x.connected)
ReadyTold(x) == x.line # "CONN" /\ x.ready /\ (x.line = "STATUS" => x.connected)

\* The last that is told is so.
ConnFollows ==
    Informed =>
        /\ \A i \in DOMAIN ring :
             TellsConn(ring[i]) /\ (\A j \in DOMAIN ring : j > i => ~TellsConn(ring[j])) =>
                 ConnTold(ring[i]) = conn
        /\ (\A i \in DOMAIN ring : ~TellsConn(ring[i])) =>
             conn = IF partial # << >> /\ TellsConn(partial[1]) THEN ConnTold(partial[1]) ELSE view.connected
ReadyFollows ==
    Informed =>
        /\ \A i \in DOMAIN ring :
             TellsReady(ring[i]) /\ (\A j \in DOMAIN ring : j > i => ~TellsReady(ring[j])) =>
                 ReadyTold(ring[i]) = linkReady
        /\ (\A i \in DOMAIN ring : ~TellsReady(ring[i])) =>
             linkReady = IF partial # << >> /\ TellsReady(partial[1]) THEN ReadyTold(partial[1]) ELSE view.ready

\* Frames that are on their way count also after the dongle refused one.
KeysFollow ==
    \A r \in Reports \ escaped :
        asked[r] = "up" =>
            /\ atv[r] = "down" /\ r \notin refused => Comes(rx, 1, r) \/ Comes(txq, 1, r)
            /\ DownsEnd(r)

ViewFollows == LinesEnd /\ LinesWhole /\ ConnFollows /\ ReadyFollows

IInv == TypeOK /\ PortOK /\ OnceAsked /\ LinkReadyIsComputed /\ ViewFollows /\ KeysFollow
=============================================================================
