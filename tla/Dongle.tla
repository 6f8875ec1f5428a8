------------------------------- MODULE Dongle -------------------------------
(***************************************************************************)
(* The dongle's firmware between the Apple TV and the serial port: whether *)
(* the Bluetooth link can carry keys, and what it says about that.         *)
(*                                                                         *)
(* Two threads write to one ring of bytes.  The Bluetooth callbacks run at *)
(* a priority the command thread does not have, so each is one step here,  *)
(* and can come between any two steps of the command thread: between the   *)
(* moment a STATUS reply is put together and the moment it is written, and *)
(* between a line and the newline that ends it, which are two writes.      *)
(*                                                                         *)
(* The lines about advertising, connection parameters, the protocol mode   *)
(* and errors, the greeting at boot and the reply to INFO say nothing of   *)
(* readiness and are left out, with the state they report.                 *)
(***************************************************************************)
EXTENDS Naturals, Sequences, SequencesExt

CONSTANTS
    Reports,      \* the input reports in use, among "kb" and "cc"
    RingMax,      \* CMD_TX_RB_SIZE, counted in texts and newlines
    RxMax,        \* CMD_RX_RB_SIZE, counted in frames and requests
    MaxBtEvents,  \* bound: what the Apple TV and the radio do
    MaxTroubles   \* bound: unplugged or reset by its watchdog, and what a module built on this one adds

ASSUME ReportsAssumption == Reports \subseteq {"kb", "cc"}
ASSUME DongleBounds ==
    /\ RingMax \in Nat /\ RingMax >= 2 /\ RxMax \in Nat \ {0}
    /\ MaxBtEvents \in Nat /\ MaxTroubles \in Nat

Edges == {"down", "up"}
Frames == Reports \X Edges
Requests == {<<"PING">>, <<"STATUS">>}
IsFrame(item) == Len(item) = 2

\* Part of a frame or request whose other bytes never come.
Scrap == <<"scrap">>

\* A scrap right after another is more of the same.
Scrapped(items) == IF items # << >> /\ items[Len(items)] = Scrap THEN items ELSE Append(items, Scrap)

\* What a line says: connected and ready, of which a CONN or READY event
\* tells one.
Said == [line : {"PONG", "STATUS", "CONN", "READY"}, connected : BOOLEAN, ready : BOOLEAN]
NewLine == [line |-> "newline", connected |-> FALSE, ready |-> FALSE]

VARIABLES
    present,    \* plugged in and running
    talks,      \* cmd_uart_ready: the host has opened the port once
    conn,       \* current_conn
    secure,     \* current_sec_level >= L2
    notify,     \* the reports the Apple TV has subscribed to
    suspended,  \* hid_suspended
    linkReady,  \* link_ready
    rx,         \* cmd_rx_rb, and what is on its way into it
    cmd,        \* the command thread: << >>, or what it has still to write
    ring,       \* cmd_tx_rb
    atv,        \* the last edge the Apple TV saw, per report
    missed,     \* history: the host was told less than it was meant to be
    refused,    \* history: reports whose key-up was not notified
    btEvents, troubles

radio  == <<conn, secure, notify, suspended>>
firmware == <<present, talks, radio, linkReady, rx, cmd, ring, atv, missed, refused, btEvents>>
dongle == <<firmware, troubles>>

DongleTypeOK ==
    /\ present \in BOOLEAN /\ talks \in BOOLEAN
    /\ conn \in BOOLEAN /\ secure \in BOOLEAN /\ suspended \in BOOLEAN
    /\ notify \subseteq Reports
    /\ linkReady \in BOOLEAN
    /\ rx \in Seq(Frames \cup Requests \cup {Scrap}) /\ Len(rx) <= RxMax
    /\ cmd \in Seq(Said \cup {NewLine})
    /\ ring \in Seq(Said \cup {NewLine}) /\ Len(ring) <= RingMax
    /\ atv \in [Reports -> Edges]
    /\ missed \in BOOLEAN /\ refused \subseteq Reports

\* compute_link_ready; the protocol mode has no part in it.
CanCarryKeys == conn /\ secure /\ ~suspended /\ notify = Reports

\* The firmware may have been running for long when PiHub starts.
DongleInit ==
    /\ present \in BOOLEAN /\ talks = FALSE
    /\ conn \in BOOLEAN /\ secure \in BOOLEAN /\ suspended \in BOOLEAN
    /\ notify \in SUBSET Reports
    /\ conn => present
    /\ secure \/ notify # {} \/ suspended => conn
    /\ linkReady = CanCarryKeys
    /\ rx = << >> /\ cmd = << >> /\ ring = << >>
    /\ atv = [r \in Reports |-> "up"]
    /\ missed = FALSE /\ refused = {}
    /\ btEvents = 0 /\ troubles = 0

----------------------------------------------------------------------------
\* cmd_uart_send_str: what does not fit pushes out the oldest bytes.

Fitting(s) == SubSeq(s, 1 + (IF Len(s) > RingMax THEN Len(s) - RingMax ELSE 0), Len(s))

Send(texts) ==
    IF talks
    THEN /\ ring' = Fitting(ring \o texts)
         /\ missed' = (missed \/ Len(ring \o texts) > RingMax)
    ELSE UNCHANGED <<ring, missed>>

\* Each text with its newline.
Lines(said) == [i \in 1..2 * Len(said) |-> IF i % 2 = 1 THEN said[(i + 1) \div 2] ELSE NewLine]

\* Lines of a Bluetooth callback.  They are lost on the host if the command
\* thread has written a line but not yet its newline.
Announce(said) ==
    IF talks
    THEN /\ ring' = Fitting(ring \o Lines(said))
         /\ missed' = (missed \/ Len(ring \o Lines(said)) > RingMax
                              \/ (said # << >> /\ cmd = <<NewLine>>))
    ELSE UNCHANGED <<ring, missed>>

Conn(on) == [line |-> "CONN", connected |-> on, ready |-> FALSE]
Ready(on) == [line |-> "READY", connected |-> FALSE, ready |-> on]

\* update_link_ready, after the lines the callback has already sent.
UpdateLinkReady(before) ==
    /\ linkReady' = CanCarryKeys'
    /\ Announce(before \o IF linkReady' # linkReady THEN <<Ready(linkReady')>> ELSE << >>)

----------------------------------------------------------------------------
\* Bluetooth callbacks.

BtEvent ==
    /\ present
    /\ btEvents < MaxBtEvents
    /\ btEvents' = btEvents + 1
    /\ UNCHANGED <<present, talks, rx, cmd, refused, troubles>>

Connected_Faulty ==
    /\ BtEvent
    /\ ~conn
    /\ conn' = TRUE
    /\ UNCHANGED <<secure, notify, suspended, atv>>
    /\ UpdateLinkReady(<< >>)

Connected ==
    /\ BtEvent
    /\ ~conn
    /\ conn' = TRUE /\ secure' = FALSE /\ notify' = {} /\ suspended' = FALSE
    /\ UNCHANGED atv
    /\ UpdateLinkReady(<<Conn(TRUE)>>)

\* The Apple TV takes a keyboard that is gone for one with no key down.
Disconnected ==
    /\ BtEvent
    /\ conn
    /\ conn' = FALSE /\ secure' = FALSE /\ notify' = {} /\ suspended' = FALSE
    /\ atv' = [r \in Reports |-> "up"]
    /\ UpdateLinkReady(<<Conn(FALSE)>>)

SecurityChanged ==
    /\ BtEvent
    /\ conn /\ ~secure
    /\ secure' = TRUE
    /\ UNCHANGED <<conn, notify, suspended, atv>>
    /\ UpdateLinkReady(<< >>)

CccChanged_Faulty(r) ==
    /\ BtEvent
    /\ conn
    /\ notify' = IF r \in notify THEN notify \ {r} ELSE notify \cup {r}
    /\ UNCHANGED <<conn, secure, suspended, atv, linkReady, ring, missed>>

\* kb_ccc_changed, cc_ccc_changed
CccChanged(r) ==
    /\ BtEvent
    /\ conn
    /\ notify' = IF r \in notify THEN notify \ {r} ELSE notify \cup {r}
    /\ UNCHANGED <<conn, secure, suspended, atv>>
    /\ UpdateLinkReady(<< >>)

\* write_ctrl_point
CtrlPoint ==
    /\ BtEvent
    /\ conn
    /\ suspended' = ~suspended
    /\ UNCHANGED <<conn, secure, notify, atv>>
    /\ UpdateLinkReady(<< >>)

----------------------------------------------------------------------------
\* The command thread.

\* send_keyboard_report, send_consumer_report.  Suspension does not stop a frame.
CanNotify(r) == conn /\ secure /\ r \in notify

\* A frame the link cannot take is dropped, and so is one for which the stack
\* has no buffer left: -EBUSY, -EAGAIN and -ENOMEM are passed over in silence.
Report(f) ==
    \/ /\ CanNotify(f[1])
       /\ atv' = [atv EXCEPT ![f[1]] = f[2]]
       /\ refused' = refused \ {f[1]}
    \/ /\ UNCHANGED atv
       /\ refused' = IF f[2] = "up" THEN refused \cup {f[1]} ELSE refused

\* The reply to a request, put together before any of it is written.
Reply(request) ==
    CASE request = <<"PING">> -> [line |-> "PONG", connected |-> FALSE, ready |-> FALSE]
      [] request = <<"STATUS">> -> [line |-> "STATUS", connected |-> conn, ready |-> linkReady]

CommandTakes ==
    /\ present /\ talks
    /\ cmd = << >> /\ rx # << >> /\ Head(rx) # Scrap
    /\ rx' = Tail(rx)
    /\ IF IsFrame(Head(rx))
       THEN Report(Head(rx)) /\ UNCHANGED cmd
       ELSE cmd' = <<Reply(Head(rx)), NewLine>> /\ UNCHANGED <<atv, refused>>
    /\ UNCHANGED <<present, talks, radio, linkReady, ring, missed, btEvents, troubles>>

\* A scrap makes its own whatever follows, until it has its bytes, times out or
\* meets a newline; what is left of the last frame it bit into is a scrap again.
\* It may go out as a report nobody sent.
CommandMisreads(n) ==
    /\ present /\ talks
    /\ cmd = << >> /\ rx # << >> /\ Head(rx) = Scrap
    /\ \/ rx' = SubSeq(rx, n + 1, Len(rx))
       \/ IsFrame(rx[n]) /\ rx' = <<Scrap>> \o SubSeq(rx, n + 1, Len(rx))
    /\ \/ UNCHANGED atv
       \/ \E r \in Reports, e \in Edges : CanNotify(r) /\ atv' = [atv EXCEPT ![r] = e]
    /\ missed' = (missed \/ \E i \in 1..n : rx[i] = <<"STATUS">>)
    /\ UNCHANGED <<present, talks, radio, linkReady, cmd, ring, refused, btEvents, troubles>>

\* A STATUS that tells the truth makes good what went missing before it.
CommandWrites ==
    /\ present
    /\ cmd # << >>
    /\ cmd' = Tail(cmd)
    /\ IF Head(cmd).line = "STATUS"
       THEN /\ ring' = Fitting(Append(ring, Head(cmd)))
            /\ missed' = (Head(cmd).connected # conn \/ Head(cmd).ready # linkReady)
       ELSE Send(<<Head(cmd)>>)
    /\ UNCHANGED <<present, talks, radio, linkReady, rx, atv, refused, btEvents, troubles>>

----------------------------------------------------------------------------
\* Power.

Trouble == troubles < MaxTroubles /\ troubles' = troubles + 1

Unplug ==
    /\ present
    /\ Trouble
    /\ present' = FALSE /\ talks' = FALSE
    /\ conn' = FALSE /\ secure' = FALSE /\ notify' = {} /\ suspended' = FALSE
    /\ linkReady' = FALSE
    /\ rx' = << >> /\ cmd' = << >> /\ ring' = << >>
    /\ atv' = [r \in Reports |-> "up"]
    /\ missed' = FALSE /\ refused' = {}
    /\ UNCHANGED btEvents

Plug ==
    /\ ~present
    /\ present' = TRUE
    /\ UNCHANGED <<talks, radio, linkReady, rx, cmd, ring, atv, missed, refused, btEvents, troubles>>

RadioStep ==
    \/ Connected \/ Disconnected \/ SecurityChanged \/ CtrlPoint
    \/ \E r \in Reports : CccChanged(r)

CommandStep == CommandTakes \/ CommandWrites
=============================================================================
