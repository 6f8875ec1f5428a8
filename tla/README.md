# PiHub in TLA+

PiHub is a Python program on one asyncio event loop. It turns the keys of a
Logitech Unifying remote into actions on a Samsung TV, a loudspeaker and an
Apple TV, which it reaches over Bluetooth through an nRF52840 dongle with its own
firmware. These modules model the parts of it that are hard to get right, TLC
checks them on small instances, and TLAPS proves the most important results for
every instance.

Paths below are relative to `src/`; `runtime.py` without a directory is
`pihub/runtime.py`, `main.c` is `nRF52840-BT5040U/src/main.c`.

## 1. The system

| Component | State it keeps | Operations | Talks to |
|---|---|---|---|
| `runtime.py` RuntimeEngine | mode, last flow, flow lock, `_flow_running`, `_acted`, queue of saves, `/data/mode.json` | start, start-up check, `run_flow`, `set_mode`, `on_device_state_change`, stop | called by Dispatcher, HttpServer, speaker and AirPlay callbacks; runs FlowRunner; sets Dispatcher's bindings |
| `flows.py` FlowRunner | per flow: snapshot, report, background steps | seven flows, each a sequence of steps with timeouts | TV, speaker, BLE link |
| `unifying_reader.py` UnifyingReader | open device, pressed keys, bounded edge queue | device opened, lost, read; edge worker; stop | calls Dispatcher |
| `dispatcher.py` Dispatcher | press times, repeat and hold tasks, active bindings, domain queues | key edge, disconnect, bindings, domain jobs | runtime, BLE link, speaker |
| `ble_dongle.py` BleDongleLink | serial port, transmit queue, line buffer, view of the link | reconnect loop, handshake, writer, reader, key edges, `release_all`, macros | the dongle |
| `main.c` firmware | connection, security, subscriptions, suspend, `link_ready`, two byte rings | Bluetooth callbacks, command thread, reports | the Apple TV, the hub |
| `samsung_tv.py` TvController | cached presence, websocket, `_power_on_active` | SSDP, search, probes, `power_on`, `power_off`, reconcile | the TV |
| `samsung_tv_frame.py` SamsungFrameTv | cached power, token, one lock for every conversation | announcements, reads, verified power orders, input | the TV |
| `samsung_soundbar.py` SamsungSoundbar | Cast connection and its threads, AirPlay reading, derived source | runner, volume, `play_url`, `release_to_tv` | the soundbar; signals the runtime |
| `audiopro_speaker.py` AudioProSpeaker | TCP link, speaker state, pending question | hints, questions, mute, multiroom | the speaker; signals the runtime |
| `apple_tv_airplay.py` sensor | flags, session, debounce task | mDNS changes | signals the runtime |
| `history.py` HistoryStore | events, flow reports, dirty flag | emit, writer thread, close | the disk |
| `settings.py`, `slots.py`, `validation.py`, `config.py` | settings under one lock | load, validate, save | the disk |
| `initial_status.py` | received/failed marks | mark, wait | RuntimeEngine's start-up check |
| `watchdog.py` | beat, stall file | tick, re-arm, report | HistoryStore |
| `http_server.py`, `status.py`, `web/` | none of their own | flow, mode, tap, refresh, settings, pages | everything above |
| `app.py` | list of clean-up hooks | start and stop in order | everything above |

A key travels: reader → edge queue → dispatcher → (BLE link → dongle → Apple TV),
or (domain queue → speaker), or (runtime → flow → all devices). Devices travel the
other way: SSDP, mDNS, TCP lines and Cast callbacks change cached state and may
set off a flow.

### What is hard about it

* **One loop, many awaits.** Each await is a place where another handler runs:
  the start-up check wakes into a running flow, a hold task fires while its key
  is being released, a probe's answer is acted on after newer news.
* **Callers that go away.** A cancelled caller must not cancel the flow it set off.
* **Toggles and edges.** KEY_POWER toggles, a key-down without its key-up sticks,
  a signal that is not an edge starts a flow nobody asked for.
* **Two connections, many threads.** Cast runs a thread per connection and posts to the
  loop; the history is written by a thread and, at the end, by the exiting process.
* **Two processors.** The firmware's Bluetooth callbacks preempt the thread that
  talks to the hub; the hub asks for state once per opening and relies on events.
* **Power.** The mode file is written by a thread while the process may die.
* **Lost news.** UDP announcements, dropped lines, full queues.

`PROJECT.json` lists these as hazards, each at its line.

### What makes each part correct

* RuntimeEngine: one sequence at a time; a failed or refused flow changes nothing; a
  restart comes back in the mode last saved, and never in a mixture of two saves.
* Key path: no key repeats or stays down without a release on its way; tables
  hold exactly the live tasks; the worker never waits for ever.
* BLE link: the hub's view is the dongle's once all is said; a released key comes up
  unless its key-up was lost in a known way; a dongle that is there gets opened.
* TV: KEY_POWER only after a check; power_on leaves nothing behind; a step's
  success is about the TV; the belief follows the announcements.
* Frame TV: the belief follows the announcements, whoever holds the lock meanwhile.
* FlowRunner: a flow that ends well has done what it was for; one that ends, however it
  ends, leaves nothing of the TV or the speaker at work.
* AudioPro speaker, soundbar: what the hub shows is what the device does once all is
  said; a listen signal only for a session that began; `release_to_tv` ends what
  it was called for.
* AirPlay: a watch signal only for a session that stood for the debounce, and one for
  each session that does.
* History: no change is lost between the loop, the writer thread and the exit.

## 2. Modules

| Module | What it is |
|---|---|
| `ModeAuthority` | what RuntimeEngine promises, abstractly: on, mode, last flow, busy, and what a restart may find |
| `Runtime` | RuntimeEngine, the mode file and its writer thread; a flow is one task that succeeds or fails |
| `RuntimeProofs` | its type invariant, its safety properties, its two action properties and the refinement of `ModeAuthority` |
| `KeyPath` | UnifyingReader's queue and worker, an HTTP tap, Dispatcher's repeat and hold tasks, bindings, BLE edges |
| `KeyPathProofs` | the task tables are right and no key is stuck |
| `Dongle` | the firmware: radio callbacks, the command thread, the transmit and the receive ring |
| `BleLink` | BleDongleLink on top of `Dongle`, the two composed over the serial port |
| `BleLinkProofs` | its type invariant and all its safety properties: the queues keep their size, READY is computed, the views agree, released keys come up |
| `TvPower` | TvController, a flow's TV step and the TV |
| `TvPowerProofs` | its type invariant and all its safety properties |
| `FrameTv` | SamsungFrameTv: the lock, its five clients, and the TV |
| `Flow` | FlowRunner's steps, background steps and settling, on top of `FrameTv` |
| `FlowProofs` | its type invariant and all its safety properties: the belief about the TV, success means done, nothing is left at work |
| `Speaker` | AudioProSpeaker: the TCP link, hints and questions, the state they make, the listen signal |
| `SpeakerProofs` | the hub's view of the speaker is right when nothing is on its way, and no right answer sets off a false listen signal |
| `Soundbar` | SamsungSoundbar: Cast connections and threads, the AirPlay record, the listen signal, `play_url` and `release_to_tv` |
| `SoundbarProofs` | its type invariant and all its safety properties: a release ends what it was called for, the hub's view is right, a listen signal is a start |
| `AirplayWatch` | the AirPlay sensor: readings, debounce tasks, stop |
| `HistoryWriter` | HistoryStore: the event loop, the writer thread, close, the file |
| `HistoryAirplayProofs` | of these two: no change is forgotten, the debounce is honoured |
| `MC*` | the instances TLC checks |

Each module's header says what one action stands for. Code between two
suspensions is one action; an await that may suspend is a boundary between two.

### Runtime

`power`, `mode`, `bindings`, `lastFlow`, `trigger`, `acted`, `flowRunning`, `lock`,
`saves`, `disk`, `rememberFailed` are the attributes of the same name (with
underscores) and the dispatcher's active bindings. `caller` and `seq` are the
tasks: `run_sequence` awaits its sequence task behind `asyncio.shield`, and a
cancelled caller shields a second time (`caller = "again"`).

| Action | Code |
|---|---|
| `Start`, `Stop`, `ProcessEnds` | `start`, `stop`, the process dying at any moment, its queue of saves with it |
| `DevicesSettled`, `CorrectStartupMode` | `_correct_startup_mode` up to and after its wait |
| `RunFlow`, `OnDeviceStateChange` | entry of `run_flow` and of a device signal: refused if the lock is held, otherwise the sequence starts |
| `SequenceEnds`, `CallerCancelled`, `FlowReturns` | the flow's task ends; its caller is cancelled; the caller commits the mode or reports the failure and releases the lock |
| `SetMode` | `POST /api/mode` |
| `WriteBegins`, `WriteMode` | the mode-writer thread opens the temporary file; it puts it in place, or the save fails |
| `LoopWrites` | the same by the loop, once `stop` has shut the thread's queue; the loop does nothing else meanwhile (`LoopIsFree`) |

A save opens `mode.json.tmp`, writes it and replaces `mode.json`. `inTmp` is who is in between, `tmp` how
they have the file. In a stop the loop and the thread can be in it at once: opening
empties it under the other (`tmp = "shared"`), whoever is first puts a text, a mixture or nothing in
place (`Mixed`; `_load_remembered` takes what is not JSON for no file), and the other then
goes on writing into a file that is in place already (`Spoils`) and finds none to replace
(`tmp = "taken"`). `RefinesAuthority` says what may come of that: a restart finds a choice
that was made, or, only after such a meeting, nothing. `RestartKeepsMode` is about a process
that is up. What a power cut leaves of a page cache that was never flushed (the code calls no
`fsync`) is not modelled.

Left out: `_error`, `_last_error`, `_last_result`, times of triggers and the history
calls, which only the status page reads; a second cancellation of the same caller,
which neither aiohttp nor the dispatcher gives before the process stops.

### KeyPath

`turn` is the task the loop is running, `at` where each of the three handlers
(edge worker, tap, loss of the device) stands, `task` the repeat and hold tasks
with their states, `repeatOf` and `holdOf` the dispatcher's tables. `HandlerStep`
is a handler from one suspension to the next; it suspends only where it awaits a
task it has cancelled. `TaskStep` is a repeat tick, a hold that comes due, or the end of a
cancelled task. `SetModeBindings` is the runtime's call, in any state.

`escaped` is a history variable that names the three ways a release is lost that
the design accepts: the edge queue was full, the press was dispatched after the
device was lost, the mode took the key's BLE binding away while it was down. `NoStuckKey`
says there is no fourth. `stop = "wedged"` is the end in which the edge worker has
swallowed its cancellation while the queue was too full for the None.

Left out: scancodes (a key is its logical name), finding the device by path,
the speaker's domain queue, the time a repeat starts with.

### Dongle and BleLink

`Dongle` has the state `compute_link_ready` reads, and the two queues of the
command thread. A reply is put together in one step (`CommandTakes`) and written
in two more (`CommandWrites`, the text and its newline), because a
Bluetooth callback can come in between; each callback is one step. `BleLink`
extends it with the hub: `connecting` is where `_reconnect_loop` stands, `txq` the
queue, `partial` the bytes of a line without its newline, `view` what `DongleState`
says. `Restart` is the hub process ending and starting while the dongle goes on.

`rx` is the dongle's receive ring with what is on its way into it. An item it has no room for is
dropped, or only its end (`Spilt`). What is left then, like a short write of the hub (`WriterFails`) or
what a reopening's `reset_output_buffer` spared (`Flushed`), is a `Scrap`: the parser fills it up with the
bytes that follow, so that `CommandMisreads` swallows the next items and may send a report
nobody asked for.

History variables: `missed` (the host could not be told: a STATUS out of date when
written or its request lost, lines run together, a full ring), `refused` (a key-up that was
not notified: the link does not carry it, or `bt_gatt_notify` has no buffer and `main.c:650` passes over
it), `escaped` (a key-up lost before the dongle read it). The comment at `KeysComeUp` lists the ways;
the property says that the modelled parts have no other, and a later key-up that arrives makes each of them good.

Left out: macros, the conversion of key codes, LEDs, bonding, advertising,
connection parameters, INFO, and the lines about them; one kind of report is
instantiated, since keyboard and consumer reports differ only in their subscription.
`RingMax` counts texts and newlines where the code counts 512 bytes; `TxMax`
stands for the queue's 512, `RxMax` counts items where the receive ring counts 256 bytes.

### TvPower

`tv` is the TV: on, off, or lingering (just switched off, its network still up for
some seconds, deaf to wake packets). `air` holds its announcements. `probe` has per asker the
answer that was given and not yet acted on. `step` follows a flow: refresh,
snapshot (`Decide`), then `power_on` (`waiting`, `connect`) or `power_off` (`recheck`,
`dial`, `offwait`).

| Action | Code |
|---|---|
| `NotifySsdp`, `SearchReplied`, `SearchSilent`, `SearchProbed`, `Refresh` | `notify_ssdp`; `reconcile_presence` at start and by HTTP |
| `WarmConnects`, `WsDrops` | the websocket's background connects, the end of `_rx_loop` |
| `FlowStarts`, `FlowRefreshed`, `TimedOut` | `_refresh_tv_presence`, `_snapshot`, the step's 8 s |
| `PowerOn`, `WolSent`, `KeyWorker`, `CheckAsked`, `CheckProbed`, `PowerOnSeen`, `PowerOnConnects` | `power_on`, its three workers and its two `finally` blocks |
| `PowerOff`, `Rechecked`, `Dialled`, `OffSeen`, `OffProbed` | `power_off` from one await to the next |
| `Switched`, `LingerEnds`, `NoteLost` | the TV, the person with the TV's own remote, the network |
| `ProbeAnswered`, `ProbeFails` | `presence_probe_up`: what the TV answers, and the time-out, exception or other status that makes a "down" of a TV that is on |

`since`, `vouched`, `mistoggled`, `doubtful`, `misled` are history variables. A "down" is doubtful if an
announcement was acted on since it was given, or if the probe failed; the hub is misled once such
an answer stands over what was announced. `PresenceAgrees` exempts that, and `OkIsTrue` lets a success
of switching off rest on a probe that failed (`"unanswered"`): the code tells neither from a TV that is down.

Left out: the single-flight branch of `power_on` (only flows call it, and Runtime
proves there is one at a time); two reconciles at once; the rest of a search after its
first reply; the token file and its check; `stop`; the 3.5 s limit of
the refresh, longer than the probe's own worst case; the 25 s and 60 s limits,
longer than the step's 8 s.

### FrameTv and Flow

`queue` is `_lock` with those who wait for it, `at` the request a client has on its
way and `got` the answer that is back and not yet handled. The five clients are the
read an announcement sets off, a flow's refresh, power and input steps, and
`POST /api/refresh/tv`. `obey` is a power order the TV has acknowledged and may yet
not follow. `Flow` extends `FrameTv`: `Steps` are the flows of `flows.py` as a table of
steps with their conditions, `job` what became of each step, `stage` where the flow
stands. Steps of the Apple TV and the speaker only end well, fail or hang; the steps
of the TV are `FrameTv`'s clients, cancelled by `StepTimeout` and `SettleTimeout`.

A step that fails does not stop the flow, but for one (`FlowDies`). `FlowContext.step` reports a
`TimeoutError` with the step's own `timeout_s` (`flows.py:140`), and formatting `None` raises. The only
step without a time-out that lets one through is the speaker's leaving of a group
(`audiopro_speaker.py:1451`, `1476`; its other requests turn it into a `RuntimeError`). The flow ends
there, `settle_background` is skipped, and `left` holds the background steps that work on until they end
(`StrayEnds`). In the flows as they are, that step comes before every background step of the TV or the speaker, and
the TV's own steps before it are waited for, so `NothingLeftRunning` can say that nothing but the keys of the Apple TV is ever left.

`missed` is a history variable: the last announcement was lost, its read failed, or it
came between the answer to an earlier one and its handling. In that last case
`notify_ssdp` finds a read task at work and starts none, and nothing asks
again: the docstring at `samsung_tv_frame.py:269`, which says that a change made with the
TV's own remote is picked up, does not hold there.

Left out: the token and its dialogs, other inputs, the pauses between requests (part of
the way of the next one), the flows of other rooms, reports.

### Speaker

`real` is what the speaker does, `shown` what its status says, which follows a moment later.
`wire` are its lines not yet read, `asked` the questions it has not answered. `task` is
`_pending_pinfget_task`, `owed` whether a hint came after the question was stamped,
`link` where `_runner` stands. The one assumption on time is the code's own: a question
that waited its whole delay is asked when the status already shows every change whose
hint was heard (`PINFGET_HINT_DELAY_S`).

`early` and `unheard` are history variables: the last answer was given before the status
was right (a question of the handshake, or one that was hurried), or a command
failed at the hub although the speaker obeyed. `MirrorAgrees` and `TruthArrives` exempt these two.
`NoFalseAlarm` is about signals set off by answers; one set off by a bare source message may be
wrong for a moment, by design.

Left out: volume and mute, titles and other metadata, presets, `idle` as a source, discovery
of the IP address, `stop`.

### Soundbar

`phase` is how far each of the two possible connections is, `cast` the one the hub uses,
`posted` what threads have handed to the loop and it has not handled. A posted status
carries nothing: its handler reads what the current connection knows (`AppOf`). `calls` are the
commands at `_send_lock`. A connection may be lost silently (`lost`): until the library is
back (`LinkBack`) it posts nothing, its commands fail, and what it holds of the app is what was so before.
The docstring of `_runner` has the watchdog "reconnect if pychromecast silently drops"; but
`_read_cast_status` only reads the library's cache, which raises nothing, so `RunnerReads` succeeds and keeps
the connection.

History variables: `staleApp`, `wiped`, `deaf`, `missedAir` name the ways in which the model's hub
may be left with an older view: the watchdog's reading is put over newer news, a media
status came before its listener, the bar changed while the connection was silently lost, an AirPlay
record was not resolved. `MirrorAgrees` exempts these. `ReleaseEnds` exempts a release that goes by
a lost connection which holds that no app is open.

`SignalsAreStarts` compares listen signals with the sessions that began (`begun`) and names two
cases in which a session may be signalled again. One is `wiped`. The other, `Overtaken`, came
out of the attempt to prove the property without it: a receiver status, or the watchdog's reading,
shows that the app is gone, the hub forgets the player, and only then handles a media status that
was posted before. With two connections that each say it once, the second "playing" of a session
that is over finds the player forgotten and the app open again. That takes more events than the
two of the run, which passed without the exception as well.

Left out: volume, mute and transport keys, content types, the restreamer, `stop`; and that one of
two connections hears of a change later than the other.

### AirplayWatch

`record` is what the Apple TV says on mDNS; a resolve is answered with the record as it
stands then, so that resolves cannot bring older flags after newer ones.
`asleep` are the debounce tasks that sleep, `calling` those in their callback, `pending` is
`_pending_watch_task`. Time is counted in ticks, and a timer may fire late. A
task cancelled in its callback may go on, since `run_sequence` shields its flow.

The model shows what no text of the code denies: a resolve that is answered while `stop`
waits for the pending task schedules another, whose reference `stop` then drops; it sleeps
on and may still signal. An endless row of active updates would put a signal
off for ever; the comment at `apple_tv_airplay.py:321` accepts that, the bound on
changes leaves it out.

### HistoryWriter

`mem` is a count of changes and the state of the newest flow report, `disk` what `load`
would make of the file. The thread's place `w` and close's place `c` go from the copy under the
lock over the JSON to the replacing of the file; a report is made into JSON after the lock was
given back, as it is by then (`AsItIsNow`). `overlap` is a history variable: the thread was
still at the file when close stopped waiting for it after a second. Then both write the same
temporary file, anything may be left of it, and nothing is promised.

Left out: the lengths of the two lists, texts, times, reading for the page.

## 3. Runs

Runs that pass:

| Run | Instance | What it shows |
|---|---|---|
| `runtime` | 2 callers, 2 waiting saves, a disk that may refuse, no bindings for `listen`; about 461,000 states | the engine's safety, that a flow ends, that the mode reaches the disk, and the refinement of `ModeAuthority` |
| `keypath` | three kinds of key, queue of 2, 3 tasks, 2 presses, a tap, a loss; about 918,000 states | no stuck key beyond the three ways, live tables, edges are served, the stop ends |
| `blelink` | one report kind, a radio event, 2 key edges, one trouble, a receive ring of 3; about 582,000 states | views agree, keys come up unless lost in a way named, the link recovers |
| `tvpower` | 2 flows, one use of the TV's remote, one lost announcement, one failing probe, one refresh; about 1.7 million states | see section 1, and that the TV comes on while power_on waits |
| `speaker` | any three events; about 2.5 million states | the hub's view of the AudioPro speaker, its listen signal, and that the truth arrives |
| `soundbar` | any two events, a silent loss among them, from every state of the bar; about 4.4 million states | the hub's view of the soundbar, its listen signal, and that a release ends the session |
| `flow` | any three events, two attempts; about 4.4 million states | the belief about a Frame TV, and what the end of a flow means |
| `airplay` | six mDNS changes, a debounce of 2 ticks, 3 debounce tasks; about 138,000 states | the debounce is honoured and a session is signalled |
| `history` | five changes, two failures; about 210,000 states | no change is forgotten |

Runs in which the code contradicts a claim of its comments or docs (details under
`findings` in `PROJECT.json`):

| Run | Claim | What happens |
|---|---|---|
| `last_save_lands` | `runtime.py`: saves land in order, the last one lands | during the stop the loop writes a save, then the thread an older one |
| `hold_released_sends_nothing` | a key released before its hold time sends nothing | a hold task that ends removes the table entry of a newer one of the same key, whose release then finds nothing to cancel |
| `alive_corrects` | `samsung_tv.py`: an alive corrects a wrong off | an older probe's "down" is committed over it |

Other sentences of the repository that the models contradict, without a run of their own:

* README:393, `last_flow` changes only with a completed flow: `CorrectStartupMode` sets it.
* README:223, a tap presses and releases: `KeyPath`'s tap looks its release up in the
  bindings active by then, after a mode change in others (`escaped`, the third way).
* `http_server.py:296`, a normal shutdown releases held keys: no stop of `KeyPath` does.
* `main.c:1732`, the hub never has to ask: a callback between the making and the writing
  of a STATUS is the first case of `missed` in `Dongle`.
* `samsung_tv_frame.py:269`: see FrameTv above.
* `flows.py:13`, a failing step never stops the flow: `FlowDies`, see Flow above.
* `samsung_soundbar.py:457`, the watchdog reconnects if pychromecast silently drops: see Soundbar above.

### Why the bounds are enough

* Two callers: every property of Runtime is about one or two of them at a time; a
  third would find the lock as the second does. Two saves: one that overtakes
  one. A mode without bindings takes every branch on a missing mode.
* A queue of 2 edges fills with one press and its release behind an edge at work; 3
  tasks let a cancelled, a live and a new one of the same key coexist.
* One trouble and one radio event in each order with two key edges reach every pair
  of causes; deeper combinations repeat them from states already reached. A ring
  of 6 holds two replies with their newlines and an event, so it can overflow; a queue
  of 3 is the handshake and a release; a receive ring of 3 fills with as many items, and loses the
  next or the end of it.
* Two flows: the second starts from anything the first left. One use of the TV's
  remote can fall between any two steps, one lost announcement is any of them, one failing probe any
  of the flow's, the worker's or the refresh's. `MCTvPower_AliveCorrects.cfg` has no failing probe: what it
  finds needs none.

* Three events with a speaker reach a hint that crosses an answer that crosses a
  command; two with the soundbar are enough for both connections at once, since they
  start from every state of the bar and the connections are made in any case.
* Three events and two attempts let a flow meet a change by hand, an order the TV does
  not obey, and a lost announcement, in any order.
* Six mDNS changes hold two sessions with an update in each; 3 debounce tasks are one in its
  callback, one pending and one lost. Five changes to the history span a flow's begin, its end
  and three changes between or after them; two troubles are a failed write and a crash.

Deadlock is checked in `runtime`. The other runs say `CHECK_DEADLOCK FALSE`,
because there the system stops when the bounds on keys, events or flows are used up.

### Fairness

The system's own steps are weakly fair: tasks the loop can run, threads, timers
that expire, callbacks of data that has arrived. A sequence ends because every step
of a flow is bounded: by its own timeout, or, a speaker's or an Apple TV's in the foreground, by those of the
HTTP requests, sends and connects it makes; in the background by the settling. Never fair are people, the Apple TV and the TV's
decisions, losses, cancellations, restarts, and unplugging. In TvPower
`WolSent` is fair because the worker repeats every half second and a sleeping TV
wakes on one packet (`samsung_tv.py:702`), and `LingerEnds` because a linger lasts
some 20 s; `TimedOut` is not fair, so `TvComesOn` says the TV is woken unless the step
ends first. The wake key is not fair: it may not work. In Speaker the speaker shows what it
does and answers; in AirplayWatch time passes and a due task runs. Flow, Soundbar and HistoryWriter
have no fairness: their properties are of safety. That a flow ends is checked in Runtime,
where a flow is one task.

## 4. Proofs

All theorems hold for every value of the constants that satisfies the named
assumptions (bounds are naturals, `Free` is no caller, the keymap has some mode).

**RuntimeProofs.** `IInv` is the conjunction of the type invariant and

* `LockHeldBySequence`: the lock, `_flow_running`, the waiting caller and its task go together,
  and nobody else has any of them;
* `DownIsClean`: a process that is not up has no tasks and no saves;
* `TmpInHand`: only at a stop do the loop and the thread meet in the temporary file, and what the
  thread is writing is still the head of its queue;
* `ActedIsTriggered`: whoever acted left a trigger, so the start-up check can tell;
* `SavesFollowEngine`: what is in the queue of saves, read to its end, is the current mode.

None of the safety properties is inductive alone: `OneSequence` needs to know who may
return, `RestartKeepsMode` what the queue holds before it is empty.
`Invariance` proves `IInv`; `TypeCorrect`, `AtMostOneSequence`, `RestartComesBack` follow; `FlowOwnsMode` and `IntentIsKept` are action properties
from it; `Refinement` maps each action to a step of `ModeAuthority` or a stutter: a save that lands, fails or is
taken away to a `Forget`, the meeting of two writers to a `Meet`.

**BleLinkProofs.** Four theorems, and `Invariant`, the conjunction `IInv` in the form TLC checks it.

* `ReadyIsComputed`: `link_ready` is what `compute_link_ready` would return now, through every
  callback and reset. It is inductive as it stands.
* `TypeCorrect`, from `OnceAsked` (at most one PING and one STATUS wait in the queue, and none once
  settling: this is why a release of everything fits without pushing a request out),
  `PortOK` (a closed port has an empty queue, an answering dongle an open port) and `LinesEnd` (whoever
  else writes, the ring ends with a newline unless the command thread is between a text and its own).
* `ViewAgrees`: once the STATUS of this opening was told and nothing was missed (`Informed`),
  `LinesWhole` says that from the last STATUS on each line of the ring is one text and its newline,
  `ConnFollows` and `ReadyFollows` that the last of them to tell of the connection, of readiness,
  tells what is so; with none left, what the hub heard is. A hub that has read everything is right.
  It rests on `LinkReadyIsComputed`, since a CONN 0 also takes readiness away.
* `KeysAreReleased`, from `KeysFollow`: on its way each key-down has a key-up of the same report
  behind it, also in a queue that `release_all` has drained and filled again, and a key that is down
  has one under way. It speaks of a refused report too, and so says more than `KeysComeUp`. That a
  lost item takes nothing else with it needs the ways it is lost to be exact: what is cut off a
  ring, a queue or a scrap is a prefix or a suffix, and the key-ups in it are among the escaped.

`DongleBounds` asks for a ring of two items: in a ring of one the newline would push its own text
out, and `HostAgrees` would be false. The code's ring has 512 bytes and no line of this size.

**TvPowerProofs.** The type invariant is proved in five parts, one kind of variable at
a time. Then:

* `BeliefIsTruth` needs `NewsAgrees` (the last announcement on its way tells the TV's
  state) and `AnswersAgree` (with none on its way, answers that are not doubtful, neither overtaken
  nor of a failed probe, do too);
* `NeverTogglesUnchecked` needs that power_off knows the TV was on from the answer
  to its check until the key goes out;
* `PowerOnLeavesNothing` is inductive with the types;
* `SuccessIsTrue` needs `Evidence`: during a flow everything the hub can still hear,
  and everything it believes, is among what the flow knows (`since`), with `StepAims`
  tying the step to what the flow wants; a failed probe leaves its mark there.

Their conjunction is `IInv`, proved once.

**HistoryAirplayProofs.** For the history, `NeverForgotten`: what is recorded is on the disk, in a writer's
hands, or dirty with a thread that will look. It needs `DirtyIsSeen` (dirty only with a
flush set, asked for, or a thread past its wait: the thread clears the event before it
looks), `Alone` (past its join close is alone with the file, unless it overran) and
`CopyIsFresh` (a writer's copy is out of date only when dirty says so, the report's end
included).

For the AirPlay sensor, `SignalsAreDebounced`, from `Cancellable` (until stop is through, the only task
that sleeps is the pending one, and none does outside a session) and `SleptIsStood` (a
task has not slept longer than the session has stood).

**FlowProofs.** Of `Flow` on top of `FrameTv`:

* `TypeCorrect`;
* `BeliefIsTruth`, from `OneEach` (nobody waits twice for the lock), `AnswersFit` (a client's answer is one
  to the request it has on its way) and `NewsIsRead`: with no announcement under way and none
  missed, belief and unhandled answers are right, or the announcement's own read will set them right;
* `SuccessMeansDone`, from `TriesLeft`, `EndsAreKnown` (a client of the flow that has let go of the TV has
  left its result), `ReadIsFound` (what such a client reads was so at some moment of the flow, and so
  is, after the refresh, what the hub believes) and `StepsBring` (each step of the TV the flow is past
  has brought the TV where it should, or the flow has failed);
* `LeavesNothing`, from `JobsInPlace` (a step at work is behind the flow in the
  background or is the one the flow waits for; when settling may end, all of them have ended) and
  `TalksHaveJobs` (a client of the TV's lock other than the page and the announcements belongs to a
  step at work or to the refresh). Neither holds without the other: a cancelled step lets go of the
  lock only because its client ends with it. For a flow that dies, `TimesOutInPlace` says that the step
  it dies of is one that leaves a group and the one waited for; what the flow tables then allow behind it
  in the background is the keys alone (`DyingLeavesKeys`), and no step of the TV talks (`DyingTalksNot`).

**SoundbarProofs.** Of `Soundbar`, besides `TypeCorrect`:

* `ReleasesEnd`, from `CallsOK` and `OnlyLaterSessions`: a command that still waits knows a session no newer
  than the bar's, one that knows the present session without AirPlay finds none on the bar, and a
  takeover in progress plays only what began after it was asked for;
* `MirrorIsTrue`: of each kind of thing the threads post, the newest not yet handled is right, and with none
  left what the hub shows is. `AirComes` says it of the AirPlay record, `AppComes` of the app,
  `MediaIsTrue` and `PlayerIsTold` of the player, `ForgotIsTold` that a status which will make the hub
  forget the player has a media status behind it, `AskedOrDeaf` and `Started` that a connection has
  been asked, and a runner at rest has read;
* `SignalsAreTrue`, for `SignalsAreStarts`, from `Dated`: whatever the threads have posted can be dated
  with the number of sessions that had begun, so that a session has begun between a post that denies
  one and a later post, or a bar, that has one (`StartsBetween`, `StartsSince`), and between what the
  hub holds and what it has not handled yet (`StartsUnheard`). The head's date is then a session to
  spend on the signal. The two ways to play share the dates, because a signal of one spends a
  session of both. Before the first readings are in, what the hub will hold rests on the receiver
  status still posted (`StartsAfterStatus`). The dates are said to exist and no queue is counted.

**KeyPathProofs.** `TypesHold` and `TablesStayLive`, from `EntriesMatch` (an entry is for a task of
its own key) and `HandlersHaveKeys`. `NoKeyIsStuck` needs to know who will release a key while
two handlers and the loss of the device are at work on it: `PressesOwned` (a press in the queue
or in the worker's hands has its release behind it, the reader still has its key down, or the
loss is yet to be handled), `RepeatsOwned` (a repeat is owed by those or by a handler that has not
come to `_stop_repeat`: one that has passed it does not count), `HeldBound` (a key held without its
BLE binding is among the escaped) and `LossInPlace`. Their conjunction is `KInv`.

**SpeakerProofs.** `TypesHold` and `MirrorIsRight`, from: on a connection that owes nothing (no news
unread, no question waiting, written but overtaken by a hint, or unanswered), the last message
on the wire, or with none there the state itself, is what the speaker is doing
(`LastHeardIsReal`). It needs `OneSends`: a refresh clears what is owed when its send returns,
which would be wrong while the question task is in its own. `SignalsAreTrue`, for `NoFalseAlarm`, from
`Dated` as above, with what the hub knows as the first of the wire; from `StatusFits` (a status plays
only with a source that can) and an empty wire when the link is down.

Only model-checked: every liveness property, since fairness and ENABLED are out of the prover's
reach. Every safety property and every action property of a passing run is proved.

## 5. Not modelled

`PROJECT.json` gives each component's reason. In short: the status page, the web pages,
configuration, validation, key tables, firmware build files and the container hold no
behaviour of the kind checked here; the settings are one file under one lock; the watchdog is
about measured time only. Of the modelled components the parts left out are named in section 2:
volume and mute of both loudspeakers and the dispatcher's domain queues are the largest.

## 6. Plan

Done: `Runtime` with `ModeAuthority`, `KeyPath`, `Dongle` and `BleLink`, `TvPower`, `Speaker`,
`Soundbar`, `FrameTv` and `Flow`, `AirplayWatch`, `HistoryWriter`.

What is left, in order of importance:

1. Volume and mute: soft mute on HDMI, steps from a status that is out of date, the
   dispatcher's domain queue that drops the newest action.
2. `SettingsStore`: what a failed write leaves in memory and on the disk.
