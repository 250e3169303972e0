# BlueCross in TLA+

BlueCross shares one keyboard, mouse and clipboard between Linux machines. One
machine, the *server*, has the devices; every other machine runs a *client* that
injects what the server forwards. Moving the mouse over an edge of the server's
screen switches control to the client on that side; pushing against the opposite
edge on the client for 300 ms hands control back.

This directory holds the models of that program, their TLC configurations, and
proofs about them. Paths such as `server.rs` are relative to `src/src/`.

    tlc -workers 2 -config ServerOne.cfg MCServer      # any run of the table below
    tlapm ServerProofs.tla                             # any of the *Proofs modules

## Inventory

| Component | State it keeps | Operations | What makes it correct |
|---|---|---|---|
| Server main loop, `server.rs` `Server`, `run_async` | `clients`, `active_client`, `grabbed`, `clipboard_paused`, cursor, pending motion | `handle_input`, `forward_to_active`, `handle_client_message`, `handle_client_disconnect`, `broadcast_clipboard`, NewClient, shutdown | The four "who is in control" variables agree on every error path; nothing of one session reaches the next; input is not reordered |
| Connection tasks, `server.rs` `handle_new_connection`, `spawn_client_writer` | stage of the handshake, the client's queue (1024), reader and writer task | Noise and application handshake with two timeouts of 10 s, register, write, read, report the end | A dead connection does not stay registered; a live one is not removed; nobody waits for ever |
| Client main loop, `client.rs` | `active`, cursor, `switch_time`, push timer, channel of messages (4096) | handshake, `apply_message`, batch of motion, `check_exit_edge`, heartbeat, clipboard | Input is injected only while in control and in the user's order; control is handed back once |
| Clipboard manager, `clipboard.rs` | `last_content`, a watcher process, what it printed, the line that is being read | `set`, `monitor`, `take_if_changed`, polling | The echo of a remote text comes to rest and replaces nothing; local texts reach everybody; the record is not stale |
| Framing, `protocol.rs` | a reassembly buffer | `encode`, `decode`, `send`, `receive`, `receive_all_buffered` | Messages arrive whole, in order and without waiting for later traffic |
| Noise channel, `secure.rs` | two nonce counters, a `BufWriter` | handshakes, `read_chunk`, `write_all`, `flush` | Chunks arrive in order; what was flushed arrives; a failure ends the connection |
| Capture, `input_capture.rs` | one task and descriptor per device, a channel (2048) | `start_capture`, `read_device_events`, grab, ungrab | Exactly one side gets the input, in order; a grabbed device is read |
| Injection, `input_inject.rs` | two virtual devices, the keys they hold | `inject_*`, `close` | No key is left held |
| Daemon, `daemon.rs` | a pid file per component | `read_pid`, `write_pid_file`, `stop_daemon`, `cleanup_pid`, `ctl` | The file names the process that runs; a stop leaves none; a start ends with one |
| Configuration, screen detection, command line | read once | parsing | - |

How they interact: device tasks, reader tasks, writer tasks, the clipboard monitor
and the listener's connection tasks all post events to one bounded channel (4096)
that the server's main loop drains; the main loop answers by `try_send` into one
bounded queue per client, which a writer task drains into the socket. On the
client a reader task fills a bounded channel that the main loop drains in batches.
Control is *not* a handshake: the server considers the client active from the
moment it queues `SwitchToClient` until it handles `SwitchToServer`, the client
from the moment it applies the one until it sends the other.

What is hard: the two ends change their mind at different times; a queue that is
full drops messages silently; the end of a connection is reported twice, by name,
through a channel in which other events are queued; connections of one name may
overlap (a half-open connection and the restarted client); every failure must
release the devices, or the user is locked out of his own desktop. Every text a
machine sets on its clipboard comes back from its own watcher, in a stream of prints that
does not show where a text ends. The pid file is read,
probed, removed and written in separate steps by processes that do not lock it. Bytes
stay in buffers of three layers. The full list, with lines, is `hazards` in
`PROJECT.json`.

## Modules

| Module | Models | Uses |
|---|---|---|
| `Wire` | one TCP connection per member of `Conns`: two FIFO streams, closed or lost at any time | |
| `Geometry` | `check_edge`, `center_cursor`, `check_exit_edge` as pure operators | |
| `Server` | the server's main loop and all its tasks; the peers are arbitrary | `Wire`, `Geometry` |
| `Control` | abstract specification: who holds the keyboard | |
| `ServerProperties` | what the server promises whatever its peers do; `Control` as a refinement target | `Server`, `Control` |
| `Client` | the client process, one per connection | `Wire`, `Geometry` |
| `Session` | server, clients, network and user together | `Server`, `Client` |
| `SessionProperties` | what makes both ends correct together | `Session`, `ServerProperties` |
| `Clipboard` | the clipboards of all machines: monitor tasks, `set`, the server's relay | |
| `Daemon` | one component's pid file, its processes and the `ctl` commands | |
| `Capture` | devices, grabs, reader tasks, the two channels to the main loop | |
| `Channel` | abstract specification: a FIFO channel of whole messages | |
| `Framing` | one direction of a connection, byte by byte | `Channel` |
| `MCServer`, `MCSession`, `MCClipboard`, `MCDaemon`, `MCCapture` | instances for TLC | |
| `ServerProofs`, `ControlProofs` | proofs | `ServerProperties` |
| `SessionProofs`, `TokenProofs` | proofs | `SessionProperties`, `ControlProofs` |
| `ClipboardProofs`, `DaemonProofs`, `CaptureProofs`, `FramingProofs` | proofs | the module each is named for |

`Server`, `Client` and `Session` are one model in layers. The other four are models
of one component each, with as much of their neighbours as decides what they do; each
replaces an assumption of the first: `Framing` shows that the streams of `Wire` are
what `protocol.rs` and `secure.rs` provide, `Capture` that inputs come to the server in
the user's order and belong to one side, `Daemon` that at most one client process of
a name runs (when nobody interferes), and `Clipboard` refines the manager, which is
one step of `Server` and `Client`.

### Correspondence with the code

*Events and atomicity.* One action is one handler of the main loop: `Server` has no
await points inside handlers, except `clipboard.set`, during which nothing else
uses the loop's state. The one place where another task can come in between is
`forward_to_active`, which queues two messages: it is two actions
(`FlushMotionFirst`, then `ForwardRest`, with the second message in `rest`), and no
other handler starts in between. Tasks take one message per action. `Post` waits for
room, as `Sender::send().await` does; `SendTo` drops on a full queue and
`Reachable` says what `send_to` returns.

*The end of a writer* is two actions: it leaves its loop (`WriterFails`,
`WriterStops`), and it posts its report, upon which its receiver is dropped
(`WriterReports`). In between `try_send` still succeeds and the messages are lost.
`TxAlive` says whether somebody still holds a sender: when a connection is replaced
in the table the writer drains its queue and stops.

*Captured input* shares the event channel in the code. Here an input may be handled
at any moment, because inputs are arbitrary: its place in the channel changes
nothing. The other events go through `events`, in order.

*Time.* The 2 ms between motion flushes is a choice between `MoveAccumulates` and
`MoveFlushes`; the grace period and the push timer of the client may ripen at any
moment (`GraceEnds`, `PushRipens`); timeouts of the handshake may strike at any
moment (`HandshakeFails`).

*The client* is one run of the process: `Exit` closes the socket and releases what
the virtual devices hold. A client restarted by systemd is another connection with
the same `Owner`; `Session` starts it only when the earlier process has ended (its
pid file). `apply_message` is one action per kind of message; the batch is
`in_batch` and `total`, and it ends when the channel is empty.

*Clipboard.* A text is a sequence of newlines and of fragments of lines, so that what
the reader does to it can be seen: `Trim` is `trim_end_matches('\n')`. `wl-paste --watch
cat` and `wl-copy` are external. The first prints the clipboard as it is, with no
newline after it, when it starts and at every change (`StartWatcher`, `Becomes`), and
may exit; the second may be missing. `pipe` is what has been printed and not read, one
stream for all prints. `ReadLine` is one more piece of what `read_line` waits for:
`part` is the line it has begun (`line`, or `more`), which goes to `reading` (`content`)
with its newline. A line that has no newline yet stays in `part` and goes on with the
next print, unless the watcher exits (`ReadUnended`). `ContentComplete` is the end of
the 20 ms, which may come between any two pieces, because nothing bounds how long the
watcher takes for them: the cancelled `read_line` drops the line it had begun, and the
trimmed content is compared and recorded in one critical section of the mutex and sent.
That `send` waits if the channel is full: `out` holds one text more than `OutCap`, and
the monitor does nothing (`CanSend`) until there is room. `GetClipboard` and
`StoreInitial` are apart, because the clipboard may change in between; what they record
is not trimmed. `set` is `SetBegins` (record) and `SetEnds` (`wl-copy` has returned);
the main loop waits in between, so nothing of it is enabled while `setting` holds a
text. The channel of the server's monitor, its forwarding task and the event channel are
one queue. `calm`, `plain`, `has_copy` and `clients` are chosen once; `cut`, `own`,
`shared` and `missed` are history, which no action reads.

*Daemon.* A process goes through `check`, `config`, `create`, `write`, `starting`,
`bound`, `serving`, `leaving`, `exiting`; a terminal goes through the calls of the
command it runs. `read_pid` is three steps wherever it is called (`ReadPidFile`,
`ProbePid`, `RemoveStale`), `fs::write` two (`CreatePidFile` truncates, `WritePidFile`
writes to whatever file it had opened: `handle`). SIGTERM kills a process that has
not installed its handlers. `ForceKill` is the end of the 5 seconds; it does not wait
for the death. `AfterRead` is where each command goes on with the answer of
`read_pid`. `alone` is history: nobody else started anything, or began a command,
while a process was on its way to its pid file.

*Capture.* A device reports an event to whoever has grabbed it, otherwise to the
desktop and to the reader. An event carries whether the desktop had it (`desk`) and how
often control had changed when it was reported (`epoch`), which no action reads: they
are what `ReachesOneSide` is stated with. `GrabDevices` is the loop of ioctls, whose
results nobody looks at: it fails for a device that is gone, that has no reader, or
that another program has grabbed (`failed` remembers those). A reader that fails
drops its stream, which closes the descriptor and ends the grab.

*Framing.* Bytes are positions (`<<message, i>>`), so that a byte out of place is
noticed by `Decode`, and sealed bytes name their nonce, so that a chunk out of order is
noticed by `Opens`. `SealChunk` is one turn of the loop of `write_all`; the `BufWriter`
hands bytes to the socket only inside `write_all` and `flush` (`PassOn`); `Collect` is
`read_exact`. Every `send` starts a frame of its own, so `receive_all_buffered`, which
is modelled (`DrainBuffered`), never finds a second message: batches of the client
come from its channel. `read_chunk` calls a connection that ends after one byte of a
length a clean end (`ReadsEnd`). A reset is `LinkLost`. `receive` is not
cancel-safe, and no caller cancels it without dropping the connection.

*Left out*: the wording of logs, fields no handler reads (`x`, `y` of a motion, the
server's size in the ack), autorepeat, JSON, cryptography.

Operators whose comment begins with "Mutant" are deliberately wrong variants of the
definition that follows them. No specification uses them; they are substituted
one at a time to show that each property notices the mistake it is about.

## Runs

| Run | Question | Properties |
|---|---|---|
| `ServerOne` | a peer that may say anything, with clipboard, keys, scroll and full queues; or two connections of one name that keep to the protocol | `ServerTypeOK`, `ControlConsistent`, `NoMotionLeftOver`, `DeadTasksAreReported`, `MotionBeforeKeys`, `NoBounce` |
| `SessionOne` | real clients: every fault and heartbeats; or keys and scrolling; or clipboard texts; or two clients on two sides | `SessionTypeOK`, `ControlIsOneToken`, `ActiveMeansActive`, `PushOnlyAfterGrace`, `MotionNeedsControl`, `OneClientInControl`, `ImplementsControl` |
| `SessionLive` | liveness while links and clients fail; the composition is a `Server` | `ImplementsServer`, `HandshakeEnds`, `ControlArrives`, `LockoutEnds`, `ReturnsControl` |
| `SessionReplaced` | a client that reconnects while its old connection is half open | `UnregisteredClientsLeave`, `ArrivalsAreHandled` |
| `ClipboardSync` | three machines whose users copy lines and wait; two machines with texts of any form; or one client that is busy while helpers fail | `ClipboardTypeOK`, `CaughtUp`, `QuietMeansAgreed`, `Settles` |
| `Daemon` | two terminals, three processes that fail, hang and crash | `DaemonTypeOK`, `Listed`, `StopStops`, `CommandsEnd`, `StartServes` |
| `Capture` | two devices, unplugged or grabbed by others, three changes of control | `CaptureTypeOK`, `ReadIfGrabbed`, `ReachesOneSide`, `InOrder`, `CapturedIsHandled` |
| `Framing` | three messages over a link cut between any two bytes | `FramingTypeOK`, `QuietMeansDelivered`, `RefusesOnlyOversize`, `ImplementsChannel`, `FlushedArrives`, `OversizeEnds` |

What the four component runs show:

* `ClipboardSync`: the races of `set` with the initial read, with the user and with the
  monitor's comparison do no lasting harm, because the watcher prints the clipboard once
  more when it starts: at rest the record and the clipboard agree, as far as the reader can
  tell (`CaughtUp`). Machines whose users wait for each other end with the line
  that was copied last (`QuietMeansAgreed`), except for a text copied on the server while a
  client is active, which is dropped and not sent later (`missed`). The exchange comes to
  rest (`Settles`). What ends it is not the record alone but that each text that
  comes back has lost a newline.
* `Daemon`: the pid file is removed in four places of the code, and never when it is
  the file of a later process (`Listed`), although none of them looks at what it removes.
  That holds as long as nobody else starts something at the same time (`alone`): two
  starts that overlap both go on, and the first to end removes the other's file.
* `Capture`: a device that the server holds is always read (`ReadIfGrabbed`), because
  the stream owns the descriptor; events around a switch may belong to both sides or
  to none, all others belong to exactly one (`ReachesOneSide`), except those of a
  device whose grab failed.
* `Framing`: the boundaries fit to the byte: 65535 is the largest chunk with its tag
  and the largest length two bytes hold (`RefusesOnlyOversize`); only a payload above
  `MAX_PAYLOAD`, which `send` does not refuse, ends a healthy connection, and it does
  so at the header (`OversizeEnds`).

The properties of `ClipboardSync` have conditions, and each stands for something the code does
to a text because the prints of the watcher are read as lines of one stream:

* A copy whose last line has no newline is not sent until something prints a newline; a
  relayed text has lost its last newline (clipboard.rs:141), so it stays in the reader
  (`part`) and is put before the next copy: after `a` was relayed, a local copy of `c`
  and a newline is sent as `ac`. Hence `QuietMeansAgreed` promises nothing of a copy
  made while `part` holds something, and `CaughtUp` compares texts up to what was put
  before or split off (`Alike`).
* A relayed text of several lines is read without its last one, differs from what `set`
  recorded, and is sent back; it then replaces the text on the machine where it was copied
  (the run `ClipboardEcho`, below). `QuietMeansAgreed` speaks of single lines.
* A watcher that stalls for 20 ms splits a text in two, and loses the line that had been
  begun (`cut`; clipboard.rs:131), until something is printed again. `CaughtUp` holds
  between these moments.
* With two clients and texts of several lines that begin with an empty one, the merged
  echoes of two machines can be sent to and fro for ever. `Settles` is stated for single
  lines among any number of clients (`plain`), or for texts of any form with one client.
* A text that was on a clipboard before the start is sent if it ends in a newline,
  because the initial record is not trimmed and what is compared with it is.

Four runs find a disagreement between the code and what it says of itself:

* `ClipboardEcho` (`NotEchoed`): a value applied from the network is said to be
  recognized as already seen and not echoed (clipboard.rs:15, server.rs:552). The first
  line of a two-line text is compared with the whole text that `set` recorded, and sent
  back (clipboard.rs:131).
* `SessionStaleDisconnect` (`RemovedOnlyWhenEnded`): `ClientDisconnected` carries a
  name, and each connection sends two. A report of the old connection removes the new
  one (server.rs:278). `UnregisteredClientsLeave` shows the damage is bounded: the
  removed client exits and is restarted. `DeadTasksAreReported` shows that the
  opposite mistake, a dead connection that stays registered, does not happen.
* `SessionMotionOrder` (`KeysFollowMotion`): the server keeps motion ahead of
  keys and buttons (`MotionBeforeKeys` holds), the client's batch undoes it
  (client.rs:349-369).
* `SessionStuckKey` (`OneKeyboard`): a key held while control is handed back is never
  released on the client (client.rs:362).

One more thing the models contain and no property forbids: `send_to` reports success when a
full queue dropped the message (server.rs:110). If that message is `SwitchToClient`, the
devices are grabbed for a client that does not know it: it ignores the input, cannot
hand control back, and the desktop gets nothing until the connection ends.
`ControlArrives` and `ReturnsControl` are about switches that have been queued.

### Bounds

*Server and sessions.* Screens are 3 x 1 pixels with a threshold of 0: the centre, the
two edges, and every relation of a cursor to an edge; the client's entry point is one
pixel from its exit edge. Motion is one pixel; `MaxPending` and `MaxTotal` bound the
motion summed up between flushes and in a batch (a batch that would exceed it ends, as
if the channel had been empty for a moment). Channels and queues have capacity 1 or 2
(5 in `SessionStuckKey`, where no message is to be dropped), so that they are full,
and empty, all the time: capacity matters only in "is there room". One or two
connections, of one name or of two; one key, one clipboard text. `PeerMessages`
bounds what an arbitrary peer may send in each stage, `Faults` which of link, client
and server may fail.

Two of the runs ask one question in several scenarios, told apart by a CONSTRAINT,
because everything at once is too large. `AloneOrCalm` (`ServerOne`): either one
connection, at most one event waiting, and everything else possible; or two connections
of one name with switches and returns only. `OneThingAtATime` (`SessionOne`): at any
time at most one of faults and heartbeats, keys and scrolling, clipboard texts, a second
client, who comes after the first and with whom one motion is under way at a time. The
scenarios share their states, so a fault may come after the keys have been released, and
so on. A second client excludes faults because a lost link leaves the abandoned client
believing in its control until it notices (no input reaches it), which
`OneClientInControl` does not speak of. `SessionLive` has no constraint; that of
`SessionReplaced` (`FirstComesFirst`), like the part of the others that names `c1` or
`k1`, only says which of two interchangeable connections or terminals is used first. In
`SessionLive` the mouse moves both ways, and there are no keys and no clipboard.

*Clipboard.* Three machines: what one client copies must pass the server to another.
Texts of up to two lines: two single lines with their newline, `a` without one (the
start of another text's line), and a text of two lines, which the reader can split, cut,
and merge with what was there before. Queues of 1, no capacity in the monitor's channel
(`OutCap = 0`: a text waits), two copies. `Scenarios` is three instances in one: users
of all machines who wait and copy single lines (`ManyPlain`); users of the server and
one client who wait and copy any of the texts (`TwoMachines`); and one client and a
server whose users do not wait while `wl-paste` and `wl-copy` fail (`OneBusy`), where a
bound on what is unread takes the place of the end that such an exchange need not have.
`Settles` speaks of users who wait, whose states no bound cuts off. `ClipboardEcho`
needs one client and one text of two lines, copied once by a user who also waits for the
monitors to start (`PatientFromTheStart`).

*Daemon.* Two commands and one launch by somebody else, hence three processes: one that
stops, one that starts and one that interferes. `AloneOrOneCommand`: once a start has
been interfered with, no second command begins in the run, because the properties
about starts promise nothing then. `CommandsEnd` loses no lasting state by it: a
command that has begun goes on within the bound.

*Capture.* Channels of 1, two events waiting in the kernel, two devices with two events
each: the four events can be in each of the four places while control goes, returns
and goes again, and an event that is lost has a later one that shows the gap.

*Framing.* A header of 2 bytes and chunks of 3 with a tag of 1; payloads of 1 (a message that is
exactly one chunk), 3 (one that is not a whole number of chunks) and 4 (above
`MaxPayload = 3`).
The largest Noise message, 4, is the largest length the two bytes can hold: a byte more
wraps. The network holds 3 bytes, the `BufWriter` 6, so that both block and both hold
several frames.

`CHECK_DEADLOCK FALSE` throughout: a server that was stopped, connections, commands and
messages all used up, may stop.

#### Reconnection

`ControlIsOneToken` and `ActiveMeansActive` are checked with one connection per name.
With a second of the same name a report of the old connection may unregister the new
one while it is in control (`SessionStaleDisconnect`), and the old client may believe
in its control until it finds out: `UnregisteredClientsLeave` and `LockoutEnds` are
what then still holds.

### Fairness

Every task runs when it can: tokio's scheduler is fair, and `select!` picks its
branches at random. Tasks that wait for room in the event channel are strongly fair
because the channel's semaphore serves them in order while other senders and
inputs come in between; the main loop is strongly fair for the same reason.
`ReaderForwards \/ ReaderReports` being fair after a link is lost is TCP
keepalive (15 s, then 3 probes of 5 s). Handshake tasks are fair because of their two
timeouts. A client's batch ends: applying a message takes microseconds and
messages come every 2 ms. Nothing is assumed of users, of arbitrary peers, of
clients being started, or of faults.

`Clipboard`, `Capture` and `Framing` use weak fairness of whole tasks (a monitor, a main
loop, a reader, a forwarder, a writer): each waits only for its own input and for room
that one other task makes, so it stays enabled until it runs. Watchers, devices, links
and users owe nothing. In `Daemon` commands and processes are weakly fair; that a
process reacts to SIGTERM is assumed only if it is `healthy`, and that the kernel
delivers SIGKILL always. Actions of one task that are never enabled together share
one fairness condition (a connection's accept and handshakes, say): it means the same
and is cheaper to check.

## Proofs

Every invariant and every safety property that the passing runs check is proved, for all
values of the constants that satisfy the assumptions of the module that declares
them. The theorems that need more say so: `ReturnDoesNotBounce` assumes `CentreIsClear`;
the three about tokens assume `OneConnectionPerName`.

**Server.** `ServerProofs` proves `TypeCorrect` (`ServerTypeOK`). It is inductive as it
stands: one lemma per group of actions, over lemmas about what `SendTo`, `Post`, `Take`,
reading and writing do to the streams; the capacity of the queues is the conjunct that
needs the guards. It also proves `DeadAreReported`. That a connection both of whose
tasks have ended is unregistered, or reported by an event in the channel, depends on the
order of that channel: its registration must not come behind its report. `ReportInv` says
that a connection that is not up yet has no event there (`NotYetUp`), that its
registration is there at most once (`Once`), and that a report of its name follows the
registration, or the registration has been handled (`Reported`); `NamesMatch` ties the
table to names.

**Control.** `ControlProofs` proves that control is never left half way. `ControlConsistent`
is not inductive: `ForwardRest` would take control back without a session to end, if a
message could be held back while nobody is active; so the invariant is `ControlInv ==
ControlConsistent /\ NoMotionLeftOver`. The argument has two halves: `StepEffects`
sorts every step into one of seven effects on the state of control (quiet, joins,
leaves, recovers, switches, forwards, stops), and each effect preserves `ControlInv`
and is a step or a stutter of `Control`. From it follow `ControlIsConsistent`,
`NothingIsLeftOver`, `ServerImplementsControl` and, assuming `CentreIsClear`
(`2 * EdgeThreshold + 3` pixels in both directions, which the configuration does not
enforce), `ReturnDoesNotBounce`. `KeysComeAfterMotion` (`MotionBeforeKeys`) is an action
property and needs one fact more, `RestFollows`: while a message is held back the motion
before it has been flushed, and nothing else can add to it.

**Session.** `SessionProofs` proves of the server with its real clients

* `SessionImplementsServer`: a client does to its socket only what `Server` lets an
  arbitrary peer do (`SocketStep`), and every other step is one of `Server`. So what is
  proved of `Server` holds of the composition without another proof, and by the theorem
  above so does `SessionImplementsControl`;
* `SessionTypes`, `GraceComesFirst` (`PushOnlyAfterGrace`) and `MotionIsControlled`
  (`MotionNeedsControl`), from `SessionInv`: per client, that it has a socket exactly while it
  runs, that it is not active and has nothing under way outside its main loop, that no
  push begins in the grace period, and that motion adds up only while it is active.
  Clients share no state, so a step of one is checked against its own conjuncts only.

`TokenProofs` counts. A token of a client is in one of six places: a switch in its
queue, on the wire or in its inbox; its own belief to be active; a return on the wire or
in the event channel. A step moves a token from one place to the next or drops it
(`Gives` and the lemmas about counting say which), and only a switch makes one.
`TokenInv` says for each connection that there is at most one; that there is none unless
the connection is up and has announced itself; and, as long as the server serves it,
that a token means that it is the server's active client. Then a switch, made only while
the desktop is in control, finds none. From it follow `ControlIsNeverDuplicated`
(`ControlIsOneToken`) and `BelievesWhatIs` (`ActiveMeansActive`). `NoTwoInControl`
(`OneClientInControl`) compares two clients and is proved for `Faults = {}`, as it is
checked: with faults a server that has given up a connection may serve the next while
the client of the first still believes in its control. `Calm` says what then never
happens: no report, no connection that ends. All three assume one connection per name,
because without it a stale report unregisters the successor (see Reconnection).

**Clipboard.** `ClipboardProofs` proves `TypesKept` and `MonitorCatchesUp`, for texts of
any length, whatever users copy and wherever the stream is split. `CaughtUp` speaks of a
monitor at rest; the invariant `IInv` says for every machine, in `Local`, what holds
before. `Rest` is everything the monitor has yet to compare, the content, the line it
has begun and the unread prints together. If no line was lost since the last print,
`Rest` and the clipboard are `Alike`, one the end of the other, or there is no ink left
in `Rest` and the record is alike the clipboard (`Seen`). Reading moves pieces within
`Rest` and leaves it as it is; a complete content takes its front away; a print puts the
whole clipboard at its end. `Unbroken`, `Idle` and `Room` say what the reader can have
in hand in each phase. The lemmas about texts (`ConcatEnds`, `AlikeEnd`, `TrimConcat`,
`AlikeTrim` and others) are what connects `Alike` with concatenation and trimming. The
machines do not disturb each other's conjuncts, so there is one lemma per action.

`CopiesReachEveryone` proves `QuietMeansAgreed`, for any number of clients and any texts on the
other clipboards. Its invariant `CalmInv` follows a copied line through all machines, in five
`Stages`: the monitor of the author is reading it or the main loop has yet to take it
(`Copying`), a client has sent it (`Uploading`), the server is writing it (`Relaying`), it
spreads, each client having it in its queue, being about to write it, or having it
(`Spreading`), or the server dropped it (`Dropped`). Every other machine may have unread
prints, of what `set` wrote and of what was begun before, but no newline among them (`Watches`):
no monitor completes a content from them, and that is what keeps the stages from
mixing. One lemma per group of actions says which stage it leads to.
TLC agrees with `Local` and `CalmInv` on the instance of `ClipboardSync`.

**Daemon.** `DaemonProofs` proves `DaemonTypes`, `PidFileNamesTheProcess` and
`StopLeavesNothing`, for any number of terminals and processes. `DaemonIInv` has a part that
holds whoever interferes (`Readers`: what a reader of the file has in hand is a pid that
was used, and dead before it removes the file), and two that hold while nobody does: at
most one process is on its way to the file, and nothing it could collide with is under
way (`Arrivals`); and the file names every process that has come up, and so does the hand
of every reader (`Ownership`), which is why no removal hits it.

**Capture.** `CaptureProofs` proves `CaptureTypes`, `GrabbedIsRead` and `OneSideGetsIt`.
`Holds` relates grabs to readers and to control; `Piped` says of every event, wherever it
is, that if control has not changed since, the desktop has had it exactly if the client
is not to. It also proves `EventsStayInOrder`: the event channel, the capture
channel, the reader's hand and the kernel's buffer hold, for every device, successive
intervals of its event numbers (`Chain`). A gap at a device that was unplugged is
behind everything that can still arrive.

**Framing.** `FramingProofs` proves `FramingTypes`, `OwnFramesAreAccepted`
(`RefusesOnlyOversize`), `FlushedIsDelivered` (`QuietMeansDelivered`) and
`FramingImplementsChannel`, for all sizes of headers, chunks, tags, buffers and messages.
The natural invariant, that the bytes in transit are the rest of the encoded messages, is a
recursion over messages, and what a recursive definition computes cannot be proved here.
The invariant says instead that a function `h` exists which tells where each chunk begins:
in which message, at which byte of it, and at which byte of the stream (`Placed(h)`).
Consecutive chunks are related (`Following`), so each byte on its way is known by
its position alone (`Carries`), and sealing a chunk extends `h` by one. Because every
`send` starts a frame of its own, the reader's buffer is always the front of exactly one
message (`ReaderAt`), which is why `Decode` never refuses one of the writer's.

Only model-checked: liveness (`HandshakeEnds`, `ControlArrives`, `LockoutEnds`,
`ReturnsControl`, `UnregisteredClientsLeave`, `ArrivalsAreHandled`, `Settles`,
`CommandsEnd`, `StartServes`, `CapturedIsHandled`, `FlushedArrives`, `OversizeEnds`),
which under fairness is out of the prover's reach. The arithmetic of `Geometry` is used
by the proofs about `Server` and `ReturnDoesNotBounce` and has no theorems of its own.
Where control is not one token because a name connects twice, the run `SessionReplaced`
checks what is left.

## Not modelled

`config.rs`, `screen.rs`, `main.rs` and packaging: they run once, keep no state, and
their results are the constants of the models (see `components` in `PROJECT.json`).
Within the modelled parts: cryptography and what a peer without the key could do;
32-bit overflow of coordinates; pids that are reused; devices that are plugged in
after the start (the program does not see them); uinput devices, apart from what they
hold; clipboard texts that are not valid UTF-8 (`read_line` returns an error, and the
monitor ends); `ctl logs`.

## Plan

1. Proofs: what holds of the token with two connections of one name (one of them is
   served); theorems about `Geometry` by themselves (the entry point of a client is
   not at its exit edge).
2. Composition of `Capture` with `Server`, in place of inputs at any moment.
3. Reconnection with input, so that the token properties speak of two connections of
   one name.
