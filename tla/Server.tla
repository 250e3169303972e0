------------------------------- MODULE Server -------------------------------
(***************************************************************************)
(* The BlueCross server, server.rs: the main event loop that owns the      *)
(* state of struct Server, and the tasks around it - the clipboard monitor *)
(* and, for every connection, the task that performs the handshake, the    *)
(* writer that drains the client's queue and the reader that feeds the     *)
(* client's messages into the event channel.                               *)
(*                                                                         *)
(* The peers are arbitrary here: they connect, write any message, read,    *)
(* close or vanish at any time.  Session puts the real clients there.      *)
(*                                                                         *)
(* Captured input shares the event channel with the other events in the    *)
(* code.  Here any input may be handled at any moment: as inputs are       *)
(* arbitrary, the place of one in the channel makes no difference.         *)
(***************************************************************************)
EXTENDS Wire, Geometry

CONSTANTS
  Configured,        \* config.clients: the names the server accepts
  Position,          \* config.clients[name], the side the client sits on
  ScreenWidth, ScreenHeight, EdgeThreshold,
  EntryOffset,       \* entry_offset, 100 pixels in the code
  ClientWidth, ClientHeight,  \* what the Handshake of each name declares
  ClipboardSharing,
  QueueCap,          \* CLIENT_QUEUE, 1024 in the code
  EventCap,          \* capacity of the event channel, 4096 in the code
  Deltas,            \* the mouse motions <<dx, dy>> the devices report
  Inputs,            \* the other events they report, as the messages that
                     \* forward them (an autorepeat, value 2, is not told
                     \* from a press)
  PeerMessages,      \* bound of the model: what an arbitrary peer may send
                     \* while its connection is in each stage
  MaxPending,        \* bound of the model: motion accumulated between flushes
  NoConn, NoName, NoMsg, NoContent

\* How far the task of a connection has come: not accepted, waiting for the
\* first Noise message, for the Handshake, about to announce the client, done
\* with it, or given up.
Stages == {"idle", "noise", "app", "register", "up", "failed"}

ASSUME ServerAssumption ==
  /\ Configured \subseteq Names
  /\ Position \in [Configured -> Positions]
  /\ ScreenWidth \in Nat \ {0} /\ ScreenHeight \in Nat \ {0}
  /\ EdgeThreshold \in Int /\ EntryOffset \in Int
  /\ ClientWidth \in [Names -> Nat \ {0}]
  /\ ClientHeight \in [Names -> Nat \ {0}]
  /\ ClipboardSharing \in BOOLEAN
  /\ QueueCap \in Nat \ {0} /\ EventCap \in Nat \ {0}
  /\ Deltas \subseteq Int \X Int
  /\ Inputs \subseteq {m \in Forwarded :
                         m.type \in {"KeyEvent", "MouseButton", "MouseScroll"}}
  /\ PeerMessages \in [Stages -> SUBSET ToServer]
  /\ MaxPending \in Nat
  /\ NoConn \notin Conns /\ NoName \notin Names
  /\ NoMsg \notin Forwarded /\ NoContent \notin Contents

VARIABLES
  running,           \* the main loop has not been stopped by a signal
  clients,           \* clients[n]: the connection registered for n, or NoConn
  active_client,
  grabbed,
  clipboard_paused,
  mouse_x, mouse_y,
  pending_dx, pending_dy,
  rest,              \* the message forward_to_active still has to queue after
                     \* the motion it flushed, or NoMsg
  last_content,      \* the clipboard text ClipboardManager saw last
  copied,            \* a local change on its way from the monitor to the loop
  events,            \* the event channel
  stage,             \* stage[k]: how far the task of connection k has come
  queue,             \* queue[k]: the channel between send_to and the writer
  writer,            \* writer[k]: "none", "run", "ending" (about to report),
                     \* "done" (reported, its receiver dropped)
  reader             \* reader[k]: "none", "run", "done" (reported)

controlVars == <<active_client, grabbed, clipboard_paused>>
cursorVars == <<mouse_x, mouse_y, pending_dx, pending_dy>>
clipVars == <<last_content, copied>>
taskVars == <<stage, writer, reader>>
serverVars == <<running, clients, controlVars, cursorVars, rest, clipVars,
                events, queue, taskVars>>
vars == <<wireVars, serverVars>>

-----------------------------------------------------------------------------
NewClient(k)           == [kind |-> "NewClient", conn |-> k]
ClientMessage(n, m)    == [kind |-> "ClientMessage", name |-> n, msg |-> m]
ClientDisconnected(n)  == [kind |-> "ClientDisconnected", name |-> n]
ClipboardChanged(c)    == [kind |-> "ClipboardChanged", content |-> c]

ServerEvent ==
  [kind : {"NewClient"}, conn : Conns]
    \cup [kind : {"ClientMessage"}, name : Names, msg : ToServer]
    \cup [kind : {"ClientDisconnected"}, name : Names]
    \cup [kind : {"ClipboardChanged"}, content : Contents]

\* One type invariant: every variable has its type, and no channel holds more
\* than its capacity.
ServerTypeOK ==
  /\ WireTypeOK
  /\ running \in BOOLEAN
  /\ clients \in [Names -> Conns \cup {NoConn}]
  /\ active_client \in Names \cup {NoName}
  /\ grabbed \in BOOLEAN
  /\ clipboard_paused \in BOOLEAN
  /\ mouse_x \in 0 .. ScreenWidth - 1
  /\ mouse_y \in 0 .. ScreenHeight - 1
  /\ pending_dx \in Int /\ pending_dy \in Int
  /\ rest \in Forwarded \cup {NoMsg}
  /\ last_content \in Contents \cup {NoContent}
  /\ copied \in Contents \cup {NoContent}
  /\ events \in Seq(ServerEvent) /\ Len(events) <= EventCap
  /\ stage \in [Conns -> Stages]
  /\ queue \in [Conns -> Seq(Forwarded)]
  /\ \A k \in Conns : Len(queue[k]) <= QueueCap
  /\ writer \in [Conns -> {"none", "run", "ending", "done"}]
  /\ reader \in [Conns -> {"none", "run", "done"}]

ServerInit ==
  /\ running = TRUE
  /\ clients = [n \in Names |-> NoConn]
  /\ active_client = NoName
  /\ grabbed = FALSE
  /\ clipboard_paused = FALSE
  /\ mouse_x = Centre(ScreenWidth) /\ mouse_y = Centre(ScreenHeight)
  /\ pending_dx = 0 /\ pending_dy = 0
  /\ rest = NoMsg
  /\ last_content \in Contents \cup {NoContent}
  /\ copied = NoContent
  /\ events = << >>
  /\ stage = [k \in Conns |-> "idle"]
  /\ queue = [k \in Conns |-> << >>]
  /\ writer = [k \in Conns |-> "none"]
  /\ reader = [k \in Conns |-> "none"]

-----------------------------------------------------------------------------
(* The event channel: senders wait for room, the main loop takes the head. *)

\* Mutant: try_send, which drops the event when the channel is full.
PostOrDrop(e) ==
  events' = IF Len(events) < EventCap THEN Append(events, e) ELSE events

Post(e) ==
  /\ Len(events) < EventCap
  /\ events' = Append(events, e)

Take(e) ==
  /\ running /\ rest = NoMsg
  /\ events # << >>
  /\ e = Head(events)
  /\ events' = Tail(events)

(* Sending to a client: try_send succeeds or drops the message when the    *)
(* queue is full, and fails only when the receiver is gone.                *)

Registered == {n \in Names : clients[n] # NoConn}

\* Mutant: send_to reports a full queue like a closed one.
ReachableUnlessFull(n) ==
  /\ n \in Registered /\ writer[clients[n]] # "done"
  /\ Len(queue[clients[n]]) < QueueCap

Reachable(n) == n \in Registered /\ writer[clients[n]] # "done"

SendTo(targets, m) ==
  queue' = [k \in Conns |->
              IF \E n \in targets : Reachable(n) /\ clients[n] = k
                   /\ Len(queue[k]) < QueueCap
                THEN Append(queue[k], m)
                ELSE queue[k]]

\* Mutant: a clone of the sender is kept somewhere.
TxKept(k) == TRUE

\* Somebody still holds a sender of k's queue: its task before NewClient is
\* sent, the event, or the table of clients.
TxAlive(k) ==
  \/ stage[k] = "register"
  \/ clients[Owner[k]] = k
  \/ \E i \in DOMAIN events : events[i] = NewClient(k)

\* Mutants: deactivate forgets to resume the clipboard, to clear the pending
\* motion, to move the cursor.
ControlReturnsPaused ==
  /\ active_client' = NoName /\ grabbed' = FALSE
  /\ mouse_x' = Centre(ScreenWidth) /\ mouse_y' = Centre(ScreenHeight)
  /\ pending_dx' = 0 /\ pending_dy' = 0
  /\ UNCHANGED clipboard_paused

ControlReturnsMoving ==
  /\ active_client' = NoName /\ grabbed' = FALSE /\ clipboard_paused' = FALSE
  /\ mouse_x' = Centre(ScreenWidth) /\ mouse_y' = Centre(ScreenHeight)
  /\ UNCHANGED <<pending_dx, pending_dy>>

ControlReturnsInPlace ==
  /\ active_client' = NoName /\ grabbed' = FALSE /\ clipboard_paused' = FALSE
  /\ pending_dx' = 0 /\ pending_dy' = 0
  /\ UNCHANGED <<mouse_x, mouse_y>>

\* What deactivate does once it found its name to be the active one.
ControlReturns ==
  /\ active_client' = NoName
  /\ grabbed' = FALSE
  /\ clipboard_paused' = FALSE
  /\ mouse_x' = Centre(ScreenWidth) /\ mouse_y' = Centre(ScreenHeight)
  /\ pending_dx' = 0 /\ pending_dy' = 0

\* Mutant: the name is compared the wrong way round.
DeactivateOthers(n) ==
  IF active_client # n THEN ControlReturns ELSE UNCHANGED <<controlVars, cursorVars>>

Deactivate(n) ==
  IF active_client = n THEN ControlReturns ELSE UNCHANGED <<controlVars, cursorVars>>

-----------------------------------------------------------------------------
(* The task of one connection: handle_new_connection, its writer, reader.  *)

Accept(k) ==
  /\ running /\ link[k] # "none" /\ stage[k] = "idle"
  /\ stage' = [stage EXCEPT ![k] = "noise"]
  /\ UNCHANGED <<wireVars, running, clients, controlVars, cursorVars, rest,
                 clipVars, events, queue, writer, reader>>

NoiseHandshake(k) ==
  /\ running /\ stage[k] = "noise"
  /\ ServerReads(k, NoiseHelloMsg(TRUE))
  /\ ServerWrites(k, NoiseReplyMsg)
  /\ stage' = [stage EXCEPT ![k] = "app"]
  /\ UNCHANGED <<link, shut, running, clients, controlVars, cursorVars, rest,
                 clipVars, events, queue, writer, reader>>

\* The Ack is written by the task itself; then the writer half moves to the
\* writer task, which waits on a queue nobody has the other end of yet.
AppHandshake(k) ==
  /\ running /\ stage[k] = "app"
  /\ Owner[k] \in Configured
  /\ ServerReads(k, HandshakeMsg)
  /\ ServerWrites(k, HandshakeAckMsg)
  /\ stage' = [stage EXCEPT ![k] = "register"]
  /\ writer' = [writer EXCEPT ![k] = "run"]
  /\ UNCHANGED <<link, shut, running, clients, controlVars, cursorVars, rest,
                 clipVars, events, queue, reader>>

\* Mutant: the task ends and its socket stays open.
HandshakeFailsSilently(k) ==
  /\ running /\ stage[k] \in {"noise", "app"}
  /\ stage' = [stage EXCEPT ![k] = "failed"]
  /\ UNCHANGED <<wireVars, running, clients, controlVars, cursorVars, rest,
                 clipVars, events, queue, writer, reader>>

\* A wrong key, message type or name, an error, or ten seconds of silence in
\* either phase: the task ends and the socket is closed.
HandshakeFails(k) ==
  /\ running /\ stage[k] \in {"noise", "app"}
  /\ stage' = [stage EXCEPT ![k] = "failed"]
  /\ shut' = [shut EXCEPT ![k] = TRUE]
  /\ UNCHANGED <<link, up, down, running, clients, controlVars, cursorVars,
                 rest, clipVars, events, queue, writer, reader>>

\* event_tx.send(NewClient).await, then the reader task is spawned.
Register(k) ==
  /\ running /\ stage[k] = "register"
  /\ Post(NewClient(k))
  /\ stage' = [stage EXCEPT ![k] = "up"]
  /\ reader' = [reader EXCEPT ![k] = "run"]
  /\ UNCHANGED <<wireVars, running, clients, controlVars, cursorVars, rest,
                 clipVars, queue, writer>>

WriterSend(k) ==
  /\ running /\ writer[k] = "run" /\ queue[k] # << >>
  /\ ServerWrites(k, Head(queue[k]))
  /\ queue' = [queue EXCEPT ![k] = Tail(@)]
  /\ UNCHANGED <<link, up, shut, running, clients, controlVars, cursorVars,
                 rest, clipVars, events, taskVars>>

WriterFails(k) ==
  /\ running /\ writer[k] = "run" /\ queue[k] # << >>
  /\ WriteMayFail(k)
  /\ queue' = [queue EXCEPT ![k] = Tail(@)]
  /\ writer' = [writer EXCEPT ![k] = "ending"]
  /\ UNCHANGED <<wireVars, running, clients, controlVars, cursorVars, rest,
                 clipVars, events, stage, reader>>

\* rx.recv() returns None: the queue is drained and every sender dropped.
WriterStops(k) ==
  /\ running /\ writer[k] = "run" /\ queue[k] = << >>
  /\ ~TxAlive(k)
  /\ writer' = [writer EXCEPT ![k] = "ending"]
  /\ UNCHANGED <<wireVars, running, clients, controlVars, cursorVars, rest,
                 clipVars, events, queue, stage, reader>>

\* The report is sent while the receiver still exists: messages queued in
\* between are accepted and lost.  Only then are receiver and socket dropped.
WriterReports(k) ==
  /\ running /\ writer[k] = "ending"
  /\ Post(ClientDisconnected(Owner[k]))
  /\ writer' = [writer EXCEPT ![k] = "done"]
  /\ queue' = [queue EXCEPT ![k] = << >>]
  /\ shut' = [shut EXCEPT ![k] = TRUE]
  /\ UNCHANGED <<link, up, down, running, clients, controlVars, cursorVars,
                 rest, clipVars, stage, reader>>

ReaderForwards(k) ==
  /\ running /\ reader[k] = "run"
  /\ \E m \in ToServer \ {MalformedMsg} :
       ServerReads(k, m) /\ Post(ClientMessage(Owner[k], m))
  /\ UNCHANGED <<link, down, shut, running, clients, controlVars, cursorVars,
                 rest, clipVars, queue, taskVars>>

ReaderReports(k) ==
  /\ running /\ reader[k] = "run"
  /\ ReadFails(k)
  /\ Post(ClientDisconnected(Owner[k]))
  /\ reader' = [reader EXCEPT ![k] = "done"]
  /\ UNCHANGED <<wireVars, running, clients, controlVars, cursorVars, rest,
                 clipVars, queue, stage, writer>>

-----------------------------------------------------------------------------
(* The clipboard monitor: take_if_changed records the text, then it goes   *)
(* through a channel (one text deep here) to the event channel.            *)

LocalCopy(c) ==
  /\ running /\ ClipboardSharing
  /\ copied = NoContent /\ c # last_content
  /\ last_content' = c
  /\ copied' = c
  /\ UNCHANGED <<wireVars, running, clients, controlVars, cursorVars, rest,
                 events, queue, taskVars>>

RelayCopy ==
  /\ running /\ copied # NoContent
  /\ Post(ClipboardChanged(copied))
  /\ copied' = NoContent
  /\ UNCHANGED <<wireVars, running, clients, controlVars, cursorVars, rest,
                 last_content, queue, taskVars>>

-----------------------------------------------------------------------------
(* The main loop: events from the channel.                                 *)

HandleNewClient(k) ==
  /\ Take(NewClient(k))
  /\ clients' = [clients EXCEPT ![Owner[k]] = k]
  /\ UNCHANGED <<wireVars, running, controlVars, cursorVars, rest, clipVars,
                 queue, taskVars>>

HandleSwitchToServer(n) ==
  /\ Take(ClientMessage(n, SwitchToServerMsg))
  /\ Deactivate(n)
  /\ UNCHANGED <<wireVars, running, clients, rest, clipVars, queue, taskVars>>

\* set() records the text as seen, and everybody but the sender gets it.  The
\* loop is suspended while wl-copy runs; only it touches what it uses then.
HandleClipboardData(n, c) ==
  /\ Take(ClientMessage(n, ClipboardMsg(c)))
  /\ IF ClipboardSharing
       THEN /\ last_content' = c
            /\ SendTo(Names \ {n}, ClipboardMsg(c))
       ELSE UNCHANGED <<last_content, queue>>
  /\ UNCHANGED <<wireVars, running, clients, controlVars, cursorVars, rest,
                 copied, taskVars>>

HandleOtherMessage(n, m) ==
  /\ m.type \notin {"SwitchToServer", "ClipboardData"}
  /\ Take(ClientMessage(n, m))
  /\ UNCHANGED <<wireVars, running, clients, controlVars, cursorVars, rest,
                 clipVars, queue, taskVars>>

\* Mutant: the client is removed and not deactivated.
HandleDisconnectOnlyRemoves(n) ==
  /\ Take(ClientDisconnected(n))
  /\ clients' = [clients EXCEPT ![n] = NoConn]
  /\ UNCHANGED <<wireVars, running, controlVars, cursorVars, rest, clipVars,
                 queue, taskVars>>

HandleDisconnect(n) ==
  /\ Take(ClientDisconnected(n))
  /\ clients' = [clients EXCEPT ![n] = NoConn]
  /\ Deactivate(n)
  /\ UNCHANGED <<wireVars, running, rest, clipVars, queue, taskVars>>

BroadcastClipboard(c) ==
  /\ Take(ClipboardChanged(c))
  /\ IF clipboard_paused THEN UNCHANGED queue ELSE SendTo(Names, ClipboardMsg(c))
  /\ UNCHANGED <<wireVars, running, clients, controlVars, cursorVars, rest,
                 clipVars, taskVars>>

HandleEvent ==
  \/ \E k \in Conns : HandleNewClient(k)
  \/ \E n \in Names :
       \/ HandleSwitchToServer(n)
       \/ \E c \in Contents : HandleClipboardData(n, c)
       \/ \E m \in ToServer : HandleOtherMessage(n, m)
       \/ HandleDisconnect(n)
  \/ \E c \in Contents : BroadcastClipboard(c)

-----------------------------------------------------------------------------
(* The main loop: captured input, handle_input.                            *)

\* Mutant: the cursor is not clamped to the screen.
MovedXUnclamped(dx) == mouse_x + dx

MovedX(dx) == Clamp(mouse_x + dx, 0, ScreenWidth - 1)
MovedY(dy) == Clamp(mouse_y + dy, 0, ScreenHeight - 1)

\* The clients check_edge may return: the order of a HashMap is arbitrary.
EdgeClients(x, y) ==
  {n \in Registered \cap Configured :
     AtEdge(Position[n], x, y, ScreenWidth, ScreenHeight, EdgeThreshold)}

EntryMsg(n, x, y) ==
  SwitchToClientMsg(
    EntryX(Position[n], x, ScreenWidth, ClientWidth[n], EntryOffset),
    EntryY(Position[n], y, ScreenHeight, ClientHeight[n], EntryOffset))

MoveLocal(dx, dy) ==
  /\ running /\ rest = NoMsg /\ active_client = NoName
  /\ EdgeClients(MovedX(dx), MovedY(dy)) = {}
  /\ mouse_x' = MovedX(dx) /\ mouse_y' = MovedY(dy)
  /\ UNCHANGED <<wireVars, running, clients, controlVars, pending_dx,
                 pending_dy, rest, clipVars, events, queue, taskVars>>

\* Mutant: the edges are checked whether or not a client is active.
SwitchToAnyTime(n, dx, dy) ==
  /\ running /\ rest = NoMsg
  /\ n \in EdgeClients(MovedX(dx), MovedY(dy))
  /\ SendTo({n}, EntryMsg(n, MovedX(dx), MovedY(dy)))
  /\ Reachable(n)
  /\ active_client' = n /\ grabbed' = TRUE /\ clipboard_paused' = TRUE
  /\ mouse_x' = MovedX(dx) /\ mouse_y' = MovedY(dy)
  /\ UNCHANGED <<wireVars, running, clients, rest, clipVars, events, taskVars,
                 pending_dx, pending_dy>>

SwitchTo(n, dx, dy) ==
  /\ running /\ rest = NoMsg /\ active_client = NoName
  /\ n \in EdgeClients(MovedX(dx), MovedY(dy))
  /\ SendTo({n}, EntryMsg(n, MovedX(dx), MovedY(dy)))
  /\ IF Reachable(n)
       THEN /\ active_client' = n
            /\ grabbed' = TRUE
            /\ clipboard_paused' = TRUE
            /\ mouse_x' = MovedX(dx) /\ mouse_y' = MovedY(dy)
            /\ UNCHANGED <<pending_dx, pending_dy>>
       ELSE ControlReturns  \* deactivate undoes the switch
  /\ UNCHANGED <<wireVars, running, clients, rest, clipVars, events, taskVars>>

\* Less than 2 ms after the last flush.
MoveAccumulates(dx, dy) ==
  /\ running /\ rest = NoMsg /\ active_client # NoName
  /\ pending_dx + dx \in -MaxPending .. MaxPending
  /\ pending_dy + dy \in -MaxPending .. MaxPending
  /\ mouse_x' = MovedX(dx) /\ mouse_y' = MovedY(dy)
  /\ pending_dx' = pending_dx + dx
  /\ pending_dy' = pending_dy + dy
  /\ UNCHANGED <<wireVars, running, clients, controlVars, rest, clipVars,
                 events, queue, taskVars>>

MoveFlushes(dx, dy) ==
  /\ running /\ rest = NoMsg /\ active_client # NoName
  /\ SendTo({active_client}, MouseMoveMsg(pending_dx + dx, pending_dy + dy))
  /\ IF Reachable(active_client)
       THEN /\ mouse_x' = MovedX(dx) /\ mouse_y' = MovedY(dy)
            /\ pending_dx' = 0 /\ pending_dy' = 0
            /\ UNCHANGED controlVars
       ELSE ControlReturns
  /\ UNCHANGED <<wireVars, running, clients, rest, clipVars, events, taskVars>>

\* forward_to_active queues the motion first and the message second; the
\* writer may take from the queue, or end, between the two.
FlushMotionFirst(m) ==
  /\ running /\ rest = NoMsg /\ active_client # NoName
  /\ m.type \in {"KeyEvent", "MouseButton"}
  /\ pending_dx # 0 \/ pending_dy # 0
  /\ SendTo({active_client}, MouseMoveMsg(pending_dx, pending_dy))
  /\ IF Reachable(active_client)
       THEN /\ pending_dx' = 0 /\ pending_dy' = 0
            /\ rest' = m
            /\ UNCHANGED <<controlVars, mouse_x, mouse_y>>
       ELSE ControlReturns /\ UNCHANGED rest
  /\ UNCHANGED <<wireVars, running, clients, clipVars, events, taskVars>>

QueueInput(m) ==
  /\ SendTo({active_client}, m)
  /\ IF Reachable(active_client)
       THEN UNCHANGED <<controlVars, cursorVars>>
       ELSE ControlReturns
  /\ UNCHANGED <<wireVars, running, clients, clipVars, events, taskVars>>

ForwardRest ==
  /\ running /\ rest # NoMsg
  /\ QueueInput(rest)
  /\ rest' = NoMsg

\* Mutant: keys and buttons are forwarded without flushing the motion.
ForwardNowAlways(m) ==
  /\ running /\ rest = NoMsg /\ active_client # NoName
  /\ QueueInput(m)
  /\ UNCHANGED rest

ForwardNow(m) ==
  /\ running /\ rest = NoMsg /\ active_client # NoName
  /\ m.type = "MouseScroll" \/ (pending_dx = 0 /\ pending_dy = 0)
  /\ QueueInput(m)
  /\ UNCHANGED rest

MoveInput ==
  \E d \in Deltas :
    \/ MoveLocal(d[1], d[2])
    \/ \E n \in Names : SwitchTo(n, d[1], d[2])
    \/ MoveAccumulates(d[1], d[2])
    \/ MoveFlushes(d[1], d[2])

\* A key, button or scroll event while a client is active (the kernel delivers
\* it to the desktop otherwise, and forward_to_active returns).
OtherInput(m) == FlushMotionFirst(m) \/ ForwardNow(m)

\* SIGTERM or SIGINT: the loop ends, the devices are released, and the runtime
\* is dropped with every task and socket.
Shutdown ==
  /\ running /\ rest = NoMsg
  /\ running' = FALSE
  /\ grabbed' = FALSE
  /\ shut' = [k \in Conns |-> link[k] # "none"]
  /\ UNCHANGED <<link, up, down, clients, active_client, clipboard_paused,
                 cursorVars, rest, clipVars, events, queue, taskVars>>

-----------------------------------------------------------------------------
ConnectionTask(k) ==
  \/ Accept(k) \/ NoiseHandshake(k) \/ AppHandshake(k) \/ HandshakeFails(k)
  \/ Register(k)
  \/ WriterSend(k) \/ WriterFails(k) \/ WriterStops(k) \/ WriterReports(k)
  \/ ReaderForwards(k) \/ ReaderReports(k)

MonitorTask == (\E c \in Contents : LocalCopy(c)) \/ RelayCopy

ServerStep ==
  \/ HandleEvent \/ MoveInput \/ ForwardRest \/ Shutdown \/ MonitorTask
  \/ \E m \in Inputs : OtherInput(m)
  \/ \E k \in Conns : ConnectionTask(k)

\* The arbitrary peer at the other end of k.
PeerStep(k) ==
  /\ \/ running /\ Connect(k)
     \/ /\ \E m \in PeerMessages[stage[k]] : PeerWrites(k, m)
        /\ UNCHANGED <<link, down, shut>>
     \/ PeerReads(k)
     \/ PeerCloses(k)
     \/ LinkLost(k)
  /\ UNCHANGED serverVars

Init == WireInit /\ ServerInit
Next == ServerStep \/ \E k \in Conns : PeerStep(k)
Spec == Init /\ [][Next]_vars

\* Every task runs when it can.  A sender waiting for room in the event channel
\* is served in order (the channel's semaphore is a fair queue), and the main
\* loop takes every event in its turn: both are strong fairness here, as inputs
\* and other senders come in between.  Nothing is assumed of the peers, of the
\* devices or of the user; that a lost connection is reported by TCP some time
\* later is the fairness of the reader.
TaskFairness(k) ==
  /\ WF_vars(Accept(k) \/ NoiseHandshake(k) \/ AppHandshake(k) \/ HandshakeFails(k))
  /\ WF_vars(WriterSend(k) \/ WriterFails(k) \/ WriterStops(k))
  /\ SF_vars(WriterReports(k))
  /\ SF_vars(Register(k) \/ ReaderForwards(k) \/ ReaderReports(k))

ServerFairness ==
  /\ SF_vars(HandleEvent)
  /\ WF_vars(ForwardRest)
  /\ SF_vars(RelayCopy)
  /\ \A k \in Conns : TaskFairness(k)
=============================================================================
