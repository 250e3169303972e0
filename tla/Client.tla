------------------------------- MODULE Client -------------------------------
(***************************************************************************)
(* The BlueCross client, client.rs: one run of the process for every       *)
(* connection (it connects once and exits when the connection ends; the    *)
(* next run is another connection).  Its main loop takes messages from a   *)
(* channel a reader task fills, and applies everything that is queued as   *)
(* one batch: keys, buttons and switches at once, the motion summed up and *)
(* applied when the channel is empty.                                      *)
(*                                                                         *)
(* Time is two timers that may ripen at any moment: the grace period of    *)
(* 200 ms after a switch and the 300 ms of pushing against the exit edge.  *)
(***************************************************************************)
EXTENDS Wire, Geometry

CONSTANTS
  PositionOf,       \* PositionOf[k]: the position the HandshakeAck carries
  ScreenW, ScreenH, \* config.screen_width and config.screen_height of k
  Sharing,          \* config.clipboard_sharing of the clients
  InboxCap,         \* capacity of the message channel, 4096 in the code
  MaxTotal,         \* bound of the model: motion summed up in one batch
  Heartbeats,       \* bound of the model: whether heartbeats are sent
  NoText            \* no clipboard text, not in Contents

ASSUME ClientAssumption ==
  /\ PositionOf \in [Conns -> Positions]
  /\ ScreenW \in [Conns -> Nat \ {0}] /\ ScreenH \in [Conns -> Nat \ {0}]
  /\ Sharing \in BOOLEAN /\ Heartbeats \in BOOLEAN
  /\ InboxCap \in Nat \ {0} /\ MaxTotal \in Nat
  /\ NoText \notin Contents

VARIABLES
  phase,      \* phase[k]: "off", "tcp" (connected), "noise" (hello sent),
              \* "secure" (reply read), "ack" (Handshake sent), "up" (in the
              \* main loop), "exited"
  active,     \* state.active
  cursor,     \* <<state.mouse_x, state.mouse_y>>
  in_grace,   \* less than 200 ms since switch_time
  edge_push,  \* "no", "pushing" (edge_pushing), "ripe" (for 300 ms or more)
  inbox,      \* the channel from the reader task to the main loop
  eof,        \* the reader task has ended
  in_batch,   \* the main loop is between the first message and the motion
  total,      \* <<total_dx, total_dy>>
  held,       \* keys and buttons the virtual device holds down
  last_seen,  \* the text the client's ClipboardManager saw last
  noticed     \* a local change on its way from the monitor, or NoText

pointerVars == <<cursor, in_grace, edge_push>>
batchVars == <<in_batch, total>>
seenVars == <<last_seen, noticed>>
clientVars == <<phase, active, pointerVars, inbox, eof, batchVars, held, seenVars>>

Phases == {"off", "tcp", "noise", "secure", "ack", "up", "exited"}
Edges == {"no", "pushing", "ripe"}
HeldThings == (Keys \cup Buttons)

ClientTypeOK ==
  /\ phase \in [Conns -> Phases]
  /\ active \in [Conns -> BOOLEAN]
  /\ cursor \in [Conns -> Int \X Int]
  /\ in_grace \in [Conns -> BOOLEAN]
  /\ edge_push \in [Conns -> Edges]
  /\ inbox \in [Conns -> Seq(ToClient)]
  /\ \A k \in Conns : Len(inbox[k]) <= InboxCap
  /\ eof \in [Conns -> BOOLEAN]
  /\ in_batch \in [Conns -> BOOLEAN]
  /\ total \in [Conns -> Int \X Int]
  /\ held \in [Conns -> SUBSET HeldThings]
  /\ last_seen \in [Conns -> Contents \cup {NoText}]
  /\ noticed \in [Conns -> Contents \cup {NoText}]

ClientInit ==
  /\ phase = [k \in Conns |-> "off"]
  /\ active = [k \in Conns |-> FALSE]
  /\ cursor = [k \in Conns |-> <<0, 0>>]
  /\ in_grace = [k \in Conns |-> FALSE]
  /\ edge_push = [k \in Conns |-> "no"]
  /\ inbox = [k \in Conns |-> << >>]
  /\ eof = [k \in Conns |-> FALSE]
  /\ in_batch = [k \in Conns |-> FALSE]
  /\ total = [k \in Conns |-> <<0, 0>>]
  /\ held = [k \in Conns |-> {}]
  /\ last_seen = [k \in Conns |-> NoText]
  /\ noticed = [k \in Conns |-> NoText]

-----------------------------------------------------------------------------
(* Sockets, from the client's side.                                        *)

\* What the peer's stream ends with, once it is drained or the link is gone.
EndOfStream(k) == (shut[k] /\ down[k] = << >>) \/ link[k] = "lost"

\* Mutant: a write that never waits.
ClientWritesAtOnce(k, m) == up' = [up EXCEPT ![k] = Append(@, m)]

\* Writing m: it waits for room; once the connection is lost it may vanish.
ClientWrites(k, m) ==
  IF link[k] = "open" THEN PeerWrites(k, m) ELSE UNCHANGED up

\* A write reports an error only when the other end is gone.
ClientWriteMayFail(k) == shut[k] \/ link[k] = "lost"

\* The process ends, for whatever reason: the sockets are closed, its memory is
\* gone, and the virtual device is destroyed, which releases what it held down.
Exit(k) ==
  /\ IF link[k] = "open" THEN PeerCloses(k) ELSE UNCHANGED wireVars
  /\ phase' = [phase EXCEPT ![k] = "exited"]
  /\ active' = [active EXCEPT ![k] = FALSE]
  /\ in_batch' = [in_batch EXCEPT ![k] = FALSE]
  /\ total' = [total EXCEPT ![k] = <<0, 0>>]
  /\ held' = [held EXCEPT ![k] = {}]
  /\ inbox' = [inbox EXCEPT ![k] = << >>]
  /\ eof' = [eof EXCEPT ![k] = TRUE]
  /\ cursor' = [cursor EXCEPT ![k] = <<0, 0>>]
  /\ in_grace' = [in_grace EXCEPT ![k] = FALSE]
  /\ edge_push' = [edge_push EXCEPT ![k] = "no"]
  /\ last_seen' = [last_seen EXCEPT ![k] = NoText]
  /\ noticed' = [noticed EXCEPT ![k] = NoText]

-----------------------------------------------------------------------------
(* Connecting: TCP, Noise, Handshake, HandshakeAck.                        *)

ClientConnects(k) ==
  /\ phase[k] = "off"
  /\ Connect(k)
  /\ phase' = [phase EXCEPT ![k] = "tcp"]
  /\ UNCHANGED <<active, pointerVars, inbox, eof, batchVars, held, seenVars>>

\* One message of the handshake is written, and the answer awaited.
ClientSends(k, from, m, to) ==
  /\ phase[k] = from
  /\ ClientWrites(k, m)
  /\ phase' = [phase EXCEPT ![k] = to]
  /\ UNCHANGED <<link, down, shut, active, pointerVars, inbox, eof, batchVars,
                 held, seenVars>>

ClientSaysHello(k) == ClientSends(k, "tcp", NoiseHelloMsg(TRUE), "noise")

ClientReads(k, m) ==
  /\ down[k] # << >> /\ Head(down[k]) = m
  /\ down' = [down EXCEPT ![k] = Tail(@)]

ClientGetsReply(k) ==
  /\ phase[k] = "noise"
  /\ ClientReads(k, NoiseReplyMsg)
  /\ phase' = [phase EXCEPT ![k] = "secure"]
  /\ UNCHANGED <<link, up, shut, active, pointerVars, inbox, eof, batchVars, held,
                 seenVars>>

ClientSaysName(k) == ClientSends(k, "secure", HandshakeMsg, "ack")

\* HandshakeAck received: ClientState::new, whose switch_time is now, then the
\* main loop.  The clipboard monitor records the text it finds.
ClientStarts(k) ==
  /\ phase[k] = "ack"
  /\ ClientReads(k, HandshakeAckMsg)
  /\ phase' = [phase EXCEPT ![k] = "up"]
  /\ in_grace' = [in_grace EXCEPT ![k] = TRUE]
  /\ \E c \in (IF Sharing THEN Contents ELSE {}) \cup {NoText} :
       last_seen' = [last_seen EXCEPT ![k] = c]
  /\ UNCHANGED <<link, up, shut, active, cursor, edge_push, inbox, eof,
                 batchVars, held, noticed>>

\* EOF or an error before the Ack: run_async returns an error.
ClientGivesUp(k) ==
  /\ phase[k] \in {"tcp", "noise", "secure", "ack"} /\ EndOfStream(k)
  /\ Exit(k)

-----------------------------------------------------------------------------
(* The reader task.                                                        *)

\* Mutant: messages that find the channel full are dropped.
ReceiverForwardsOrDrops(k) ==
  /\ phase[k] = "up" /\ ~eof[k] /\ down[k] # << >>
  /\ inbox' = [inbox EXCEPT ![k] =
                 IF Len(@) < InboxCap THEN Append(@, Head(down[k])) ELSE @]
  /\ down' = [down EXCEPT ![k] = Tail(@)]
  /\ UNCHANGED <<link, up, shut, phase, active, pointerVars, eof, batchVars,
                 held, seenVars>>

ReceiverForwards(k) ==
  /\ phase[k] = "up" /\ ~eof[k]
  /\ down[k] # << >> /\ Len(inbox[k]) < InboxCap
  /\ inbox' = [inbox EXCEPT ![k] = Append(@, Head(down[k]))]
  /\ down' = [down EXCEPT ![k] = Tail(@)]
  /\ UNCHANGED <<link, up, shut, phase, active, pointerVars, eof, batchVars,
                 held, seenVars>>

ReceiverEnds(k) ==
  /\ phase[k] = "up" /\ ~eof[k] /\ EndOfStream(k)
  /\ eof' = [eof EXCEPT ![k] = TRUE]
  /\ UNCHANGED <<wireVars, phase, active, pointerVars, inbox, batchVars, held,
                 seenVars>>

-----------------------------------------------------------------------------
(* The main loop: apply_message on the head of the channel, in a batch.    *)

TakeMessage(k, m) ==
  /\ phase[k] = "up"
  /\ inbox[k] # << >> /\ Head(inbox[k]) = m
  /\ inbox' = [inbox EXCEPT ![k] = Tail(@)]
  /\ in_batch' = [in_batch EXCEPT ![k] = TRUE]
  /\ UNCHANGED <<wireVars, phase, eof, noticed>>

ApplySwitch(k) ==
  \E m \in {Head(inbox[k])} :
    /\ m.type = "SwitchToClient"
    /\ TakeMessage(k, m)
    /\ active' = [active EXCEPT ![k] = TRUE]
    /\ in_grace' = [in_grace EXCEPT ![k] = TRUE]
    /\ edge_push' = [edge_push EXCEPT ![k] = "no"]
    /\ cursor' = [cursor EXCEPT ![k] = <<m.x, m.y>>]
    /\ UNCHANGED <<total, held, last_seen>>

ApplyClipboard(k) ==
  \E m \in {Head(inbox[k])} :
    /\ m.type = "ClipboardData"
    /\ TakeMessage(k, m)
    /\ last_seen' = [last_seen EXCEPT ![k] = IF Sharing THEN m.content ELSE @]
    /\ UNCHANGED <<active, pointerVars, total, held>>

\* Keys and buttons are injected at once.
ApplyKeyOrButton(k) ==
  \E m \in {Head(inbox[k])} :
    /\ m.type \in {"KeyEvent", "MouseButton"} /\ active[k]
    /\ TakeMessage(k, m)
    /\ held' = [held EXCEPT ![k] = IF m.value = Pressed THEN @ \cup {m.code}
                                                        ELSE @ \ {m.code}]
    /\ UNCHANGED <<active, pointerVars, total, last_seen>>

Fits(k, m) == total[k][1] + m.dx \in -MaxTotal .. MaxTotal
                /\ total[k][2] + m.dy \in -MaxTotal .. MaxTotal

\* Mutant: motion counts also while the client is not active.
ApplyMoveAnyway(k) ==
  \E m \in {Head(inbox[k])} :
    /\ m.type = "MouseMove" /\ Fits(k, m)
    /\ TakeMessage(k, m)
    /\ total' = [total EXCEPT ![k] = <<@[1] + m.dx, @[2] + m.dy>>]
    /\ UNCHANGED <<active, pointerVars, held, last_seen>>

ApplyMove(k) ==
  \E m \in {Head(inbox[k])} :
    /\ m.type = "MouseMove" /\ active[k]
    /\ Fits(k, m)
    /\ TakeMessage(k, m)
    /\ total' = [total EXCEPT ![k] = <<@[1] + m.dx, @[2] + m.dy>>]
    /\ UNCHANGED <<active, pointerVars, held, last_seen>>

\* A scroll is injected; input that arrives while inactive, and messages that
\* mean nothing to a client, are ignored.
ApplyOther(k) ==
  \E m \in {Head(inbox[k])} :
    /\ \/ m.type \in {"MouseScroll", "HandshakeAck"}
       \/ m.type \in {"KeyEvent", "MouseButton", "MouseMove"} /\ ~active[k]
    /\ TakeMessage(k, m)
    /\ UNCHANGED <<active, pointerVars, total, held, last_seen>>

ClientApplies(k) ==
  /\ inbox[k] # << >>
  /\ \/ ApplySwitch(k) \/ ApplyClipboard(k) \/ ApplyKeyOrButton(k)
     \/ ApplyMove(k) \/ ApplyOther(k)

(* The channel is empty: the motion of the batch is applied.  A batch whose *)
(* sum would pass the bound ends too, as if the reader had been slower.     *)

BatchDone(k) ==
  /\ phase[k] = "up" /\ in_batch[k]
  /\ inbox[k] # << >> => /\ active[k]
                         /\ Head(inbox[k]).type = "MouseMove"
                         /\ ~Fits(k, Head(inbox[k]))

Moved(k) ==
  <<Clamp(cursor[k][1] + total[k][1], 0, ScreenW[k] - 1),
    Clamp(cursor[k][2] + total[k][2], 0, ScreenH[k] - 1)>>

AtExit(k, xy) == AtExitEdge(PositionOf[k], xy[1], xy[2], ScreenW[k], ScreenH[k])
Pushing(k)    == PushingExit(PositionOf[k], total[k][1], total[k][2])
Retreating(k) == MovingAway(PositionOf[k], total[k][1], total[k][2])

\* check_exit_edge returns true.
ExitReached(k) ==
  ~in_grace[k] /\ AtExit(k, Moved(k)) /\ Pushing(k) /\ edge_push[k] = "ripe"

\* Mutant: the grace period is not looked at first.
NextEdgePushInGrace(k) ==
  CASE AtExit(k, Moved(k)) /\ Pushing(k)
         -> IF edge_push[k] = "no" THEN "pushing" ELSE edge_push[k]
    [] Retreating(k) \/ ~AtExit(k, Moved(k)) -> "no"
    [] OTHER -> edge_push[k]

\* What check_exit_edge leaves in edge_pushing otherwise.
NextEdgePush(k) ==
  CASE in_grace[k]                         -> edge_push[k]
    [] ~in_grace[k] /\ AtExit(k, Moved(k)) /\ Pushing(k)
         -> IF edge_push[k] = "no" THEN "pushing" ELSE edge_push[k]
    [] ~in_grace[k] /\ (Retreating(k) \/ ~AtExit(k, Moved(k))) -> "no"
    [] OTHER                               -> edge_push[k]

EndBatch(k) ==
  /\ in_batch' = [in_batch EXCEPT ![k] = FALSE]
  /\ total' = [total EXCEPT ![k] = <<0, 0>>]

MotionInjected(k) ==
  /\ BatchDone(k) /\ ~(total[k] # <<0, 0>> /\ ExitReached(k))
  /\ IF total[k] = <<0, 0>>
       THEN UNCHANGED <<cursor, edge_push>>
       ELSE /\ cursor' = [cursor EXCEPT ![k] = Moved(k)]
            /\ edge_push' = [edge_push EXCEPT ![k] = NextEdgePush(k)]
  /\ EndBatch(k)
  /\ UNCHANGED <<wireVars, phase, active, in_grace, inbox, eof, held, seenVars>>

\* Mutant: the client stays active when it hands control back.
ControlHandedBackStillActive(k) ==
  /\ BatchDone(k) /\ total[k] # <<0, 0>> /\ ExitReached(k)
  /\ cursor' = [cursor EXCEPT ![k] = Moved(k)]
  /\ edge_push' = [edge_push EXCEPT ![k] = "no"]
  /\ ClientWrites(k, SwitchToServerMsg)
  /\ EndBatch(k)
  /\ UNCHANGED <<link, down, shut, phase, active, in_grace, inbox, eof, held,
                 seenVars>>

\* The last motion is not injected; keys held down stay held down.
ControlHandedBack(k) ==
  /\ BatchDone(k) /\ total[k] # <<0, 0>> /\ ExitReached(k)
  /\ cursor' = [cursor EXCEPT ![k] = Moved(k)]
  /\ edge_push' = [edge_push EXCEPT ![k] = "no"]
  /\ active' = [active EXCEPT ![k] = FALSE]
  /\ ClientWrites(k, SwitchToServerMsg)
  /\ EndBatch(k)
  /\ UNCHANGED <<link, down, shut, phase, in_grace, inbox, eof, held, seenVars>>

-----------------------------------------------------------------------------
(* Timers, heartbeat, clipboard monitor, and the end of the process.       *)

GraceEnds(k) ==
  /\ phase[k] = "up" /\ in_grace[k]
  /\ in_grace' = [in_grace EXCEPT ![k] = FALSE]
  /\ UNCHANGED <<wireVars, phase, active, cursor, edge_push, inbox, eof,
                 batchVars, held, seenVars>>

PushRipens(k) ==
  /\ phase[k] = "up" /\ edge_push[k] = "pushing"
  /\ edge_push' = [edge_push EXCEPT ![k] = "ripe"]
  /\ UNCHANGED <<wireVars, phase, active, cursor, in_grace, inbox, eof,
                 batchVars, held, seenVars>>

Heartbeat(k) ==
  /\ Heartbeats
  /\ phase[k] = "up" /\ ~in_batch[k]
  /\ ClientWrites(k, HeartbeatMsg)
  /\ UNCHANGED <<link, down, shut, clientVars>>

ClientCopy(k, c) ==
  /\ Sharing /\ phase[k] = "up"
  /\ noticed[k] = NoText /\ last_seen[k] # c
  /\ last_seen' = [last_seen EXCEPT ![k] = c]
  /\ noticed' = [noticed EXCEPT ![k] = c]
  /\ UNCHANGED <<wireVars, phase, active, pointerVars, inbox, eof, batchVars,
                 held>>

SendCopy(k) ==
  /\ phase[k] = "up" /\ ~in_batch[k] /\ noticed[k] # NoText
  /\ ClientWrites(k, ClipboardMsg(noticed[k]))
  /\ noticed' = [noticed EXCEPT ![k] = NoText]
  /\ UNCHANGED <<link, down, shut, phase, active, pointerVars, inbox, eof,
                 batchVars, held, last_seen>>

\* "Connection lost": the channel is drained and the reader task has ended.
ConnectionLost(k) ==
  /\ phase[k] = "up" /\ ~in_batch[k] /\ inbox[k] = << >> /\ eof[k]
  /\ Exit(k)

\* A write of the main loop (heartbeat, clipboard, SwitchToServer) fails, or
\* SIGTERM or SIGINT arrives.
ClientStops(k) ==
  /\ phase[k] = "up"
  /\ \/ ~in_batch[k]
     \/ BatchDone(k) /\ ExitReached(k) /\ ClientWriteMayFail(k)
  /\ Exit(k)

\* Everything a connected client does of its own accord.
ClientTask(k) ==
  \/ ClientSaysHello(k) \/ ClientGetsReply(k) \/ ClientSaysName(k)
  \/ ClientStarts(k)
  \/ ClientGivesUp(k)
  \/ ReceiverForwards(k) \/ ReceiverEnds(k)
  \/ ClientApplies(k) \/ MotionInjected(k) \/ ControlHandedBack(k)
  \/ GraceEnds(k) \/ PushRipens(k) \/ Heartbeat(k)
  \/ (\E c \in Contents : ClientCopy(k, c)) \/ SendCopy(k)
  \/ ConnectionLost(k)
=============================================================================
