---------------------------- MODULE ServerProofs ----------------------------
(***************************************************************************)
(* Proofs about Server, for any set of connections and names, any screens, *)
(* any capacities and any messages of the peers.                           *)
(***************************************************************************)
EXTENDS ServerProperties, TLAPS

-----------------------------------------------------------------------------
(* The arithmetic and the sequences the handlers are built from.           *)

\* The centre of a screen is on the screen.
LEMMA CentreInRange ==
  ASSUME NEW extent \in Nat \ {0}
  PROVE  Centre(extent) \in 0 .. extent - 1
BY DEF Centre

\* A table of sequences stays one when a value is put at the end of an entry, and
\* when the first value of an entry is removed.
LEMMA AppendAt ==
  ASSUME NEW S, NEW f \in [Conns -> Seq(S)], NEW k \in Conns, NEW m \in S
  PROVE  [f EXCEPT ![k] = Append(@, m)] \in [Conns -> Seq(S)]
<1>1. Append(f[k], m) \in Seq(S)
  OBVIOUS
<1> QED
  BY <1>1

LEMMA TailAt ==
  ASSUME NEW S, NEW f \in [Conns -> Seq(S)], NEW k \in Conns, f[k] # << >>
  PROVE  /\ [f EXCEPT ![k] = Tail(@)] \in [Conns -> Seq(S)]
         /\ Head(f[k]) \in S
         /\ Len(Tail(f[k])) = Len(f[k]) - 1
<1>1. f[k] \in Seq(S)
  OBVIOUS
<1>2. Tail(f[k]) \in Seq(S) /\ Head(f[k]) \in S /\ Len(Tail(f[k])) = Len(f[k]) - 1
  BY <1>1
<1> QED
  BY <1>2

\* Taking from one queue leaves every queue within its capacity.
LEMMA TailShrinks ==
  ASSUME ServerAssumption, NEW f \in [Conns -> Seq(Forwarded)],
         \A j \in Conns : Len(f[j]) <= QueueCap,
         NEW k \in Conns, f[k] # << >>, NEW j \in Conns
  PROVE  Len([f EXCEPT ![k] = Tail(@)][j]) <= QueueCap
<1>1. QueueCap \in Nat /\ f[k] \in Seq(Forwarded) /\ Len(f[k]) <= QueueCap
  BY DEF ServerAssumption
<1>2. Len(Tail(f[k])) = Len(f[k]) - 1 /\ Len(f[k]) \in Nat
  BY <1>1
<1> QED
  BY <1>1, <1>2

\* Reading and writing sockets keeps the streams well typed.
LEMMA ReadType ==
  ASSUME up \in [Conns -> Seq(ToServer)], NEW k \in Conns, NEW m,
         ServerReads(k, m)
  PROVE  up' \in [Conns -> Seq(ToServer)] /\ m \in ToServer
BY TailAt DEF ServerReads

LEMMA WriteType ==
  ASSUME down \in [Conns -> Seq(ToClient)], NEW k \in Conns,
         NEW m \in ToClient, ServerWrites(k, m)
  PROVE  down' \in [Conns -> Seq(ToClient)]
<1>1. [down EXCEPT ![k] = Append(@, m)] \in [Conns -> Seq(ToClient)]
  BY AppendAt
<1> QED
  BY <1>1 DEF ServerWrites

\* What SendTo leaves in the queues is well typed and within capacity.
LEMMA SendToType ==
  ASSUME ServerAssumption,
         queue \in [Conns -> Seq(Forwarded)],
         \A k \in Conns : Len(queue[k]) <= QueueCap,
         NEW targets, NEW m \in Forwarded, SendTo(targets, m)
  PROVE  /\ queue' \in [Conns -> Seq(Forwarded)]
         /\ \A k \in Conns : Len(queue'[k]) <= QueueCap
<1>1. \A k \in Conns : (queue'[k] = Append(queue[k], m) /\ Len(queue[k]) < QueueCap)
                         \/ queue'[k] = queue[k]
  BY DEF SendTo
<1>2. \A k \in Conns : queue[k] \in Seq(Forwarded)
  OBVIOUS
<1>3. QueueCap \in Nat
  BY DEF ServerAssumption
<1>4. ASSUME NEW k \in Conns
      PROVE  queue'[k] \in Seq(Forwarded) /\ Len(queue'[k]) <= QueueCap
  <2>1. CASE queue'[k] = queue[k]
    BY <2>1, <1>2
  <2>2. CASE queue'[k] = Append(queue[k], m) /\ Len(queue[k]) < QueueCap
    BY <2>2, <1>2, <1>3
  <2> QED
    BY <2>1, <2>2, <1>1
<1> QED
  BY <1>4 DEF SendTo

\* The event channel after a sender put e into it.
LEMMA PostType ==
  ASSUME ServerAssumption, events \in Seq(ServerEvent),
         NEW e \in ServerEvent, Post(e)
  PROVE  events' \in Seq(ServerEvent) /\ Len(events') <= EventCap
<1>1. EventCap \in Nat
  BY DEF ServerAssumption
<1> QED
  BY <1>1 DEF Post

\* The event channel after the main loop took an event, which is what it was.
LEMMA TakeType ==
  ASSUME ServerAssumption, events \in Seq(ServerEvent), Len(events) <= EventCap,
         NEW e, Take(e)
  PROVE  /\ events' \in Seq(ServerEvent) /\ Len(events') <= EventCap
         /\ e \in ServerEvent
<1>1. EventCap \in Nat
  BY DEF ServerAssumption
<1> QED
  BY <1>1 DEF Take

-----------------------------------------------------------------------------
(* Type correctness                                                        *)

LEMMA InitType == WireAssumption /\ ServerAssumption /\ Init => ServerTypeOK
<1> SUFFICES ASSUME WireAssumption, ServerAssumption, Init PROVE ServerTypeOK
  OBVIOUS
<1>1. /\ Centre(ScreenWidth) \in 0 .. ScreenWidth - 1
      /\ Centre(ScreenHeight) \in 0 .. ScreenHeight - 1
  BY CentreInRange DEF ServerAssumption
<1>2. EventCap \in Nat /\ QueueCap \in Nat
  BY DEF ServerAssumption
<1>3. WireTypeOK
  BY DEF Init, WireInit, WireTypeOK
<1>4. events \in Seq(ServerEvent) /\ Len(events) <= EventCap
  BY <1>2 DEF Init, ServerInit
<1>5. /\ queue \in [Conns -> Seq(Forwarded)]
      /\ \A k \in Conns : Len(queue[k]) <= QueueCap
  BY <1>2 DEF Init, ServerInit
<1>6. /\ stage \in [Conns -> Stages]
      /\ writer \in [Conns -> {"none", "run", "ending", "done"}]
      /\ reader \in [Conns -> {"none", "run", "done"}]
      /\ clients \in [Names -> Conns \cup {NoConn}]
  BY DEF Init, ServerInit, Stages
<1>7. mouse_x \in 0 .. ScreenWidth - 1 /\ mouse_y \in 0 .. ScreenHeight - 1
  BY <1>1 DEF Init, ServerInit
<1>9. running \in BOOLEAN /\ grabbed \in BOOLEAN /\ clipboard_paused \in BOOLEAN
  BY Zenon DEF Init, ServerInit
<1>8. /\ active_client \in Names \cup {NoName}
      /\ pending_dx \in Int /\ pending_dy \in Int
      /\ rest \in Forwarded \cup {NoMsg}
      /\ last_content \in Contents \cup {NoContent}
      /\ copied \in Contents \cup {NoContent}
  BY DEF Init, ServerInit
<1> QED
  BY <1>3, <1>4, <1>5, <1>6, <1>7, <1>8, <1>9 DEF ServerTypeOK

\* The tasks of a connection.
LEMMA TaskType ==
  ASSUME WireAssumption, ServerAssumption, ServerTypeOK,
         NEW k \in Conns, ConnectionTask(k)
  PROVE  ServerTypeOK'
<1> USE DEF ServerTypeOK, WireTypeOK, wireVars, controlVars, cursorVars,
            clipVars, taskVars, Stages
<1>1. CASE Accept(k)
  BY <1>1 DEF Accept
<1>2. CASE NoiseHandshake(k)
  <2>1. up' \in [Conns -> Seq(ToServer)]
    BY <1>2, ReadType DEF NoiseHandshake
  <2>2. NoiseReplyMsg \in ToClient
    BY DEF ToClient
  <2>3. down' \in [Conns -> Seq(ToClient)]
    BY <1>2, <2>2, WriteType DEF NoiseHandshake
  <2> QED
    BY <1>2, <2>1, <2>3 DEF NoiseHandshake
<1>3. CASE AppHandshake(k)
  <2>1. up' \in [Conns -> Seq(ToServer)]
    BY <1>3, ReadType DEF AppHandshake
  <2>2. HandshakeAckMsg \in ToClient
    BY DEF ToClient
  <2>3. down' \in [Conns -> Seq(ToClient)]
    BY <1>3, <2>2, WriteType DEF AppHandshake
  <2> QED
    BY <1>3, <2>1, <2>3 DEF AppHandshake
<1>4. CASE HandshakeFails(k)
  BY <1>4 DEF HandshakeFails
<1>5. CASE Register(k)
  <2>1. NewClient(k) \in ServerEvent
    BY DEF NewClient, ServerEvent
  <2>2. events' \in Seq(ServerEvent) /\ Len(events') <= EventCap
    BY <1>5, <2>1, PostType DEF Register
  <2> QED
    BY <1>5, <2>2 DEF Register
<1>6. CASE WriterSend(k)
  <2>1. queue' \in [Conns -> Seq(Forwarded)]
    BY <1>6, TailAt DEF WriterSend
  <2>2. \A j \in Conns : Len(queue'[j]) <= QueueCap
    BY <1>6, TailShrinks DEF WriterSend
  <2>3. Head(queue[k]) \in ToClient
    BY <1>6, TailAt DEF WriterSend, ToClient
  <2>4. down' \in [Conns -> Seq(ToClient)]
    BY <1>6, <2>3, WriteType DEF WriterSend
  <2> QED
    BY <1>6, <2>1, <2>2, <2>4 DEF WriterSend
<1>7. CASE WriterFails(k)
  <2>1. queue' \in [Conns -> Seq(Forwarded)]
    BY <1>7, TailAt DEF WriterFails
  <2>2. \A j \in Conns : Len(queue'[j]) <= QueueCap
    BY <1>7, TailShrinks DEF WriterFails
  <2> QED
    BY <1>7, <2>1, <2>2 DEF WriterFails
<1>8. CASE WriterStops(k)
  BY <1>8 DEF WriterStops
<1>9. CASE WriterReports(k)
  <2>1. ClientDisconnected(Owner[k]) \in ServerEvent
    BY DEF ClientDisconnected, ServerEvent, WireAssumption
  <2>2. events' \in Seq(ServerEvent) /\ Len(events') <= EventCap
    BY <1>9, <2>1, PostType DEF WriterReports
  <2>3. queue' \in [Conns -> Seq(Forwarded)]
    BY <1>9 DEF WriterReports
  <2>4. \A j \in Conns : Len(queue'[j]) <= QueueCap
    BY <1>9 DEF WriterReports, ServerAssumption
  <2> QED
    BY <1>9, <2>2, <2>3, <2>4 DEF WriterReports
<1>10. CASE ReaderForwards(k)
  <2>1. PICK m \in ToServer \ {MalformedMsg} :
          ServerReads(k, m) /\ Post(ClientMessage(Owner[k], m))
    BY <1>10 DEF ReaderForwards
  <2>2. ClientMessage(Owner[k], m) \in ServerEvent
    BY DEF ClientMessage, ServerEvent, WireAssumption
  <2>3. events' \in Seq(ServerEvent) /\ Len(events') <= EventCap
    BY <2>1, <2>2, PostType
  <2>4. up' \in [Conns -> Seq(ToServer)]
    BY <2>1, ReadType
  <2> QED
    BY <1>10, <2>3, <2>4 DEF ReaderForwards
<1>11. CASE ReaderReports(k)
  <2>1. ClientDisconnected(Owner[k]) \in ServerEvent
    BY DEF ClientDisconnected, ServerEvent, WireAssumption
  <2>2. events' \in Seq(ServerEvent) /\ Len(events') <= EventCap
    BY <1>11, <2>1, PostType DEF ReaderReports
  <2> QED
    BY <1>11, <2>2 DEF ReaderReports
<1> QED
  BY <1>1, <1>2, <1>3, <1>4, <1>5, <1>6, <1>7, <1>8, <1>9, <1>10, <1>11 DEF ConnectionTask

\* The clipboard monitor and the shutdown.
LEMMA MonitorType ==
  ASSUME ServerAssumption, ServerTypeOK, MonitorTask \/ Shutdown
  PROVE  ServerTypeOK'
<1> USE DEF ServerTypeOK, WireTypeOK, wireVars, controlVars, cursorVars,
            clipVars, taskVars, Stages
<1>1. ASSUME NEW c \in Contents, LocalCopy(c) PROVE ServerTypeOK'
  BY <1>1 DEF LocalCopy
<1>2. CASE RelayCopy
  <2>1. ClipboardChanged(copied) \in ServerEvent
    BY <1>2 DEF RelayCopy, ClipboardChanged, ServerEvent
  <2>2. events' \in Seq(ServerEvent) /\ Len(events') <= EventCap
    BY <1>2, <2>1, PostType DEF RelayCopy
  <2> QED
    BY <1>2, <2>2 DEF RelayCopy
<1>3. CASE Shutdown
  BY <1>3 DEF Shutdown
<1> QED
  BY <1>1, <1>2, <1>3 DEF MonitorTask

\* deactivate leaves the cursor on the screen.
LEMMA DeactivateType ==
  ASSUME ServerAssumption, ServerTypeOK, NEW n,
         Deactivate(n) \/ ControlReturns
  PROVE  /\ active_client' \in Names \cup {NoName}
         /\ grabbed' \in BOOLEAN /\ clipboard_paused' \in BOOLEAN
         /\ mouse_x' \in 0 .. ScreenWidth - 1 /\ mouse_y' \in 0 .. ScreenHeight - 1
         /\ pending_dx' \in Int /\ pending_dy' \in Int
<1>1. /\ Centre(ScreenWidth) \in 0 .. ScreenWidth - 1
      /\ Centre(ScreenHeight) \in 0 .. ScreenHeight - 1
  BY CentreInRange DEF ServerAssumption
<1>2. CASE ControlReturns
  <2>1. grabbed' \in BOOLEAN /\ clipboard_paused' \in BOOLEAN
    BY <1>2, Zenon DEF ControlReturns
  <2> QED
    BY <1>1, <1>2, <2>1 DEF ControlReturns
<1>3. CASE UNCHANGED <<controlVars, cursorVars>>
  BY <1>3 DEF controlVars, cursorVars, ServerTypeOK
<1> QED
  BY <1>2, <1>3 DEF Deactivate

\* The handlers of the events of the channel.
LEMMA EventType ==
  ASSUME WireAssumption, ServerAssumption, ServerTypeOK, HandleEvent
  PROVE  ServerTypeOK'
<1> USE DEF wireVars, controlVars, cursorVars, clipVars, taskVars, Stages
<1>1. ASSUME NEW k \in Conns, HandleNewClient(k) PROVE ServerTypeOK'
  <2>1. events' \in Seq(ServerEvent) /\ Len(events') <= EventCap
    BY <1>1, TakeType DEF HandleNewClient, ServerTypeOK
  <2> QED
    BY <1>1, <2>1 DEF HandleNewClient, ServerTypeOK, WireTypeOK
<1>2. ASSUME NEW n \in Names, HandleSwitchToServer(n) PROVE ServerTypeOK'
  <2>1. events' \in Seq(ServerEvent) /\ Len(events') <= EventCap
    BY <1>2, TakeType DEF HandleSwitchToServer, ServerTypeOK
  <2> QED
    BY <1>2, <2>1, DeactivateType DEF HandleSwitchToServer, ServerTypeOK, WireTypeOK
<1>3. ASSUME NEW n \in Names, NEW c \in Contents, HandleClipboardData(n, c)
      PROVE  ServerTypeOK'
  <2>1. events' \in Seq(ServerEvent) /\ Len(events') <= EventCap
    BY <1>3, TakeType DEF HandleClipboardData, ServerTypeOK
  <2>2. ClipboardMsg(c) \in Forwarded
    BY DEF ClipboardMsg, Forwarded
  <2>3. /\ queue' \in [Conns -> Seq(Forwarded)]
        /\ \A k \in Conns : Len(queue'[k]) <= QueueCap
    BY <1>3, <2>2, SendToType DEF HandleClipboardData, ServerTypeOK
  <2> QED
    BY <1>3, <2>1, <2>3 DEF HandleClipboardData, ServerTypeOK, WireTypeOK
<1>4. ASSUME NEW n \in Names, NEW m \in ToServer, HandleOtherMessage(n, m)
      PROVE  ServerTypeOK'
  <2>1. events' \in Seq(ServerEvent) /\ Len(events') <= EventCap
    BY <1>4, TakeType DEF HandleOtherMessage, ServerTypeOK
  <2> QED
    BY <1>4, <2>1 DEF HandleOtherMessage, ServerTypeOK, WireTypeOK
<1>5. ASSUME NEW n \in Names, HandleDisconnect(n) PROVE ServerTypeOK'
  <2>1. events' \in Seq(ServerEvent) /\ Len(events') <= EventCap
    BY <1>5, TakeType DEF HandleDisconnect, ServerTypeOK
  <2> QED
    BY <1>5, <2>1, DeactivateType DEF HandleDisconnect, ServerTypeOK, WireTypeOK
<1>6. ASSUME NEW c \in Contents, BroadcastClipboard(c) PROVE ServerTypeOK'
  <2>1. events' \in Seq(ServerEvent) /\ Len(events') <= EventCap
    BY <1>6, TakeType DEF BroadcastClipboard, ServerTypeOK
  <2>2. ClipboardMsg(c) \in Forwarded
    BY DEF ClipboardMsg, Forwarded
  <2>3. /\ queue' \in [Conns -> Seq(Forwarded)]
        /\ \A k \in Conns : Len(queue'[k]) <= QueueCap
    BY <1>6, <2>2, SendToType DEF BroadcastClipboard, ServerTypeOK
  <2> QED
    BY <1>6, <2>1, <2>3 DEF BroadcastClipboard, ServerTypeOK, WireTypeOK
<1> QED
  BY <1>1, <1>2, <1>3, <1>4, <1>5, <1>6 DEF HandleEvent

\* A move leaves the cursor on the screen.
LEMMA MovedType ==
  ASSUME ServerAssumption, ServerTypeOK, NEW dx \in Int, NEW dy \in Int
  PROVE  /\ MovedX(dx) \in 0 .. ScreenWidth - 1
         /\ MovedY(dy) \in 0 .. ScreenHeight - 1
<1>1. /\ mouse_x + dx \in Int /\ mouse_y + dy \in Int
      /\ 0 <= ScreenWidth - 1 /\ 0 <= ScreenHeight - 1
      /\ ScreenWidth - 1 \in Int /\ ScreenHeight - 1 \in Int
  BY DEF ServerAssumption, ServerTypeOK
<1>2. Clamp(mouse_x + dx, 0, ScreenWidth - 1) \in 0 .. ScreenWidth - 1
  BY <1>1 DEF Clamp
<1>3. Clamp(mouse_y + dy, 0, ScreenHeight - 1) \in 0 .. ScreenHeight - 1
  BY <1>1 DEF Clamp
<1> QED
  BY <1>2, <1>3 DEF MovedX, MovedY

\* The message that announces a switch has integer coordinates.
LEMMA EntryType ==
  ASSUME ServerAssumption, NEW n \in Configured, NEW x \in Int, NEW y \in Int
  PROVE  EntryMsg(n, x, y) \in Forwarded
<1>1. /\ ClientWidth[n] \in Int /\ ClientHeight[n] \in Int
      /\ ScreenWidth \in Int /\ ScreenWidth > 0
      /\ ScreenHeight \in Int /\ ScreenHeight > 0 /\ EntryOffset \in Int
  BY DEF ServerAssumption
<1>2. \A w, cw \in Int : w > 0 => (x * cw) \div w \in Int /\ (y * cw) \div w \in Int
  OBVIOUS
<1>3. EntryX(Position[n], x, ScreenWidth, ClientWidth[n], EntryOffset) \in Int
  BY <1>1, <1>2 DEF EntryX
<1>4. EntryY(Position[n], y, ScreenHeight, ClientHeight[n], EntryOffset) \in Int
  BY <1>1, <1>2 DEF EntryY
<1> QED
  BY <1>3, <1>4 DEF EntryMsg, SwitchToClientMsg, Forwarded

LEMMA SwitchType ==
  ASSUME ServerAssumption, ServerTypeOK,
         NEW n \in Names, NEW dx \in Int, NEW dy \in Int, SwitchTo(n, dx, dy)
  PROVE  ServerTypeOK'
<1> USE DEF wireVars, controlVars, cursorVars, clipVars, taskVars
<1>1. MovedX(dx) \in 0 .. ScreenWidth - 1 /\ MovedY(dy) \in 0 .. ScreenHeight - 1
  BY MovedType
<1>2. n \in Configured
  BY DEF SwitchTo, EdgeClients
<1>3. EntryMsg(n, MovedX(dx), MovedY(dy)) \in Forwarded
  BY <1>1, <1>2, EntryType DEF ServerAssumption
<1>4. /\ queue' \in [Conns -> Seq(Forwarded)]
      /\ \A k \in Conns : Len(queue'[k]) <= QueueCap
  BY <1>3, SendToType DEF SwitchTo, ServerTypeOK
<1>5. CASE Reachable(n)
  <2>1. grabbed' \in BOOLEAN /\ clipboard_paused' \in BOOLEAN
    BY <1>5, Zenon DEF SwitchTo
  <2> QED
    BY <1>1, <1>4, <1>5, <2>1 DEF SwitchTo, ServerTypeOK, WireTypeOK
<1>6. CASE ~Reachable(n)
  BY <1>4, <1>6, DeactivateType DEF SwitchTo, ServerTypeOK, WireTypeOK
<1> QED
  BY <1>5, <1>6

LEMMA FlushType ==
  ASSUME ServerAssumption, ServerTypeOK,
         NEW dx \in Int, NEW dy \in Int, MoveFlushes(dx, dy)
  PROVE  ServerTypeOK'
<1> USE DEF wireVars, controlVars, cursorVars, clipVars, taskVars
<1>1. MovedX(dx) \in 0 .. ScreenWidth - 1 /\ MovedY(dy) \in 0 .. ScreenHeight - 1
  BY MovedType
<1>2. MouseMoveMsg(pending_dx + dx, pending_dy + dy) \in Forwarded
  BY DEF MouseMoveMsg, Forwarded, ServerTypeOK
<1>3. /\ queue' \in [Conns -> Seq(Forwarded)]
      /\ \A k \in Conns : Len(queue'[k]) <= QueueCap
  BY <1>2, SendToType DEF MoveFlushes, ServerTypeOK
<1>4. CASE Reachable(active_client)
  BY <1>1, <1>3, <1>4 DEF MoveFlushes, ServerTypeOK, WireTypeOK
<1>5. CASE ~Reachable(active_client)
  BY <1>3, <1>5, DeactivateType DEF MoveFlushes, ServerTypeOK, WireTypeOK
<1> QED
  BY <1>4, <1>5

LEMMA QueueInputType ==
  ASSUME ServerAssumption, ServerTypeOK, NEW m \in Forwarded, QueueInput(m),
         rest' \in Forwarded \cup {NoMsg}
  PROVE  ServerTypeOK'
<1> USE DEF wireVars, controlVars, cursorVars, clipVars, taskVars
<1>1. /\ queue' \in [Conns -> Seq(Forwarded)]
      /\ \A k \in Conns : Len(queue'[k]) <= QueueCap
  BY SendToType DEF QueueInput, ServerTypeOK
<1>2. CASE Reachable(active_client)
  BY <1>1, <1>2 DEF QueueInput, ServerTypeOK, WireTypeOK
<1>3. CASE ~Reachable(active_client)
  BY <1>1, <1>3, DeactivateType DEF QueueInput, ServerTypeOK, WireTypeOK
<1> QED
  BY <1>2, <1>3

\* The handlers of captured input.
LEMMA InputType ==
  ASSUME ServerAssumption, ServerTypeOK,
         MoveInput \/ ForwardRest \/ \E m \in Inputs : OtherInput(m)
  PROVE  ServerTypeOK'
<1> USE DEF wireVars, controlVars, cursorVars, clipVars, taskVars
<1>1. \A d \in Deltas : d[1] \in Int /\ d[2] \in Int
  BY DEF ServerAssumption
<1>2. Inputs \subseteq Forwarded
  BY DEF ServerAssumption
<1>3. ASSUME NEW d \in Deltas, MoveLocal(d[1], d[2]) PROVE ServerTypeOK'
  BY <1>1, <1>3, MovedType DEF MoveLocal, ServerTypeOK, WireTypeOK
<1>4. ASSUME NEW d \in Deltas, NEW n \in Names, SwitchTo(n, d[1], d[2])
      PROVE  ServerTypeOK'
  BY <1>1, <1>4, SwitchType
<1>5. ASSUME NEW d \in Deltas, MoveAccumulates(d[1], d[2]) PROVE ServerTypeOK'
  <2>1. MovedX(d[1]) \in 0 .. ScreenWidth - 1 /\ MovedY(d[2]) \in 0 .. ScreenHeight - 1
    BY <1>1, MovedType
  <2>2. pending_dx' \in Int /\ pending_dy' \in Int
    BY <1>1, <1>5 DEF MoveAccumulates, ServerTypeOK
  <2> QED
    BY <1>5, <2>1, <2>2 DEF MoveAccumulates, ServerTypeOK, WireTypeOK
<1>6. ASSUME NEW d \in Deltas, MoveFlushes(d[1], d[2]) PROVE ServerTypeOK'
  BY <1>1, <1>6, FlushType
<1>7. ASSUME NEW m \in Inputs, FlushMotionFirst(m) PROVE ServerTypeOK'
  <2>1. MouseMoveMsg(pending_dx, pending_dy) \in Forwarded
    BY DEF MouseMoveMsg, Forwarded, ServerTypeOK
  <2>2. /\ queue' \in [Conns -> Seq(Forwarded)]
        /\ \A k \in Conns : Len(queue'[k]) <= QueueCap
    BY <1>7, <2>1, SendToType DEF FlushMotionFirst, ServerTypeOK
  <2>3. CASE Reachable(active_client)
    BY <1>2, <1>7, <2>2, <2>3 DEF FlushMotionFirst, ServerTypeOK, WireTypeOK
  <2>4. CASE ~Reachable(active_client)
    BY <1>7, <2>2, <2>4, DeactivateType DEF FlushMotionFirst, ServerTypeOK, WireTypeOK
  <2> QED
    BY <2>3, <2>4
<1>8. ASSUME NEW m \in Inputs, ForwardNow(m) PROVE ServerTypeOK'
  BY <1>2, <1>8, QueueInputType DEF ForwardNow, ServerTypeOK
<1>9. CASE ForwardRest
  <2>1. rest \in Forwarded
    BY <1>9 DEF ForwardRest, ServerTypeOK
  <2> QED
    BY <1>9, <2>1, QueueInputType DEF ForwardRest
<1> QED
  BY <1>3, <1>4, <1>5, <1>6, <1>7, <1>8, <1>9 DEF MoveInput, OtherInput

\* The peers.
LEMMA PeerType ==
  ASSUME ServerAssumption, ServerTypeOK, NEW k \in Conns, PeerStep(k)
  PROVE  ServerTypeOK'
<1> USE DEF wireVars, serverVars, controlVars, cursorVars, clipVars, taskVars
<1>1. UNCHANGED serverVars
  BY DEF PeerStep
<1>2. WireTypeOK'
  <2>1. CASE Connect(k) \/ LinkLost(k)
    BY <2>1 DEF Connect, LinkLost, ServerTypeOK, WireTypeOK
  <2>2. ASSUME NEW m \in PeerMessages[stage[k]], PeerWrites(k, m),
               UNCHANGED <<link, down, shut>>
        PROVE  WireTypeOK'
    <3>1. m \in ToServer
      BY DEF ServerAssumption, ServerTypeOK
    <3> QED
      BY <2>2, <3>1, AppendAt DEF PeerWrites, ServerTypeOK, WireTypeOK
  <2>3. CASE PeerReads(k)
    BY <2>3, TailAt DEF PeerReads, ServerTypeOK, WireTypeOK
  <2>4. CASE PeerCloses(k)
    BY <2>4 DEF PeerCloses, ServerTypeOK, WireTypeOK
  <2> QED
    BY <2>1, <2>2, <2>3, <2>4 DEF PeerStep
<1> QED
  BY <1>1, <1>2 DEF ServerTypeOK

LEMMA StutterType == ServerTypeOK /\ UNCHANGED vars => ServerTypeOK'
BY DEF ServerTypeOK, WireTypeOK, vars, wireVars, serverVars, controlVars,
       cursorVars, clipVars, taskVars

LEMMA StepType ==
  ASSUME WireAssumption, ServerAssumption, ServerTypeOK, [Next]_vars
  PROVE  ServerTypeOK'
BY TaskType, MonitorType, EventType, InputType, PeerType, StutterType
   DEF Next, ServerStep

\* Every variable of the server always has its type, the cursor stays on the
\* screen, and no channel is ever filled beyond its capacity.
THEOREM TypeCorrect == Spec => []ServerTypeOK
<1>1. Init => ServerTypeOK
  BY InitType, WireAssumption, ServerAssumption
<1>2. ServerTypeOK /\ [Next]_vars => ServerTypeOK'
  BY StepType, WireAssumption, ServerAssumption
<1> QED
  BY <1>1, <1>2, PTL DEF Spec

-----------------------------------------------------------------------------
(* How connections enter and leave the table of clients: each is announced *)
(* once, and one whose reader or writer has ended does not stay            *)
(* registered, whatever else is in the event channel.                      *)

\* A NewClient for k is in the event channel.
Announced(k) == \E i \in DOMAIN events : events[i] = NewClient(k)

\* Until its NewClient is sent, a connection has no reader, its writer can only
\* wait, and neither table nor channel know of it.
NotYetUp(k) ==
  stage[k] # "up" =>
    /\ reader[k] = "none"
    /\ writer[k] = IF stage[k] = "register" THEN "run" ELSE "none"
    /\ queue[k] = << >> /\ clients[Owner[k]] # k /\ ~Announced(k)

\* A connection is announced once, and not again once it was registered.
Once(k) ==
  /\ clients[Owner[k]] = k => ~Announced(k)
  /\ \A i, j \in DOMAIN events :
       events[i] = NewClient(k) /\ events[j] = NewClient(k) => i = j

Dead(k) == reader[k] = "done" \/ writer[k] = "done"

\* DeadTasksAreReported, of one connection.
Reported(k) ==
  /\ clients[Owner[k]] = k /\ Dead(k) => ReportedAfter(k, 0)
  /\ \A i \in DOMAIN events :
       events[i] = NewClient(k) /\ Dead(k) => ReportedAfter(k, i)

\* Connections are registered under the name they gave.
NamesMatch == \A n \in Names : clients[n] \in Conns => Owner[clients[n]] = n

\* The inductive invariant.  Reported needs NotYetUp: a connection that is only
\* now announced has no task that could have ended and reported before.
ReportInv ==
  NamesMatch /\ \A k \in Conns : NotYetUp(k) /\ Once(k) /\ Reported(k)

-----------------------------------------------------------------------------
(* What putting an event into the channel, and taking one, does to k.      *)

LEMMA EventsDiffer ==
  /\ \A k, n : NewClient(k) # ClientDisconnected(n)
  /\ \A k, n, m : NewClient(k) # ClientMessage(n, m)
  /\ \A k, c : NewClient(k) # ClipboardChanged(c)
  /\ \A k, j : NewClient(k) = NewClient(j) => k = j
  /\ \A n, m : ClientDisconnected(n) = ClientDisconnected(m) => n = m
  /\ \A n, m, p : ClientDisconnected(n) # ClientMessage(m, p)
  /\ \A n, c : ClientDisconnected(n) # ClipboardChanged(c)
BY DEF NewClient, ClientDisconnected, ClientMessage, ClipboardChanged

\* The channel after Post(e).
LEMMA Posted ==
  ASSUME ServerTypeOK, NEW e, Post(e)
  PROVE  /\ Len(events) \in Nat /\ Len(events') = Len(events) + 1
         /\ DOMAIN events = 1 .. Len(events)
         /\ DOMAIN events' = 1 .. Len(events')
         /\ \A i \in DOMAIN events : events'[i] = events[i]
         /\ events'[Len(events')] = e
BY DEF ServerTypeOK, Post

\* The channel after Take(e).
LEMMA Taken ==
  ASSUME ServerTypeOK, NEW e, Take(e)
  PROVE  /\ Len(events) \in Nat \ {0} /\ Len(events') = Len(events) - 1
         /\ DOMAIN events = 1 .. Len(events)
         /\ DOMAIN events' = 1 .. Len(events')
         /\ \A i \in DOMAIN events' : i + 1 \in DOMAIN events /\ events'[i] = events[i + 1]
         /\ \A i \in DOMAIN events : i = 1 \/ i - 1 \in DOMAIN events'
         /\ 1 \in DOMAIN events /\ events[1] = e
BY DEF ServerTypeOK, Take

\* Nothing that is said of k changes when an event that is not its NewClient is
\* put into the channel, and no task of k ends.
LEMMA PostKeeps ==
  ASSUME ServerTypeOK, NEW e, Post(e), NEW k \in Conns,
         NotYetUp(k), Once(k), Reported(k), e # NewClient(k),
         clients'[Owner[k]] = k => clients[Owner[k]] = k,
         Dead(k)' => Dead(k) \/ e = ClientDisconnected(Owner[k])
  PROVE  /\ Once(k)' /\ Reported(k)'
         /\ Announced(k)' => Announced(k)
<1>1. \A i \in DOMAIN events' : events'[i] = NewClient(k)
        => i \in DOMAIN events /\ events[i] = NewClient(k)
  BY Posted
<1>2. Announced(k)' => Announced(k)
  BY <1>1 DEF Announced
<1>3. Once(k)'
  BY <1>1, <1>2 DEF Once
<1>4. \A i \in Nat : ReportedAfter(k, i) => ReportedAfter(k, i)'
  BY Posted DEF ReportedAfter
<1>5. ASSUME e = ClientDisconnected(Owner[k]), NEW i \in Nat, i <= Len(events)
      PROVE  ReportedAfter(k, i)'
  <2>1. Len(events') \in i + 1 .. Len(events')
    BY <1>5, Posted
  <2> QED
    BY <1>5, <2>1, Posted DEF ReportedAfter
<1>6. Reported(k)'
  <2>1. clients'[Owner[k]] = k /\ Dead(k)' => ReportedAfter(k, 0)'
    BY <1>4, <1>5, Posted DEF Reported
  <2>2. ASSUME NEW i \in DOMAIN events', events'[i] = NewClient(k), Dead(k)'
        PROVE  ReportedAfter(k, i)'
    <3>1. i \in DOMAIN events /\ events[i] = NewClient(k)
      BY <1>1, <2>2
    <3>2. i \in Nat /\ i <= Len(events)
      BY <3>1, Posted
    <3> QED
      BY <1>4, <1>5, <2>2, <3>1, <3>2 DEF Reported
  <2> QED
    BY <2>1, <2>2 DEF Reported
<1> QED
  BY <1>2, <1>3, <1>6

\* Nor when an event is taken that is neither its NewClient nor a report of its
\* name, or when the report removes it.
LEMMA TakeKeeps ==
  ASSUME ServerTypeOK, NEW e, Take(e), NEW k \in Conns,
         NotYetUp(k), Once(k), Reported(k),
         e # NewClient(k) => (clients'[Owner[k]] = k => clients[Owner[k]] = k),
         e = ClientDisconnected(Owner[k]) => clients'[Owner[k]] # k,
         UNCHANGED <<reader, writer>>
  PROVE  /\ Once(k)' /\ Reported(k)'
         /\ Announced(k)' => Announced(k)
<1>1. \A i \in DOMAIN events' : events'[i] = NewClient(k)
        => i + 1 \in DOMAIN events /\ events[i + 1] = NewClient(k)
  BY Taken
<1>2. Announced(k)' => Announced(k)
  BY <1>1 DEF Announced
<1>3. e = NewClient(k) => ~Announced(k)'
  <2> SUFFICES ASSUME e = NewClient(k), NEW i \in DOMAIN events',
                      events'[i] = NewClient(k)
               PROVE  FALSE
    BY DEF Announced
  <2>1. i + 1 = 1
    BY <1>1, Taken DEF Once
  <2> QED
    BY <2>1, Taken
<1>4. Once(k)'
  <2>1. \A i, j \in DOMAIN events' :
          events'[i] = NewClient(k) /\ events'[j] = NewClient(k) => i + 1 = j + 1
    BY <1>1 DEF Once
  <2>2. \A i, j \in DOMAIN events' :
          events'[i] = NewClient(k) /\ events'[j] = NewClient(k) => i = j
    BY <2>1, Taken
  <2>3. clients'[Owner[k]] = k => ~Announced(k)'
    BY <1>2, <1>3 DEF Once
  <2> QED
    BY <2>2, <2>3 DEF Once
<1>5. \A i \in Nat : ReportedAfter(k, i + 1) => ReportedAfter(k, i)'
  <2> SUFFICES ASSUME NEW i \in Nat, NEW j \in (i + 1) + 1 .. Len(events),
                      events[j] = ClientDisconnected(Owner[k])
               PROVE  ReportedAfter(k, i)'
    BY DEF ReportedAfter
  <2>1. j - 1 \in i + 1 .. Len(events')
    BY Taken
  <2>2. events'[j - 1] = events[j]
    BY <2>1, Taken
  <2> QED
    BY <2>1, <2>2 DEF ReportedAfter
<1>6. ReportedAfter(k, 0) /\ e # ClientDisconnected(Owner[k]) => ReportedAfter(k, 1)
  BY Taken DEF ReportedAfter
<1>7. Reported(k)'
  <2>1. Dead(k)' <=> Dead(k)
    BY DEF Dead
  <2>2. ASSUME NEW i \in DOMAIN events', events'[i] = NewClient(k), Dead(k)
        PROVE  ReportedAfter(k, i)'
    <3>1. ReportedAfter(k, i + 1)
      BY <1>1, <2>2 DEF Reported
    <3>2. i \in Nat
      BY Taken
    <3> QED
      BY <1>5, <3>1, <3>2
  <2>3. ASSUME clients'[Owner[k]] = k, Dead(k) PROVE ReportedAfter(k, 0)'
    <3>1. ReportedAfter(k, 1)
      <4>1. CASE e = NewClient(k)
        BY <2>3, <4>1, Taken DEF Reported
      <4>2. CASE e # NewClient(k)
        BY <1>6, <2>3, <4>2 DEF Reported
      <4> QED
        BY <4>1, <4>2
    <3> QED
      BY <1>5, <3>1
  <2> QED
    BY <2>1, <2>2, <2>3 DEF Reported
<1> QED
  BY <1>2, <1>4, <1>7

\* Nor in a step that leaves the channel alone.
LEMMA QuietKeeps ==
  ASSUME UNCHANGED events, NEW k \in Conns, Once(k), Reported(k),
         clients'[Owner[k]] = k => clients[Owner[k]] = k,
         Dead(k)' => Dead(k)
  PROVE  /\ Once(k)' /\ Reported(k)'
         /\ Announced(k)' => Announced(k)
<1>1. Announced(k)' <=> Announced(k)
  BY DEF Announced
<1>2. \A i : ReportedAfter(k, i)' <=> ReportedAfter(k, i)
  BY DEF ReportedAfter
<1>3. Once(k)'
  BY <1>1 DEF Once
<1>4. Reported(k)'
  BY <1>2 DEF Reported
<1> QED
  BY <1>1, <1>3, <1>4

-----------------------------------------------------------------------------
(* The steps.                                                              *)

\* Who sends to a connection that is not up yet?  Nobody.
LEMMA NothingQueued ==
  ASSUME WireAssumption, ServerAssumption, ServerTypeOK, ReportInv,
         NEW k \in Conns, stage[k] # "up",
         NEW targets, NEW m, SendTo(targets, m)
  PROVE  queue'[k] = queue[k]
<1>1. \A n \in Names : clients[n] # k
  BY DEF ReportInv, NamesMatch, NotYetUp
<1>2. \A n : Reachable(n) => n \in Names
  BY DEF Reachable, Registered
<1> QED
  BY <1>1, <1>2 DEF SendTo

LEMMA TaskReports ==
  ASSUME WireAssumption, ServerAssumption, ServerTypeOK, ReportInv,
         NEW j \in Conns, ConnectionTask(j), NEW k \in Conns
  PROVE  NotYetUp(k)' /\ Once(k)' /\ Reported(k)'
<1>1. NotYetUp(k) /\ Once(k) /\ Reported(k) /\ NotYetUp(j)
  BY DEF ReportInv
<1>2. clients' = clients
  BY DEF ConnectionTask, Accept, NoiseHandshake, AppHandshake, HandshakeFails,
     Register, WriterSend, WriterFails, WriterStops, WriterReports,
     ReaderForwards, ReaderReports
<1>3. /\ stage \in [Conns -> Stages] /\ queue \in [Conns -> Seq(Forwarded)]
      /\ writer \in [Conns -> {"none", "run", "ending", "done"}]
      /\ reader \in [Conns -> {"none", "run", "done"}]
  BY DEF ServerTypeOK
<1>4. CASE Accept(j) \/ NoiseHandshake(j) \/ AppHandshake(j) \/ HandshakeFails(j)
  <2> USE DEF Accept, NoiseHandshake, AppHandshake, HandshakeFails, taskVars
  <2>1. UNCHANGED <<events, queue, reader>>
    BY <1>4
  <2>2. Dead(k)' => Dead(k)
    BY <1>3, <1>4 DEF Dead
  <2>3. Once(k)' /\ Reported(k)' /\ (Announced(k)' => Announced(k))
    BY <1>1, <1>2, <2>1, <2>2, QuietKeeps
  <2>4. NotYetUp(k)'
    BY <1>1, <1>2, <1>3, <1>4, <2>1, <2>3 DEF NotYetUp
  <2> QED
    BY <2>3, <2>4
<1>5. CASE Register(j) /\ j = k
  <2>1. stage[k] = "register" /\ stage'[k] = "up" /\ Post(NewClient(k))
    BY <1>3, <1>5 DEF Register
  <2>2. clients'[Owner[k]] # k /\ ~Announced(k) /\ ~Dead(k)'
    BY <1>1, <1>2, <1>3, <1>5, <2>1 DEF NotYetUp, Register, Dead
  <2>3. ASSUME NEW i \in DOMAIN events', events'[i] = NewClient(k)
        PROVE  i = Len(events')
    <3>1. i \in DOMAIN events \/ i = Len(events')
      BY <2>1, Posted
    <3>2. i \in DOMAIN events => events[i] = NewClient(k)
      BY <2>1, <2>3, Posted
    <3> QED
      BY <2>2, <3>1, <3>2 DEF Announced
  <2> QED
    BY <2>1, <2>2, <2>3 DEF NotYetUp, Once, Reported
<1>6. CASE Register(j) /\ j # k
  <2>1. Post(NewClient(j)) /\ NewClient(j) # NewClient(k)
    BY <1>6, EventsDiffer DEF Register
  <2>2. Dead(k)' => Dead(k)
    BY <1>3, <1>6 DEF Register, Dead
  <2>3. Once(k)' /\ Reported(k)' /\ (Announced(k)' => Announced(k))
    BY <1>1, <1>2, <2>1, <2>2, PostKeeps
  <2>4. NotYetUp(k)'
    BY <1>1, <1>2, <1>3, <1>6, <2>3 DEF NotYetUp, Register
  <2> QED
    BY <2>3, <2>4
<1>7. CASE WriterSend(j) \/ WriterFails(j) \/ WriterStops(j)
  <2> USE DEF WriterSend, WriterFails, WriterStops, taskVars
  <2>1. UNCHANGED <<events, stage, reader>>
    BY <1>7
  <2>2. stage[j] = "up"
    BY <1>1, <1>7 DEF NotYetUp, TxAlive
  <2>3. Dead(k)' => Dead(k)
    BY <1>3, <1>7 DEF Dead
  <2>4. Once(k)' /\ Reported(k)' /\ (Announced(k)' => Announced(k))
    BY <1>1, <1>2, <2>1, <2>3, QuietKeeps
  <2>5. k # j => queue'[k] = queue[k] /\ writer'[k] = writer[k]
    BY <1>3, <1>7
  <2>6. NotYetUp(k)'
    BY <1>1, <1>2, <2>1, <2>2, <2>4, <2>5 DEF NotYetUp
  <2> QED
    BY <2>4, <2>6
<1>8. CASE WriterReports(j) \/ ReaderReports(j)
  <2> USE DEF WriterReports, ReaderReports
  <2>1. Post(ClientDisconnected(Owner[j])) /\ UNCHANGED stage
    BY <1>8
  <2>2. stage[j] = "up"
    BY <1>1, <1>8 DEF NotYetUp
  <2>3. k # j => /\ queue'[k] = queue[k]
                 /\ writer'[k] = writer[k] /\ reader'[k] = reader[k]
    BY <1>3, <1>8
  <2>4. Dead(k)' => Dead(k) \/ ClientDisconnected(Owner[j]) = ClientDisconnected(Owner[k])
    BY <2>3 DEF Dead
  <2>5. Once(k)' /\ Reported(k)' /\ (Announced(k)' => Announced(k))
    BY <1>1, <1>2, <2>1, <2>4, PostKeeps, EventsDiffer
  <2>6. NotYetUp(k)'
    BY <1>1, <1>2, <2>1, <2>2, <2>3, <2>5 DEF NotYetUp
  <2> QED
    BY <2>5, <2>6
<1>9. CASE ReaderForwards(j)
  <2>1. PICK m : Post(ClientMessage(Owner[j], m))
    BY <1>9 DEF ReaderForwards
  <2>2. UNCHANGED <<stage, reader, writer, queue>>
    BY <1>9 DEF ReaderForwards, taskVars
  <2>3. Dead(k)' => Dead(k)
    BY <2>2 DEF Dead
  <2>4. Once(k)' /\ Reported(k)' /\ (Announced(k)' => Announced(k))
    BY <1>1, <1>2, <2>1, <2>3, PostKeeps, EventsDiffer
  <2>5. NotYetUp(k)'
    BY <1>1, <1>2, <2>2, <2>4 DEF NotYetUp
  <2> QED
    BY <2>4, <2>5
<1> QED
  BY <1>4, <1>5, <1>6, <1>7, <1>8, <1>9 DEF ConnectionTask

\* Handlers of events: registering and removing.
LEMMA EventReports ==
  ASSUME WireAssumption, ServerAssumption, ServerTypeOK, ReportInv, HandleEvent,
         NEW k \in Conns
  PROVE  NotYetUp(k)' /\ Once(k)' /\ Reported(k)'
<1>1. NotYetUp(k) /\ Once(k) /\ Reported(k)
  BY DEF ReportInv
<1>2. UNCHANGED <<stage, reader, writer>>
  BY DEF HandleEvent, HandleNewClient, HandleSwitchToServer, HandleClipboardData,
     HandleOtherMessage, HandleDisconnect, BroadcastClipboard, taskVars
<1>3. Owner[k] \in Names /\ NoConn \notin Conns
  BY DEF WireAssumption, ServerAssumption
<1>4. clients \in [Names -> Conns \cup {NoConn}]
  BY DEF ServerTypeOK
\* Most handlers change neither the table nor the queue of a connection that
\* is not up.
<1>5. ASSUME NEW e, Take(e), clients' = clients,
             e # NewClient(k), e # ClientDisconnected(Owner[k]),
             stage[k] # "up" => queue'[k] = queue[k]
      PROVE  NotYetUp(k)' /\ Once(k)' /\ Reported(k)'
  <2>1. Once(k)' /\ Reported(k)' /\ (Announced(k)' => Announced(k))
    BY <1>1, <1>2, <1>5, TakeKeeps
  <2>2. NotYetUp(k)'
    BY <1>1, <1>2, <1>5, <2>1 DEF NotYetUp
  <2> QED
    BY <2>1, <2>2
<1>6. ASSUME NEW j \in Conns, HandleNewClient(j)
      PROVE  NotYetUp(k)' /\ Once(k)' /\ Reported(k)'
  <2>1. Take(NewClient(j)) /\ clients' = [clients EXCEPT ![Owner[j]] = j]
          /\ UNCHANGED queue
    BY <1>6 DEF HandleNewClient
  <2>2. NewClient(j) # NewClient(k) => (clients'[Owner[k]] = k => clients[Owner[k]] = k)
    BY <1>3, <1>4, <2>1
  <2>3. NewClient(j) # ClientDisconnected(Owner[k])
    BY EventsDiffer
  <2>4. Once(k)' /\ Reported(k)' /\ (Announced(k)' => Announced(k))
    BY <1>1, <1>2, <2>1, <2>2, <2>3, TakeKeeps
  <2>5. NewClient(j) = NewClient(k) => Announced(k)
    BY <2>1, Taken DEF Announced
  <2>6. NotYetUp(k)'
    BY <1>1, <1>2, <2>1, <2>2, <2>4, <2>5 DEF NotYetUp
  <2> QED
    BY <2>4, <2>6
<1>7. ASSUME NEW n \in Names, HandleDisconnect(n)
      PROVE  NotYetUp(k)' /\ Once(k)' /\ Reported(k)'
  <2>1. Take(ClientDisconnected(n)) /\ clients' = [clients EXCEPT ![n] = NoConn]
          /\ UNCHANGED queue
    BY <1>7 DEF HandleDisconnect
  <2>2. clients'[Owner[k]] = k => clients[Owner[k]] = k
    BY <1>3, <1>4, <2>1
  <2>3. ClientDisconnected(n) = ClientDisconnected(Owner[k]) => clients'[Owner[k]] # k
    BY <1>3, <1>4, <2>1, EventsDiffer
  <2>4. Once(k)' /\ Reported(k)' /\ (Announced(k)' => Announced(k))
    BY <1>1, <1>2, <2>1, <2>2, <2>3, TakeKeeps
  <2>5. NotYetUp(k)'
    BY <1>1, <1>2, <2>1, <2>2, <2>4 DEF NotYetUp
  <2> QED
    BY <2>4, <2>5
<1>8. ASSUME NEW n \in Names, HandleSwitchToServer(n)
      PROVE  NotYetUp(k)' /\ Once(k)' /\ Reported(k)'
  BY <1>5, <1>8, EventsDiffer DEF HandleSwitchToServer
<1>9. ASSUME NEW n \in Names, NEW c \in Contents, HandleClipboardData(n, c)
      PROVE  NotYetUp(k)' /\ Once(k)' /\ Reported(k)'
  <2>1. stage[k] # "up" => queue'[k] = queue[k]
    BY <1>9, NothingQueued DEF HandleClipboardData
  <2> QED
    BY <1>5, <1>9, <2>1, EventsDiffer DEF HandleClipboardData
<1>10. ASSUME NEW n \in Names, NEW m \in ToServer, HandleOtherMessage(n, m)
       PROVE  NotYetUp(k)' /\ Once(k)' /\ Reported(k)'
  BY <1>5, <1>10, EventsDiffer DEF HandleOtherMessage
<1>11. ASSUME NEW c \in Contents, BroadcastClipboard(c)
       PROVE  NotYetUp(k)' /\ Once(k)' /\ Reported(k)'
  <2>1. stage[k] # "up" => queue'[k] = queue[k]
    BY <1>11, NothingQueued DEF BroadcastClipboard
  <2> QED
    BY <1>5, <1>11, <2>1, EventsDiffer DEF BroadcastClipboard
<1> QED
  BY <1>6, <1>7, <1>8, <1>9, <1>10, <1>11 DEF HandleEvent

\* Everything else: input, the clipboard monitor, the shutdown, the peers.
LEMMA OtherReports ==
  ASSUME WireAssumption, ServerAssumption, ServerTypeOK, ReportInv,
         \/ MoveInput \/ ForwardRest \/ Shutdown \/ MonitorTask \/ UNCHANGED vars
         \/ \E m \in Inputs : OtherInput(m)
         \/ \E j \in Conns : PeerStep(j),
         NEW k \in Conns
  PROVE  NotYetUp(k)' /\ Once(k)' /\ Reported(k)'
<1>1. NotYetUp(k) /\ Once(k) /\ Reported(k)
  BY DEF ReportInv
<1>2. UNCHANGED <<clients, stage, reader, writer>>
  BY DEF MoveInput, MoveLocal, SwitchTo, MoveAccumulates, MoveFlushes, OtherInput,
     FlushMotionFirst, ForwardNow, ForwardRest, QueueInput, Shutdown, MonitorTask,
     LocalCopy, RelayCopy, PeerStep, vars, serverVars, taskVars
<1>3. UNCHANGED queue \/ \E targets, m : SendTo(targets, m)
  BY DEF MoveInput, MoveLocal, SwitchTo, MoveAccumulates, MoveFlushes, OtherInput,
     FlushMotionFirst, ForwardNow, ForwardRest, QueueInput, Shutdown, MonitorTask,
     LocalCopy, RelayCopy, PeerStep, vars, serverVars, taskVars
<1>4. UNCHANGED events \/ \E c : Post(ClipboardChanged(c))
  BY DEF MoveInput, MoveLocal, SwitchTo, MoveAccumulates, MoveFlushes, OtherInput,
     FlushMotionFirst, ForwardNow, ForwardRest, QueueInput, Shutdown, MonitorTask,
     LocalCopy, RelayCopy, PeerStep, vars, serverVars, taskVars
<1>5. Dead(k)' => Dead(k)
  BY <1>2 DEF Dead
<1>6. Once(k)' /\ Reported(k)' /\ (Announced(k)' => Announced(k))
  BY <1>1, <1>2, <1>4, <1>5, QuietKeeps, PostKeeps, EventsDiffer
<1>7. stage[k] # "up" => queue'[k] = queue[k]
  BY <1>3, NothingQueued
<1> QED
  BY <1>1, <1>2, <1>6, <1>7 DEF NotYetUp

\* The table of clients changes in two handlers only.
LEMMA NamesStep ==
  ASSUME WireAssumption, ServerAssumption, ServerTypeOK, NamesMatch, [Next]_vars
  PROVE  NamesMatch'
<1>1. \/ UNCHANGED clients
      \/ \E k \in Conns : clients' = [clients EXCEPT ![Owner[k]] = k]
      \/ \E n \in Names : clients' = [clients EXCEPT ![n] = NoConn]
  BY DEF Next, ServerStep, HandleEvent, HandleNewClient, HandleSwitchToServer,
     HandleClipboardData, HandleOtherMessage, HandleDisconnect, BroadcastClipboard,
     MoveInput, MoveLocal, SwitchTo, MoveAccumulates, MoveFlushes, OtherInput,
     FlushMotionFirst, ForwardNow, ForwardRest, QueueInput, Shutdown, MonitorTask,
     LocalCopy, RelayCopy, PeerStep, vars, serverVars,
     ConnectionTask, Accept, NoiseHandshake, AppHandshake, HandshakeFails,
     Register, WriterSend, WriterFails, WriterStops, WriterReports,
     ReaderForwards, ReaderReports
<1>2. clients \in [Names -> Conns \cup {NoConn}]
  BY DEF ServerTypeOK
<1>3. CASE UNCHANGED clients
  BY <1>3 DEF NamesMatch
<1>4. ASSUME NEW k \in Conns, clients' = [clients EXCEPT ![Owner[k]] = k]
      PROVE  NamesMatch'
  BY <1>2, <1>4 DEF NamesMatch
<1>5. ASSUME NEW n \in Names, clients' = [clients EXCEPT ![n] = NoConn]
      PROVE  NamesMatch'
  BY <1>2, <1>5 DEF NamesMatch, ServerAssumption
<1> QED
  BY <1>1, <1>3, <1>4, <1>5

-----------------------------------------------------------------------------
(* The theorems.                                                           *)

LEMMA ReportStart == WireAssumption /\ ServerAssumption /\ Init => ReportInv
BY DEF Init, ServerInit, ReportInv, NamesMatch, NotYetUp, Once, Reported,
   Announced, WireAssumption, ServerAssumption

LEMMA ReportStep ==
  ASSUME WireAssumption, ServerAssumption, ServerTypeOK, ReportInv, [Next]_vars
  PROVE  ReportInv'
<1>1. NamesMatch'
  BY NamesStep DEF ReportInv
<1>2. \A k \in Conns : NotYetUp(k)' /\ Once(k)' /\ Reported(k)'
  BY TaskReports, EventReports, OtherReports DEF Next, ServerStep
<1> QED
  BY <1>1, <1>2 DEF ReportInv

LEMMA ReportInvariant == Spec => []ReportInv
<1>1. Init => ReportInv
  BY ReportStart, WireAssumption, ServerAssumption
<1>2. ServerTypeOK /\ ReportInv /\ [Next]_vars => ReportInv'
  BY ReportStep, WireAssumption, ServerAssumption
<1> QED
  BY <1>1, <1>2, TypeCorrect, PTL DEF Spec

\* For any number of connections, names and events under way: once the reader or
\* the writer of a connection has ended, a report for its name follows its own
\* announcement in the channel, so that it does not stay registered.
THEOREM DeadAreReported == Spec => []DeadTasksAreReported
<1>1. ReportInv => DeadTasksAreReported
  BY DEF ReportInv, Reported, Dead, DeadTasksAreReported
<1> QED
  BY <1>1, ReportInvariant, PTL
=============================================================================
