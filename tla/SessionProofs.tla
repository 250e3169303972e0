---------------------------- MODULE SessionProofs ---------------------------
(***************************************************************************)
(* Proofs about Session, the server with its real clients: every client    *)
(* behaves like a peer the module Server allows, so that what is proved    *)
(* of the server holds here; and what each client keeps of its own.        *)
(***************************************************************************)
EXTENDS SessionProperties, ControlProofs

-----------------------------------------------------------------------------
(* What every client keeps (the clients do not share state).               *)

\* A client has a socket exactly while it runs: it never writes to or reads from
\* one that it closed.
SocketFollowsPhase(k) ==
  /\ link[k] = "none" <=> phase[k] = "off"
  /\ link[k] = "closed" => phase[k] = "exited"

\* Outside its main loop a client is not active and has nothing under way.
IdleUnlessUp(k) ==
  phase[k] # "up" =>
    /\ ~active[k] /\ edge_push[k] = "no" /\ inbox[k] = << >>
    /\ ~in_batch[k] /\ total[k] = <<0, 0>>

\* The inductive invariant.  PushOnlyAfterGrace needs IdleUnlessUp, as the grace
\* period also starts with the main loop; MotionNeedsControl needs it for a
\* client that exits.
ClientInv(k) ==
  /\ SocketFollowsPhase(k)
  /\ IdleUnlessUp(k)
  /\ in_grace[k] => edge_push[k] = "no"
  /\ total[k] # <<0, 0>> => active[k] /\ in_batch[k]

SessionInv == SessionTypeOK /\ \A k \in Conns : ClientInv(k)

\* The state of one client.
clientAt(k) ==
  <<phase[k], active[k], cursor[k], in_grace[k], edge_push[k], inbox[k], eof[k],
    in_batch[k], total[k], held[k], last_seen[k], noticed[k]>>

-----------------------------------------------------------------------------
(* Messages.                                                               *)

LEMMA FieldTypes ==
  ASSUME NEW m \in ToClient
  PROVE  /\ m.type = "SwitchToClient" => m.x \in Int /\ m.y \in Int
         /\ m.type = "MouseMove" => m.dx \in Int /\ m.dy \in Int
         /\ m.type \in {"KeyEvent", "MouseButton"} => m.code \in HeldThings
         /\ m.type = "ClipboardData" => m.content \in Contents
BY DEF ToClient, Forwarded, HandshakeAckMsg, NoiseReplyMsg, MouseScrollMsg, HeldThings

-----------------------------------------------------------------------------
(* What a client does to its socket, a peer of Server can do.              *)

\* One side of a step of the client of connection k: what happens to the sockets.
SocketStep(k) ==
  \/ UNCHANGED wireVars
  \/ running /\ Connect(k)
  \/ (\E m \in ToServer : PeerWrites(k, m)) /\ UNCHANGED <<link, down, shut>>
  \/ PeerReads(k)
  \/ PeerCloses(k)
  \/ LinkLost(k)

ClientStep(k) ==
  \/ Starts(k) \/ ClientTask(k) \/ ClientStops(k)
  \/ LinkLost(k) /\ UNCHANGED clientVars

LEMMA WritingIsSocketStep ==
  ASSUME NEW k \in Conns, NEW m \in ToServer, ClientWrites(k, m),
         UNCHANGED <<link, down, shut>>
  PROVE  SocketStep(k)
BY DEF ClientWrites, SocketStep, wireVars

LEMMA ReadingIsSocketStep ==
  ASSUME NEW k \in Conns, link[k] # "closed", down[k] # << >>,
         down' = [down EXCEPT ![k] = Tail(@)], UNCHANGED <<link, up, shut>>
  PROVE  SocketStep(k)
BY DEF SocketStep, PeerReads

LEMMA ExitIsSocketStep ==
  ASSUME NEW k \in Conns, Exit(k)
  PROVE  SocketStep(k)
BY DEF Exit, SocketStep

LEMMA ClientUsesSocket ==
  ASSUME SessionTypeOK, NEW k \in Conns, ClientInv(k), ClientStep(k)
  PROVE  SocketStep(k)
<1>1. phase[k] # "exited" => link[k] # "closed"
  BY DEF ClientInv, SocketFollowsPhase
<1>2. /\ NoiseHelloMsg(TRUE) \in ToServer /\ HandshakeMsg \in ToServer
      /\ SwitchToServerMsg \in ToServer /\ HeartbeatMsg \in ToServer
      /\ \A c \in Contents : ClipboardMsg(c) \in ToServer
  BY DEF ToServer, NoiseHelloMsg, ClipboardMsg
<1>3. CASE Starts(k)
  BY <1>3 DEF Starts, ClientConnects, SocketStep
<1>4. CASE LinkLost(k)
  BY <1>4 DEF SocketStep
<1>5. CASE ClientStops(k) \/ ClientGivesUp(k) \/ ConnectionLost(k)
  BY <1>5, ExitIsSocketStep DEF ClientStops, ClientGivesUp, ConnectionLost
<1>6. CASE ClientSaysHello(k) \/ ClientSaysName(k)
  BY <1>2, <1>6, WritingIsSocketStep DEF ClientSaysHello, ClientSaysName, ClientSends
<1>7. CASE ClientGetsReply(k) \/ ClientStarts(k)
  BY <1>1, <1>7, ReadingIsSocketStep DEF ClientGetsReply, ClientStarts, ClientReads
<1>8. CASE ReceiverForwards(k)
  BY <1>1, <1>8, ReadingIsSocketStep DEF ReceiverForwards
<1>9. CASE ControlHandedBack(k) \/ Heartbeat(k)
  BY <1>2, <1>9, WritingIsSocketStep DEF ControlHandedBack, Heartbeat
<1>10. CASE SendCopy(k)
  <2>1. noticed[k] \in Contents
    BY <1>10 DEF SendCopy, SessionTypeOK, ClientTypeOK
  <2> QED
    BY <1>2, <1>10, <2>1, WritingIsSocketStep DEF SendCopy
<1>11. CASE \/ ReceiverEnds(k) \/ ClientApplies(k) \/ MotionInjected(k)
            \/ GraceEnds(k) \/ PushRipens(k) \/ \E c \in Contents : ClientCopy(k, c)
  BY <1>11 DEF SocketStep, ReceiverEnds, ClientApplies, ApplySwitch, ApplyClipboard,
     ApplyKeyOrButton, ApplyMove, ApplyOther, TakeMessage, MotionInjected,
     GraceEnds, PushRipens, ClientCopy
<1> QED
  BY <1>3, <1>4, <1>5, <1>6, <1>7, <1>8, <1>9, <1>10, <1>11 DEF ClientStep, ClientTask

\* A step of a client is a step of the peer at that connection, or nothing the
\* server can notice.
LEMMA ClientIsPeer ==
  ASSUME SessionAssumption, SessionTypeOK, NEW k \in Conns, ClientInv(k),
         ClientStep(k), UNCHANGED serverVars
  PROVE  PeerStep(k) \/ UNCHANGED vars
<1>1. PeerMessages[stage[k]] = ToServer
  BY DEF SessionAssumption, SessionTypeOK, ServerTypeOK
<1> QED
  BY <1>1, ClientUsesSocket DEF SocketStep, PeerStep, vars

LEMMA SessionMaps ==
  ASSUME SessionAssumption, SessionInv, [SessionNext]_sessionVars
  PROVE  [Next]_vars
<1>1. CASE ServerMoves
  BY <1>1 DEF ServerMoves, Next, ServerStep
<1>2. ASSUME NEW m \in Inputs, UserPresses(m) \/ UserScrolls(m) PROVE [Next]_vars
  BY <1>2 DEF UserPresses, UserScrolls, Next, ServerStep, vars
<1>3. ASSUME NEW k \in Conns, ClientStep(k), UNCHANGED serverVars PROVE [Next]_vars
  BY <1>3, ClientIsPeer DEF SessionInv, Next
<1>4. CASE UNCHANGED sessionVars
  BY <1>4 DEF sessionVars, vars
<1> QED
  BY <1>1, <1>2, <1>3, <1>4 DEF SessionNext, ClientStep

-----------------------------------------------------------------------------
(* Types and invariants of the clients, action by action.                  *)

\* The process ends.
LEMMA ExitKeeps ==
  ASSUME SessionTypeOK, NEW k \in Conns, ClientInv(k), phase[k] # "off", Exit(k)
  PROVE  ClientTypeOK' /\ ClientInv(k)'
<1> USE DEF SessionTypeOK, ClientTypeOK, Phases, Edges
<1>1. ClientTypeOK'
  BY ClientAssumption DEF Exit, ClientAssumption
<1>2. link'[k] \notin {"none", "open"} /\ phase'[k] = "exited"
  BY DEF Exit, PeerCloses, wireVars, ClientInv, SocketFollowsPhase, ServerTypeOK, WireTypeOK
<1>3. /\ ~active'[k] /\ edge_push'[k] = "no" /\ inbox'[k] = << >>
      /\ ~in_batch'[k] /\ total'[k] = <<0, 0>>
  BY DEF Exit
<1> QED
  BY <1>1, <1>2, <1>3 DEF ClientInv, SocketFollowsPhase, IdleUnlessUp

\* Connecting, and the handshake.
LEMMA HandshakeKeeps ==
  ASSUME SessionTypeOK, NEW k \in Conns, ClientInv(k),
         Starts(k) \/ ClientSaysHello(k) \/ ClientGetsReply(k)
           \/ ClientSaysName(k) \/ ClientStarts(k)
  PROVE  ClientTypeOK' /\ ClientInv(k)'
<1> USE DEF SessionTypeOK, ClientTypeOK, Phases, Edges, pointerVars, batchVars, seenVars
<1>1. CASE Starts(k)
  <2>1. /\ phase[k] = "off" /\ phase' = [phase EXCEPT ![k] = "tcp"]
        /\ UNCHANGED <<active, pointerVars, inbox, eof, batchVars, held, seenVars>>
        /\ link' = [link EXCEPT ![k] = "open"]
    BY <1>1 DEF Starts, ClientConnects, Connect
  <2>2. phase'[k] = "tcp" /\ link'[k] = "open"
    BY <2>1 DEF ServerTypeOK, WireTypeOK
  <2> QED
    BY <2>1, <2>2 DEF ClientInv, SocketFollowsPhase, IdleUnlessUp
<1>2. ASSUME NEW from \in {"tcp", "secure"}, NEW to \in {"noise", "ack"}, NEW m,
             ClientSends(k, from, m, to)
      PROVE  ClientTypeOK' /\ ClientInv(k)'
  BY <1>2 DEF ClientSends, ClientInv, SocketFollowsPhase, IdleUnlessUp
<1>3. CASE ClientGetsReply(k)
  BY <1>3 DEF ClientGetsReply, ClientInv, SocketFollowsPhase, IdleUnlessUp
<1>4. CASE ClientStarts(k)
  <2>1. ClientTypeOK'
    BY <1>4 DEF ClientStarts
  <2>2. ClientInv(k)'
    BY <1>4 DEF ClientStarts, ClientInv, SocketFollowsPhase, IdleUnlessUp
  <2> QED
    BY <2>1, <2>2
<1> QED
  BY <1>1, <1>2, <1>3, <1>4 DEF ClientSaysHello, ClientSaysName

\* The reader task.
LEMMA ReceiverKeeps ==
  ASSUME SessionTypeOK, NEW k \in Conns, ClientInv(k),
         ReceiverForwards(k) \/ ReceiverEnds(k)
  PROVE  ClientTypeOK' /\ ClientInv(k)'
<1> USE DEF SessionTypeOK, ClientTypeOK, pointerVars, batchVars, seenVars
<1>1. CASE ReceiverForwards(k)
  <2>1. down[k] \in Seq(ToClient) /\ Head(down[k]) \in ToClient
    BY <1>1 DEF ReceiverForwards, ServerTypeOK, WireTypeOK
  <2>2. inbox' \in [Conns -> Seq(ToClient)]
    BY <1>1, <2>1, AppendAt DEF ReceiverForwards
  <2>3. InboxCap \in Nat
    BY ClientAssumption DEF ClientAssumption
  <2>4. \A j \in Conns : Len(inbox'[j]) <= InboxCap
    BY <1>1, <2>1, <2>3 DEF ReceiverForwards
  <2>5. ClientTypeOK'
    BY <1>1, <2>2, <2>4 DEF ReceiverForwards
  <2>6. ClientInv(k)'
    BY <1>1 DEF ReceiverForwards, ClientInv, SocketFollowsPhase, IdleUnlessUp
  <2> QED
    BY <2>5, <2>6
<1>2. CASE ReceiverEnds(k)
  BY <1>2 DEF ReceiverEnds, wireVars, ClientInv, SocketFollowsPhase, IdleUnlessUp
<1> QED
  BY <1>1, <1>2

\* apply_message.
LEMMA TakingKeeps ==
  ASSUME SessionTypeOK, NEW k \in Conns, NEW m, TakeMessage(k, m)
  PROVE  /\ m \in ToClient
         /\ inbox' \in [Conns -> Seq(ToClient)]
         /\ \A j \in Conns : Len(inbox'[j]) <= InboxCap
         /\ in_batch' \in [Conns -> BOOLEAN]
         /\ in_batch'[k] /\ phase'[k] = "up"
         /\ UNCHANGED <<link, phase, eof, noticed>>
<1> USE DEF SessionTypeOK, ClientTypeOK, TakeMessage
<1>1. /\ inbox' \in [Conns -> Seq(ToClient)] /\ Head(inbox[k]) \in ToClient
      /\ Len(Tail(inbox[k])) = Len(inbox[k]) - 1
  BY TailAt
<1>2. InboxCap \in Nat /\ Len(inbox[k]) \in Nat
  BY ClientAssumption DEF ClientAssumption
<1>3. \A j \in Conns : Len(inbox'[j]) <= InboxCap
  BY <1>1, <1>2
<1>4. in_batch' \in [Conns -> BOOLEAN] /\ in_batch'[k]
  OBVIOUS
<1> QED
  BY <1>1, <1>3, <1>4 DEF wireVars

LEMMA ApplyingKeeps ==
  ASSUME SessionTypeOK, NEW k \in Conns, ClientInv(k), ClientApplies(k)
  PROVE  ClientTypeOK' /\ ClientInv(k)'
<1> DEFINE m == Head(inbox[k])
<1> USE DEF pointerVars
<1>1. TakeMessage(k, m)
  BY DEF ClientApplies, ApplySwitch, ApplyClipboard, ApplyKeyOrButton, ApplyMove, ApplyOther
<1>2. /\ m \in ToClient
      /\ inbox' \in [Conns -> Seq(ToClient)]
      /\ \A j \in Conns : Len(inbox'[j]) <= InboxCap
      /\ in_batch' \in [Conns -> BOOLEAN]
      /\ in_batch'[k] /\ phase'[k] = "up"
      /\ UNCHANGED <<link, phase, eof, noticed>>
  BY <1>1, TakingKeeps
<1>3. SocketFollowsPhase(k)' /\ IdleUnlessUp(k)'
  BY <1>2 DEF ClientInv, SocketFollowsPhase, IdleUnlessUp
<1> HIDE DEF m
<1> USE DEF SessionTypeOK, ClientTypeOK
<1>4. CASE ApplySwitch(k)
  <2>1. m.x \in Int /\ m.y \in Int
    BY <1>2, <1>4, FieldTypes DEF ApplySwitch, m
  <2>2. /\ active' = [active EXCEPT ![k] = TRUE]
        /\ in_grace' = [in_grace EXCEPT ![k] = TRUE]
        /\ edge_push' = [edge_push EXCEPT ![k] = "no"]
        /\ cursor' = [cursor EXCEPT ![k] = <<m.x, m.y>>]
        /\ UNCHANGED <<total, held, last_seen>>
    BY <1>4 DEF ApplySwitch, m
  <2>3. ClientTypeOK'
    BY <1>2, <2>1, <2>2 DEF Edges
  <2>4. active'[k] /\ edge_push'[k] = "no"
    BY <2>2
  <2> QED
    BY <1>2, <1>3, <2>3, <2>4 DEF ClientInv
<1>5. CASE ApplyClipboard(k)
  <2>1. m.content \in Contents
    BY <1>2, <1>5, FieldTypes DEF ApplyClipboard, m
  <2>2. /\ last_seen' = [last_seen EXCEPT ![k] = IF Sharing THEN m.content ELSE @]
        /\ UNCHANGED <<active, cursor, in_grace, edge_push, total, held>>
    BY <1>5 DEF ApplyClipboard, m
  <2> QED
    BY <1>2, <1>3, <2>1, <2>2 DEF ClientInv
<1>6. CASE ApplyKeyOrButton(k)
  <2>1. m.code \in HeldThings
    BY <1>2, <1>6, FieldTypes DEF ApplyKeyOrButton, m
  <2>2. /\ held' = [held EXCEPT ![k] = IF m.value = Pressed THEN @ \cup {m.code}
                                                           ELSE @ \ {m.code}]
        /\ UNCHANGED <<active, cursor, in_grace, edge_push, total, last_seen>>
    BY <1>6 DEF ApplyKeyOrButton, m
  <2> QED
    BY <1>2, <1>3, <2>1, <2>2 DEF ClientInv
<1>7. CASE ApplyMove(k)
  <2>1. m.dx \in Int /\ m.dy \in Int /\ active[k]
    BY <1>2, <1>7, FieldTypes DEF ApplyMove, m
  <2>2. /\ total' = [total EXCEPT ![k] = <<@[1] + m.dx, @[2] + m.dy>>]
        /\ UNCHANGED <<active, cursor, in_grace, edge_push, held, last_seen>>
    BY <1>7 DEF ApplyMove, m
  <2>3. total' \in [Conns -> Int \X Int]
    BY <2>1, <2>2
  <2> QED
    BY <1>2, <1>3, <2>1, <2>2, <2>3 DEF ClientInv
<1>8. CASE ApplyOther(k)
  <2>1. UNCHANGED <<active, cursor, in_grace, edge_push, total, held, last_seen>>
    BY <1>8 DEF ApplyOther
  <2> QED
    BY <1>2, <1>3, <2>1 DEF ClientInv
<1> QED
  BY <1>4, <1>5, <1>6, <1>7, <1>8 DEF ClientApplies

\* check_exit_edge and what follows.
LEMMA MovedOnScreen ==
  ASSUME ClientTypeOK, NEW k \in Conns
  PROVE  Moved(k) \in Int \X Int
<1>1. /\ cursor[k] \in Int \X Int /\ total[k] \in Int \X Int
      /\ ScreenW[k] \in Int /\ ScreenH[k] \in Int
  BY ClientAssumption DEF ClientTypeOK, ClientAssumption
<1>2. /\ cursor[k][1] + total[k][1] \in Int /\ cursor[k][2] + total[k][2] \in Int
      /\ ScreenW[k] - 1 \in Int /\ ScreenH[k] - 1 \in Int
  BY <1>1
<1>3. \A v, hi \in Int : Clamp(v, 0, hi) \in Int
  BY DEF Clamp
<1>4. /\ Clamp(cursor[k][1] + total[k][1], 0, ScreenW[k] - 1) \in Int
      /\ Clamp(cursor[k][2] + total[k][2], 0, ScreenH[k] - 1) \in Int
  BY <1>2, <1>3
<1> QED
  BY <1>4 DEF Moved

LEMMA NextPushKind ==
  ASSUME ClientTypeOK, NEW k \in Conns
  PROVE  /\ NextEdgePush(k) \in Edges
         /\ in_grace[k] => NextEdgePush(k) = edge_push[k]
BY DEF ClientTypeOK, NextEdgePush, Edges

LEMMA EndingKeeps ==
  ASSUME SessionTypeOK, NEW k \in Conns, ClientInv(k),
         MotionInjected(k) \/ ControlHandedBack(k)
  PROVE  ClientTypeOK' /\ ClientInv(k)'
<1> USE DEF SessionTypeOK, ClientTypeOK
<1>1. /\ phase[k] = "up" /\ UNCHANGED <<link, phase, in_grace, inbox, eof, held, seenVars>>
      /\ in_batch' = [in_batch EXCEPT ![k] = FALSE]
      /\ total' = [total EXCEPT ![k] = <<0, 0>>]
  BY DEF MotionInjected, ControlHandedBack, BatchDone, EndBatch, wireVars
<1>2. SocketFollowsPhase(k)' /\ IdleUnlessUp(k)' /\ total'[k] = <<0, 0>>
  BY <1>1 DEF ClientInv, SocketFollowsPhase, IdleUnlessUp
<1>3. Moved(k) \in Int \X Int /\ NextEdgePush(k) \in Edges
  BY MovedOnScreen, NextPushKind
<1>4. CASE MotionInjected(k)
  <2>1. /\ cursor' = cursor \/ cursor' = [cursor EXCEPT ![k] = Moved(k)]
        /\ edge_push' = edge_push \/ edge_push' = [edge_push EXCEPT ![k] = NextEdgePush(k)]
        /\ active' = active
    BY <1>4 DEF MotionInjected
  <2>2. cursor' \in [Conns -> Int \X Int]
    BY <1>3, <2>1
  <2>3. edge_push' \in [Conns -> Edges]
    BY <1>3, <2>1
  <2>4. in_grace'[k] => edge_push'[k] = "no"
    BY <1>1, <2>1, NextPushKind DEF ClientInv
  <2>5. ClientTypeOK'
    <3>1. active' = active
      BY <2>1
    <3>2. total' \in [Conns -> Int \X Int] /\ in_batch' \in [Conns -> BOOLEAN]
      BY <1>1
    <3> QED
      BY <1>1, <2>2, <2>3, <3>1, <3>2 DEF seenVars
  <2>6. ClientInv(k)'
    BY <1>2, <2>4 DEF ClientInv
  <2> QED
    BY <2>5, <2>6
<1>5. CASE ControlHandedBack(k)
  <2>1. /\ cursor' = [cursor EXCEPT ![k] = Moved(k)]
        /\ edge_push' = [edge_push EXCEPT ![k] = "no"]
        /\ active' = [active EXCEPT ![k] = FALSE]
    BY <1>5 DEF ControlHandedBack
  <2>2. cursor' \in [Conns -> Int \X Int] /\ edge_push' \in [Conns -> Edges]
          /\ edge_push'[k] = "no"
    BY <1>3, <2>1 DEF Edges
  <2> QED
    BY <1>1, <1>2, <2>1, <2>2 DEF ClientInv, seenVars
<1> QED
  BY <1>4, <1>5

\* Timers, heartbeats, the clipboard, and the network.
LEMMA TimersKeep ==
  ASSUME SessionTypeOK, NEW k \in Conns, ClientInv(k),
         \/ GraceEnds(k) \/ PushRipens(k) \/ Heartbeat(k)
         \/ (\E c \in Contents : ClientCopy(k, c)) \/ SendCopy(k)
         \/ LinkLost(k) /\ UNCHANGED clientVars
  PROVE  ClientTypeOK' /\ ClientInv(k)'
<1> USE DEF SessionTypeOK, ClientTypeOK, ClientInv, SocketFollowsPhase, IdleUnlessUp,
            clientVars, pointerVars, batchVars, seenVars, wireVars
<1>1. CASE GraceEnds(k)
  BY <1>1 DEF GraceEnds
<1>2. CASE PushRipens(k)
  BY <1>2 DEF PushRipens, Edges
<1>3. CASE Heartbeat(k)
  BY <1>3 DEF Heartbeat
<1>4. ASSUME NEW c \in Contents, ClientCopy(k, c) PROVE ClientTypeOK' /\ ClientInv(k)'
  BY <1>4 DEF ClientCopy
<1>5. CASE SendCopy(k)
  BY <1>5 DEF SendCopy
<1>6. CASE LinkLost(k) /\ UNCHANGED clientVars
  BY <1>6 DEF LinkLost, ServerTypeOK, WireTypeOK
<1> QED
  BY <1>1, <1>2, <1>3, <1>4, <1>5, <1>6

LEMMA OwnStep ==
  ASSUME SessionTypeOK, NEW k \in Conns, ClientInv(k), ClientStep(k)
  PROVE  ClientTypeOK' /\ ClientInv(k)'
<1>1. CASE ClientGivesUp(k) \/ ConnectionLost(k) \/ ClientStops(k)
  <2>1. Exit(k) /\ phase[k] # "off"
    BY <1>1 DEF ClientGivesUp, ConnectionLost, ClientStops
  <2> QED
    BY <2>1, ExitKeeps
<1> QED
  BY <1>1, HandshakeKeeps, ReceiverKeeps, ApplyingKeeps, EndingKeeps, TimersKeep
     DEF ClientStep, ClientTask

\* A client's step changes nothing of another client.
LEMMA OthersStay ==
  ASSUME NEW k \in Conns, ClientStep(k), NEW j \in Conns, j # k, SessionTypeOK
  PROVE  UNCHANGED <<link[j], up[j], down[j], clientAt(j)>>
<1> USE DEF clientAt, clientVars, pointerVars, batchVars, seenVars, wireVars,
            SessionTypeOK, ClientTypeOK, ServerTypeOK, WireTypeOK
<1>1. ASSUME Exit(k) PROVE UNCHANGED <<link[j], up[j], down[j], clientAt(j)>>
  BY <1>1 DEF Exit, PeerCloses
<1>2. CASE Starts(k)
  BY <1>2 DEF Starts, ClientConnects, Connect
<1>3. CASE LinkLost(k) /\ UNCHANGED clientVars
  BY <1>3 DEF LinkLost
<1>4. CASE ClientSaysHello(k) \/ ClientSaysName(k)
  BY <1>4 DEF ClientSaysHello, ClientSaysName, ClientSends, ClientWrites, PeerWrites
<1>5. CASE ClientGetsReply(k)
  BY <1>5 DEF ClientGetsReply, ClientReads
<1>6. CASE ClientStarts(k)
  BY <1>6 DEF ClientStarts, ClientReads
<1>7. CASE ReceiverForwards(k) \/ ReceiverEnds(k)
  BY <1>7 DEF ReceiverForwards, ReceiverEnds
<1>8. CASE ClientApplies(k)
  <2>1. CASE ApplySwitch(k)
    BY <2>1 DEF ApplySwitch, TakeMessage
  <2>2. CASE ApplyClipboard(k)
    BY <2>2 DEF ApplyClipboard, TakeMessage
  <2>3. CASE ApplyKeyOrButton(k)
    BY <2>3 DEF ApplyKeyOrButton, TakeMessage
  <2>4. CASE ApplyMove(k)
    BY <2>4 DEF ApplyMove, TakeMessage
  <2>5. CASE ApplyOther(k)
    BY <2>5 DEF ApplyOther, TakeMessage
  <2> QED
    BY <1>8, <2>1, <2>2, <2>3, <2>4, <2>5 DEF ClientApplies
<1>9. CASE MotionInjected(k)
  BY <1>9 DEF MotionInjected, EndBatch
<1>10. CASE ControlHandedBack(k)
  BY <1>10 DEF ControlHandedBack, EndBatch, ClientWrites, PeerWrites
<1>11. CASE GraceEnds(k) \/ PushRipens(k) \/ Heartbeat(k)
  BY <1>11 DEF GraceEnds, PushRipens, Heartbeat, ClientWrites, PeerWrites
<1>12. CASE SendCopy(k) \/ \E c \in Contents : ClientCopy(k, c)
  <2>1. CASE SendCopy(k)
    BY <2>1 DEF SendCopy, ClientWrites, PeerWrites
  <2>2. ASSUME NEW c \in Contents, ClientCopy(k, c)
        PROVE  UNCHANGED <<link[j], up[j], down[j], clientAt(j)>>
    BY <2>2 DEF ClientCopy, ClientWrites, PeerWrites
  <2> QED
    BY <1>12, <2>1, <2>2
<1> QED
  BY <1>1, <1>2, <1>3, <1>4, <1>5, <1>6, <1>7, <1>8, <1>9, <1>10, <1>11, <1>12
     DEF ClientStep, ClientTask, ClientGivesUp, ConnectionLost, ClientStops

-----------------------------------------------------------------------------
(* The whole system.                                                       *)

LEMMA ServerKeepsLinks ==
  ServerMoves \/ (\E m \in Inputs : OtherInput(m)) => UNCHANGED link
<1> USE DEF wireVars
<1>1. (\E k \in Conns : ConnectionTask(k)) => UNCHANGED link
  BY DEF ConnectionTask, Accept, NoiseHandshake, AppHandshake, HandshakeFails,
     Register, WriterSend, WriterFails, WriterStops, WriterReports,
     ReaderForwards, ReaderReports
<1>2. HandleEvent \/ MonitorTask \/ Shutdown => UNCHANGED link
  BY DEF HandleEvent, HandleNewClient, HandleSwitchToServer, HandleClipboardData,
     HandleOtherMessage, HandleDisconnect, BroadcastClipboard, MonitorTask,
     LocalCopy, RelayCopy, Shutdown
<1>3. MoveInput \/ ForwardRest \/ (\E m \in Inputs : OtherInput(m)) => UNCHANGED link
  BY DEF MoveInput, MoveLocal, SwitchTo, MoveAccumulates, MoveFlushes, OtherInput,
     FlushMotionFirst, ForwardNow, ForwardRest, QueueInput
<1> QED
  BY <1>1, <1>2, <1>3 DEF ServerMoves

\* What a client keeps depends on its own state and its socket only.
LEMMA UntouchedClient ==
  ASSUME NEW j, ClientInv(j), UNCHANGED <<link[j], clientAt(j)>>
  PROVE  ClientInv(j)'
BY DEF ClientInv, SocketFollowsPhase, IdleUnlessUp, clientAt

LEMMA UntouchedClients ==
  ASSUME UNCHANGED <<link, clientVars>>
  PROVE  /\ ClientTypeOK => ClientTypeOK'
         /\ \A j \in Conns : ClientInv(j) => ClientInv(j)'
BY DEF clientVars, pointerVars, batchVars, seenVars, ClientTypeOK, ClientInv,
       SocketFollowsPhase, IdleUnlessUp

LEMMA SessionStart == WireAssumption /\ ServerAssumption /\ SessionInit => SessionInv
<1> SUFFICES ASSUME WireAssumption, ServerAssumption, SessionInit PROVE SessionInv
  OBVIOUS
<1>1. ServerTypeOK
  BY InitType DEF SessionInit, Init
<1>2. ClientTypeOK
  BY ClientAssumption DEF SessionInit, ClientInit, ClientTypeOK, ClientAssumption,
     Phases, Edges
<1>3. \A k \in Conns : ClientInv(k)
  BY DEF SessionInit, ClientInit, WireInit, ClientInv, SocketFollowsPhase, IdleUnlessUp
<1> QED
  BY <1>1, <1>2, <1>3 DEF SessionInv, SessionTypeOK, SessionInit

LEMMA SessionStep ==
  ASSUME SessionInv, [SessionNext]_sessionVars
  PROVE  SessionInv'
<1>1. ServerTypeOK'
  BY SessionMaps, StepType, WireAssumption, ServerAssumption, SessionAssumption
     DEF SessionInv, SessionTypeOK
<1> USE DEF SessionInv, SessionTypeOK
<1>2. CASE ServerMoves /\ UNCHANGED <<clientVars, pressed>>
  BY <1>1, <1>2, ServerKeepsLinks, UntouchedClients
<1>3. ASSUME NEW m \in Inputs, UserPresses(m) \/ UserScrolls(m), UNCHANGED clientVars
      PROVE  SessionInv'
  <2>1. UNCHANGED link
    BY <1>3, ServerKeepsLinks DEF UserPresses, UserScrolls, wireVars
  <2>2. m.type # "MouseScroll" => m.code \in HeldThings
    <3>1. m \in ToClient /\ m.type \in {"KeyEvent", "MouseButton", "MouseScroll"}
      BY ServerAssumption DEF ServerAssumption, ToClient
    <3> QED
      BY <3>1, FieldTypes
  <2>3. pressed' \subseteq HeldThings
    BY <1>3, <2>2 DEF UserPresses, UserScrolls
  <2> QED
    BY <1>1, <1>3, <2>1, <2>3, UntouchedClients
<1>4. ASSUME NEW k \in Conns, ClientStep(k), UNCHANGED <<serverVars, pressed>>
      PROVE  SessionInv'
  <2>1. ClientTypeOK' /\ ClientInv(k)'
    BY <1>4, OwnStep
  <2>2. ASSUME NEW j \in Conns, j # k PROVE ClientInv(j)'
    BY <1>4, <2>2, OthersStay, UntouchedClient
  <2> QED
    BY <1>1, <1>4, <2>1, <2>2
<1>5. CASE UNCHANGED sessionVars
  BY <1>1, <1>5, UntouchedClients DEF sessionVars, wireVars
<1> QED
  BY <1>2, <1>3, <1>4, <1>5 DEF SessionNext, ClientStep

LEMMA SessionInvariant == SessionSpec => []SessionInv
<1>1. SessionInit => SessionInv
  BY SessionStart, WireAssumption, ServerAssumption
<1>2. SessionInv /\ [SessionNext]_sessionVars => SessionInv'
  BY SessionStep
<1> QED
  BY <1>1, <1>2, PTL DEF SessionSpec

\* Every variable of server, network, clients and user keeps its type, and no
\* queue, channel or inbox exceeds its capacity.
THEOREM SessionTypes == SessionSpec => []SessionTypeOK
<1>1. SessionInv => SessionTypeOK
  BY DEF SessionInv
<1> QED
  BY <1>1, SessionInvariant, PTL

\* However sessions, pushes and timers follow each other, a client within its
\* grace period is not counting a push against the exit edge.
THEOREM GraceComesFirst == SessionSpec => []PushOnlyAfterGrace
<1>1. SessionInv => PushOnlyAfterGrace
  BY DEF SessionInv, ClientInv, PushOnlyAfterGrace
<1> QED
  BY <1>1, SessionInvariant, PTL

\* Motion is summed up only in a batch of a client in control: handing control
\* back, losing the connection and stopping leave none behind.
THEOREM MotionIsControlled == SessionSpec => []MotionNeedsControl
<1>1. SessionInv => MotionNeedsControl
  BY DEF SessionInv, ClientInv, MotionNeedsControl
<1> QED
  BY <1>1, SessionInvariant, PTL

\* The server with its real clients behaves as the server with arbitrary peers:
\* the clients write only while they have a connection, and the user and the
\* faults only do what Server allows.
THEOREM SessionImplementsServer == SessionSpec => ImplementsServer
<1>1. SessionInit => Init
  BY DEF SessionInit, Init
<1>2. SessionInv /\ [SessionNext]_sessionVars => [Next]_vars
  BY SessionMaps, SessionAssumption
<1> QED
  BY <1>1, <1>2, SessionInvariant, PTL DEF SessionSpec, Spec, ImplementsServer

\* So what is proved of the server holds with the real clients: in particular it
\* implements Control.
THEOREM SessionImplementsControl == SessionSpec => ImplementsControl
BY SessionImplementsServer, ServerImplementsControl, PTL DEF ImplementsServer
=============================================================================
