------------------------------- MODULE Session ------------------------------
(***************************************************************************)
(* The whole system: one server and real clients at the other end of its   *)
(* connections, over a network that may lose a connection, with a user who *)
(* moves one mouse and types on one keyboard.                              *)
(***************************************************************************)
EXTENDS Server, Client

CONSTANT Faults  \* bound of the model: which of "link", "client", "server" may
                 \* fail or be stopped

\* (The bound PeerMessages of module Server is left open: what the peers say is
\* what the clients write.)
ASSUME SessionAssumption ==
  /\ Faults \subseteq {"link", "client", "server"}
  /\ PeerMessages = [s \in Stages |-> ToServer]
  /\ \A k \in Conns : Owner[k] \in Configured =>
       /\ PositionOf[k] = Position[Owner[k]]
       /\ ScreenW[k] = ClientWidth[Owner[k]]
       /\ ScreenH[k] = ClientHeight[Owner[k]]

VARIABLE pressed  \* the keys and buttons the user's hands hold down

peerVars == <<wireVars, clientVars>>
sessionVars == <<wireVars, serverVars, clientVars, pressed>>

SessionTypeOK == ServerTypeOK /\ ClientTypeOK /\ pressed \subseteq HeldThings

SessionInit == WireInit /\ ServerInit /\ ClientInit /\ pressed = {}

\* The user presses or releases a key or button; only a server that has a client
\* active forwards it.
UserPresses(m) ==
  /\ m.type # "MouseScroll"
  /\ IF m.value = Pressed THEN m.code \notin pressed ELSE m.code \in pressed
  /\ pressed' = IF m.value = Pressed THEN pressed \cup {m.code}
                                     ELSE pressed \ {m.code}
  /\ \/ OtherInput(m)
     \/ (active_client = NoName \/ ~running) /\ UNCHANGED <<wireVars, serverVars>>

UserScrolls(m) ==
  /\ m.type = "MouseScroll"
  /\ OtherInput(m)
  /\ UNCHANGED pressed

ServerMoves ==
  \/ HandleEvent \/ MoveInput \/ ForwardRest \/ MonitorTask
  \/ "server" \in Faults /\ Shutdown
  \/ \E k \in Conns : ConnectionTask(k)

\* A client that is started while an earlier one of the same name still runs
\* refuses (its pid file), and the server must be there to connect to.
Starts(k) ==
  /\ running
  /\ \A j \in Conns : Owner[j] = Owner[k] => phase[j] \in {"off", "exited"}
  /\ ClientConnects(k)

SessionNext ==
  \/ ServerMoves /\ UNCHANGED <<clientVars, pressed>>
  \/ \E m \in Inputs : (UserPresses(m) \/ UserScrolls(m)) /\ UNCHANGED clientVars
  \/ \E k \in Conns :
       /\ \/ Starts(k)
          \/ ClientTask(k)
          \/ "client" \in Faults /\ ClientStops(k)
          \/ "link" \in Faults /\ LinkLost(k) /\ UNCHANGED clientVars
       /\ UNCHANGED <<serverVars, pressed>>

SessionSpec == SessionInit /\ [][SessionNext]_sessionVars

\* The server's fairness, and every task of a client runs when it can.  A batch
\* ends (strong fairness) because a message takes microseconds to apply and
\* milliseconds to arrive; select! serves the clipboard in its turn.  Nothing is
\* assumed of the user, or of clients being started or stopped.
ClientFairness(k) ==
  /\ WF_peerVars(ClientSaysHello(k) \/ ClientGetsReply(k) \/ ClientSaysName(k)
                   \/ ClientStarts(k) \/ ClientGivesUp(k)
                   \/ ClientApplies(k) \/ ConnectionLost(k))
  /\ WF_peerVars(ReceiverForwards(k) \/ ReceiverEnds(k))
  /\ SF_peerVars(MotionInjected(k) \/ ControlHandedBack(k))
  /\ SF_peerVars(SendCopy(k))

SessionFairSpec ==
  /\ SessionSpec
  /\ ServerFairness
  /\ \A k \in Conns : ClientFairness(k)
=============================================================================
