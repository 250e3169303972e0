-------------------------------- MODULE Wire --------------------------------
(***************************************************************************)
(* The network between the BlueCross server and its clients, as the code  *)
(* in server.rs and client.rs sees it: one TCP connection per member of   *)
(* Conns, each an ordered stream of protocol messages in both directions. *)
(*                                                                         *)
(* A connection is used once.  A client that reconnects (its systemd unit *)
(* restarts it three seconds after "Connection lost") is another member of *)
(* Conns with the same Owner.  Framing and encryption (protocol.rs and    *)
(* secure.rs) are abstracted to the ordered, untampered streams they       *)
(* provide; what they refuse is the message "Malformed".                  *)
(***************************************************************************)
EXTENDS Integers, Sequences

CONSTANTS
  Conns,     \* TCP connections that may ever be made
  Names,     \* client names
  Owner,     \* the name the handshake of each connection carries
  Keys,      \* key codes
  Buttons,   \* mouse button codes
  Contents,  \* non-empty clipboard texts
  NetCap     \* messages a socket buffers in one direction

ASSUME WireAssumption ==
  /\ Owner \in [Conns -> Names]
  /\ NetCap \in Nat \ {0}

VARIABLES
  link,  \* link[k]: "none" before connect, "open", "closed" once the peer
         \* closed its socket, "lost" once the network or the peer vanished
  up,    \* up[k]: messages from the peer that the server has not read
  down,  \* down[k]: messages from the server that the peer has not read
  shut   \* shut[k]: the server closed its writing half (the peer reads EOF
         \* after the messages of down[k])

wireVars == <<link, up, down, shut>>

-----------------------------------------------------------------------------
(* Messages.  Fields no handler reads (x and y of MouseMove, the screen    *)
(* size of HandshakeAck) are left out.                                     *)

Pressed == 1
Released == 0

SwitchToClientMsg(x, y)     == [type |-> "SwitchToClient", x |-> x, y |-> y]
MouseMoveMsg(dx, dy)        == [type |-> "MouseMove", dx |-> dx, dy |-> dy]
KeyEventMsg(code, value)    == [type |-> "KeyEvent", code |-> code, value |-> value]
MouseButtonMsg(code, value) == [type |-> "MouseButton", code |-> code, value |-> value]
MouseScrollMsg              == [type |-> "MouseScroll"]
ClipboardMsg(content)       == [type |-> "ClipboardData", content |-> content]
HandshakeAckMsg             == [type |-> "HandshakeAck"]
NoiseReplyMsg               == [type |-> "NoiseReply"]

\* The first Noise message is sealed with the sender's pre-shared key; all
\* that matters is whether it is the server's key.
NoiseHelloMsg(samePsk)      == [type |-> "NoiseHello", samePsk |-> samePsk]
HandshakeMsg                == [type |-> "Handshake"]
SwitchToServerMsg           == [type |-> "SwitchToServer"]
HeartbeatMsg                == [type |-> "Heartbeat"]
MalformedMsg                == [type |-> "Malformed"]

\* What the server puts on a client's queue (Message values sent with send_to).
Forwarded ==
  [type : {"SwitchToClient"}, x : Int, y : Int]
    \cup [type : {"MouseMove"}, dx : Int, dy : Int]
    \cup [type : {"KeyEvent"}, code : Keys, value : {Pressed, Released}]
    \cup [type : {"MouseButton"}, code : Buttons, value : {Pressed, Released}]
    \cup {MouseScrollMsg}
    \cup [type : {"ClipboardData"}, content : Contents]

ToClient == Forwarded \cup {HandshakeAckMsg, NoiseReplyMsg}

ToServer ==
  [type : {"NoiseHello"}, samePsk : BOOLEAN]
    \cup {HandshakeMsg, SwitchToServerMsg, HeartbeatMsg, MalformedMsg}
    \cup [type : {"ClipboardData"}, content : Contents]

WireTypeOK ==
  /\ link \in [Conns -> {"none", "open", "closed", "lost"}]
  /\ up \in [Conns -> Seq(ToServer)]
  /\ down \in [Conns -> Seq(ToClient)]
  /\ shut \in [Conns -> BOOLEAN]

WireInit ==
  /\ link = [k \in Conns |-> "none"]
  /\ up = [k \in Conns |-> << >>]
  /\ down = [k \in Conns |-> << >>]
  /\ shut = [k \in Conns |-> FALSE]

-----------------------------------------------------------------------------
(* What either side can do with a socket.                                  *)

\* The server writes and flushes m: it blocks while the socket buffer is
\* full; once the peer is gone the bytes may still be accepted and vanish.
ServerWrites(k, m) ==
  IF link[k] = "open"
    THEN Len(down[k]) < NetCap /\ down' = [down EXCEPT ![k] = Append(@, m)]
    ELSE UNCHANGED down

\* A write can report an error only once the peer is gone.
WriteMayFail(k) == link[k] # "open"

\* Mutant: without TCP keepalive a silent peer is never missed.
ReadFailsNoKeepalive(k) ==
  \/ link[k] = "closed" /\ up[k] = << >>
  \/ up[k] # << >> /\ Head(up[k]) = MalformedMsg

\* A read reports EOF or an error when the peer closed and everything it had
\* sent was read, at any point after the connection was lost, and when the
\* next message cannot be decrypted or decoded.
ReadFails(k) ==
  \/ link[k] = "closed" /\ up[k] = << >>
  \/ link[k] = "lost"
  \/ up[k] # << >> /\ Head(up[k]) = MalformedMsg

\* The next message of the peer, m, is read.
ServerReads(k, m) ==
  /\ up[k] # << >>
  /\ m = Head(up[k])
  /\ up' = [up EXCEPT ![k] = Tail(@)]

Connect(k) ==
  /\ link[k] = "none"
  /\ link' = [link EXCEPT ![k] = "open"]
  /\ UNCHANGED <<up, down, shut>>

PeerWrites(k, m) ==
  /\ link[k] = "open"
  /\ Len(up[k]) < NetCap
  /\ up' = [up EXCEPT ![k] = Append(@, m)]

\* What has arrived can be read also after the connection is lost.
PeerReads(k) ==
  /\ link[k] # "closed"
  /\ down[k] # << >>
  /\ down' = [down EXCEPT ![k] = Tail(@)]
  /\ UNCHANGED <<link, up, shut>>

\* The peer's process ends; what it wrote before is still delivered, and what
\* it has not read is gone.
PeerCloses(k) ==
  /\ link[k] = "open"
  /\ link' = [link EXCEPT ![k] = "closed"]
  /\ down' = [down EXCEPT ![k] = << >>]
  /\ UNCHANGED <<up, shut>>

\* The cable is pulled or the peer loses power: TCP keepalive or a
\* retransmission timeout reports it to both ends some time later.
LinkLost(k) ==
  /\ link[k] = "open"
  /\ link' = [link EXCEPT ![k] = "lost"]
  /\ UNCHANGED <<up, down, shut>>
=============================================================================
