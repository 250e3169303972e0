------------------------------ MODULE MCServer ------------------------------
(***************************************************************************)
(* Instances of Server for TLC.                                            *)
(***************************************************************************)
EXTENDS ServerProperties, TLC

CONSTANTS c1, c2, left

\* Two connections of one client.
OneOwner == c1 :> left @@ c2 :> left

LeftPosition == left :> "Left"
Width200 == [n \in Names |-> 200]

\* Peers that say anything at any time, and peers that keep to the protocol.
SayAnything == [s \in Stages |-> ToServer]
KeepToProtocol ==
  [s \in Stages |->
     CASE s = "noise" -> {NoiseHelloMsg(TRUE)}
       [] s = "app"   -> {HandshakeMsg}
       [] s = "up"    -> {SwitchToServerMsg}
       [] OTHER       -> {}]

TypingAndScrolling ==
  [type : {"KeyEvent"}, code : Keys, value : {Pressed, Released}]
    \cup [type : {"MouseButton"}, code : Buttons, value : {Pressed, Released}]
    \cup {MouseScrollMsg}

\* Two scenarios in one run (a CONSTRAINT): a connection that may say anything
\* and is sent whatever there is, alone, with one event at a time; and two
\* connections of one client that keep to the protocol, with nothing but
\* switches between them and the server.
Alone == link[c2] = "none" /\ Len(events) <= 1
Calm ==
  /\ link[c1] = "none" => link[c2] = "none"
  /\ pending_dx = 0 /\ rest = NoMsg /\ last_content = NoContent
  /\ \A k \in Conns :
       /\ Len(queue[k]) <= 1
       /\ \A i \in DOMAIN queue[k] : queue[k][i].type = "SwitchToClient"
       /\ \A i \in DOMAIN up[k] : up[k][i] \in KeepToProtocol[stage[k]]
  /\ \A i \in DOMAIN events :
       events[i].kind = "ClientMessage" => events[i].msg = SwitchToServerMsg
AloneOrCalm == running /\ (Alone \/ Calm)

Leftwards == {<<-1, 0>>}
=============================================================================
