------------------------------ MODULE MCSession -----------------------------
(***************************************************************************)
(* Instances of Session for TLC.                                           *)
(***************************************************************************)
EXTENDS SessionProperties, TLC

CONSTANTS c1, c2, left, right

TwoOwners == c1 :> left @@ c2 :> right
OneOwner == c1 :> left @@ c2 :> left
LeftOnly == c1 :> left

TwoPositions == left :> "Left" @@ right :> "Right"
LeftPosition == left :> "Left"
PositionOfOwner == [k \in Conns |-> Position[Owner[k]]]

\* Three pixels wide: the entry point, one pixel before the exit edge, and one
\* pixel beyond.
Width3 == [n \in Names |-> 3]
Height1 == [n \in Names |-> 1]
W3 == [k \in Conns |-> 3]
H1 == [k \in Conns |-> 1]

Anything == [s \in Stages |-> ToServer]

KeyStrokes == {KeyEventMsg(code, value) : code \in Keys, value \in {Pressed, Released}}
Clicks == {MouseButtonMsg(code, value) : code \in Buttons, value \in {Pressed, Released}}
KeysAndScrolls == KeyStrokes \cup {MouseScrollMsg}
NoInput == {}
NoMotion == {}

PressAndScroll == {m \in KeysAndScrolls : m = MouseScrollMsg \/ m.value = Pressed}

Carries(types) ==
  \/ \E k \in Conns : \E s \in {queue[k], up[k], down[k], inbox[k]} :
       \E i \in DOMAIN s : s[i].type \in types
  \/ \E i \in DOMAIN events :
       events[i].kind = "ClientMessage" /\ events[i].msg.type \in types

Faulty ==
  \/ ~running \/ \E k \in Conns : link[k] \in {"lost", "closed"} \/ shut[k]
  \/ Carries({"Heartbeat"})
Typed == pressed # {} \/ Carries({"KeyEvent", "MouseScroll"})
Copied ==
  \/ last_content # NoContent \/ copied # NoContent
  \/ \E k \in Conns : last_seen[k] # NoText
  \/ Carries({"ClipboardData"})
Second == phase[c2] # "off"

\* Motion on its way to the client of connection k.
Moves(k) ==
  Count(queue[k], "MouseMove") + Count(down[k], "MouseMove") + Count(inbox[k], "MouseMove")

\* Four scenarios in one run (a CONSTRAINT): at any time there is at most one of
\* faults and heartbeats, keys and scrolling, clipboard texts, a second client;
\* and the second comes after the first, and takes part in one motion at a time.
OneThingAtATime ==
  /\ Second => phase[c1] = "up" /\ Moves(c1) + Moves(c2) <= 1 /\ ~Faulty /\ ~Typed /\ ~Copied
  /\ Typed => ~Faulty /\ ~Copied
  /\ Copied => ~Faulty

\* Connections of one name are interchangeable: the first to be used is c1 (a
\* CONSTRAINT).
FirstComesFirst == phase[c1] = "off" => phase[c2] = "off"

Sideways == {<<-1, 0>>, <<1, 0>>}
=============================================================================
