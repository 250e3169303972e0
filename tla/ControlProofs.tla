---------------------------- MODULE ControlProofs ---------------------------
(***************************************************************************)
(* Proofs that control of the keyboard and mouse is never lost or left     *)
(* half way: the server keeps ControlConsistent and NoMotionLeftOver and   *)
(* implements the module Control, for any peers, screens and capacities.   *)
(*                                                                         *)
(* The argument has two halves.  Every step of the server has one of seven *)
(* effects on the state that says who is in control (StepEffects); and     *)
(* each effect preserves the invariant and is a step, or a stutter, of     *)
(* Control.                                                                *)
(***************************************************************************)
EXTENDS ServerProofs

\* The inductive invariant.  Neither half is inductive alone: ForwardRest may
\* deactivate the client, which leaves nothing pending only because a message
\* is held back for an active client; and a message is held back only while
\* somebody is active because a switch is the only way to become active.
ControlInv == ControlConsistent /\ NoMotionLeftOver

-----------------------------------------------------------------------------
(* The effects of a step on the state of control.                          *)

\* Nothing changes (tasks, peers, clipboard, local motion).
Quiet == UNCHANGED <<running, clients, controlVars, pending_dx, pending_dy, rest>>

\* A client is registered, or replaced by a new connection of its name.
Joins(n) ==
  /\ \E k \in Conns : clients' = [clients EXCEPT ![n] = k]
  /\ UNCHANGED <<running, controlVars, pending_dx, pending_dy, rest>>

\* A client is removed and, if it is the active one, deactivated.
Leaves(n) ==
  /\ clients' = [clients EXCEPT ![n] = NoConn]
  /\ Deactivate(n)
  /\ rest = NoMsg
  /\ UNCHANGED <<running, rest>>

\* The desktop takes control, whether or not a client had it.
Recovers ==
  /\ running /\ running' /\ ControlReturns
  /\ rest' = NoMsg
  /\ UNCHANGED clients

\* A registered client takes control.
Switches(n) ==
  /\ running /\ running' /\ active_client = NoName /\ n \in Registered
  /\ active_client' = n /\ grabbed' = TRUE /\ clipboard_paused' = TRUE
  /\ UNCHANGED clients

\* Input is accumulated, or queued for the active client.
Forwards ==
  /\ active_client # NoName
  /\ UNCHANGED <<running, clients, controlVars>>

Stops ==
  /\ running' = FALSE /\ grabbed' = FALSE
  /\ UNCHANGED <<clients, active_client, pending_dx, pending_dy, rest>>

Effects ==
  \/ Quiet \/ Recovers \/ Forwards \/ Stops
  \/ \E n \in Names : Joins(n) \/ Leaves(n) \/ Switches(n)

-----------------------------------------------------------------------------
(* Every step has one of the effects.                                      *)

LEMMA TaskEffect ==
  (\E k \in Conns : ConnectionTask(k) \/ PeerStep(k)) \/ MonitorTask \/ UNCHANGED vars
    => Quiet
<1> USE DEF vars, serverVars, controlVars, cursorVars, Quiet
<1>1. (\E k \in Conns : PeerStep(k)) \/ UNCHANGED vars => Quiet
  BY DEF PeerStep
<1>2. MonitorTask => Quiet
  BY DEF MonitorTask, LocalCopy, RelayCopy
<1>3. ASSUME NEW k \in Conns, ConnectionTask(k) PROVE Quiet
  <2>1. Accept(k) \/ NoiseHandshake(k) \/ AppHandshake(k) \/ HandshakeFails(k)
          \/ Register(k) => Quiet
    BY DEF Accept, NoiseHandshake, AppHandshake, HandshakeFails, Register,
           cursorVars
  <2>2. WriterSend(k) \/ WriterFails(k) \/ WriterStops(k) \/ WriterReports(k)
          => Quiet
    BY DEF WriterSend, WriterFails, WriterStops, WriterReports, cursorVars
  <2>3. ReaderForwards(k) \/ ReaderReports(k) => Quiet
    BY DEF ReaderForwards, ReaderReports, cursorVars
  <2> QED
    BY <1>3, <2>1, <2>2, <2>3 DEF ConnectionTask
<1> QED
  BY <1>1, <1>2, <1>3

\* Handlers of events from the channel.
LEMMA EventEffect ==
  ASSUME WireAssumption, ServerTypeOK, HandleEvent
  PROVE  Effects
<1> USE DEF Effects
<1>1. ASSUME NEW k \in Conns, HandleNewClient(k) PROVE Joins(Owner[k])
  BY <1>1 DEF HandleNewClient, Joins, cursorVars
<1>2. ASSUME NEW n \in Names, HandleSwitchToServer(n) PROVE Quiet \/ Recovers
  <2>1. CASE active_client = n
    BY <1>2, <2>1 DEF HandleSwitchToServer, Take, Deactivate, Recovers
  <2>2. CASE active_client # n
    BY <1>2, <2>2 DEF HandleSwitchToServer, Deactivate, Quiet, cursorVars
  <2> QED
    BY <2>1, <2>2
<1>3. ASSUME NEW n \in Names, NEW c \in Contents, HandleClipboardData(n, c)
      PROVE  Quiet
  BY <1>3 DEF HandleClipboardData, Quiet, cursorVars
<1>4. ASSUME NEW n \in Names, NEW m \in ToServer, HandleOtherMessage(n, m)
      PROVE  Quiet
  BY <1>4 DEF HandleOtherMessage, Quiet, cursorVars
<1>5. ASSUME NEW n \in Names, HandleDisconnect(n) PROVE Leaves(n)
  BY <1>5 DEF HandleDisconnect, Take, Leaves
<1>6. ASSUME NEW c \in Contents, BroadcastClipboard(c) PROVE Quiet
  BY <1>6 DEF BroadcastClipboard, Quiet, cursorVars
<1>7. \A k \in Conns : Owner[k] \in Names
  BY DEF WireAssumption
<1> QED
  BY <1>1, <1>2, <1>3, <1>4, <1>5, <1>6, <1>7 DEF HandleEvent

\* Queueing a message for the active client either works, or takes control back.
LEMMA QueueEffect ==
  ASSUME NEW m, running, active_client # NoName, QueueInput(m), rest' = NoMsg
  PROVE  Recovers \/ Forwards
<1>1. CASE Reachable(active_client)
  BY <1>1 DEF QueueInput, Forwards
<1>2. CASE ~Reachable(active_client)
  BY <1>2 DEF QueueInput, Recovers
<1> QED
  BY <1>1, <1>2

LEMMA SwitchEffect ==
  ASSUME NEW n \in Names, NEW dx, NEW dy, SwitchTo(n, dx, dy)
  PROVE  Recovers \/ Switches(n)
<1>1. CASE Reachable(n)
  BY <1>1 DEF SwitchTo, Switches, EdgeClients
<1>2. CASE ~Reachable(n)
  BY <1>2 DEF SwitchTo, Recovers
<1> QED
  BY <1>1, <1>2

LEMMA FlushEffect ==
  ASSUME NEW dx, NEW dy, MoveFlushes(dx, dy)
  PROVE  Recovers \/ Forwards
<1>1. CASE Reachable(active_client)
  BY <1>1 DEF MoveFlushes, Forwards
<1>2. CASE ~Reachable(active_client)
  BY <1>2 DEF MoveFlushes, Recovers
<1> QED
  BY <1>1, <1>2

\* Handlers of captured input.  ForwardRest needs the invariant: a message held
\* back belongs to an active client.
LEMMA InputEffect ==
  ASSUME NoMotionLeftOver,
         MoveInput \/ ForwardRest \/ \E m \in Inputs : OtherInput(m)
  PROVE  Effects
<1> USE DEF Effects
<1>1. ASSUME NEW dx, NEW dy, MoveLocal(dx, dy) PROVE Quiet
  BY <1>1 DEF MoveLocal, Quiet
<1>2. ASSUME NEW dx, NEW dy, MoveAccumulates(dx, dy) PROVE Forwards
  BY <1>2 DEF MoveAccumulates, Forwards
<1>3. CASE MoveInput
  BY <1>1, <1>2, <1>3, SwitchEffect, FlushEffect DEF MoveInput
<1>4. CASE ForwardRest
  <2>1. active_client # NoName
    BY <1>4 DEF ForwardRest, NoMotionLeftOver
  <2> QED
    BY <1>4, <2>1, QueueEffect DEF ForwardRest
<1>5. ASSUME NEW m \in Inputs, FlushMotionFirst(m) PROVE Recovers \/ Forwards
  <2>1. CASE Reachable(active_client)
    BY <1>5, <2>1 DEF FlushMotionFirst, Forwards
  <2>2. CASE ~Reachable(active_client)
    BY <1>5, <2>2 DEF FlushMotionFirst, Recovers
  <2> QED
    BY <2>1, <2>2
<1>6. ASSUME NEW m \in Inputs, ForwardNow(m) PROVE Recovers \/ Forwards
  BY <1>6, QueueEffect DEF ForwardNow
<1> QED
  BY <1>3, <1>4, <1>5, <1>6 DEF OtherInput

LEMMA StepEffects ==
  ASSUME WireAssumption, ServerTypeOK, NoMotionLeftOver, [Next]_vars
  PROVE  Effects
<1>1. CASE Shutdown
  BY <1>1 DEF Shutdown, cursorVars, Effects, Stops
<1> QED
  BY <1>1, TaskEffect, EventEffect, InputEffect DEF Next, ServerStep, Effects

-----------------------------------------------------------------------------
(* The invariant.                                                          *)

LEMMA ControlInit == WireAssumption /\ ServerAssumption /\ Init => ControlInv
BY Zenon DEF Init, ServerInit, ControlInv, ControlConsistent, NoMotionLeftOver

\* Taking control back establishes the invariant, whatever held before.
LEMMA RecoveryRestores ==
  ASSUME running', ControlReturns, rest' = NoMsg
  PROVE  ControlInv'
<1>1. ControlConsistent'
  BY Zenon DEF ControlReturns, ControlConsistent
<1>2. NoMotionLeftOver'
  BY DEF ControlReturns, NoMotionLeftOver
<1> QED
  BY <1>1, <1>2 DEF ControlInv

\* Registering a client and removing one change who is registered accordingly.
LEMMA RegisteredJoins ==
  ASSUME ServerAssumption, ServerTypeOK, NEW n \in Names, NEW k \in Conns,
         clients' = [clients EXCEPT ![n] = k]
  PROVE  Registered' = Registered \cup {n}
BY DEF ServerAssumption, ServerTypeOK, Registered

LEMMA RegisteredLeaves ==
  ASSUME ServerAssumption, ServerTypeOK, NEW n \in Names,
         clients' = [clients EXCEPT ![n] = NoConn]
  PROVE  Registered' = Registered \ {n}
BY DEF ServerAssumption, ServerTypeOK, Registered

LEMMA RegisteredStays == UNCHANGED clients => UNCHANGED Registered
BY DEF Registered

LEMMA ControlStep ==
  ASSUME ServerAssumption, ServerTypeOK, ControlInv, Effects
  PROVE  ControlInv'
<1> USE DEF ControlInv, ControlConsistent, NoMotionLeftOver
<1>1. CASE Quiet
  BY <1>1, RegisteredStays, Zenon DEF Quiet, controlVars
<1>2. CASE Recovers
  BY <1>2, RecoveryRestores DEF Recovers
<1>3. CASE Forwards
  <2>1. active_client' # NoName
    BY <1>3 DEF Forwards, controlVars
  <2>2. ControlConsistent'
    BY <1>3, RegisteredStays, Zenon DEF Forwards, controlVars
  <2> QED
    BY <2>1, <2>2
<1>4. CASE Stops
  BY <1>4, Zenon DEF Stops
<1>5. ASSUME NEW n \in Names, Joins(n) PROVE ControlInv'
  <2>1. Registered' = Registered \cup {n}
    BY <1>5, RegisteredJoins DEF Joins
  <2>2. ControlConsistent'
    BY <1>5, <2>1, Zenon DEF Joins, controlVars
  <2>3. NoMotionLeftOver'
    BY <1>5 DEF Joins, controlVars
  <2> QED
    BY <2>2, <2>3
<1>6. ASSUME NEW n \in Names, Leaves(n) PROVE ControlInv'
  <2>1. Registered' = Registered \ {n}
    BY <1>6, RegisteredLeaves DEF Leaves
  <2>2. CASE active_client = n /\ running
    BY <1>6, <2>2, RecoveryRestores DEF Leaves, Deactivate
  <2>3. CASE active_client = n /\ ~running
    <3>1. ControlConsistent'
      BY <1>6, <2>3, Zenon DEF Leaves, Deactivate, ControlReturns
    <3>2. NoMotionLeftOver'
      BY <1>6, <2>3 DEF Leaves, Deactivate, ControlReturns
    <3> QED
      BY <3>1, <3>2
  <2>4. CASE active_client # n
    <3>1. ControlConsistent'
      BY <1>6, <2>1, <2>4, Zenon DEF Leaves, Deactivate, controlVars
    <3>2. NoMotionLeftOver'
      BY <1>6, <2>4 DEF Leaves, Deactivate, controlVars, cursorVars
    <3> QED
      BY <3>1, <3>2
  <2> QED
    BY <2>2, <2>3, <2>4
<1>7. ASSUME NEW n \in Names, Switches(n) PROVE ControlInv'
  <2>1. n # NoName
    BY DEF ServerAssumption
  <2>2. ControlConsistent'
    BY <1>7, <2>1, RegisteredStays, Zenon DEF Switches
  <2>3. NoMotionLeftOver'
    BY <1>7, <2>1 DEF Switches
  <2> QED
    BY <2>2, <2>3
<1> QED
  BY <1>1, <1>2, <1>3, <1>4, <1>5, <1>6, <1>7 DEF Effects

LEMMA ControlInvariant == Spec => []ControlInv
<1>1. Init => ControlInv
  BY ControlInit, WireAssumption, ServerAssumption
<1>2. ServerTypeOK /\ ControlInv /\ [Next]_vars => ControlInv'
  BY StepEffects, ControlStep, WireAssumption, ServerAssumption DEF ControlInv
<1> QED
  BY <1>1, <1>2, TypeCorrect, PTL DEF Spec

\* Whatever the peers do and whichever step of a handler fails, the devices are
\* grabbed and the clipboard paused exactly while a registered client is active.
THEOREM ControlIsConsistent == Spec => []ControlConsistent
<1>1. ControlInv => ControlConsistent
  BY DEF ControlInv
<1> QED
  BY <1>1, ControlInvariant, PTL

\* Motion and a held-back message exist only while a client is active: nothing is
\* carried over from one session to the next.
THEOREM NothingIsLeftOver == Spec => []NoMotionLeftOver
<1>1. ControlInv => NoMotionLeftOver
  BY DEF ControlInv
<1> QED
  BY <1>1, ControlInvariant, PTL

-----------------------------------------------------------------------------
(* The server implements Control.                                          *)

LEMMA ControlRefinesInit == ServerAssumption /\ Init => C!Init
BY DEF Init, ServerInit, C!Init, Registered

LEMMA ControlRefinesStep ==
  ASSUME ServerAssumption, ServerTypeOK, ControlInv, Effects
  PROVE  [C!Next]_(C!controlSpecVars)
<1> USE DEF C!Next, C!controlSpecVars, ControlInv
<1>1. CASE Quiet
  BY <1>1, RegisteredStays DEF Quiet, controlVars
<1>2. CASE Recovers
  <2>1. grabbed => active_client # NoName
    BY <1>2 DEF Recovers, ControlConsistent
  <2>2. UNCHANGED Registered /\ ~grabbed'
    BY <1>2, RegisteredStays DEF Recovers, ControlReturns
  <2> QED
    BY <2>1, <2>2 DEF C!Return
<1>3. CASE Forwards
  BY <1>3, RegisteredStays DEF Forwards, controlVars
<1>4. CASE Stops
  BY <1>4, RegisteredStays DEF Stops, C!Return
<1>5. ASSUME NEW n \in Names, Joins(n) PROVE C!Join(n)
  BY <1>5, RegisteredJoins DEF Joins, controlVars, C!Join
<1>6. ASSUME NEW n \in Names, Leaves(n) PROVE C!Leave(n)
  <2>1. Registered' = Registered \ {n}
    BY <1>6, RegisteredLeaves DEF Leaves
  <2>2. n # NoName
    BY DEF ServerAssumption
  <2>3. CASE active_client = n
    BY <1>6, <2>1, <2>2, <2>3 DEF Leaves, Deactivate, ControlReturns, C!Leave
  <2>4. CASE active_client # n
    BY <1>6, <2>1, <2>2, <2>4 DEF Leaves, Deactivate, controlVars, C!Leave
  <2> QED
    BY <2>3, <2>4
<1>7. ASSUME NEW n \in Names, Switches(n) PROVE C!Switch(n)
  BY <1>7, RegisteredStays DEF Switches, C!Switch
<1> QED
  BY <1>1, <1>2, <1>3, <1>4, <1>5, <1>6, <1>7 DEF Effects

\* The server keeps the promise of Control: one keyboard, at the desktop or at one
\* registered client, passed on only through the desktop, and given back in the
\* very step that removes a client.
THEOREM ServerImplementsControl == Spec => ImplementsControl
<1>1. Init => C!Init
  BY ControlRefinesInit, ServerAssumption
<1>2. ServerTypeOK /\ ControlInv /\ [Next]_vars => [C!Next]_(C!controlSpecVars)
  BY StepEffects, ControlRefinesStep, WireAssumption, ServerAssumption
     DEF ControlInv
<1> QED
  BY <1>1, <1>2, TypeCorrect, ControlInvariant, PTL
     DEF Spec, ImplementsControl, C!Spec

-----------------------------------------------------------------------------
(* Returning control does not bounce.                                      *)

\* The screens on which center_cursor has room: the configuration is not checked
\* for it.  (With 3 pixels of threshold, 9 pixels suffice.)
CentreIsClear ==
  /\ 2 * EdgeThreshold + 3 <= ScreenWidth
  /\ 2 * EdgeThreshold + 3 <= ScreenHeight

LEMMA CentreOffEdge ==
  ASSUME ServerAssumption, CentreIsClear, NEW n \in Configured
  PROVE  ~AtEdge(Position[n], Centre(ScreenWidth), Centre(ScreenHeight),
                 ScreenWidth, ScreenHeight, EdgeThreshold)
<1>1. \A size \in Nat \ {0}, t \in Int :
        2 * t + 3 <= size => Centre(size) > t /\ Centre(size) < size - t - 1
  BY DEF Centre
<1>2. /\ Centre(ScreenWidth) > EdgeThreshold
      /\ Centre(ScreenWidth) < ScreenWidth - EdgeThreshold - 1
      /\ Centre(ScreenHeight) > EdgeThreshold
      /\ Centre(ScreenHeight) < ScreenHeight - EdgeThreshold - 1
  BY <1>1 DEF ServerAssumption, CentreIsClear
<1>3. /\ Centre(ScreenWidth) \in Int /\ Centre(ScreenHeight) \in Int
      /\ ScreenWidth \in Int /\ ScreenHeight \in Int /\ EdgeThreshold \in Int
  BY DEF ServerAssumption, Centre
<1> QED
  BY <1>2, <1>3 DEF AtEdge

LEMMA ReturnCentres ==
  ASSUME ServerAssumption, Effects, active_client # NoName, active_client' = NoName
  PROVE  ControlReturns
<1>1. ~Quiet /\ ~Forwards /\ ~Stops
  BY DEF Quiet, Forwards, Stops, controlVars
<1>2. \A n \in Names : ~Joins(n) /\ ~Switches(n)
  BY DEF Joins, Switches, controlVars
<1>3. ASSUME NEW n \in Names, Leaves(n) PROVE ControlReturns
  BY <1>3 DEF Leaves, Deactivate, controlVars
<1> QED
  BY <1>1, <1>2, <1>3 DEF Effects, Recovers

\* On a screen with room between the edges, returning control never leaves the
\* cursor where it would switch away again at once.
THEOREM ReturnDoesNotBounce ==
  ASSUME CentreIsClear
  PROVE  Spec => NoBounce
<1>1. ASSUME ServerTypeOK, NoMotionLeftOver, [Next]_vars,
             active_client # NoName, active_client' = NoName
      PROVE  \A n \in Configured :
               ~AtEdge(Position[n], mouse_x', mouse_y',
                       ScreenWidth, ScreenHeight, EdgeThreshold)
  <2>1. ControlReturns
    BY <1>1, StepEffects, ReturnCentres, WireAssumption, ServerAssumption
  <2> QED
    BY <2>1, CentreIsClear, CentreOffEdge, ServerAssumption DEF ControlReturns
<1>2. ServerTypeOK /\ NoMotionLeftOver /\ [Next]_vars
        => [ (active_client # NoName /\ active_client' = NoName)
               => \A n \in Configured :
                    ~AtEdge(Position[n], mouse_x', mouse_y',
                            ScreenWidth, ScreenHeight, EdgeThreshold) ]_vars
  BY <1>1
<1> QED
  BY <1>2, TypeCorrect, NothingIsLeftOver, PTL DEF Spec, NoBounce

-----------------------------------------------------------------------------
(* Keys and buttons do not overtake motion.                                *)

\* The strengthening: forward_to_active holds a message back only behind the
\* motion it has just flushed, and the loop takes no input in between.
RestFollows == rest # NoMsg => pending_dx = 0 /\ pending_dy = 0

\* What MotionBeforeKeys says of one step and one queue.
MotionFirst(k) ==
  (Grows(queue[k], queue'[k])
     /\ LastOf(queue'[k]).type \in {"KeyEvent", "MouseButton"})
    => pending_dx = 0 /\ pending_dy = 0 /\ pending_dx' = 0 /\ pending_dy' = 0

\* A queue that grew in a step ends with what that step sent.
LEMMA SentIsLast ==
  ASSUME queue \in [Conns -> Seq(Forwarded)], NEW k \in Conns,
         NEW targets, NEW m \in Forwarded, SendTo(targets, m),
         Grows(queue[k], queue'[k])
  PROVE  LastOf(queue'[k]) = m
<1>1. queue[k] \in Seq(Forwarded)
  OBVIOUS
<1>2. queue'[k] = queue[k] \/ queue'[k] = Append(queue[k], m)
  BY DEF SendTo
<1>3. Len(queue[k]) \in Nat
  BY <1>1
<1>4. queue'[k] = Append(queue[k], m)
  BY <1>2, <1>3 DEF Grows
<1> QED
  BY <1>1, <1>4 DEF LastOf

\* The writers and the peers make no queue longer.
LEMMA TaskMotion ==
  ASSUME ServerTypeOK, NEW k \in Conns,
         \/ \E j \in Conns : ConnectionTask(j) \/ PeerStep(j)
         \/ MonitorTask \/ Shutdown \/ UNCHANGED vars
  PROVE  MotionFirst(k)
<1>1. queue[k] \in Seq(Forwarded) /\ Len(queue[k]) \in Nat
  BY DEF ServerTypeOK
<1>2. CASE queue'[k] = queue[k]
  BY <1>1, <1>2 DEF MotionFirst, Grows
<1>3. CASE queue'[k] = Tail(queue[k]) /\ queue[k] # << >>
  BY <1>1, <1>3 DEF MotionFirst, Grows
<1>4. CASE queue'[k] = << >>
  BY <1>1, <1>4 DEF MotionFirst, Grows
<1>5. ASSUME NEW j \in Conns, ConnectionTask(j)
      PROVE  \/ queue'[k] = queue[k] \/ queue'[k] = << >>
             \/ queue'[k] = Tail(queue[k]) /\ queue[k] # << >>
  <2>1. Accept(j) \/ NoiseHandshake(j) \/ AppHandshake(j) \/ HandshakeFails(j)
          \/ Register(j) \/ WriterStops(j) \/ ReaderForwards(j) \/ ReaderReports(j)
          => UNCHANGED queue
    BY DEF Accept, NoiseHandshake, AppHandshake, HandshakeFails, Register,
           WriterStops, ReaderForwards, ReaderReports
  <2>2. WriterSend(j) \/ WriterFails(j)
          => queue[j] # << >> /\ queue' = [queue EXCEPT ![j] = Tail(@)]
    BY DEF WriterSend, WriterFails
  <2>3. WriterReports(j) => queue' = [queue EXCEPT ![j] = << >>]
    BY DEF WriterReports
  <2> QED
    BY <1>5, <2>1, <2>2, <2>3 DEF ConnectionTask, ServerTypeOK
<1>6. ASSUME NEW j \in Conns, PeerStep(j) PROVE queue'[k] = queue[k]
  BY <1>6 DEF PeerStep, serverVars
<1>7. MonitorTask \/ Shutdown \/ UNCHANGED vars => queue'[k] = queue[k]
  BY DEF MonitorTask, LocalCopy, RelayCopy, Shutdown, vars, serverVars
<1> QED
  BY <1>2, <1>3, <1>4, <1>5, <1>6, <1>7

\* Events from the channel make the server send clipboard texts only.
LEMMA EventMotion ==
  ASSUME ServerTypeOK, HandleEvent, NEW k \in Conns
  PROVE  MotionFirst(k)
<1>1. queue[k] \in Seq(Forwarded) /\ Len(queue[k]) \in Nat
  BY DEF ServerTypeOK
<1>2. CASE UNCHANGED queue
  BY <1>1, <1>2 DEF MotionFirst, Grows
<1>3. ASSUME NEW c \in Contents, NEW targets, SendTo(targets, ClipboardMsg(c))
      PROVE  MotionFirst(k)
  <2>1. ClipboardMsg(c) \in Forwarded
    BY DEF ClipboardMsg, Forwarded
  <2>2. Grows(queue[k], queue'[k]) => LastOf(queue'[k]) = ClipboardMsg(c)
    BY <1>3, <2>1, SentIsLast DEF ServerTypeOK
  <2> QED
    BY <2>2 DEF MotionFirst, ClipboardMsg
<1> QED
  BY <1>2, <1>3 DEF HandleEvent, HandleNewClient, HandleSwitchToServer,
     HandleClipboardData, HandleOtherMessage, HandleDisconnect, BroadcastClipboard

\* Captured input: motion and switches are no keys, and a key is queued when the
\* motion before it has gone.
LEMMA InputMotion ==
  ASSUME ServerAssumption, ServerTypeOK, RestFollows, NEW k \in Conns,
         MoveInput \/ ForwardRest \/ \E m \in Inputs : OtherInput(m)
  PROVE  MotionFirst(k)
<1>1. queue[k] \in Seq(Forwarded) /\ Len(queue[k]) \in Nat
  BY DEF ServerTypeOK
<1>2. CASE UNCHANGED queue
  BY <1>1, <1>2 DEF MotionFirst, Grows
<1>3. ASSUME NEW m \in Forwarded, NEW targets, SendTo(targets, m),
             m.type \notin {"KeyEvent", "MouseButton"}
      PROVE  MotionFirst(k)
  BY <1>3, SentIsLast DEF MotionFirst, ServerTypeOK
<1>4. ASSUME NEW dx \in Int, NEW dy \in Int
      PROVE  MouseMoveMsg(dx, dy) \in Forwarded
               /\ MouseMoveMsg(dx, dy).type = "MouseMove"
  BY DEF MouseMoveMsg, Forwarded
<1>5. /\ pending_dx \in Int /\ pending_dy \in Int
      /\ \A d \in Deltas : d[1] \in Int /\ d[2] \in Int
  BY DEF ServerTypeOK, ServerAssumption
<1>6. ASSUME NEW n \in Names, NEW d \in Deltas, SwitchTo(n, d[1], d[2])
      PROVE  MotionFirst(k)
  <2>1. n \in Configured /\ MovedX(d[1]) \in Int /\ MovedY(d[2]) \in Int
    BY <1>5, <1>6, MovedType DEF SwitchTo, EdgeClients, ServerAssumption
  <2>2. EntryMsg(n, MovedX(d[1]), MovedY(d[2])) \in Forwarded
    BY <2>1, EntryType
  <2> QED
    BY <1>3, <1>6, <2>2 DEF SwitchTo, EntryMsg, SwitchToClientMsg
<1>7. ASSUME NEW d \in Deltas, MoveFlushes(d[1], d[2]) PROVE MotionFirst(k)
  BY <1>3, <1>4, <1>5, <1>7 DEF MoveFlushes
<1>8. CASE MoveInput
  BY <1>2, <1>6, <1>7, <1>8 DEF MoveInput, MoveLocal, MoveAccumulates
<1>9. ASSUME NEW m, QueueInput(m), pending_dx = 0 /\ pending_dy = 0
      PROVE  MotionFirst(k)
  <2>1. pending_dx' = 0 /\ pending_dy' = 0
    BY <1>9 DEF QueueInput, ControlReturns, cursorVars
  <2> QED
    BY <1>9, <2>1 DEF MotionFirst
<1>10. ASSUME NEW m \in Inputs, OtherInput(m) PROVE MotionFirst(k)
  <2>1. m \in Forwarded
    BY DEF ServerAssumption
  <2>2. CASE FlushMotionFirst(m)
    BY <1>3, <1>4, <1>5, <2>2 DEF FlushMotionFirst
  <2>3. CASE ForwardNow(m) /\ m.type = "MouseScroll"
    BY <1>3, <2>1, <2>3 DEF ForwardNow, QueueInput
  <2>4. CASE ForwardNow(m) /\ pending_dx = 0 /\ pending_dy = 0
    BY <1>9, <2>4 DEF ForwardNow
  <2> QED
    BY <1>10, <2>2, <2>3, <2>4 DEF OtherInput, ForwardNow
<1>11. CASE ForwardRest
  BY <1>9, <1>11 DEF ForwardRest, RestFollows
<1> QED
  BY <1>8, <1>10, <1>11

\* Motion is added, and control taken back, only while nothing is held back.
LEMMA RestStep ==
  ASSUME ServerTypeOK, RestFollows, [Next]_vars
  PROVE  RestFollows'
<1> USE DEF RestFollows, cursorVars
<1>1. CASE UNCHANGED <<pending_dx, pending_dy, rest>>
  BY <1>1
<1>2. ASSUME NEW k \in Conns, ConnectionTask(k) \/ PeerStep(k) PROVE RestFollows'
  BY <1>1, <1>2, TaskEffect DEF Quiet
<1>3. MonitorTask \/ UNCHANGED vars => RestFollows'
  BY <1>1, TaskEffect DEF Quiet
<1>4. CASE Shutdown
  BY <1>1, <1>4 DEF Shutdown
<1>5. CASE HandleEvent
  <2>1. rest = NoMsg /\ UNCHANGED rest
    BY <1>5 DEF HandleEvent, HandleNewClient, HandleSwitchToServer,
       HandleClipboardData, HandleOtherMessage, HandleDisconnect,
       BroadcastClipboard, Take
  <2> QED
    BY <2>1
<1>6. CASE MoveInput
  <2>1. rest = NoMsg /\ UNCHANGED rest
    BY <1>6 DEF MoveInput, MoveLocal, SwitchTo, MoveAccumulates, MoveFlushes
  <2> QED
    BY <2>1
<1>7. CASE ForwardRest
  BY <1>7 DEF ForwardRest
<1>8. ASSUME NEW m \in Inputs, FlushMotionFirst(m) PROVE RestFollows'
  BY <1>8 DEF FlushMotionFirst, ControlReturns
<1>9. ASSUME NEW m \in Inputs, ForwardNow(m) PROVE RestFollows'
  BY <1>9 DEF ForwardNow
<1> QED
  BY <1>2, <1>3, <1>4, <1>5, <1>6, <1>7, <1>8, <1>9
     DEF Next, ServerStep, OtherInput

\* Whatever is handled, sent or lost in between, a key or a button is queued for a
\* client only when all motion made before it is queued already.
THEOREM KeysComeAfterMotion == Spec => MotionBeforeKeys
<1>1. Init => RestFollows
  BY DEF Init, ServerInit, RestFollows
<1>2. ServerTypeOK /\ RestFollows /\ [Next]_vars => RestFollows'
  BY RestStep
<1>3. ASSUME ServerTypeOK, RestFollows, [Next]_vars
      PROVE  \A k \in Conns : MotionFirst(k)
  BY <1>3, TaskMotion, EventMotion, InputMotion, ServerAssumption DEF Next, ServerStep
<1>4. ServerTypeOK /\ RestFollows /\ [Next]_vars
        => [ \A k \in Conns : MotionFirst(k) ]_vars
  BY <1>3
<1> QED
  BY <1>1, <1>2, <1>4, TypeCorrect, PTL
     DEF Spec, MotionBeforeKeys, MotionFirst
=============================================================================
