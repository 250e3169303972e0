-------------------------- MODULE ServerProperties --------------------------
(***************************************************************************)
(* What makes the server correct, whatever its peers do.                   *)
(***************************************************************************)
EXTENDS Server, FiniteSets

-----------------------------------------------------------------------------
(* Invariants                                                              *)

\* The devices are grabbed, and the clipboard paused, exactly while a client is
\* active, and that client is registered: on no error path of handle_input,
\* forward_to_active, handle_client_message or handle_client_disconnect does
\* the user stay locked out of the desktop with nobody to type to.  A stopped
\* server holds no device.
ControlConsistent ==
  /\ running =>
       /\ grabbed <=> active_client # NoName
       /\ clipboard_paused <=> active_client # NoName
       /\ active_client # NoName => active_client \in Registered
  /\ ~running => ~grabbed

\* Motion accumulated for one client is never left over for the next: whoever
\* ends a session goes through center_cursor (server.rs, deactivate).
NoMotionLeftOver ==
  active_client = NoName => pending_dx = 0 /\ pending_dy = 0 /\ rest = NoMsg

ReportedAfter(k, i) ==
  \E j \in i + 1 .. Len(events) : events[j] = ClientDisconnected(Owner[k])

\* Once the reader or the writer of a registered connection has ended, a
\* ClientDisconnected for its name is on its way to the main loop, and it comes
\* after the connection's own NewClient: no dead connection stays registered,
\* though the reports carry a name and every connection sends two of them.
DeadTasksAreReported ==
  \A k \in Conns :
    LET dead == reader[k] = "done" \/ writer[k] = "done"
    IN  /\ clients[Owner[k]] = k /\ dead => ReportedAfter(k, 0)
        /\ \A i \in DOMAIN events :
             events[i] = NewClient(k) /\ dead => ReportedAfter(k, i)

-----------------------------------------------------------------------------
(* Action properties                                                       *)

\* Returning control puts the cursor where no client's edge is touched, so the
\* next motion does not switch away again (the comment on center_cursor).
NoBounce ==
  [][ (active_client # NoName /\ active_client' = NoName)
        => \A n \in Configured :
             ~AtEdge(Position[n], mouse_x', mouse_y',
                     ScreenWidth, ScreenHeight, EdgeThreshold) ]_vars

Grows(q, r) == Len(r) = Len(q) + 1
LastOf(q) == q[Len(q)]

\* Keys and buttons never overtake motion (the comment on forward_to_active):
\* when one is queued, no motion the user made before it is still pending.
MotionBeforeKeys ==
  [][ \A k \in Conns :
        (Grows(queue[k], queue'[k])
           /\ LastOf(queue'[k]).type \in {"KeyEvent", "MouseButton"})
          => pending_dx = 0 /\ pending_dy = 0 /\ pending_dx' = 0 /\ pending_dy' = 0
     ]_vars

-----------------------------------------------------------------------------
(* The abstract specification                                              *)

C == INSTANCE Control WITH
       members <- Registered,
       holder <- IF grabbed THEN active_client ELSE NoName,
       Nobody <- NoName

ImplementsControl == C!Spec

-----------------------------------------------------------------------------
(* Liveness, under ServerFairness                                          *)

\* The user is not locked out by a client that died: once the connection of
\* the active client is gone, the devices are released.
LockoutEnds ==
  (grabbed /\ link[clients[active_client]] # "open") ~> ~grabbed

\* A client that hands control back gets rid of it: its SwitchToServer is
\* never lost behind other events.
\* (Or the server got rid of the client before.)
ReturnsControl ==
  \A n \in Names :
    (active_client = n /\ clients[n] \in Conns
       /\ \E i \in DOMAIN up[clients[n]] : up[clients[n]][i] = SwitchToServerMsg)
      ~> (active_client # n \/ ~running)

\* A client that completed the handshake is registered or disconnected again,
\* even when the event channel is full when it arrives.
ArrivalsAreHandled ==
  \A k \in Conns :
    stage[k] = "register" ~> (clients[Owner[k]] = k \/ ~running)
=============================================================================
