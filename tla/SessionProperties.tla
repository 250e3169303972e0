-------------------------- MODULE SessionProperties -------------------------
(***************************************************************************)
(* What makes the server and its clients correct together.                 *)
(***************************************************************************)
EXTENDS Session, ServerProperties

Count(s, type) == Cardinality({i \in DOMAIN s : s[i].type = type})

\* SwitchToServer messages of connection k the main loop has not handled: on
\* the wire, and in the event channel (under the client's name).
HandedBack(k) ==
  Count(up[k], "SwitchToServer")
    + Cardinality({i \in DOMAIN events :
                     events[i] = ClientMessage(Owner[k], SwitchToServerMsg)})

\* SwitchToClient messages on their way to the client of connection k.
HandedOver(k) ==
  Count(queue[k], "SwitchToClient") + Count(down[k], "SwitchToClient")
    + Count(inbox[k], "SwitchToClient")

\* The places where control of the keyboard can be, as far as k is concerned.
Tokens(k) == HandedOver(k) + (IF active[k] THEN 1 ELSE 0) + HandedBack(k)

\* Control is never duplicated: of a client's own "I have control", the switches
\* on their way to it and the returns on their way back there is at most one.
\* (One connection per name; with a second, see Reconnection in the README.)
ControlIsOneToken == \A k \in Conns : Tokens(k) <= 1

\* While no connection fails, no two clients are in control or about to be: the
\* one that handed control back is inactive, and its SwitchToServer handled,
\* before anybody else is switched to.
OneClientInControl ==
  \A j, k \in Conns : Tokens(j) > 0 /\ Tokens(k) > 0 => j = k

\* A registered client that believes to be in control, and whose connection has
\* not ended, is the one the server has the devices grabbed for: input reaches
\* it, and no other machine gets it.
ActiveMeansActive ==
  \A k \in Conns :
    (running /\ active[k] /\ clients[Owner[k]] = k /\ writer[k] # "done")
      => active_client = Owner[k] /\ grabbed

\* A connection is taken out of the table of clients only once one of its own
\* tasks has ended.  (server.rs logs "Client disconnected" when it does so.)
RemovedOnlyWhenEnded ==
  [][ \A k \in Conns :
        (clients[Owner[k]] = k /\ clients'[Owner[k]] = NoConn)
          => reader[k] = "done" \/ writer[k] = "done" ]_sessionVars

\* Keys and buttons take effect where the user had moved the pointer to before
\* (the comment on forward_to_active: "motion stays ordered ahead of
\* keys/buttons"): no earlier motion is still to be injected.
KeysFollowMotion ==
  [][ \A k \in Conns :
        (phase'[k] = "up" /\ held'[k] # held[k]) => total[k] = <<0, 0>> ]_sessionVars

\* There is one keyboard (README, "Share one keyboard"): a client that handed
\* control back holds down no key the user does not, once nothing is on its way.
InFlight(k) == rest # NoMsg \/ queue[k] # << >> \/ down[k] # << >> \/ inbox[k] # << >>
OneKeyboard ==
  \A k \in Conns :
    (running /\ phase[k] = "up" /\ ~active[k] /\ ~InFlight(k))
      => held[k] \subseteq pressed

\* After a switch the client does not count pushing before its grace period is
\* over: handing control back takes the 200 ms and then the 300 ms (README,
\* "hold for ~300 ms"), however old the push was that ended the last session.
PushOnlyAfterGrace == \A k \in Conns : in_grace[k] => edge_push[k] = "no"

\* Motion summed up in a batch belongs to a client in control: none is left to
\* be injected after control was handed back or before it was received.
MotionNeedsControl ==
  \A k \in Conns : total[k] # <<0, 0>> => active[k] /\ in_batch[k]

\* The server the real clients talk to behaves as the server module says, for
\* which the invariants of ServerProperties hold.
ImplementsServer == Spec
-----------------------------------------------------------------------------
(* Liveness, under SessionFairSpec                                         *)

\* No client waits for ever in its handshake, though it has no timeout itself.
HandshakeEnds ==
  \A k \in Conns :
    phase[k] \in {"tcp", "noise", "secure", "ack"} ~> phase[k] \in {"up", "exited"}

\* A client that is connected but no longer registered - because it was
\* replaced, or taken for a dead one of the same name - finds out and exits (to
\* be restarted), rather than sit on a working connection nothing comes from.
Unregistered(k) ==
  /\ stage[k] = "up" /\ clients[Owner[k]] # k
  /\ \A i \in DOMAIN events : events[i] # NewClient(k)

UnregisteredClientsLeave == \A k \in Conns : Unregistered(k) ~> phase[k] = "exited"

\* A switch on its way to the client arrives, unless control is taken back first
\* or the server stops.
ControlArrives ==
  \A k \in Conns :
    HandedOver(k) > 0
      ~> (active[k] \/ phase[k] = "exited" \/ ~running)
=============================================================================
