------------------------------ MODULE Control -------------------------------
(***************************************************************************)
(* What the server promises about control of the single keyboard and      *)
(* mouse: they belong to the server's own desktop or to exactly one client *)
(* that is a member of the session; they pass from client to client only   *)
(* through the server's desktop; and a client that leaves gives them back  *)
(* in the same step.                                                       *)
(***************************************************************************)
CONSTANTS Names,   \* the clients
          Nobody   \* control is local

VARIABLES members,  \* the clients that take part
          holder    \* the client the devices are grabbed for, or Nobody

controlSpecVars == <<members, holder>>

Init == members = {} /\ holder = Nobody

Join(n) ==
  /\ members' = members \cup {n}
  /\ UNCHANGED holder

Leave(n) ==
  /\ members' = members \ {n}
  /\ holder' = IF holder = n THEN Nobody ELSE holder

Switch(n) ==
  /\ holder = Nobody
  /\ n \in members
  /\ holder' = n
  /\ UNCHANGED members

Return ==
  /\ holder # Nobody
  /\ holder' = Nobody
  /\ UNCHANGED members

Next == Return \/ \E n \in Names : Join(n) \/ Leave(n) \/ Switch(n)

Spec == Init /\ [][Next]_controlSpecVars
=============================================================================
