----------------------------- MODULE MCClipboard -----------------------------
(***************************************************************************)
(* Instances of Clipboard for TLC.                                         *)
(***************************************************************************)
EXTENDS Clipboard

CONSTANTS c1, c2

Pieces == {"a", "b"}
Selection == <<"a">>
Lines == {<<"a", NL>>, <<"b", NL>>}
TwoLines == <<"a", NL, "b", NL>>
AllTexts == Lines \cup {Selection, TwoLines}
JustTwoLines == {TwoLines}

\* Three scenarios in one run (a CONSTRAINT).  Users of three machines copy
\* single lines, one after the other.
ManyPlain == plain /\ clients = Clients /\ (copies = 0 => c2 \notin own)

\* Users of two machines copy texts of any form, one after the other.
TwoMachines == ~plain /\ clients = {c1} /\ board[c2] = Empty

\* Users who do not wait, and helpers that fail, on the first client: the user of
\* the server copies once its watcher runs, then the user of the client.  What a
\* monitor has before it is bounded, because two of them may go on for ever.
Unread(m) == Len(pipe[m]) + Len(part[m]) + Len(reading[m])
OneBusy ==
  /\ ~plain /\ clients = {c1} /\ ~paused
  /\ has_copy[c2] /\ has_copy[TheServer]
  /\ copies = 0 => own = {}
  /\ copies = 1 => own = {TheServer}
  /\ copies = 2 => c1 \in own
  /\ mon[TheServer] \in {"initial", "spawn", "watch"}
  /\ mon[TheServer] # "watch" => copies = 0 /\ mon[c1] = "initial" /\ snap[c1] = NoText
  /\ Unread(TheServer) <= 4 /\ Unread(c1) <= 5

Scenarios == IF calm THEN ManyPlain \/ TwoMachines ELSE OneBusy

\* Users wait, also for the monitors to start (a CONSTRAINT).
PatientFromTheStart == calm /\ (copies = 0 => own = {})
=============================================================================
