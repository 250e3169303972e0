------------------------------ MODULE Clipboard ------------------------------
(***************************************************************************)
(* Clipboard sharing, clipboard.rs and the handlers of server.rs and       *)
(* client.rs that use it: every machine has a Wayland clipboard, a         *)
(* ClipboardManager (set, and the monitor task), and the server relays     *)
(* texts between the machines of its clients.                              *)
(*                                                                         *)
(* A text is a sequence of newlines and of fragments of lines.  wl-paste   *)
(* --watch cat (external) prints the clipboard, and no newline after it,   *)
(* when it starts and after every change; the monitor reads the prints as  *)
(* one stream, in which nothing shows where a text ends.                   *)
(***************************************************************************)
EXTENDS Integers, Sequences

CONSTANTS
  Clients,   \* the machines of clients
  TheServer, \* the server's machine
  Fragments, \* what a piece of a line may be
  UserTexts, \* what users copy
  QueueCap,  \* CLIENT_QUEUE, 1024 in the code
  OutCap,    \* capacity of the monitor's channel, 32 in the code
  NetCap,    \* texts a socket buffers
  MaxCopies, \* bound of the model: copies that users make
  NoText     \* no text, not even an empty one

Machines == Clients \cup {TheServer}
NL == "newline"
Text == Seq(Fragments \cup {NL})
Empty == << >>

ASSUME ClipboardAssumption ==
  /\ TheServer \notin Clients
  /\ NL \notin Fragments /\ UserTexts \subseteq Text \ {Empty}
  /\ QueueCap \in Nat \ {0} /\ OutCap \in Nat /\ NetCap \in Nat \ {0}
  /\ MaxCopies \in Nat
  /\ NoText \notin Text

VARIABLES
  calm,     \* chosen once: users wait for the exchange to come to rest before
            \* they copy again, and nothing fails
  plain,    \* chosen once: users copy no text of several lines
  has_copy, \* chosen once: wl-copy can be run on the machine
  clients,  \* chosen once: the clients that are registered with the server
  board,    \* the clipboard
  last,     \* last_content
  mon,      \* the monitor task: "initial" (get_clipboard), "spawn", "watch",
            \* "eof" (the watcher has exited), "poll", "ended"
  snap,     \* what get_clipboard returned, not used yet, or NoText
  pipe,     \* what the watcher printed, or will, and the monitor has not read
  part,     \* the line that read_line has begun (line, or more)
  reading,  \* content: the lines monitor_wayland has put together
  out,      \* tx, from the monitor to the main loop; one text more than OutCap
            \* is the one whose send waits
  setting,  \* the text a call of set waits for wl-copy to write, or NoText; the
            \* main loop waits with it
  origin,   \* the client whose text the server's set is writing
  up, down, \* ClipboardData to the server, and to each client
  paused,   \* clipboard_paused of the server
  copies,   \* copies made so far
  cut,      \* history: a begun line was dropped since the last print
  own,      \* history: the machines whose clipboard was ever not set by set
  shared,   \* history: what the last copy should come to be everywhere, or NoText
  missed    \* history: since then the server has dropped a text of its own

frozenVars == <<calm, plain, has_copy, clients>>
machineVars == <<board, last, mon, snap, pipe, part, reading, out, setting>>
historyVars == <<cut, own, shared, missed>>
vars == <<frozenVars, machineVars, origin, up, down, paused, copies, historyVars>>

MonitorPhases == {"initial", "spawn", "watch", "eof", "poll", "ended"}

ClipboardTypeOK ==
  /\ calm \in BOOLEAN /\ plain \in BOOLEAN
  /\ has_copy \in [Machines -> BOOLEAN]
  /\ clients \subseteq Clients
  /\ board \in [Machines -> Text]
  /\ last \in [Machines -> Text]
  /\ mon \in [Machines -> MonitorPhases]
  /\ snap \in [Machines -> Text \cup {NoText}]
  /\ pipe \in [Machines -> Text]
  /\ part \in [Machines -> Text]
  /\ reading \in [Machines -> Text]
  /\ out \in [Machines -> Seq(Text)]
  /\ setting \in [Machines -> Text \cup {NoText}]
  /\ origin \in Machines
  /\ up \in [Clients -> Seq(Text)]
  /\ down \in [Clients -> Seq(Text)]
  /\ paused \in BOOLEAN
  /\ copies \in Nat
  /\ cut \in [Machines -> BOOLEAN]
  /\ own \subseteq Machines
  /\ shared \in Text \cup {NoText}
  /\ missed \in BOOLEAN
  /\ \A m \in Machines : Len(out[m]) <= OutCap + 1
  /\ \A c \in Clients : Len(down[c]) <= QueueCap

OneLine(t) == \A i \in 1 .. Len(t) - 1 : t[i] # NL

Copyable == {t \in UserTexts : plain => OneLine(t)}

Init ==
  /\ calm \in BOOLEAN /\ plain \in BOOLEAN
  /\ has_copy \in [Machines -> BOOLEAN]
  /\ calm => \A m \in Machines : has_copy[m]
  /\ clients \in SUBSET Clients
  /\ board \in [Machines -> {Empty} \cup Copyable]
  /\ last = [m \in Machines |-> Empty]
  /\ mon = [m \in Machines |-> "initial"]
  /\ snap = [m \in Machines |-> NoText]
  /\ pipe = [m \in Machines |-> Empty]
  /\ part = [m \in Machines |-> Empty]
  /\ reading = [m \in Machines |-> Empty]
  /\ out = [m \in Machines |-> << >>]
  /\ setting = [m \in Machines |-> NoText]
  /\ origin = TheServer
  /\ up = [c \in Clients |-> << >>]
  /\ down = [c \in Clients |-> << >>]
  /\ paused = FALSE
  /\ copies = 0
  /\ cut = [m \in Machines |-> FALSE]
  /\ own = {m \in Machines : board[m] # Empty}
  /\ shared = NoText
  /\ missed = FALSE

\* The machines that share their clipboards.
Attached == clients \cup {TheServer}

\* Nothing is on its way: every monitor watches and waits for a line to end.
Quiet ==
  /\ \A m \in Attached :
       /\ mon[m] = "watch" /\ pipe[m] = Empty /\ reading[m] = Empty
       /\ out[m] = << >> /\ setting[m] = NoText
  /\ \A c \in clients : up[c] = << >> /\ down[c] = << >>

-----------------------------------------------------------------------------
(* Texts.                                                                  *)

\* A text that is not only newlines, and what trim_end_matches('\n') leaves.
HasInk(t) == \E i \in DOMAIN t : t[i] # NL

TrimmedLen(t) ==
  CHOOSE n \in 0 .. Len(t) :
    /\ \A i \in n + 1 .. Len(t) : t[i] = NL
    /\ n # 0 => t[n] # NL

\* Mutant: newlines are not trimmed.
Untrimmed(t) == t

Trim(t) == SubSeq(t, 1, TrimmedLen(t))

\* A line, with the newline that ends it.
IsLine(t) == OneLine(t) /\ HasInk(t) /\ t[Len(t)] = NL

-----------------------------------------------------------------------------
(* The clipboard of one machine, and the watcher that prints it.           *)

Becomes(m, t) ==
  /\ board' = [board EXCEPT ![m] = t]
  /\ IF mon[m] = "watch"
       THEN /\ pipe' = [pipe EXCEPT ![m] = @ \o t]
            /\ cut' = [cut EXCEPT ![m] = FALSE]
       ELSE UNCHANGED <<pipe, cut>>

\* The others should get the copy as it is if the user is patient, it is a line
\* that the monitor has not recorded, and the reader has nothing left over.
UserCopies(m, t) ==
  /\ copies < MaxCopies /\ copies' = copies + 1
  /\ calm => Quiet
  /\ Becomes(m, t)
  /\ own' = own \cup {m}
  /\ shared' = IF calm /\ IsLine(t) /\ part[m] = Empty /\ last[m] # Trim(t)
                 THEN Trim(t) ELSE NoText
  /\ missed' = FALSE
  /\ UNCHANGED <<frozenVars, last, mon, snap, part, reading, out, setting, origin,
                 up, down, paused>>

-----------------------------------------------------------------------------
(* The monitor task.                                                       *)

\* Mutant: take_if_changed does not record.
TakeUnrecorded(m, t) ==
  IF t = Empty \/ t = last[m]
    THEN UNCHANGED <<last, out>>
    ELSE out' = [out EXCEPT ![m] = Append(@, t)] /\ UNCHANGED last

\* take_if_changed, and the send that follows when it returns true.
TakeIfChanged(m, t) ==
  IF t = Empty \/ t = last[m]
    THEN UNCHANGED <<last, out>>
    ELSE /\ last' = [last EXCEPT ![m] = t]
         /\ out' = [out EXCEPT ![m] = Append(@, t)]

CanSend(m) == Len(out[m]) <= OutCap

\* get_clipboard: wl-paste fails, and the text is empty, or prints the text,
\* which may have changed when it is used.
GetClipboard(m) ==
  /\ mon[m] \in {"initial", "poll"} /\ snap[m] = NoText
  /\ mon[m] = "poll" => CanSend(m)
  /\ \E t \in {board[m]} \cup (IF calm THEN {} ELSE {Empty}) :
       snap' = [snap EXCEPT ![m] = t]
  /\ UNCHANGED <<frozenVars, board, last, mon, pipe, part, reading, out, setting,
                 origin, up, down, paused, copies, historyVars>>

StoreInitial(m) ==
  /\ mon[m] = "initial" /\ snap[m] # NoText
  /\ last' = [last EXCEPT ![m] = snap[m]]
  /\ snap' = [snap EXCEPT ![m] = NoText]
  /\ mon' = [mon EXCEPT ![m] = "spawn"]
  /\ UNCHANGED <<frozenVars, board, pipe, part, reading, out, setting, origin, up,
                 down, paused, copies, historyVars>>

StartWatcher(m) ==
  /\ mon[m] = "spawn"
  /\ mon' = [mon EXCEPT ![m] = "watch"]
  /\ pipe' = [pipe EXCEPT ![m] = board[m]]
  /\ UNCHANGED <<frozenVars, board, last, snap, part, reading, out, setting, origin,
                 up, down, paused, copies, historyVars>>

FallBackToPolling(m) ==
  /\ ~calm /\ mon[m] = "spawn"
  /\ mon' = [mon EXCEPT ![m] = "poll"]
  /\ UNCHANGED <<frozenVars, board, last, snap, pipe, part, reading, out, setting,
                 origin, up, down, paused, copies, historyVars>>

\* One more piece of what read_line waits for: a line is read when its newline
\* is, and added to content.
ReadLine(m) ==
  /\ mon[m] \in {"watch", "eof"} /\ pipe[m] # Empty /\ CanSend(m)
  /\ pipe' = [pipe EXCEPT ![m] = Tail(@)]
  /\ IF Head(pipe[m]) = NL
       THEN /\ reading' = [reading EXCEPT ![m] = @ \o Append(part[m], NL)]
            /\ part' = [part EXCEPT ![m] = Empty]
       ELSE /\ part' = [part EXCEPT ![m] = Append(@, Head(pipe[m]))]
            /\ UNCHANGED reading
  /\ UNCHANGED <<frozenVars, board, last, mon, snap, out, setting, origin, up,
                 down, paused, copies, historyVars>>

\* At the end of file read_line returns a line that has no end.
ReadUnended(m) ==
  /\ mon[m] = "eof" /\ pipe[m] = Empty /\ part[m] # Empty /\ CanSend(m)
  /\ reading' = [reading EXCEPT ![m] = @ \o part[m]]
  /\ part' = [part EXCEPT ![m] = Empty]
  /\ UNCHANGED <<frozenVars, board, last, mon, snap, pipe, out, setting, origin,
                 up, down, paused, copies, historyVars>>

\* Nothing, or only the beginning of a line, came within 20 ms, which says
\* nothing of what comes next: read_line is cancelled and drops the beginning.
\* Or the file has ended.
ContentComplete(m) ==
  /\ reading[m] # Empty
  /\ TakeIfChanged(m, Trim(reading[m]))
  /\ reading' = [reading EXCEPT ![m] = Empty]
  /\ part' = [part EXCEPT ![m] = Empty]
  /\ cut' = [cut EXCEPT ![m] = @ \/ part[m] # Empty]
  /\ UNCHANGED <<frozenVars, board, mon, snap, pipe, setting, origin, up, down,
                 paused, copies, own, shared, missed>>

\* What the watcher had not printed yet is lost.
WatcherDies(m) ==
  /\ ~calm /\ mon[m] = "watch"
  /\ mon' = [mon EXCEPT ![m] = "eof"]
  /\ \E n \in 0 .. Len(pipe[m]) : pipe' = [pipe EXCEPT ![m] = SubSeq(@, 1, n)]
  /\ UNCHANGED <<frozenVars, board, last, snap, part, reading, out, setting,
                 origin, up, down, paused, copies, historyVars>>

\* monitor_wayland returns Ok, so monitor returns too.
MonitorEnds(m) ==
  /\ mon[m] = "eof" /\ pipe[m] = Empty /\ part[m] = Empty /\ reading[m] = Empty
  /\ CanSend(m)
  /\ mon' = [mon EXCEPT ![m] = "ended"]
  /\ UNCHANGED <<frozenVars, board, last, snap, pipe, part, reading, out, setting,
                 origin, up, down, paused, copies, historyVars>>

PollCompares(m) ==
  /\ mon[m] = "poll" /\ snap[m] # NoText
  /\ TakeIfChanged(m, snap[m])
  /\ snap' = [snap EXCEPT ![m] = NoText]
  /\ UNCHANGED <<frozenVars, board, mon, pipe, part, reading, setting, origin, up,
                 down, paused, copies, historyVars>>

Monitor(m) ==
  \/ GetClipboard(m) \/ StoreInitial(m)
  \/ StartWatcher(m) \/ FallBackToPolling(m)
  \/ ReadLine(m) \/ ReadUnended(m) \/ ContentComplete(m) \/ MonitorEnds(m)
  \/ PollCompares(m)

-----------------------------------------------------------------------------
(* set: record, run wl-copy, wait.                                         *)

SetBegins(m, t) ==
  /\ setting[m] = NoText
  /\ last' = [last EXCEPT ![m] = t]
  /\ setting' = [setting EXCEPT ![m] = t]

\* wl-copy has taken over the clipboard and its parent has exited, or there is
\* no wl-copy.
SetEnds(m) ==
  /\ setting[m] # NoText
  /\ IF has_copy[m] THEN Becomes(m, setting[m]) ELSE UNCHANGED <<board, pipe, cut>>
  /\ setting' = [setting EXCEPT ![m] = NoText]

-----------------------------------------------------------------------------
(* The server's main loop.                                                 *)

\* Mutant: the queues have no bound.
SendToAnyway(targets, t) ==
  down' = [c \in Clients |-> IF c \in targets THEN Append(down[c], t) ELSE down[c]]

\* send_to a set of clients: a full queue drops the text.
SendTo(targets, t) ==
  down' = [c \in Clients |->
             IF c \in targets /\ Len(down[c]) < QueueCap THEN Append(down[c], t)
                                                        ELSE down[c]]

BroadcastClipboard ==
  /\ setting[TheServer] = NoText /\ out[TheServer] # << >>
  /\ out' = [out EXCEPT ![TheServer] = Tail(@)]
  /\ IF paused
       THEN UNCHANGED down /\ missed' = TRUE
       ELSE SendTo(clients, Head(out[TheServer])) /\ UNCHANGED missed
  /\ UNCHANGED <<frozenVars, board, last, mon, snap, pipe, part, reading, setting,
                 origin, up, paused, copies, cut, own, shared>>

HandleClipboardData(c) ==
  /\ up[c] # << >>
  /\ SetBegins(TheServer, Head(up[c]))
  /\ up' = [up EXCEPT ![c] = Tail(@)]
  /\ origin' = c
  /\ UNCHANGED <<frozenVars, board, mon, snap, pipe, part, reading, out, down, paused,
                 copies, historyVars>>

\* Mutant: the text goes back to where it came from.
RelayToSender ==
  /\ SetEnds(TheServer)
  /\ SendTo(clients \cap {origin}, setting[TheServer])
  /\ origin' = TheServer
  /\ UNCHANGED <<frozenVars, last, mon, snap, part, reading, out, up, paused, copies,
                 own, shared, missed>>

\* set has returned: the others get the text.
RelayClipboardData ==
  /\ SetEnds(TheServer)
  /\ SendTo(clients \ {origin}, setting[TheServer])
  /\ origin' = TheServer
  /\ UNCHANGED <<frozenVars, last, mon, snap, part, reading, out, up, paused, copies,
                 own, shared, missed>>

\* A client becomes active, or the server again.
SwitchControl ==
  /\ setting[TheServer] = NoText
  /\ paused' = ~paused
  /\ UNCHANGED <<frozenVars, machineVars, origin, up, down, copies, historyVars>>

-----------------------------------------------------------------------------
(* A client's main loop.                                                   *)

SendCopy(c) ==
  /\ setting[c] = NoText /\ out[c] # << >> /\ Len(up[c]) < NetCap
  /\ up' = [up EXCEPT ![c] = Append(@, Head(out[c]))]
  /\ out' = [out EXCEPT ![c] = Tail(@)]
  /\ UNCHANGED <<frozenVars, board, last, mon, snap, pipe, part, reading, setting,
                 origin, down, paused, copies, historyVars>>

ApplyClipboard(c) ==
  /\ down[c] # << >>
  /\ SetBegins(c, Head(down[c]))
  /\ down' = [down EXCEPT ![c] = Tail(@)]
  /\ UNCHANGED <<frozenVars, board, mon, snap, pipe, part, reading, out, origin, up,
                 paused, copies, historyVars>>

ClipboardApplied(c) ==
  /\ SetEnds(c)
  /\ UNCHANGED <<frozenVars, last, mon, snap, part, reading, out, origin, up, down,
                 paused, copies, own, shared, missed>>

-----------------------------------------------------------------------------
ServerLoop ==
  \/ BroadcastClipboard \/ RelayClipboardData
  \/ \E c \in clients : HandleClipboardData(c)
ClientLoop(c) == SendCopy(c) \/ ApplyClipboard(c) \/ ClipboardApplied(c)

Next ==
  \/ \E m \in Attached :
       Monitor(m) \/ WatcherDies(m) \/ \E t \in Copyable : UserCopies(m, t)
  \/ ServerLoop \/ SwitchControl
  \/ \E c \in clients : ClientLoop(c)

Spec == Init /\ [][Next]_vars

\* Every task runs when it can; nothing is assumed of the users.
FairSpec ==
  /\ Spec
  /\ \A m \in Machines : WF_vars(m \in Attached /\ Monitor(m))
  /\ WF_vars(ServerLoop)
  /\ \A c \in Clients : WF_vars(c \in clients /\ ClientLoop(c))
-----------------------------------------------------------------------------
(* Properties                                                              *)

EndsWith(t, u) ==
  /\ Len(u) <= Len(t)
  /\ \A i \in 1 .. Len(u) : u[i] = t[Len(t) - Len(u) + i]

Alike(t, u) == EndsWith(t, u) \/ EndsWith(u, t)

\* Once the monitor has read everything the watcher printed and no set is under
\* way, the clipboard is what the monitor has recorded, or is the line it has
\* begun, up to the way the stream was split into contents (one is the end of
\* the other): a change is never lost between the initial read, the record set
\* makes before it writes, the user's copies and the monitor's comparison.  It
\* is lost when read_line is cancelled in the middle of a line (cut).
CaughtUp ==
  \A m \in Attached :
    (/\ has_copy[m] /\ mon[m] = "watch" /\ ~cut[m]
     /\ pipe[m] = Empty /\ reading[m] = Empty /\ setting[m] = NoText)
      => /\ part[m] # Empty => Alike(part[m], board[m])
         /\ part[m] = Empty /\ HasInk(board[m]) =>
              last[m] # Empty /\ Alike(last[m], Trim(board[m]))

\* When users wait for one copy to arrive before they make the next, a line that
\* was copied with its newline, where the reader had nothing left over, ends on
\* the clipboard of every machine: it reaches all of them, and no echo of it or
\* of what they held takes its place.  Only a copy that the server made while a
\* client was active, and dropped, stays on the server.
QuietMeansAgreed ==
  calm /\ Quiet /\ shared # NoText =>
    \A m \in Attached : Trim(board[m]) = shared \/ (missed /\ m # TheServer)

\* What clipboard.rs says of last_content: a text that came from another machine
\* is not sent back, so a machine that has had no other has nothing to send.
NotEchoed == \A m \in Attached \ own : out[m] = << >>

\* When users wait, what they copy comes to rest, if it has no more than one line
\* or there is one client: no text is sent to and fro for ever.  What ends the
\* exchange is that the texts that come back have lost a newline.
Settles == calm /\ (plain \/ \E c \in Clients : clients \subseteq {c}) => []<>Quiet
=============================================================================
