------------------------------- MODULE Daemon -------------------------------
(***************************************************************************)
(* Starting, stopping and restarting one component (the server, or the     *)
(* client of a machine): the pid file and the ctl commands of daemon.rs,   *)
(* and the life of a process in run of server.rs and client.rs.            *)
(*                                                                         *)
(* A process is one run of the program.  The pids of the two forks of      *)
(* daemonize, which nobody sees before the pid file is written, are not    *)
(* told apart.  Pids are not reused and have the same number of digits.    *)
(***************************************************************************)
EXTENDS Integers

CONSTANTS
  Ctls,         \* terminals where bluecross ctl is run
  MaxCommands,  \* bound of the model: ctl commands
  MaxLaunches,  \* bound of the model: processes not started by ctl
  Nobody        \* no pid

\* A command starts at most one process.  Pids are given out in order.
Procs == 1 .. (MaxCommands + MaxLaunches)
Gone == 0     \* the pid of a process that no longer exists

ASSUME DaemonAssumption ==
  /\ MaxCommands \in Nat /\ MaxLaunches \in Nat
  /\ Ctls \cap Procs = {}
  /\ Nobody \notin Procs \cup {Gone}

VARIABLES
  component,  \* chosen once: "server" or "client"
  healthy,    \* chosen once: nothing fails, and a process told to end does
  file,       \* the pid file
  handle,     \* the processes that have it open, to write it
  port,       \* the process that listens on the server's port, or Nobody
  pc,         \* where each process and each terminal is
  rd,         \* at a call of read_pid: the step of it that is next
  found,      \* the pid that read_pid read, or returned
  cmd,        \* the command of each terminal
  term,       \* processes with a SIGTERM that they handle
  killed,     \* processes with a SIGKILL
  commands,   \* ctl commands so far
  launches,   \* processes started so far that ctl did not start
  wanted,     \* history: the last command was to start, and began by itself
  alone       \* history: no process was started while a command other than the
              \* one that starts it ran, and nothing was started while a process
              \* was on its way to its pid file

frozenVars == <<component, healthy>>
actorVars == <<pc, rd, found>>
signalVars == <<term, killed>>
commandVars == <<cmd, commands, launches, wanted, alone>>
vars == <<frozenVars, file, handle, port, actorVars, signalVars, commandVars>>

Actors == Procs \cup Ctls
Pids == Procs \cup {Gone}

NoFile == [kind |-> "none", pid |-> Nobody]
NoPid == [kind |-> "empty", pid |-> Nobody]   \* created, and not written
Names(p) == [kind |-> "pid", pid |-> p]
Files == {NoFile, NoPid} \cup {Names(p) : p \in Pids}

\* Where read_pid is called: "check" is is_running in run, "restart?", "start?",
\* "started?" and "stop?" are is_running in the commands, "stop_pid" is in
\* stop_daemon, and "stop_name" and "name" print the pid.
CtlReads == {"restart?", "start?", "started?", "stop?", "stop_name", "stop_pid", "name"}
CtlPhases == CtlReads \cup {"idle", "spawn", "signal", "wait", "unlink"}
\* A process that looks at the pid file and will write it.
Arriving == {"check", "config", "create", "write"}
\* A process without signal handlers, after it has written the pid file.
Starting == {"starting", "bound", "failed"}
ProcPhases == Arriving \cup Starting \cup
              {"unused", "serving", "leaving", "exiting", "dead"}

DaemonTypeOK ==
  /\ component \in {"server", "client"} /\ healthy \in BOOLEAN
  /\ file \in Files
  /\ handle \subseteq Procs
  /\ port \in Procs \cup {Nobody}
  /\ pc \in [Actors -> ProcPhases \cup CtlPhases]
  /\ \A p \in Procs : pc[p] \in ProcPhases
  /\ \A c \in Ctls : pc[c] \in CtlPhases
  /\ rd \in [Actors -> {"read", "probe", "remove"}]
  /\ found \in [Actors -> Pids \cup {Nobody}]
  /\ \A a \in Actors : rd[a] # "read" => found[a] \in Pids
  /\ \A c \in Ctls : pc[c] \in {"signal", "wait", "unlink"} => found[c] \in Procs
  /\ cmd \in [Ctls -> {"none", "start", "stop", "restart", "status"}]
  /\ term \subseteq Procs /\ killed \subseteq Procs
  /\ commands \in 0 .. MaxCommands /\ launches \in 0 .. MaxLaunches
  /\ wanted \in BOOLEAN /\ alone \in BOOLEAN

\* A crash may have left a pid file behind.
Init ==
  /\ component \in {"server", "client"} /\ healthy \in BOOLEAN
  /\ file \in {NoFile, NoPid, Names(Gone)}
  /\ handle = {}
  /\ port = Nobody
  /\ pc = [a \in Actors |-> IF a \in Ctls THEN "idle" ELSE "unused"]
  /\ rd = [a \in Actors |-> "read"]
  /\ found = [a \in Actors |-> Nobody]
  /\ cmd = [c \in Ctls |-> "none"]
  /\ term = {} /\ killed = {}
  /\ commands = 0 /\ launches = 0
  /\ wanted = FALSE /\ alone = TRUE

Alive(p) == p \in Procs /\ pc[p] \notin {"unused", "dead"}
Runs(p) == Alive(p) /\ p \notin killed

NoOther(a) == \A c \in Ctls \ {a} : pc[c] = "idle"
NoArrival == \A p \in Procs : pc[p] \notin Arriving

GoesTo(a, phase) ==
  /\ pc' = [pc EXCEPT ![a] = phase]
  /\ rd' = [rd EXCEPT ![a] = "read"]
  /\ found' = [found EXCEPT ![a] = Nobody]

\* remove_file: whoever had the file open writes to a file without a name.
RemovePidFile == file' = NoFile /\ handle' = {}

\* A process ends, with the pid file as it is; the kernel closes its sockets.
Dies(p) ==
  /\ GoesTo(p, "dead")
  /\ handle' = handle \ {p}
  /\ port' = IF port = p THEN Nobody ELSE port

-----------------------------------------------------------------------------
(* read_pid                                                                *)

\* Where a command goes on when the stop it is, or is part of, is done.
AfterStop(c) == IF cmd[c] = "restart" THEN "start?" ELSE "idle"

AfterRead(a, point, running) ==
  CASE point = "check"     -> IF running THEN "dead" ELSE "config"
    [] point = "restart?"  -> IF running THEN "stop?" ELSE "start?"
    [] point = "start?"    -> IF running THEN "name" ELSE "spawn"
    [] point = "started?"  -> IF running THEN "name" ELSE "idle"
    [] point = "stop?"     -> IF running THEN "stop_name" ELSE AfterStop(a)
    [] point = "stop_name" -> "stop_pid"
    [] point = "stop_pid"  -> IF running THEN "signal" ELSE AfterStop(a)
    [] point = "name"      -> "idle"

Calls(a) ==
  IF a \in Procs THEN pc[a] = "check" /\ a \notin killed ELSE pc[a] \in CtlReads

Returns(a, q) ==
  /\ pc' = [pc EXCEPT ![a] = AfterRead(a, @, q # Nobody)]
  /\ rd' = [rd EXCEPT ![a] = "read"]
  /\ found' = [found EXCEPT ![a] = IF pc[a] = "stop_pid" THEN q ELSE Nobody]

\* exists, read_to_string and parse.
ReadPidFile(a) ==
  /\ Calls(a) /\ rd[a] = "read"
  /\ IF file.kind = "pid"
       THEN /\ found' = [found EXCEPT ![a] = file.pid]
            /\ rd' = [rd EXCEPT ![a] = "probe"]
            /\ UNCHANGED pc
       ELSE Returns(a, Nobody)
  /\ UNCHANGED <<frozenVars, file, handle, port, signalVars, commandVars>>

\* Mutant: a pid file is enough, the process need not exist.
ProbeNothing(a) ==
  /\ Calls(a) /\ rd[a] = "probe"
  /\ Returns(a, found[a])
  /\ UNCHANGED <<frozenVars, file, handle, port, signalVars, commandVars>>

\* kill(pid, 0)
ProbePid(a) ==
  /\ Calls(a) /\ rd[a] = "probe"
  /\ IF Alive(found[a])
       THEN Returns(a, found[a])
       ELSE rd' = [rd EXCEPT ![a] = "remove"] /\ UNCHANGED <<pc, found>>
  /\ UNCHANGED <<frozenVars, file, handle, port, signalVars, commandVars>>

RemoveStale(a) ==
  /\ Calls(a) /\ rd[a] = "remove"
  /\ RemovePidFile
  /\ Returns(a, Nobody)
  /\ UNCHANGED <<frozenVars, port, signalVars, commandVars>>

ReadPid(a) == ReadPidFile(a) \/ ProbePid(a) \/ RemoveStale(a)

-----------------------------------------------------------------------------
(* The life of a process: run, and run_async as far as it matters here.    *)

IsNext(p) == pc[p] = "unused" /\ \A q \in Procs : q < p => pc[q] # "unused"

\* From a shell, or the systemd unit.
Launch(p) ==
  /\ launches < MaxLaunches /\ IsNext(p)
  /\ launches' = launches + 1
  /\ GoesTo(p, "check")
  /\ wanted' = NoOther(p)
  /\ alone' = (alone /\ NoOther(p) /\ NoArrival)
  /\ UNCHANGED <<frozenVars, file, handle, port, signalVars, cmd, commands>>

\* The configuration, daemonize and setup_logging.
LoadConfig(p) ==
  /\ Runs(p) /\ pc[p] = "config"
  /\ \E next \in {"create"} \cup (IF healthy THEN {} ELSE {"dead"}) : GoesTo(p, next)
  /\ UNCHANGED <<frozenVars, file, handle, port, signalVars, commandVars>>

\* fs::write creates or truncates the file, then writes the pid.
CreatePidFile(p) ==
  /\ Runs(p) /\ pc[p] = "create"
  /\ file' = NoPid
  /\ handle' = handle \cup {p}
  /\ GoesTo(p, "write")
  /\ UNCHANGED <<frozenVars, port, signalVars, commandVars>>

WritePidFile(p) ==
  /\ Runs(p) /\ pc[p] = "write"
  /\ file' = IF p \in handle THEN Names(p) ELSE file
  /\ handle' = handle \ {p}
  /\ GoesTo(p, "starting")
  /\ UNCHANGED <<frozenVars, port, signalVars, commandVars>>

\* The input devices, and the server's port or the client's connection.
Binds(p) ==
  /\ Runs(p) /\ pc[p] = "starting"
  /\ component = "server" => port = Nobody
  /\ port' = IF component = "server" THEN p ELSE port
  /\ GoesTo(p, "bound")
  /\ UNCHANGED <<frozenVars, file, handle, signalVars, commandVars>>

StartFails(p) ==
  /\ Runs(p) /\ pc[p] = "starting"
  /\ ~healthy \/ (component = "server" /\ port # Nobody)
  /\ GoesTo(p, "failed")
  /\ UNCHANGED <<frozenVars, file, handle, port, signalVars, commandVars>>

InstallHandlers(p) ==
  /\ Runs(p) /\ pc[p] = "bound"
  /\ GoesTo(p, "serving")
  /\ UNCHANGED <<frozenVars, file, handle, port, signalVars, commandVars>>

\* The main loop ends: SIGTERM; or SIGINT, or a client's lost connection.
LoopEnds(p) ==
  /\ Runs(p) /\ pc[p] = "serving"
  /\ p \in term \/ ~healthy
  /\ GoesTo(p, "leaving")
  /\ UNCHANGED <<frozenVars, file, handle, port, signalVars, commandVars>>

CleanupPid(p) ==
  /\ Runs(p) /\ pc[p] \in {"leaving", "failed"}
  /\ RemovePidFile
  /\ GoesTo(p, "exiting")
  /\ UNCHANGED <<frozenVars, port, signalVars, commandVars>>

\* run returns: the runtime is dropped, and the listener with it.
Exits(p) ==
  /\ Runs(p) /\ pc[p] = "exiting"
  /\ Dies(p)
  /\ UNCHANGED <<frozenVars, file, signalVars, commandVars>>

\* A SIGKILL, a SIGTERM without a handler, or a crash.
KernelKills(p) ==
  /\ Alive(p)
  /\ p \in killed \/ ~healthy
  /\ Dies(p)
  /\ UNCHANGED <<frozenVars, file, signalVars, commandVars>>

-----------------------------------------------------------------------------
(* bluecross ctl                                                           *)

FirstRead == [start |-> "start?", stop |-> "stop?", restart |-> "restart?", status |-> "name"]

CtlBegins(c, k) ==
  /\ pc[c] = "idle" /\ commands < MaxCommands
  /\ commands' = commands + 1
  /\ cmd' = [cmd EXCEPT ![c] = k]
  /\ GoesTo(c, FirstRead[k])
  /\ wanted' = IF k = "status" THEN wanted ELSE k # "stop" /\ NoOther(c)
  /\ alone' = (alone /\ NoArrival)
  /\ UNCHANGED <<frozenVars, file, handle, port, signalVars, launches>>

\* cmd_start spawns a process and looks for it after 500 ms; with -f the process
\* takes its place.
SpawnProcess(c, p) ==
  /\ pc[c] = "spawn" /\ IsNext(p)
  /\ \E next \in {"started?", "idle"} : pc' = [pc EXCEPT ![p] = "check", ![c] = next]
  /\ alone' = (alone /\ NoOther(c) /\ NoArrival)
  /\ UNCHANGED <<frozenVars, file, handle, port, rd, found, signalVars, cmd,
                 commands, launches, wanted>>

\* SIGTERM: without handlers the process dies of it.
SendTerm(c) ==
  /\ pc[c] = "signal"
  /\ LET q == found[c] IN
     /\ killed' = IF Alive(q) /\ pc[q] \in Starting THEN killed \cup {q} ELSE killed
     /\ term' = IF Alive(q) /\ pc[q] \notin Starting THEN term \cup {q} ELSE term
  /\ pc' = [pc EXCEPT ![c] = "wait"]
  /\ UNCHANGED <<frozenVars, file, handle, port, rd, found, commandVars>>

\* Mutants: stop does not wait, does not kill after 5 seconds, or waits on.
WaitSkipped(c) ==
  /\ pc[c] = "wait"
  /\ pc' = [pc EXCEPT ![c] = "unlink"]
  /\ UNCHANGED <<frozenVars, file, handle, port, rd, found, signalVars, commandVars>>

GiveUp(c) ==
  /\ ~healthy /\ pc[c] = "wait" /\ Alive(found[c])
  /\ pc' = [pc EXCEPT ![c] = "unlink"]
  /\ UNCHANGED <<frozenVars, file, handle, port, rd, found, signalVars, commandVars>>

WaitForever(c) == c \notin Ctls /\ UNCHANGED vars

WaitOver(c) ==
  /\ pc[c] = "wait" /\ ~Alive(found[c])
  /\ pc' = [pc EXCEPT ![c] = "unlink"]
  /\ UNCHANGED <<frozenVars, file, handle, port, rd, found, signalVars, commandVars>>

\* 5 seconds have passed.
ForceKill(c) ==
  /\ ~healthy /\ pc[c] = "wait" /\ Alive(found[c])
  /\ killed' = killed \cup {found[c]}
  /\ pc' = [pc EXCEPT ![c] = "unlink"]
  /\ UNCHANGED <<frozenVars, file, handle, port, rd, found, term, commandVars>>

StopUnlinks(c) ==
  /\ pc[c] = "unlink"
  /\ RemovePidFile
  /\ GoesTo(c, AfterStop(c))
  /\ UNCHANGED <<frozenVars, port, signalVars, commandVars>>

-----------------------------------------------------------------------------
Process(p) ==
  \/ ReadPid(p) \/ LoadConfig(p) \/ CreatePidFile(p) \/ WritePidFile(p)
  \/ Binds(p) \/ StartFails(p) \/ InstallHandlers(p) \/ CleanupPid(p) \/ Exits(p)

Ctl(c) ==
  \/ ReadPid(c) \/ (\E p \in Procs : SpawnProcess(c, p))
  \/ SendTerm(c) \/ WaitOver(c) \/ ForceKill(c) \/ StopUnlinks(c)

Next ==
  \/ \E p \in Procs : Process(p) \/ LoopEnds(p) \/ KernelKills(p) \/ Launch(p)
  \/ \E c \in Ctls : Ctl(c) \/ \E k \in DOMAIN FirstRead : CtlBegins(c, k)

Spec == Init /\ [][Next]_vars

\* Commands and processes run when they can; a process that hangs (~healthy) does
\* not notice SIGTERM, and dies of SIGKILL.
FairSpec ==
  /\ Spec
  /\ \A c \in Ctls : WF_vars(Ctl(c))
  /\ \A p \in Procs : WF_vars(Process(p) \/ (healthy /\ LoopEnds(p))
                                \/ (p \in killed /\ KernelKills(p)))
-----------------------------------------------------------------------------
(* Properties                                                              *)

\* While nobody interferes with a start, every process of the component that has
\* come up is the one the pid file names, so that ctl finds it and a second start
\* is refused: no stop, stale file, clean-up or failed start removes or overwrites
\* the file of a later process.
Listed ==
  alone => \A p \in Procs :
             Runs(p) /\ pc[p] \in Starting \cup {"serving"} => file = Names(p)

\* When a stop, or the stop of a restart, has run its course, no process runs that
\* was not told to die.
StopStops ==
  [][\A c \in Ctls :
       alone /\ pc[c] \in {"stop?", "stop_pid", "unlink"} /\ pc'[c] = AfterStop(c)
         => \A p \in Procs : ~(Runs(p) /\ pc[p] \in Starting \cup {"serving"})]_vars

\* Every command ends, also one that stops a process that hangs.
CommandsEnd == \A c \in Ctls : pc[c] # "idle" ~> pc[c] = "idle"

\* If nothing fails and nobody interferes, a start or a restart leaves the
\* component running, whatever pid file a crash has left behind.
StartServes ==
  <>[](healthy /\ alone /\ wanted => \E p \in Procs : pc[p] = "serving")
=============================================================================
