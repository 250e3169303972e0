---------------------------- MODULE DaemonProofs ----------------------------
(***************************************************************************)
(* What Daemon promises of its pid file, proved for every number of        *)
(* processes, terminals and commands.                                      *)
(***************************************************************************)
EXTENDS Daemon, TLAPS

\* A process the pid file must name: it has written it, and not removed it.
Owns(p) == pc[p] \in Starting \cup {"serving", "leaving"} /\ p \notin killed

\* An actor that relies on the pid it has read.
Relies(a) == (rd[a] # "read") \/ pc[a] \in {"signal", "wait", "unlink"}

\* What is true of readers whoever interferes.
Readers ==
  /\ \A p \in Procs : rd[p] # "read" => pc[p] = "check"
  /\ \A c \in Ctls : rd[c] # "read" => pc[c] \in CtlReads
  /\ file.kind = "pid" /\ file.pid \in Procs => pc[file.pid] # "unused"
  /\ \A a \in Actors : Relies(a) /\ found[a] \in Procs => pc[found[a]] # "unused"
  /\ \A a \in Actors : rd[a] = "remove" => ~Alive(found[a])
  /\ \A c \in Ctls : pc[c] = "unlink" => ~Runs(found[c])

\* While nobody interferes: how a process arrives,
Arrivals ==
  /\ \A p, q \in Procs : pc[p] \in Arriving /\ pc[q] \in Arriving => p = q
  /\ \A p \in Procs, c \in Ctls :
       pc[p] \in Arriving =>
         pc[c] = "idle" \/ (pc[c] = "started?" /\ rd[c] = "read" /\ file.kind # "pid")
  /\ \A p \in Procs : pc[p] \in {"config", "create", "write"} => file.kind # "pid"
  /\ \A c \in Ctls : pc[c] = "spawn" => file.kind # "pid"
  /\ \A p \in Procs : pc[p] = "write" => p \in handle

\* and that the file is the owner's, and every reader has read the owner.
Ownership ==
  /\ \A p \in Procs : Owns(p) => file = Names(p)
  /\ \A p \in Procs, a \in Actors : Owns(p) /\ Relies(a) => found[a] = p

DaemonIInv == DaemonTypeOK /\ Readers /\ (alone => Arrivals /\ Ownership)
-----------------------------------------------------------------------------
(* Every action keeps the invariant.  Everything the proofs compare with    *)
(* is expanded throughout.                                                  *)

USE DaemonAssumption DEF Actors, Pids, Files, NoFile, NoPid, Names, CtlReads, CtlPhases, Arriving,
    Starting, ProcPhases, Alive, Runs, Owns, Relies, GoesTo, frozenVars, actorVars,
    signalVars, commandVars

\* A reader may rely on the owner only.
LEMMA ReadPidFileKeeps ==
  ASSUME DaemonIInv, NEW a \in Actors, ReadPidFile(a)
  PROVE  DaemonIInv'
<1> USE DEF ReadPidFile, Calls, Returns, AfterRead, AfterStop
<1>1. DaemonTypeOK'
  BY DEF DaemonIInv, DaemonTypeOK
<1>2. Readers'
  BY DEF DaemonIInv, DaemonTypeOK, Readers
<1>3. alone' => Arrivals'
  BY DEF DaemonIInv, DaemonTypeOK, Readers, Arrivals, Ownership
<1>4. alone' => Ownership'
  BY DEF DaemonIInv, DaemonTypeOK, Readers, Arrivals, Ownership
<1>5. QED
  BY <1>1, <1>2, <1>3, <1>4 DEF DaemonIInv

\* A reader gives up a pid only when it is dead for good.
LEMMA ProbePidKeeps ==
  ASSUME DaemonIInv, NEW a \in Actors, ProbePid(a)
  PROVE  DaemonIInv'
<1> USE DEF ProbePid, Calls, Returns, AfterRead, AfterStop
<1>1. DaemonTypeOK'
  BY DEF DaemonIInv, DaemonTypeOK
<1>2. Readers'
  BY DEF DaemonIInv, DaemonTypeOK, Readers
<1>3. alone' => Arrivals'
  BY DEF DaemonIInv, DaemonTypeOK, Readers, Arrivals, Ownership
<1>4. alone' => Ownership'
  BY DEF DaemonIInv, DaemonTypeOK, Readers, Arrivals, Ownership
<1>5. QED
  BY <1>1, <1>2, <1>3, <1>4 DEF DaemonIInv

\* What a reader removes has no owner.
LEMMA RemoveStaleKeeps ==
  ASSUME DaemonIInv, NEW a \in Actors, RemoveStale(a)
  PROVE  DaemonIInv'
<1> USE DEF RemoveStale, Calls, Returns, AfterRead, AfterStop, RemovePidFile
<1>1. DaemonTypeOK'
  BY DEF DaemonIInv, DaemonTypeOK
<1>2. Readers'
  BY DEF DaemonIInv, DaemonTypeOK, Readers
<1>3. ASSUME alone' PROVE Arrivals'
  <2>1. \A p \in Procs : pc[p] \in {"config", "create", "write"} => p # a /\ rd[a] = "read"
    BY <1>3 DEF DaemonIInv, Readers, Arrivals, DaemonTypeOK
  <2>2. \A p \in Procs : pc'[p] # "write"
    BY <2>1 DEF DaemonIInv, DaemonTypeOK
  <2>3. \A p, q \in Procs : pc'[p] \in Arriving /\ pc'[q] \in Arriving => p = q
    BY <1>3 DEF DaemonIInv, DaemonTypeOK, Readers, Arrivals
  <2>4. \A p \in Procs, c \in Ctls :
          pc'[p] \in Arriving =>
            pc'[c] = "idle" \/ (pc'[c] = "started?" /\ rd'[c] = "read" /\ file'.kind # "pid")
    BY <1>3, ZenonT(30) DEF DaemonIInv, DaemonTypeOK, Readers, Arrivals
  <2>5. QED
    BY <2>2, <2>3, <2>4 DEF Arrivals
<1>4. alone' => Ownership'
  BY DEF DaemonIInv, DaemonTypeOK, Readers, Arrivals, Ownership
<1>5. QED
  BY <1>1, <1>2, <1>3, <1>4 DEF DaemonIInv

\* Nobody reads while a process is launched.
LEMMA LaunchKeeps ==
  ASSUME DaemonIInv, NEW p \in Procs, Launch(p)
  PROVE  DaemonIInv'
<1> USE DEF Launch, IsNext, NoOther, NoArrival
<1>1. DaemonTypeOK'
  BY DEF DaemonIInv, DaemonTypeOK
<1>2. Readers'
  BY DEF DaemonIInv, DaemonTypeOK, Readers
<1>3. alone' => Arrivals'
  BY ZenonT(30) DEF DaemonIInv, DaemonTypeOK, Readers, Arrivals, Ownership
<1>4. alone' => Ownership'
  BY DEF DaemonIInv, DaemonTypeOK, Readers, Arrivals, Ownership
<1>5. QED
  BY <1>1, <1>2, <1>3, <1>4 DEF DaemonIInv

\* The pid file is not touched yet.
LEMMA LoadConfigKeeps ==
  ASSUME DaemonIInv, NEW p \in Procs, LoadConfig(p)
  PROVE  DaemonIInv'
<1> USE DEF LoadConfig
<1>1. DaemonTypeOK'
  BY DEF DaemonIInv, DaemonTypeOK
<1>2. Readers'
  BY DEF DaemonIInv, DaemonTypeOK, Readers
<1>3. alone' => Arrivals'
  BY DEF DaemonIInv, DaemonTypeOK, Readers, Arrivals, Ownership
<1>4. alone' => Ownership'
  BY DEF DaemonIInv, DaemonTypeOK, Readers, Arrivals, Ownership
<1>5. QED
  BY <1>1, <1>2, <1>3, <1>4 DEF DaemonIInv

\* The file that is truncated has no owner.
LEMMA CreatePidFileKeeps ==
  ASSUME DaemonIInv, NEW p \in Procs, CreatePidFile(p)
  PROVE  DaemonIInv'
<1> USE DEF CreatePidFile
<1>1. DaemonTypeOK'
  BY DEF DaemonIInv, DaemonTypeOK
<1>2. Readers'
  BY DEF DaemonIInv, DaemonTypeOK, Readers
<1>3. alone' => Arrivals'
  BY DEF DaemonIInv, DaemonTypeOK, Readers, Arrivals, Ownership
<1>4. alone' => Ownership'
  BY DEF DaemonIInv, DaemonTypeOK, Readers, Arrivals, Ownership
<1>5. QED
  BY <1>1, <1>2, <1>3, <1>4 DEF DaemonIInv

\* The file that was created is still the one in the directory.
LEMMA WritePidFileKeeps ==
  ASSUME DaemonIInv, NEW p \in Procs, WritePidFile(p)
  PROVE  DaemonIInv'
<1> USE DEF WritePidFile
<1>1. DaemonTypeOK'
  BY DEF DaemonIInv, DaemonTypeOK
<1>2. Readers'
  BY DEF DaemonIInv, DaemonTypeOK, Readers
<1>3. alone' => Arrivals'
  BY DEF DaemonIInv, DaemonTypeOK, Readers, Arrivals, Ownership
<1>4. alone' => Ownership'
  BY DEF DaemonIInv, DaemonTypeOK, Readers, Arrivals, Ownership
<1>5. QED
  BY <1>1, <1>2, <1>3, <1>4 DEF DaemonIInv

\* The owner goes on.
LEMMA BindsKeeps ==
  ASSUME DaemonIInv, NEW p \in Procs, Binds(p)
  PROVE  DaemonIInv'
<1> USE DEF Binds
<1>1. DaemonTypeOK'
  BY DEF DaemonIInv, DaemonTypeOK
<1>2. Readers'
  BY DEF DaemonIInv, DaemonTypeOK, Readers
<1>3. alone' => Arrivals'
  BY DEF DaemonIInv, DaemonTypeOK, Readers, Arrivals, Ownership
<1>4. alone' => Ownership'
  BY DEF DaemonIInv, DaemonTypeOK, Readers, Arrivals, Ownership
<1>5. QED
  BY <1>1, <1>2, <1>3, <1>4 DEF DaemonIInv

\* The owner fails, and has the file still.
LEMMA StartFailsKeeps ==
  ASSUME DaemonIInv, NEW p \in Procs, StartFails(p)
  PROVE  DaemonIInv'
<1> USE DEF StartFails
<1>1. DaemonTypeOK'
  BY DEF DaemonIInv, DaemonTypeOK
<1>2. Readers'
  BY DEF DaemonIInv, DaemonTypeOK, Readers
<1>3. alone' => Arrivals'
  BY DEF DaemonIInv, DaemonTypeOK, Readers, Arrivals, Ownership
<1>4. alone' => Ownership'
  BY DEF DaemonIInv, DaemonTypeOK, Readers, Arrivals, Ownership
<1>5. QED
  BY <1>1, <1>2, <1>3, <1>4 DEF DaemonIInv

\* The owner goes on.
LEMMA InstallHandlersKeeps ==
  ASSUME DaemonIInv, NEW p \in Procs, InstallHandlers(p)
  PROVE  DaemonIInv'
<1> USE DEF InstallHandlers
<1>1. DaemonTypeOK'
  BY DEF DaemonIInv, DaemonTypeOK
<1>2. Readers'
  BY DEF DaemonIInv, DaemonTypeOK, Readers
<1>3. alone' => Arrivals'
  BY DEF DaemonIInv, DaemonTypeOK, Readers, Arrivals, Ownership
<1>4. alone' => Ownership'
  BY DEF DaemonIInv, DaemonTypeOK, Readers, Arrivals, Ownership
<1>5. QED
  BY <1>1, <1>2, <1>3, <1>4 DEF DaemonIInv

\* The owner leaves, and has the file still.
LEMMA LoopEndsKeeps ==
  ASSUME DaemonIInv, NEW p \in Procs, LoopEnds(p)
  PROVE  DaemonIInv'
<1> USE DEF LoopEnds
<1>1. DaemonTypeOK'
  BY DEF DaemonIInv, DaemonTypeOK
<1>2. Readers'
  BY DEF DaemonIInv, DaemonTypeOK, Readers
<1>3. alone' => Arrivals'
  BY DEF DaemonIInv, DaemonTypeOK, Readers, Arrivals, Ownership
<1>4. alone' => Ownership'
  BY DEF DaemonIInv, DaemonTypeOK, Readers, Arrivals, Ownership
<1>5. QED
  BY <1>1, <1>2, <1>3, <1>4 DEF DaemonIInv

\* The owner removes its own file.
LEMMA CleanupPidKeeps ==
  ASSUME DaemonIInv, NEW p \in Procs, CleanupPid(p)
  PROVE  DaemonIInv'
<1> USE DEF CleanupPid, RemovePidFile
<1>1. DaemonTypeOK'
  BY DEF DaemonIInv, DaemonTypeOK
<1>2. Readers'
  BY DEF DaemonIInv, DaemonTypeOK, Readers
<1>3. alone' => Arrivals'
  BY DEF DaemonIInv, DaemonTypeOK, Readers, Arrivals, Ownership
<1>4. alone' => Ownership'
  BY DEF DaemonIInv, DaemonTypeOK, Readers, Arrivals, Ownership
<1>5. QED
  BY <1>1, <1>2, <1>3, <1>4 DEF DaemonIInv

\* It has no file any more.
LEMMA ExitsKeeps ==
  ASSUME DaemonIInv, NEW p \in Procs, Exits(p)
  PROVE  DaemonIInv'
<1> USE DEF Exits, Dies
<1>1. DaemonTypeOK'
  BY DEF DaemonIInv, DaemonTypeOK
<1>2. Readers'
  BY DEF DaemonIInv, DaemonTypeOK, Readers
<1>3. alone' => Arrivals'
  BY DEF DaemonIInv, DaemonTypeOK, Readers, Arrivals, Ownership
<1>4. alone' => Ownership'
  BY DEF DaemonIInv, DaemonTypeOK, Readers, Arrivals, Ownership
<1>5. QED
  BY <1>1, <1>2, <1>3, <1>4 DEF DaemonIInv

\* The file outlives its owner.
LEMMA KernelKillsKeeps ==
  ASSUME DaemonIInv, NEW p \in Procs, KernelKills(p)
  PROVE  DaemonIInv'
<1> USE DEF KernelKills, Dies
<1>1. DaemonTypeOK'
  BY DEF DaemonIInv, DaemonTypeOK
<1>2. Readers'
  BY DEF DaemonIInv, DaemonTypeOK, Readers
<1>3. alone' => Arrivals'
  BY DEF DaemonIInv, DaemonTypeOK, Readers, Arrivals, Ownership
<1>4. alone' => Ownership'
  BY DEF DaemonIInv, DaemonTypeOK, Readers, Arrivals, Ownership
<1>5. QED
  BY <1>1, <1>2, <1>3, <1>4 DEF DaemonIInv

\* A stop has read the owner.
LEMMA SendTermKeeps ==
  ASSUME DaemonIInv, NEW c \in Ctls, SendTerm(c)
  PROVE  DaemonIInv'
<1> USE DEF SendTerm
<1>1. DaemonTypeOK'
  BY DEF DaemonIInv, DaemonTypeOK
<1>2. Readers'
  BY DEF DaemonIInv, DaemonTypeOK, Readers
<1>3. alone' => Arrivals'
  BY DEF DaemonIInv, DaemonTypeOK, Readers, Arrivals, Ownership
<1>4. alone' => Ownership'
  BY DEF DaemonIInv, DaemonTypeOK, Readers, Arrivals, Ownership
<1>5. QED
  BY <1>1, <1>2, <1>3, <1>4 DEF DaemonIInv

\* What a stop waits for stays dead.
LEMMA WaitOverKeeps ==
  ASSUME DaemonIInv, NEW c \in Ctls, WaitOver(c)
  PROVE  DaemonIInv'
<1> USE DEF WaitOver
<1>1. DaemonTypeOK'
  BY DEF DaemonIInv, DaemonTypeOK
<1>2. Readers'
  BY DEF DaemonIInv, DaemonTypeOK, Readers
<1>3. alone' => Arrivals'
  BY DEF DaemonIInv, DaemonTypeOK, Readers, Arrivals, Ownership
<1>4. alone' => Ownership'
  BY DEF DaemonIInv, DaemonTypeOK, Readers, Arrivals, Ownership
<1>5. QED
  BY <1>1, <1>2, <1>3, <1>4 DEF DaemonIInv

\* What a stop kills does nothing more.
LEMMA ForceKillKeeps ==
  ASSUME DaemonIInv, NEW c \in Ctls, ForceKill(c)
  PROVE  DaemonIInv'
<1> USE DEF ForceKill
<1>1. DaemonTypeOK'
  BY DEF DaemonIInv, DaemonTypeOK
<1>2. Readers'
  BY DEF DaemonIInv, DaemonTypeOK, Readers
<1>3. alone' => Arrivals'
  BY DEF DaemonIInv, DaemonTypeOK, Readers, Arrivals, Ownership
<1>4. alone' => Ownership'
  BY DEF DaemonIInv, DaemonTypeOK, Readers, Arrivals, Ownership
<1>5. QED
  BY <1>1, <1>2, <1>3, <1>4 DEF DaemonIInv

\* The file a stop removes has lost its owner.
LEMMA StopUnlinksKeeps ==
  ASSUME DaemonIInv, NEW c \in Ctls, StopUnlinks(c)
  PROVE  DaemonIInv'
<1> USE DEF StopUnlinks, RemovePidFile, AfterStop
<1>1. DaemonTypeOK'
  BY DEF DaemonIInv, DaemonTypeOK
<1>2. Readers'
  BY DEF DaemonIInv, DaemonTypeOK, Readers
<1>3. alone' => Arrivals'
  BY DEF DaemonIInv, DaemonTypeOK, Readers, Arrivals, Ownership
<1>4. alone' => Ownership'
  BY DEF DaemonIInv, DaemonTypeOK, Readers, Arrivals, Ownership
<1>5. QED
  BY <1>1, <1>2, <1>3, <1>4 DEF DaemonIInv

\* A command begins with nothing read.
LEMMA CtlBeginsKeeps ==
  ASSUME DaemonIInv, NEW c \in Ctls, NEW k \in {"start", "stop", "restart", "status"}, CtlBegins(c, k)
  PROVE  DaemonIInv'
<1> USE DEF CtlBegins, FirstRead, NoArrival, NoOther
<1>0. /\ FirstRead[k] \in {"start?", "stop?", "restart?", "name"}
      /\ \A p \in Procs : p # c /\ pc'[p] = pc[p] /\ rd'[p] = rd[p] /\ found'[p] = found[p]
      /\ pc'[c] = FirstRead[k] /\ rd'[c] = "read"
      /\ \A d \in Ctls \ {c} : pc'[d] = pc[d] /\ rd'[d] = rd[d] /\ found'[d] = found[d]
  BY DEF DaemonIInv, DaemonTypeOK
<1>1. DaemonTypeOK'
  <2>1. commands' \in 0 .. MaxCommands
    BY DEF DaemonIInv, DaemonTypeOK
  <2>2. cmd' \in [Ctls -> {"none", "start", "stop", "restart", "status"}]
    BY DEF DaemonIInv, DaemonTypeOK
  <2>3. /\ pc' \in [Actors -> ProcPhases \cup CtlPhases]
        /\ rd' \in [Actors -> {"read", "probe", "remove"}]
        /\ found' \in [Actors -> Pids \cup {Nobody}]
    BY <1>0 DEF DaemonIInv, DaemonTypeOK
  <2>4. wanted' \in BOOLEAN /\ alone' \in BOOLEAN
    BY DEF DaemonIInv, DaemonTypeOK
  <2>5. QED
    BY <1>0, <2>1, <2>2, <2>3, <2>4 DEF DaemonIInv, DaemonTypeOK
<1>2. Readers'
  BY DEF DaemonIInv, DaemonTypeOK, Readers
<1>3. ASSUME alone' PROVE Arrivals'
  <2>1. \A p \in Procs : pc'[p] \notin Arriving
    BY <1>0, <1>3
  <2>2. \A d \in Ctls : pc'[d] = "spawn" => file'.kind # "pid"
    BY <1>0, <1>3 DEF DaemonIInv, Arrivals
  <2>3. QED
    BY <2>1, <2>2 DEF Arrivals
<1>4. alone' => Ownership'
  BY DEF DaemonIInv, DaemonTypeOK, Readers, Arrivals, Ownership
<1>5. QED
  BY <1>1, <1>2, <1>3, <1>4 DEF DaemonIInv

\* The command has seen that there is no pid in the file.
LEMMA SpawnProcessKeeps ==
  ASSUME DaemonIInv, NEW c \in Ctls, NEW p \in Procs, SpawnProcess(c, p)
  PROVE  DaemonIInv'
<1> USE DEF SpawnProcess, IsNext, NoArrival, NoOther
<1>1. DaemonTypeOK'
  BY DEF DaemonIInv, DaemonTypeOK
<1>2. Readers'
  BY DEF DaemonIInv, DaemonTypeOK, Readers
<1>3. ASSUME alone' PROVE Arrivals'
  <2>0. p # c /\ pc[c] = "spawn"
    BY <1>3
  <2>1. /\ file.kind # "pid" /\ rd[c] = "read"
        /\ \A q \in Procs \ {p} : pc'[q] \notin Arriving
        /\ pc'[p] = "check"
        /\ \A d \in Ctls \ {c} : pc'[d] = "idle"
        /\ pc'[c] \in {"started?", "idle"}
    <3>1. pc' = [pc EXCEPT ![p] = "check", ![c] = "started?"]
          \/ pc' = [pc EXCEPT ![p] = "check", ![c] = "idle"]
      OBVIOUS
    <3>2. file.kind # "pid" /\ rd[c] = "read"
      BY <1>3, <2>0 DEF DaemonIInv, Readers, Arrivals
    <3>3. QED
      BY <1>3, <2>0, <3>1, <3>2, ZenonT(30) DEF DaemonIInv, DaemonTypeOK
  <2>2. QED
    BY <2>1 DEF Arrivals
<1>4. alone' => Ownership'
  BY DEF DaemonIInv, DaemonTypeOK, Readers, Arrivals, Ownership
<1>5. QED
  BY <1>1, <1>2, <1>3, <1>4 DEF DaemonIInv

-----------------------------------------------------------------------------
(* The theorems.                                                           *)

LEMMA StepKeeps ==
  ASSUME DaemonIInv, [Next]_vars
  PROVE  DaemonIInv'
<1>1. ASSUME NEW a \in Actors, ReadPid(a) PROVE DaemonIInv'
  BY <1>1, ReadPidFileKeeps, ProbePidKeeps, RemoveStaleKeeps DEF ReadPid
<1>2. ASSUME NEW p \in Procs, Process(p) \/ LoopEnds(p) \/ KernelKills(p) \/ Launch(p)
      PROVE  DaemonIInv'
  BY <1>1, <1>2, LoadConfigKeeps, CreatePidFileKeeps, WritePidFileKeeps, BindsKeeps,
     StartFailsKeeps, InstallHandlersKeeps, CleanupPidKeeps, ExitsKeeps, LoopEndsKeeps,
     KernelKillsKeeps, LaunchKeeps DEF Process
<1>3. ASSUME NEW c \in Ctls, Ctl(c) \/ \E k \in DOMAIN FirstRead : CtlBegins(c, k)
      PROVE  DaemonIInv'
  <2>1. DOMAIN FirstRead = {"start", "stop", "restart", "status"}
    BY DEF FirstRead
  <2>2. QED
    BY <1>1, <1>3, <2>1, SpawnProcessKeeps, SendTermKeeps, WaitOverKeeps, ForceKillKeeps,
       StopUnlinksKeeps, CtlBeginsKeeps DEF Ctl
<1>4. CASE UNCHANGED vars
  <2>1. DaemonTypeOK' /\ Readers'
    BY <1>4 DEF vars, DaemonIInv, DaemonTypeOK, Readers
  <2>2. alone' => Arrivals' /\ Ownership'
    BY <1>4 DEF vars, DaemonIInv, Arrivals, Ownership
  <2>3. QED
    BY <2>1, <2>2 DEF DaemonIInv
<1>5. QED
  BY <1>2, <1>3, <1>4 DEF Next

LEMMA InitHolds == Init => DaemonIInv
<1>1. Init => DaemonTypeOK
  <2>1. ASSUME Init PROVE pc \in [Actors -> ProcPhases \cup CtlPhases]
    BY <2>1 DEF Init
  <2>2. ASSUME Init
        PROVE  /\ \A p \in Procs : pc[p] = "unused"
               /\ \A c \in Ctls : pc[c] = "idle"
               /\ \A a \in Actors : rd[a] = "read"
    BY <2>2 DEF Init
  <2>3. ASSUME Init PROVE commands \in 0 .. MaxCommands /\ launches \in 0 .. MaxLaunches
    BY <2>3 DEF Init
  <2>4. ASSUME Init
        PROVE  /\ rd \in [Actors -> {"read", "probe", "remove"}]
               /\ found \in [Actors -> Pids \cup {Nobody}]
               /\ cmd \in [Ctls -> {"none", "start", "stop", "restart", "status"}]
    BY <2>4 DEF Init
  <2>5. ASSUME Init
        PROVE  /\ file \in Files /\ handle \subseteq Procs /\ port \in Procs \cup {Nobody}
               /\ component \in {"server", "client"} /\ healthy \in BOOLEAN
               /\ term \subseteq Procs /\ killed \subseteq Procs
               /\ wanted \in BOOLEAN /\ alone \in BOOLEAN
    BY <2>5 DEF Init
  <2>6. QED
    BY <2>1, <2>2, <2>3, <2>4, <2>5 DEF DaemonTypeOK
<1>2. Init => Readers
  <2>1. ASSUME Init
        PROVE  /\ \A p \in Procs : pc[p] = "unused"
               /\ \A c \in Ctls : pc[c] = "idle"
               /\ \A a \in Actors : rd[a] = "read" /\ pc[a] \in {"unused", "idle"}
    BY <2>1 DEF Init
  <2>3. ASSUME Init PROVE file.kind = "pid" => file.pid \notin Procs
    BY <2>3 DEF Init, Procs, Gone
  <2>4. QED
    BY <2>1, <2>3 DEF Readers
<1>3. Init => Arrivals /\ Ownership
  BY DEF Init, Arrivals, Ownership
<1>4. QED
  BY <1>1, <1>2, <1>3 DEF DaemonIInv

LEMMA DaemonIInvHolds == Spec => []DaemonIInv
  BY InitHolds, StepKeeps, PTL DEF Spec

\* The variables keep their types: above all, a stop signals only a process it has
\* found to exist (stop_daemon).
THEOREM DaemonTypes == Spec => []DaemonTypeOK
<1>1. DaemonIInv => DaemonTypeOK
  BY DEF DaemonIInv
<1>2. QED
  BY <1>1, DaemonIInvHolds, PTL

\* While nobody interferes with a start, the pid file names every process that is
\* up (write_pid_file, read_pid, cleanup_pid and stop_daemon together).
THEOREM PidFileNamesTheProcess == Spec => []Listed
<1>1. DaemonIInv => Listed
  BY DEF DaemonIInv, Ownership, Listed
<1>2. QED
  BY <1>1, DaemonIInvHolds, PTL

\* A step of a process, or of another terminal, leaves a terminal where it is.
LEMMA OthersStay ==
  ASSUME DaemonTypeOK, NEW c \in Ctls, NEW a \in Actors \ {c},
         \/ ReadPid(a)
         \/ a \in Procs /\ (Process(a) \/ LoopEnds(a) \/ KernelKills(a) \/ Launch(a))
         \/ a \in Ctls /\ (Ctl(a) \/ \E k \in DOMAIN FirstRead : CtlBegins(a, k))
  PROVE  pc'[c] = pc[c]
<1>0. pc = [b \in Actors |-> pc[b]] /\ c \in Actors /\ c \notin Procs
  BY DEF DaemonTypeOK
<1>1. ASSUME NEW x, pc' = [pc EXCEPT ![a] = x] PROVE pc'[c] = pc[c]
  BY <1>0, <1>1
<1>2. ASSUME ReadPid(a) PROVE pc'[c] = pc[c]
  BY <1>0, <1>1, <1>2 DEF ReadPid, ReadPidFile, ProbePid, RemoveStale, Returns
<1>3. ASSUME a \in Procs, Process(a) \/ LoopEnds(a) \/ KernelKills(a) \/ Launch(a)
      PROVE  pc'[c] = pc[c]
  BY <1>1, <1>2, <1>3 DEF Process, LoadConfig, CreatePidFile, WritePidFile, Binds,
     StartFails, InstallHandlers, CleanupPid, Exits, LoopEnds, KernelKills, Launch, Dies
<1>4. ASSUME a \in Ctls, Ctl(a) \/ \E k \in DOMAIN FirstRead : CtlBegins(a, k)
      PROVE  pc'[c] = pc[c]
  <2>1. ASSUME NEW q \in Procs, SpawnProcess(a, q) PROVE pc'[c] = pc[c]
    BY <1>0, <2>1 DEF SpawnProcess
  <2>2. QED
    BY <1>0, <1>1, <1>2, <1>4, <2>1 DEF Ctl, SendTerm, WaitOver, ForceKill, StopUnlinks, CtlBegins
<1>5. QED
  BY <1>2, <1>3, <1>4

\* When a stop has run its course, nothing is left that runs (cmd_stop and
\* cmd_restart).
THEOREM StopLeavesNothing == Spec => StopStops
<1>1. ASSUME DaemonIInv, Next, NEW c \in Ctls, NEW p \in Procs,
             alone, pc[c] \in {"stop?", "stop_pid", "unlink"}, pc'[c] = AfterStop(c),
             Owns(p)
      PROVE  FALSE
  <2>1. pc'[c] # pc[c]
    BY <1>1 DEF AfterStop
  <2>2. c \notin Procs /\ c \in Actors /\ pc[c] # "idle"
    BY <1>1
  <2>3. Ctl(c) \/ \E k \in DOMAIN FirstRead : CtlBegins(c, k)
    BY <1>1, <2>1, <2>2, OthersStay DEF Next, DaemonIInv
  <2>4. file = Names(p) /\ (Relies(c) => found[c] = p) /\ Alive(p) /\ Runs(p)
    BY <1>1, <2>2 DEF DaemonIInv, Ownership
  <2>5. ~(\E k \in DOMAIN FirstRead : CtlBegins(c, k))
    BY <2>2 DEF CtlBegins
  <2>6. ~(\E q \in Procs : SpawnProcess(c, q)) /\ ~SendTerm(c) /\ ~WaitOver(c) /\ ~ForceKill(c)
    BY <1>1 DEF SpawnProcess, SendTerm, WaitOver, ForceKill
  <2>7. ~RemoveStale(c) /\ ~StopUnlinks(c)
    BY <1>1, <2>2, <2>4 DEF RemoveStale, StopUnlinks, DaemonIInv, Readers
  <2>8. ~ReadPidFile(c)
    BY <2>1, <2>4 DEF ReadPidFile
  <2>9. ~ProbePid(c)
    <3>1. SUFFICES ASSUME ProbePid(c) PROVE FALSE
      OBVIOUS
    <3>2. pc[c] \in {"stop?", "stop_pid"} /\ found[c] = p
      BY <1>1, <2>2, <2>4, <3>1 DEF ProbePid, Calls
    <3>3. pc' = [pc EXCEPT ![c] = AfterRead(c, @, TRUE)]
      BY <1>1, <2>4, <3>1, <3>2 DEF ProbePid, Returns
    <3>4. pc'[c] = AfterRead(c, pc[c], TRUE)
      BY <1>1, <2>2, <3>3 DEF DaemonIInv, DaemonTypeOK
    <3>5. QED
      BY <1>1, <3>2, <3>4 DEF AfterRead, AfterStop
  <2>10. QED
    BY <2>3, <2>5, <2>6, <2>7, <2>8, <2>9 DEF Ctl, ReadPid
<1>2. DaemonIInv /\ [Next]_vars =>
        [\A c \in Ctls :
           alone /\ pc[c] \in {"stop?", "stop_pid", "unlink"} /\ pc'[c] = AfterStop(c)
             => \A p \in Procs : ~(Runs(p) /\ pc[p] \in Starting \cup {"serving"})]_vars
  BY <1>1
<1>3. QED
  BY <1>2, DaemonIInvHolds, PTL DEF Spec, StopStops
=============================================================================
