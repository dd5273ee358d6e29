---------------------------- MODULE MasterCycle ----------------------------
(***************************************************************************)
(* The master process of nginx and its children                            *)
(* (os/unix/ngx_process_cycle.c, os/unix/ngx_process.c): the table of      *)
(* processes, the signals an administrator sends, reload, shutdown, quick  *)
(* termination with its timer, the upgrade of the executable, crashes and  *)
(* respawns.                                                               *)
(*                                                                         *)
(* All signals of the master are blocked except in sigsuspend(), so one    *)
(* turn of its loop is a sequence of steps that no signal handler enters;  *)
(* children run, die and read their commands in between.  A command goes   *)
(* over the channel, or by kill() when the channel refuses it: both put it *)
(* in the child's inbox.                                                   *)
(***************************************************************************)
EXTENDS Integers, FiniteSets

CONSTANTS
  MaxProcs,        \* NGX_MAX_PROCESSES
  WorkerProcesses, \* ccf->worker_processes
  Helpers,         \* cache processes configured: "manager", "loader"
  Operator,        \* signals the administrator may send
  MaxSignals,      \* bound: signals the administrator sends
  MaxCrashes,      \* bound: children that die by themselves
  MaxSpawnFails,   \* bound: processes that cannot be started
  MaxRefused,      \* bound: reloads and upgrades that are refused
  DelayCap         \* bound: the termination delay, well above 1000 ms

Slots == 1..MaxProcs
NoBinary == 0
InvalidPid == -1
Commands == {"QUIT", "TERM", "REOPEN"}
Requests == {"reconfigure", "restart", "reopen", "changeBinary", "noaccept"}
Flags == Requests \cup {"terminate", "quit", "noaccepting", "reap", "sigalrm"}
Signals == {"HUP", "TERM", "QUIT", "WINCH", "USR1", "USR2", "CHLD", "ALRM"}
Phases == {"top", "suspend", "reap", "check", "retire", "exited"} \cup Requests
Roles == {"none", "worker", "manager", "loader", "binary"}
Alive == {"run", "stopping"}
Zombies == {"zombie", "fatal"}   \* "fatal": exited with code 2

ASSUME ConstAssumption == /\ MaxProcs \in Nat
                          /\ WorkerProcesses \in Nat \ {0}
                          /\ Helpers \in {{}, {"manager"}, {"manager", "loader"}}
                          /\ Operator \subseteq Signals \ {"CHLD", "ALRM"}
ASSUME BoundAssumption == /\ MaxSignals \in Nat
                          /\ MaxCrashes \in Nat
                          /\ MaxSpawnFails \in Nat
                          /\ MaxRefused \in Nat
                          /\ DelayCap \in Nat /\ DelayCap > 1000

VARIABLES
  mpc,       \* where the master is in its loop
  flags,     \* ngx_reconfigure, ngx_quit, ngx_noaccepting and the others
  live,      \* the local variable live
  delay, sigio,
  timer,     \* the interval timer is running
  newBinary, \* ngx_new_binary: the slot of the new executable's process
  pending,   \* signals sent to the master and not yet delivered
  \* ngx_processes[]
  role, exiting, exited, respawn, justSpawn,
  \* the children themselves
  os,        \* "none", running, shutting down or zombie
  inbox,     \* commands sent to it
  gen,       \* the configuration it was started with
  cycle,     \* the configuration of the master
  signals, crashes, spawnFails, refused

table == <<role, exiting, exited, respawn, justSpawn>>
children == <<os, inbox, gen>>
bounds == <<signals, crashes, spawnFails, refused>>
vars == <<mpc, flags, live, delay, sigio, timer, newBinary, pending, table,
          children, cycle, bounds>>

TypeOK ==
  /\ mpc \in Phases
  /\ flags \subseteq Flags
  /\ live \in BOOLEAN
  /\ delay \in Nat
  /\ sigio \in Nat
  /\ timer \in BOOLEAN
  /\ newBinary \in Slots \cup {NoBinary, InvalidPid}
  /\ pending \subseteq Signals
  /\ role \in [Slots -> Roles]
  /\ exiting \in [Slots -> BOOLEAN]
  /\ exited \in [Slots -> BOOLEAN]
  /\ respawn \in [Slots -> BOOLEAN]
  /\ justSpawn \in [Slots -> BOOLEAN]
  /\ os \in [Slots -> {"none"} \cup Alive \cup Zombies]
  /\ inbox \in [Slots -> SUBSET Commands]
  /\ gen \in [Slots -> Nat]
  /\ cycle \in Nat
  /\ signals \in Nat /\ crashes \in Nat /\ spawnFails \in Nat /\ refused \in Nat

-----------------------------------------------------------------------------
(* Starting processes.                                                     *)

FreeSlots == {s \in Slots : role[s] = "none"}
Lowest(S, k) == {s \in S : Cardinality({t \in S : t < s}) < k}

(* ngx_spawn_process takes the first free slot and fails when there is     *)
(* none, or when socketpair() or fork() fails: nobody notices.  k processes*)
(* fail to start, full of them for lack of a slot.                         *)
SpawnFailures(k, full) == /\ k >= full
                          /\ k = full \/ spawnFails + k <= MaxSpawnFails
                          /\ spawnFails' = spawnFails + k

(* The processes of S are started in the roles given by as. *)
Spawn(S, as, just) ==
  /\ role' = [s \in Slots |-> IF s \in S THEN as[s] ELSE role[s]]
  /\ respawn' = [s \in Slots |-> \/ s \in S /\ as[s] \in {"worker", "manager"}
                                 \/ s \notin S /\ respawn[s]]
  /\ justSpawn' = [s \in Slots |-> IF s \in S THEN just ELSE justSpawn[s]]
  /\ exiting' = [s \in Slots |-> s \notin S /\ exiting[s]]
  /\ exited' = [s \in Slots |-> s \notin S /\ exited[s]]
  /\ os' = [s \in Slots |-> IF s \in S THEN "run" ELSE os[s]]
  /\ inbox' = [s \in Slots |-> IF s \in S THEN {} ELSE inbox[s]]
  /\ gen' = [s \in Slots |-> IF s \in S THEN cycle' ELSE gen[s]]

(* How many processes are started together, and how many of them find no   *)
(* slot.                                                                   *)
Wanted == WorkerProcesses + Cardinality(Helpers)
Shortage == IF Wanted > Cardinality(FreeSlots) THEN Wanted - Cardinality(FreeSlots)
                                               ELSE 0

(* ngx_start_worker_processes and ngx_start_cache_manager_processes. *)
Start(just) ==
  \E m \in 0..WorkerProcesses, H \in SUBSET Helpers :
    LET W == Lowest(FreeSlots, m)
        M == IF "manager" \in H THEN Lowest(FreeSlots \ W, 1) ELSE {}
        L == IF "loader" \in H THEN Lowest(FreeSlots \ (W \cup M), 1) ELSE {}
    IN /\ SpawnFailures(Wanted - m - Cardinality(H), Shortage)
       /\ Spawn(W \cup M \cup L,
                [s \in Slots |-> CASE s \in W -> "worker"
                                   [] s \in M -> "manager"
                                   [] OTHER -> "loader"], just)

Ours(s) == role[s] \notin {"none", "binary"}

(* Mutant: processes that were just started are told too. *)
ToldToo(cmd) == {s \in Slots : Ours(s) /\ (cmd = "QUIT" => ~exiting[s])}

(* Whom ngx_signal_worker_processes tells: not the detached process, not a *)
(* process started a moment ago, which is spared once, not one that is     *)
(* exiting and would be asked to shut down again.                          *)
Told(cmd) == {s \in Slots : Ours(s) /\ ~justSpawn[s] /\ (cmd = "QUIT" => ~exiting[s])}

(* Mutant: they are spared again and again. *)
SparedAgain == justSpawn

Spared == [s \in Slots |-> ~Ours(s) /\ justSpawn[s]]

(* ngx_signal_worker_processes.  A slot whose respawn failed has no        *)
(* process: kill() says so.  f is what becomes of the flags.               *)
Signal(cmd, f) ==
  LET told == Told(cmd)
      lost == {s \in told : os[s] = "none"}
      killed == {s \in told : cmd = "KILL" /\ os[s] \in Alive}
  IN /\ justSpawn' = Spared
     /\ exiting' = [s \in Slots |-> IF s \in lost THEN FALSE
                                    ELSE exiting[s] \/ (s \in told /\ cmd # "REOPEN")]
     /\ exited' = [s \in Slots |-> exited[s] \/ s \in lost]
     /\ inbox' = [s \in Slots |-> IF s \in told /\ os[s] \in Alive /\ cmd # "KILL"
                                  THEN inbox[s] \cup {cmd} ELSE inbox[s]]
     /\ os' = [s \in Slots |-> IF s \in killed THEN "zombie" ELSE os[s]]
     /\ pending' = IF killed # {} THEN pending \cup {"CHLD"} ELSE pending
     /\ flags' = IF lost # {} THEN f \cup {"reap"} ELSE f
     /\ UNCHANGED <<role, respawn, gen>>

-----------------------------------------------------------------------------
(* ngx_master_process_cycle, up to its loop. *)
Init ==
  LET W == 1..WorkerProcesses
      H == (WorkerProcesses + 1)..(WorkerProcesses + Cardinality(Helpers))
  IN /\ mpc = "top" /\ flags = {} /\ live = TRUE /\ delay = 0 /\ sigio = 0
     /\ timer = FALSE /\ newBinary = NoBinary /\ pending = {}
     /\ role = [s \in Slots |-> CASE s \in W -> "worker"
                                  [] s \in H -> IF s = WorkerProcesses + 1
                                                THEN "manager" ELSE "loader"
                                  [] OTHER -> "none"]
     /\ exiting = [s \in Slots |-> FALSE]
     /\ exited = [s \in Slots |-> FALSE]
     /\ respawn = [s \in Slots |-> role[s] \in {"worker", "manager"}]
     /\ justSpawn = [s \in Slots |-> FALSE]
     /\ os = [s \in Slots |-> IF role[s] = "none" THEN "none" ELSE "run"]
     /\ inbox = [s \in Slots |-> {}]
     /\ gen = [s \in Slots |-> 0]
     /\ cycle = 0
     /\ signals = 0 /\ crashes = 0 /\ spawnFails = 0 /\ refused = 0

(* The head of the loop: while terminating, SIGALRM doubles the delay and  *)
(* lets the children be signalled again; the timer is set.                 *)
Top ==
  /\ mpc = "top"
  /\ mpc' = "suspend"
  /\ timer' = (timer \/ delay > 0)
  /\ IF delay > 0 /\ "sigalrm" \in flags
     THEN /\ sigio' = 0
          /\ delay' = IF 2 * delay <= DelayCap THEN 2 * delay ELSE delay
          /\ flags' = flags \ {"sigalrm"}
     ELSE UNCHANGED <<sigio, delay, flags>>
  /\ UNCHANGED <<live, newBinary, pending, table, children, cycle, bounds>>

(* What ngx_signal_handler notes for each signal.  SIGUSR2 is ignored      *)
(* while a new executable's process is running.                            *)
FlagOf(g) == CASE g = "HUP"   -> {"reconfigure"}
               [] g = "TERM"  -> {"terminate"}
               [] g = "QUIT"  -> {"quit"}
               [] g = "WINCH" -> {"noaccept"}
               [] g = "USR1"  -> {"reopen"}
               [] g = "USR2"  -> IF newBinary > 0 THEN {} ELSE {"changeBinary"}
               [] g = "CHLD"  -> {"reap"}
               [] g = "ALRM"  -> {"sigalrm"}

(* sigsuspend() returns after the handlers of all pending signals ran;     *)
(* SIGCHLD collects every dead child (ngx_process_get_status).  A child    *)
(* that exited with code 2 is not to be respawned.                         *)
Wake ==
  LET dead == {s \in Slots : "CHLD" \in pending /\ os[s] \in Zombies}
  IN /\ mpc = "suspend" /\ pending # {}
     /\ mpc' = "reap"
     /\ flags' = flags \cup UNION {FlagOf(g) : g \in pending}
     /\ pending' = {}
     /\ exited' = [s \in Slots |-> exited[s] \/ s \in dead]
     /\ respawn' = [s \in Slots |-> respawn[s] /\ ~(s \in dead /\ os[s] = "fatal")]
     /\ os' = [s \in Slots |-> IF s \in dead THEN "none" ELSE os[s]]
     /\ UNCHANGED <<live, delay, sigio, timer, newBinary, role, exiting, justSpawn,
                    inbox, gen, cycle, bounds>>

Stopping == flags \cap {"terminate", "quit"} # {}

(* Mutant: no child is started again during an upgrade. *)
RespawnAlone(s) == respawn[s] /\ ~exiting[s] /\ ~Stopping /\ newBinary = NoBinary

(* Which exited children are started again. *)
Respawnable(s) == respawn[s] /\ ~exiting[s] /\ ~Stopping

(* Mutant: a child that is shutting down does not count as live. *)
LiveIfStaying(gone, fresh) ==
  fresh # {} \/ \E s \in Slots \ gone : Ours(s) /\ ~exiting[s]

(* Mutant: the detached process counts as live. *)
LiveIfDetached(gone, fresh) ==
  fresh # {} \/ \E s \in Slots \ gone : role[s] # "none"

(* What ngx_reap_children returns. *)
LiveAfter(gone, fresh) ==
  fresh # {} \/ \E s \in Slots \ gone : Ours(s) \/ (role[s] = "binary" /\ exiting[s])

(* ngx_reap_children.  A child that cannot be started again keeps its slot *)
(* until the next death; the end of the new executable's process brings    *)
(* the old workers back if they had been sent away.                        *)
ReapChildren ==
  LET gone == {s \in Slots : role[s] # "none" /\ exited[s]}
      again == {s \in gone : Respawnable(s)}
      leaving == gone \ again
      back == newBinary \in leaving
  IN \E failed \in SUBSET again :
       LET fresh == again \ failed
       IN /\ SpawnFailures(Cardinality(failed), 0)
          /\ role' = [s \in Slots |-> IF s \in leaving THEN "none" ELSE role[s]]
          /\ exited' = [s \in Slots |-> exited[s] /\ s \notin leaving \cup fresh]
          /\ exiting' = [s \in Slots |-> exiting[s] /\ s \notin leaving]
          /\ respawn' = [s \in Slots |-> respawn[s] /\ s \notin leaving]
          /\ os' = [s \in Slots |-> IF s \in fresh THEN "run" ELSE os[s]]
          /\ inbox' = [s \in Slots |-> IF s \in gone THEN {} ELSE inbox[s]]
          /\ gen' = [s \in Slots |-> IF s \in fresh THEN cycle
                                     ELSE IF s \in leaving THEN 0 ELSE gen[s]]
          /\ live' = LiveAfter(gone, fresh)
          /\ newBinary' = IF back THEN NoBinary ELSE newBinary
          /\ flags' = IF back /\ "noaccepting" \in flags
                      THEN (flags \cup {"restart"}) \ {"noaccepting", "reap"}
                      ELSE flags \ {"reap"}
          /\ UNCHANGED <<justSpawn, signals, crashes, refused>>

Reap ==
  /\ mpc = "reap"
  /\ mpc' = "check"
  /\ \/ "reap" \in flags /\ ReapChildren
     \/ /\ "reap" \notin flags
        /\ UNCHANGED <<flags, live, newBinary, table, children, bounds>>
  /\ UNCHANGED <<delay, sigio, timer, pending, cycle>>


(* The requests are then handled in the order of the loop. *)
NextRequest(f) ==
  IF "reconfigure" \in f THEN "reconfigure"
  ELSE IF "restart" \in f THEN "restart"
  ELSE IF "reopen" \in f THEN "reopen"
  ELSE IF "changeBinary" \in f THEN "changeBinary"
  ELSE IF "noaccept" \in f THEN "noaccept"
  ELSE "top"

(* ngx_master_process_exit *)
MasterExit ==
  /\ mpc = "check" /\ ~live /\ Stopping
  /\ mpc' = "exited"
  /\ UNCHANGED <<flags, live, delay, sigio, timer, newBinary, pending, table,
                 children, cycle, bounds>>

(* Mutant: the children are never killed. *)
PoliteSignal == "TERM"

(* Past a second the children are killed. *)
TermSignal == IF delay > 1000 THEN "KILL" ELSE "TERM"

(* if (ngx_terminate): the children are told again only after the timer,   *)
(* or after as many wake-ups as there may be children.                     *)
Terminate ==
  /\ mpc = "check" /\ "terminate" \in flags /\ live
  /\ mpc' = "top"
  /\ delay' = IF delay = 0 THEN 50 ELSE delay
  /\ \/ /\ sigio > 0
        /\ sigio' = sigio - 1
        /\ UNCHANGED <<flags, pending, table, children>>
     \/ /\ sigio = 0
        /\ sigio' = WorkerProcesses + 2
        /\ Signal(TermSignal, flags)
  /\ UNCHANGED <<live, timer, newBinary, cycle, bounds>>

(* if (ngx_quit) *)
Quit ==
  /\ mpc = "check" /\ "quit" \in flags /\ "terminate" \notin flags /\ live
  /\ mpc' = "top"
  /\ Signal("QUIT", flags)
  /\ UNCHANGED <<live, delay, sigio, timer, newBinary, cycle, bounds>>

Proceed ==
  /\ mpc = "check" /\ ~Stopping
  /\ mpc' = NextRequest(flags)
  /\ UNCHANGED <<flags, live, delay, sigio, timer, newBinary, pending, table,
                 children, cycle, bounds>>

(* SIGHUP while ngx_new_binary is set: workers are started beside the new  *)
(* executable, the configuration is not read, the loop starts over.        *)
ResumeService ==
  /\ mpc = "reconfigure" /\ newBinary # NoBinary
  /\ mpc' = "top"
  /\ flags' = flags \ {"reconfigure", "noaccepting"}
  /\ cycle' = cycle
  /\ Start(FALSE)
  /\ UNCHANGED <<live, delay, sigio, timer, newBinary, pending, signals, crashes, refused>>

(* SIGHUP: ngx_init_cycle refuses the configuration; the loop starts over. *)
ReloadRefused ==
  /\ mpc = "reconfigure" /\ newBinary = NoBinary
  /\ refused < MaxRefused
  /\ refused' = refused + 1
  /\ mpc' = "top"
  /\ flags' = flags \ {"reconfigure"}
  /\ UNCHANGED <<live, delay, sigio, timer, newBinary, pending, table, children,
                 cycle, signals, crashes, spawnFails>>

(* ... or accepts it: new workers first ... *)
Reload ==
  /\ mpc = "reconfigure" /\ newBinary = NoBinary
  /\ mpc' = "retire"
  /\ flags' = flags \ {"reconfigure"}
  /\ cycle' = cycle + 1
  /\ Start(TRUE)
  /\ UNCHANGED <<live, delay, sigio, timer, newBinary, pending, signals, crashes, refused>>

(* ... then, 100 ms later, the old ones are told to shut down. *)
Retire ==
  /\ mpc = "retire"
  /\ mpc' = NextRequest(flags)
  /\ live' = TRUE
  /\ Signal("QUIT", flags)
  /\ UNCHANGED <<delay, sigio, timer, newBinary, cycle, bounds>>

Restart ==
  /\ mpc = "restart"
  /\ flags' = flags \ {"restart"}
  /\ mpc' = NextRequest(flags')
  /\ live' = TRUE
  /\ cycle' = cycle
  /\ Start(FALSE)
  /\ UNCHANGED <<delay, sigio, timer, newBinary, pending, signals, crashes, refused>>

(* Mutant: the loop starts over after the log files. *)
ReopenContinues ==
  /\ mpc = "reopen"
  /\ mpc' = "top"
  /\ Signal("REOPEN", flags \ {"reopen"})
  /\ UNCHANGED <<live, delay, sigio, timer, newBinary, cycle, bounds>>

(* SIGUSR1: the children reopen their log files too. *)
Reopen ==
  /\ mpc = "reopen"
  /\ mpc' = NextRequest(flags \ {"reopen"})
  /\ Signal("REOPEN", flags \ {"reopen"})
  /\ UNCHANGED <<live, delay, sigio, timer, newBinary, cycle, bounds>>

(* SIGUSR2: ngx_exec_new_binary starts the new executable as a detached    *)
(* process; what it returns, NGX_INVALID_PID too, becomes ngx_new_binary.  *)
ChangeBinary ==
  /\ mpc = "changeBinary"
  /\ flags' = flags \ {"changeBinary"}
  /\ mpc' = NextRequest(flags')
  /\ cycle' = cycle
  /\ \/ \E s \in Lowest(FreeSlots, 1) :
          /\ Spawn({s}, [t \in Slots |-> "binary"], FALSE)
          /\ newBinary' = s
          /\ UNCHANGED refused
     \/ /\ FreeSlots = {} \/ refused < MaxRefused
        /\ refused' = refused + 1
        /\ newBinary' = InvalidPid
        /\ UNCHANGED <<table, children>>
  /\ UNCHANGED <<live, delay, sigio, timer, pending, signals, crashes, spawnFails>>

(* SIGWINCH: the workers are sent away, the master stays. *)
NoAccept ==
  /\ mpc = "noaccept"
  /\ mpc' = "top"
  /\ Signal("QUIT", (flags \ {"noaccept"}) \cup {"noaccepting"})
  /\ UNCHANGED <<live, delay, sigio, timer, newBinary, cycle, bounds>>

Master == \/ Top \/ Wake \/ Reap \/ MasterExit \/ Terminate \/ Quit \/ Proceed
          \/ ResumeService \/ ReloadRefused \/ Reload \/ Retire \/ Restart
          \/ Reopen \/ ChangeBinary \/ NoAccept

-----------------------------------------------------------------------------
(* The children. *)

Die(s, how) ==
  /\ os' = [os EXCEPT ![s] = how]
  /\ inbox' = [inbox EXCEPT ![s] = {}]
  /\ pending' = pending \cup {"CHLD"}
  /\ UNCHANGED <<mpc, flags, live, delay, sigio, timer, newBinary, table, gen, cycle>>

(* ngx_channel_handler and the end of the worker's loop: a terminating     *)
(* process exits at once, and so does a cache process that is told to      *)
(* quit; a worker told to quit closes its listening sockets.               *)
Obey(s) ==
  /\ os[s] \in Alive
  /\ \/ /\ "TERM" \in inbox[s] \/ ("QUIT" \in inbox[s] /\ role[s] # "worker")
        /\ Die(s, "zombie")
     \/ /\ "TERM" \notin inbox[s] /\ inbox[s] # {}
        /\ "QUIT" \in inbox[s] => role[s] = "worker"
        /\ os' = [os EXCEPT ![s] = IF "QUIT" \in inbox[s] THEN "stopping" ELSE @]
        /\ inbox' = [inbox EXCEPT ![s] = {}]
        /\ UNCHANGED <<mpc, flags, live, delay, sigio, timer, newBinary, pending,
                       table, gen, cycle>>
  /\ UNCHANGED bounds

(* A worker that is shutting down has closed its last connection. *)
Drained(s) == os[s] = "stopping" /\ Die(s, "zombie") /\ UNCHANGED bounds

(* The cache loader has done its work. *)
LoaderDone(s) == role[s] = "loader" /\ os[s] = "run" /\ Die(s, "zombie") /\ UNCHANGED bounds

(* A child dies by itself: killed, or exiting with code 2 when it cannot   *)
(* initialise; the new executable's process may end in any way.            *)
Crash(s) ==
  /\ os[s] \in Alive
  /\ crashes < MaxCrashes
  /\ crashes' = crashes + 1
  /\ \E how \in Zombies : Die(s, how)
  /\ UNCHANGED <<signals, spawnFails, refused>>

(* The administrator, and the timer. *)
Send(g) ==
  /\ mpc # "exited" /\ g \notin pending
  /\ signals < MaxSignals
  /\ signals' = signals + 1
  /\ pending' = pending \cup {g}
  /\ UNCHANGED <<mpc, flags, live, delay, sigio, timer, newBinary, table, children,
                 cycle, crashes, spawnFails, refused>>

TimerFires ==
  /\ timer /\ mpc # "exited"
  /\ timer' = FALSE
  /\ pending' = pending \cup {"ALRM"}
  /\ UNCHANGED <<mpc, flags, live, delay, sigio, newBinary, table, children, cycle, bounds>>

Child(s) == Obey(s) \/ Drained(s)

Next == \/ Master
        \/ TimerFires
        \/ \E s \in Slots : Child(s) \/ LoaderDone(s) \/ Crash(s)
        \/ \E g \in Operator : Send(g)

Spec == Init /\ [][Next]_vars

(* The master runs and its timer fires.  The children read their commands, *)
(* and clients let a worker that is shutting down go; but once the master  *)
(* is terminating a child may hang for ever.                               *)
FairSpec == /\ Spec
            /\ WF_vars(Master)
            /\ WF_vars(TimerFires)
            /\ \A s \in Slots : WF_vars("terminate" \notin flags /\ Child(s))

-----------------------------------------------------------------------------
(* Properties *)

(* When the master exits on SIGTERM or SIGQUIT none of its children is     *)
(* left running without a master (live in ngx_master_process_cycle).       *)
NoOrphans == mpc = "exited" => \A s \in Slots : Ours(s) => os[s] \notin Alive

(* Once the master has taken note of a shutdown, every child it has was    *)
(* told, also those started a moment before: none was skipped as just      *)
(* spawned, none was started afterwards.                                   *)
ShutdownReachesAll ==
  mpc = "suspend" /\ Stopping =>
    \A s \in Slots : Ours(s) => exiting[s] \/ exited[s]

(* Between two turns of the loop a worker of an older configuration has    *)
(* always been told to go: a reload retires every worker it replaces.      *)
OldWorkersRetired ==
  mpc = "suspend" =>
    \A s \in Slots : role[s] = "worker" /\ gen[s] < cycle => exiting[s] \/ exited[s]

Serving == {s \in Slots : role[s] = "worker" /\ os[s] = "run" /\ inbox[s] \subseteq {"REOPEN"}}

(* As long as nothing crashes, cannot be started or is told to go away, a  *)
(* full set of workers accepts connections in every state: in the middle   *)
(* of a reload too, and between the steps of one.                          *)
NeverOutOfService ==
  crashes = 0 /\ spawnFails = 0
  /\ flags \cap {"terminate", "quit", "noaccept", "noaccepting"} = {}
  => Cardinality(Serving) >= WorkerProcesses

(* The master never goes to sleep on a request it has noted: only another  *)
(* signal would make it look again (the order of ngx_master_process_cycle).*)
(* A reload that is cut short starts the loop over and does leave the      *)
(* others for later.                                                       *)
NothingForgotten ==
  mpc = "suspend" /\ ~Stopping /\ newBinary = NoBinary /\ refused = 0
    => flags \cap Requests = {}

(* A worker that dies while it is wanted is replaced, as long as processes *)
(* can be started and workers are wanted at all (ngx_reap_children).       *)
CrashedReplaced ==
  \A s \in Slots :
    role[s] = "worker" /\ os[s] = "zombie" /\ respawn[s] /\ ~exiting[s]
      ~> \/ Cardinality(Serving) >= WorkerProcesses
         \/ flags \cap {"terminate", "quit", "noaccepting"} # {}
         \/ spawnFails > 0

(* SIGTERM ends the master and all its children, even children that hang:  *)
(* the delay grows until they are killed.                                  *)
TerminateEnds == "terminate" \in flags ~> mpc = "exited"

(* SIGQUIT ends the master once its workers are done. *)
QuitEnds == "quit" \in flags ~> mpc = "exited"


=============================================================================
