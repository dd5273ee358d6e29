------------------------- MODULE MasterCycleProofs -------------------------
(***************************************************************************)
(* Proofs about the master process, for every size of the process table,   *)
(* every number of workers and every sequence of signals and deaths.       *)
(***************************************************************************)
EXTENDS MasterCycle, Lemmas

(* The part of the type invariant about the processes. *)
TableOK ==
  /\ role \in [Slots -> Roles]
  /\ exiting \in [Slots -> BOOLEAN]
  /\ exited \in [Slots -> BOOLEAN]
  /\ respawn \in [Slots -> BOOLEAN]
  /\ justSpawn \in [Slots -> BOOLEAN]
  /\ os \in [Slots -> {"none"} \cup Alive \cup Zombies]
  /\ inbox \in [Slots -> SUBSET Commands]
  /\ gen \in [Slots -> Nat]

(* ... and the part about the master. *)
MasterOK ==
  /\ mpc \in Phases
  /\ flags \subseteq Flags
  /\ live \in BOOLEAN
  /\ delay \in Nat
  /\ sigio \in Nat
  /\ timer \in BOOLEAN
  /\ newBinary \in Slots \cup {NoBinary, InvalidPid}
  /\ pending \subseteq Signals
  /\ cycle \in Nat
  /\ signals \in Nat /\ crashes \in Nat /\ spawnFails \in Nat /\ refused \in Nat

(* The type invariant is the conjunction of the two. *)
LEMMA TypeParts == TypeOK <=> TableOK /\ MasterOK
BY DEF TypeOK, TableOK, MasterOK

(* ngx_spawn_process keeps the table well formed. *)
LEMMA SpawnType ==
  ASSUME TableOK, cycle' \in Nat,
         NEW S, NEW as \in [Slots -> Roles], NEW just \in BOOLEAN, Spawn(S, as, just)
  PROVE  TableOK'
<1>1. role' \in [Slots -> Roles]
  BY DEF TableOK, Spawn
<1>2. respawn' \in [Slots -> BOOLEAN]
  BY Zenon DEF TableOK, Spawn
<1>3. justSpawn' \in [Slots -> BOOLEAN]
  BY Zenon DEF TableOK, Spawn
<1>4. exiting' \in [Slots -> BOOLEAN] /\ exited' \in [Slots -> BOOLEAN]
  BY Zenon DEF TableOK, Spawn
<1>5. os' \in [Slots -> {"none"} \cup Alive \cup Zombies]
  BY DEF TableOK, Spawn, Alive
<1>6. inbox' \in [Slots -> SUBSET Commands]
  BY DEF TableOK, Spawn
<1>7. gen' \in [Slots -> Nat]
  BY DEF TableOK, Spawn
<1> QED BY <1>1, <1>2, <1>3, <1>4, <1>5, <1>6, <1>7 DEF TableOK

(* The number of processes that failed to start is a natural number. *)
LEMMA FailuresType ==
  ASSUME spawnFails \in Nat, NEW k \in Int, NEW full \in Nat, SpawnFailures(k, full)
  PROVE  spawnFails' \in Nat
BY DEF SpawnFailures

(* The functions that start workers and cache processes spawn some set of  *)
(* processes.                                                              *)
LEMMA StartSpawns ==
  ASSUME NEW just, Start(just)
  PROVE  \E S \in SUBSET Slots, as \in [Slots -> Roles] : Spawn(S, as, just)
<1>1. PICK m \in 0..WorkerProcesses, H \in SUBSET Helpers :
        LET W == Lowest(FreeSlots, m)
            M == IF "manager" \in H THEN Lowest(FreeSlots \ W, 1) ELSE {}
            L == IF "loader" \in H THEN Lowest(FreeSlots \ (W \cup M), 1) ELSE {}
        IN Spawn(W \cup M \cup L,
                 [s \in Slots |-> CASE s \in W -> "worker"
                                    [] s \in M -> "manager"
                                    [] OTHER -> "loader"], just)
  BY DEF Start
<1> DEFINE W == Lowest(FreeSlots, m)
           M == IF "manager" \in H THEN Lowest(FreeSlots \ W, 1) ELSE {}
           L == IF "loader" \in H THEN Lowest(FreeSlots \ (W \cup M), 1) ELSE {}
           as == [s \in Slots |-> CASE s \in W -> "worker"
                                    [] s \in M -> "manager"
                                    [] OTHER -> "loader"]
<1>2. as \in [Slots -> Roles]
  <2> HIDE DEF W, M
  <2>1. \A s \in Slots : as[s] \in {"worker", "manager", "loader"}
    BY Zenon DEF as
  <2> QED BY <2>1 DEF Roles, as
<1>3. Spawn(W \cup M \cup L, as, just)
  BY <1>1
<1>4. W \cup M \cup L \in SUBSET Slots
  BY DEF Lowest, FreeSlots
<1> HIDE DEF W, M, L, as
<1> QED BY <1>2, <1>3, <1>4

(* They keep the table well formed too. *)
LEMMA StartType ==
  ASSUME TableOK, spawnFails \in Nat, cycle' \in Nat, NEW just \in BOOLEAN, Start(just)
  PROVE  TableOK' /\ spawnFails' \in Nat
<1>1. TableOK'
  BY StartSpawns, SpawnType
<1>2. PICK m \in 0..WorkerProcesses, H \in SUBSET Helpers :
        SpawnFailures(Wanted - m - Cardinality(H), Shortage)
  BY DEF Start
<1>3. spawnFails' \in Nat
  <2>1. IsFiniteSet(Helpers)
    <3>1. IsFiniteSet({}) /\ IsFiniteSet({"manager"})
      BY FS_EmptySet, FS_Singleton
    <3>2. IsFiniteSet({"manager"} \cup {"loader"})
      BY <3>1, FS_Singleton, FS_Union
    <3>3. {"manager"} \cup {"loader"} = {"manager", "loader"}
      OBVIOUS
    <3> QED BY <3>1, <3>2, <3>3, ConstAssumption
  <2>2. IsFiniteSet(H)
    BY <2>1, FS_Subset
  <2>3. Cardinality(Helpers) \in Nat /\ Cardinality(H) \in Nat
    BY <2>1, <2>2, FS_CardinalityType
  <2>4. IsFiniteSet(FreeSlots)
    <3>1. IsFiniteSet(Slots)
      BY ConstAssumption, FS_Interval DEF Slots
    <3> QED BY <3>1, FS_Subset DEF FreeSlots
  <2>5. Cardinality(FreeSlots) \in Nat
    BY <2>4, FS_CardinalityType
  <2>6. Wanted - m - Cardinality(H) \in Int /\ Shortage \in Nat
    BY <2>3, <2>5, ConstAssumption DEF Wanted, Shortage
  <2> QED BY <1>2, <2>6, FailuresType
<1> QED BY <1>1, <1>3

(* ngx_signal_worker_processes keeps the table, the flags and the pending  *)
(* signals well formed.                                                    *)
LEMMA SignalType ==
  ASSUME TableOK, pending \subseteq Signals,
         NEW cmd \in Commands \cup {"KILL"}, NEW f \in SUBSET Flags, Signal(cmd, f)
  PROVE  TableOK' /\ flags' \subseteq Flags /\ pending' \subseteq Signals
<1>1. exiting' \in [Slots -> BOOLEAN] /\ exited' \in [Slots -> BOOLEAN]
      /\ justSpawn' \in [Slots -> BOOLEAN]
  BY DEF Signal, TableOK, Spared
<1>2. os' \in [Slots -> {"none"} \cup Alive \cup Zombies]
  BY DEF Signal, TableOK, Zombies
<1>3. inbox' \in [Slots -> SUBSET Commands]
  BY DEF Signal, TableOK
<1>4. flags' \subseteq Flags /\ pending' \subseteq Signals
  BY DEF Signal, Flags, Signals
<1>5. UNCHANGED <<role, respawn, gen>>
  BY DEF Signal
<1> QED BY <1>1, <1>2, <1>3, <1>4, <1>5 DEF TableOK

(* The next phase of the loop is one of its phases. *)
LEMMA NextRequestType ==
  ASSUME NEW f PROVE NextRequest(f) \in Requests \cup {"top"}
BY DEF NextRequest, Requests

(* The types hold at the beginning. *)
LEMMA TypeInit == Init => TypeOK
<1> SUFFICES ASSUME Init PROVE TypeOK
  OBVIOUS
<1>1. role \in [Slots -> Roles]
  <2> DEFINE W == 1..WorkerProcesses
             H == (WorkerProcesses + 1)..(WorkerProcesses + Cardinality(Helpers))
  <2>1. role = [s \in Slots |-> CASE s \in W -> "worker"
                                 [] s \in H -> IF s = WorkerProcesses + 1
                                               THEN "manager" ELSE "loader"
                                 [] OTHER -> "none"]
    BY DEF Init
  <2> HIDE DEF W, H
  <2>2. \A s \in Slots : role[s] \in Roles
    BY <2>1, Zenon DEF Roles
  <2> QED BY <2>1, <2>2
<1>2. respawn \in [Slots -> BOOLEAN]
  <2>1. respawn = [s \in Slots |-> role[s] \in {"worker", "manager"}]
    BY DEF Init
  <2>2. \A s \in Slots : (role[s] \in {"worker", "manager"}) \in BOOLEAN
    OBVIOUS
  <2> QED BY <2>1, <2>2
<1>3. os \in [Slots -> {"none"} \cup Alive \cup Zombies]
  <2>1. os = [s \in Slots |-> IF role[s] = "none" THEN "none" ELSE "run"]
    BY DEF Init
  <2> QED BY <2>1 DEF Alive
<1>4. MasterOK
  BY DEF Init, MasterOK, Phases, NoBinary
<1> QED BY <1>1, <1>2, <1>3, <1>4, TypeParts DEF Init, TableOK

(* Every step keeps the types: the phases of the loop first, then the      *)
(* children and the administrator.                                         *)
LEMMA TypeNext == TypeOK /\ [Next]_vars => TypeOK'
<1> SUFFICES ASSUME TableOK, MasterOK, [Next]_vars PROVE TableOK' /\ MasterOK'
  BY DEF TypeOK, TableOK, MasterOK
<1>1. CASE Top
  <2>1. timer' \in BOOLEAN
    BY <1>1, Zenon DEF Top
  <2>2. delay' \in Nat /\ sigio' \in Nat /\ flags' \subseteq Flags
    BY <1>1 DEF Top, MasterOK
  <2> QED BY <1>1, <2>1, <2>2 DEF Top, TableOK, MasterOK, Phases, table, children, bounds
<1>2. CASE Wake
  <2>1. flags' \subseteq Flags
    <3>1. \A g \in Signals : FlagOf(g) \subseteq Flags
      BY DEF Signals, FlagOf, Flags, Requests
    <3> QED BY <1>2, <3>1 DEF Wake, MasterOK
  <2>2. exited' \in [Slots -> BOOLEAN] /\ respawn' \in [Slots -> BOOLEAN]
    BY <1>2, Zenon DEF Wake
  <2>3. os' \in [Slots -> {"none"} \cup Alive \cup Zombies]
    BY <1>2 DEF Wake, TableOK
  <2>4. TableOK'
    BY <1>2, <2>2, <2>3 DEF Wake, TableOK
  <2> QED BY <1>2, <2>1, <2>4 DEF Wake, MasterOK, Phases, bounds
<1>3. CASE Reap
  <2>1. CASE "reap" \in flags /\ ReapChildren
    <3> DEFINE gone == {s \in Slots : role[s] # "none" /\ exited[s]}
               again == {s \in gone : Respawnable(s)}
               leaving == gone \ again
    <3>1. PICK failed \in SUBSET again :
            LET fresh == again \ failed
            IN /\ SpawnFailures(Cardinality(failed), 0)
               /\ role' = [s \in Slots |-> IF s \in leaving THEN "none" ELSE role[s]]
               /\ exited' = [s \in Slots |-> exited[s] /\ s \notin leaving \cup fresh]
               /\ exiting' = [s \in Slots |-> exiting[s] /\ s \notin leaving]
               /\ respawn' = [s \in Slots |-> respawn[s] /\ s \notin leaving]
               /\ os' = [s \in Slots |-> IF s \in fresh THEN "run" ELSE os[s]]
               /\ inbox' = [s \in Slots |-> IF s \in gone THEN {} ELSE inbox[s]]
               /\ gen' = [s \in Slots |-> IF s \in fresh THEN cycle
                                         ELSE IF s \in leaving THEN 0 ELSE gen[s]]
               /\ live' = LiveAfter(gone, fresh)
      BY <2>1 DEF ReapChildren
    <3>2. /\ newBinary' \in {newBinary, NoBinary}
          /\ flags' \subseteq flags \cup {"restart"}
          /\ UNCHANGED <<justSpawn, signals, crashes, refused>>
      BY <2>1 DEF ReapChildren
    <3> HIDE DEF gone, again, leaving
    <3>3. /\ exited' \in [Slots -> BOOLEAN] /\ exiting' \in [Slots -> BOOLEAN]
          /\ respawn' \in [Slots -> BOOLEAN]
      BY <3>1, Zenon
    <3>4. live' \in BOOLEAN
      BY <3>1, Zenon DEF LiveAfter
    <3>5. role' \in [Slots -> Roles] /\ inbox' \in [Slots -> SUBSET Commands]
      BY <3>1 DEF TableOK, Roles
    <3>6. os' \in [Slots -> {"none"} \cup Alive \cup Zombies]
      BY <3>1 DEF TableOK, Alive
    <3>7. gen' \in [Slots -> Nat]
      BY <3>1 DEF TableOK, MasterOK
    <3>8. spawnFails' \in Nat
      <4>1. IsFiniteSet(Slots) /\ failed \subseteq Slots
        BY ConstAssumption, FS_Interval DEF Slots, again, gone
      <4>2. Cardinality(failed) \in Nat
        BY <4>1, FS_Subset, FS_CardinalityType
      <4> QED BY <3>1, <4>2, FailuresType DEF MasterOK
    <3>9. TableOK'
      BY <3>2, <3>3, <3>5, <3>6, <3>7 DEF TableOK
    <3> QED BY <1>3, <3>2, <3>4, <3>8, <3>9 DEF Reap, MasterOK, Phases, Flags, Requests
  <2>2. CASE UNCHANGED <<flags, live, newBinary, table, children, bounds>>
    BY <1>3, <2>2 DEF Reap, TableOK, MasterOK, Phases, table, children, bounds
  <2> QED BY <1>3, <2>1, <2>2 DEF Reap
<1>4. CASE MasterExit \/ Proceed
  BY <1>4, NextRequestType
  DEF MasterExit, Proceed, TableOK, MasterOK, Phases, table, children, bounds
<1>5. CASE Terminate
  <2>1. CASE sigio > 0 /\ sigio' = sigio - 1 /\ UNCHANGED <<flags, pending, table, children>>
    BY <1>5, <2>1 DEF Terminate, TableOK, MasterOK, Phases, table, children, bounds
  <2>2. CASE sigio = 0 /\ sigio' = WorkerProcesses + 2 /\ Signal(TermSignal, flags)
    <3>1. TermSignal \in Commands \cup {"KILL"}
      BY DEF TermSignal, Commands
    <3>2. TableOK' /\ flags' \subseteq Flags /\ pending' \subseteq Signals
      BY <2>2, <3>1, SignalType DEF MasterOK
    <3> QED BY <1>5, <2>2, <3>2, ConstAssumption DEF Terminate, MasterOK, Phases, bounds
  <2> QED BY <1>5, <2>1, <2>2 DEF Terminate
<1>6. CASE Quit \/ Retire \/ Reopen \/ NoAccept
  <2>1. PICK cmd \in Commands, f \in SUBSET Flags : Signal(cmd, f)
    BY <1>6 DEF Quit, Retire, Reopen, NoAccept, MasterOK, Commands, Flags
  <2>2. TableOK' /\ flags' \subseteq Flags /\ pending' \subseteq Signals
    BY <2>1, SignalType DEF MasterOK
  <2> QED BY <1>6, <2>2, NextRequestType
       DEF Quit, Retire, Reopen, NoAccept, MasterOK, Phases, bounds
<1>7. CASE ResumeService \/ Reload \/ Restart
  <2>1. cycle' \in Nat
    <3>1. cycle' = cycle \/ cycle' = cycle + 1
      BY <1>7, Zenon DEF ResumeService, Reload, Restart
    <3> QED BY <3>1 DEF MasterOK
  <2>2. Start(TRUE) \/ Start(FALSE)
    BY <1>7 DEF ResumeService, Reload, Restart
  <2>3. spawnFails \in Nat
    BY DEF MasterOK
  <2>4. TableOK' /\ spawnFails' \in Nat
    <3>1. CASE Start(TRUE)
      BY <2>1, <2>3, <3>1, StartType
    <3>2. CASE Start(FALSE)
      BY <2>1, <2>3, <3>2, StartType
    <3> QED BY <2>2, <3>1, <3>2
  <2> QED BY <1>7, <2>1, <2>4, NextRequestType
       DEF ResumeService, Reload, Restart, MasterOK, Phases
<1>8. CASE ReloadRefused
  BY <1>8 DEF ReloadRefused, TableOK, MasterOK, Phases, table, children
<1>9. CASE ChangeBinary
  <2>1. CASE \E s \in Lowest(FreeSlots, 1) :
               /\ Spawn({s}, [t \in Slots |-> "binary"], FALSE)
               /\ newBinary' = s /\ UNCHANGED refused
    <3>1. PICK s \in Slots : /\ Spawn({s}, [t \in Slots |-> "binary"], FALSE)
                             /\ newBinary' = s /\ UNCHANGED refused
      BY <2>1 DEF Lowest, FreeSlots
    <3>2. cycle' \in Nat /\ [t \in Slots |-> "binary"] \in [Slots -> Roles]
      BY <1>9 DEF ChangeBinary, MasterOK, Roles
    <3>3. TableOK'
      BY <3>1, <3>2, SpawnType
    <3> QED BY <1>9, <3>1, <3>3, NextRequestType DEF ChangeBinary, MasterOK, Phases
  <2>2. CASE newBinary' = InvalidPid /\ refused' = refused + 1 /\ UNCHANGED <<table, children>>
    BY <1>9, <2>2, NextRequestType
    DEF ChangeBinary, TableOK, MasterOK, Phases, table, children
  <2> QED BY <1>9, <2>1, <2>2 DEF ChangeBinary
<1>10. CASE TimerFires
  BY <1>10 DEF TimerFires, TableOK, MasterOK, Signals, table, children, bounds
<1>11. ASSUME NEW s \in Slots, Child(s) \/ LoaderDone(s) \/ Crash(s)
       PROVE  TableOK' /\ MasterOK'
  <2>1. ASSUME NEW how \in Zombies, Die(s, how), UNCHANGED <<signals, spawnFails, refused>>,
               crashes' \in {crashes, crashes + 1}
        PROVE  TableOK' /\ MasterOK'
    BY <2>1 DEF Die, TableOK, MasterOK, Signals, table
  <2>2. CASE LoaderDone(s) \/ Crash(s) \/ Drained(s)
    BY <2>1, <2>2 DEF LoaderDone, Crash, Drained, Zombies, bounds
  <2>3. CASE Obey(s)
    <3>1. CASE Die(s, "zombie")
      BY <2>1, <2>3, <3>1 DEF Obey, Zombies, bounds
    <3>2. CASE /\ os' = [os EXCEPT ![s] = IF "QUIT" \in inbox[s] THEN "stopping" ELSE @]
               /\ inbox' = [inbox EXCEPT ![s] = {}]
               /\ UNCHANGED <<mpc, flags, live, delay, sigio, timer, newBinary, pending,
                              table, gen, cycle>>
      BY <2>3, <3>2 DEF Obey, TableOK, MasterOK, Alive, table, bounds
    <3> QED BY <2>3, <3>1, <3>2 DEF Obey
  <2> QED BY <1>11, <2>2, <2>3 DEF Child
<1>12. ASSUME NEW g \in Operator, Send(g) PROVE TableOK' /\ MasterOK'
  BY <1>12, ConstAssumption DEF Send, TableOK, MasterOK, table, children
<1>13. CASE UNCHANGED vars
  BY <1>13 DEF vars, TableOK, MasterOK, table, children, bounds
<1> QED
  BY <1>1, <1>2, <1>3, <1>4, <1>5, <1>6, <1>7, <1>8, <1>9, <1>10, <1>11, <1>12, <1>13
  DEF Next, Master

(* The types are those of the type invariant in every reachable state, for *)
(* every size of the process table.                                        *)
THEOREM TypeCorrect == Spec => []TypeOK
BY TypeInit, TypeNext, PTL DEF Spec

-----------------------------------------------------------------------------
(* What the operations do to one child. *)

(* A child that ngx_reap_children leaves in the table is as it was, or was *)
(* started again with the master's configuration: never during a shutdown. *)
LEMMA ReapKeeps ==
  ASSUME TableOK, ReapChildren, NEW s \in Slots, role'[s] # "none"
  PROVE  /\ role'[s] = role[s]
         /\ justSpawn'[s] = justSpawn[s]
         /\ \/ ~Stopping /\ gen'[s] = cycle
            \/ /\ gen'[s] = gen[s]
               /\ exiting'[s] = exiting[s]
               /\ exited'[s] = exited[s]
<1> DEFINE gone == {r \in Slots : role[r] # "none" /\ exited[r]}
           again == {r \in gone : Respawnable(r)}
           leaving == gone \ again
<1>1. PICK failed \in SUBSET again :
        /\ role' = [r \in Slots |-> IF r \in leaving THEN "none" ELSE role[r]]
        /\ exited' = [r \in Slots |-> exited[r] /\ r \notin leaving \cup (again \ failed)]
        /\ exiting' = [r \in Slots |-> exiting[r] /\ r \notin leaving]
        /\ gen' = [r \in Slots |-> IF r \in again \ failed THEN cycle
                                   ELSE IF r \in leaving THEN 0 ELSE gen[r]]
        /\ justSpawn' = justSpawn
  BY DEF ReapChildren
<1>2. again \subseteq {r \in Slots : ~Stopping}
  BY DEF Respawnable
<1> HIDE DEF gone, again, leaving
<1>3. s \notin leaving /\ role'[s] = role[s] /\ justSpawn'[s] = justSpawn[s]
  BY <1>1
<1>4. CASE s \in again \ failed
  BY <1>1, <1>2, <1>3, <1>4
<1>5. CASE s \notin again \ failed
  <2>1. exited[s] \in BOOLEAN /\ exiting[s] \in BOOLEAN
    BY DEF TableOK
  <2>2. exited'[s] = exited[s] /\ exiting'[s] = exiting[s]
    BY <1>1, <1>3, <1>5, <2>1
  <2> QED BY <1>1, <1>3, <1>5, <2>2
<1> QED BY <1>4, <1>5

(* ngx_signal_worker_processes leaves no child spared, forgets about none, *)
(* and told every child that was not spared if the command is to go.       *)
LEMMA SignalTells ==
  ASSUME TableOK, NEW cmd, NEW f, Signal(cmd, f), NEW s \in Slots
  PROVE  /\ role' = role /\ gen' = gen
         /\ Ours(s) => ~justSpawn'[s]
         /\ exiting[s] \/ exited[s] => exiting'[s] \/ exited'[s]
         /\ cmd # "REOPEN" /\ Ours(s) /\ ~justSpawn[s] => exiting'[s] \/ exited'[s]
<1>1. role' = role /\ gen' = gen
  BY DEF Signal
<1>2. Ours(s) => ~justSpawn'[s]
  BY DEF Signal, Spared
<1> DEFINE lost == {r \in Told(cmd) : os[r] = "none"}
<1>3. /\ exiting'[s] = IF s \in lost THEN FALSE
                       ELSE exiting[s] \/ (s \in Told(cmd) /\ cmd # "REOPEN")
      /\ exited'[s] = (exited[s] \/ s \in lost)
  BY DEF Signal
<1> HIDE DEF lost
<1>4. exiting[s] \/ exited[s] => exiting'[s] \/ exited'[s]
  BY <1>3, Zenon
<1>5. ASSUME cmd # "REOPEN", Ours(s), ~justSpawn[s] PROVE exiting'[s] \/ exited'[s]
  <2>1. s \in Told(cmd) \/ exiting[s]
    BY <1>5 DEF Told
  <2> QED BY <1>3, <1>5, <2>1, Zenon
<1> QED BY <1>1, <1>2, <1>4, <1>5

(* ngx_spawn_process touches only the slots it fills. *)
LEMMA SpawnTouches ==
  ASSUME TableOK, NEW S \in SUBSET Slots, NEW as, NEW just \in BOOLEAN,
         Spawn(S, as, just), NEW s \in Slots
  PROVE  \/ s \in S /\ role'[s] = as[s] /\ justSpawn'[s] = just /\ gen'[s] = cycle'
         \/ /\ role'[s] = role[s] /\ justSpawn'[s] = justSpawn[s] /\ gen'[s] = gen[s]
            /\ exiting'[s] = exiting[s] /\ exited'[s] = exited[s]
<1>1. CASE s \in S
  BY <1>1 DEF Spawn
<1>2. CASE s \notin S
  <2>1. exited[s] \in BOOLEAN /\ exiting[s] \in BOOLEAN
    BY DEF TableOK
  <2> QED BY <1>2, <2>1 DEF Spawn
<1> QED BY <1>1, <1>2

(* Nor do the functions that call it. *)
LEMMA StartTouches ==
  ASSUME TableOK, NEW just \in BOOLEAN, Start(just), NEW s \in Slots
  PROVE  \/ justSpawn'[s] = just /\ gen'[s] = cycle'
         \/ /\ role'[s] = role[s] /\ justSpawn'[s] = justSpawn[s] /\ gen'[s] = gen[s]
            /\ exiting'[s] = exiting[s] /\ exited'[s] = exited[s]
<1>1. PICK S \in SUBSET Slots, as \in [Slots -> Roles] : Spawn(S, as, just)
  BY StartSpawns
<1> QED BY <1>1, SpawnTouches

(* The steps of children, timer and administrator change nothing the       *)
(* master keeps but its pending signals.                                   *)
LEMMA OthersKeep ==
  ASSUME TimerFires \/ (\E s \in Slots : Child(s) \/ LoaderDone(s) \/ Crash(s))
         \/ (\E g \in Operator : Send(g)) \/ UNCHANGED vars
  PROVE  UNCHANGED <<mpc, flags, sigio, newBinary, role, exiting, exited, justSpawn,
                     gen, cycle, refused>>
<1>1. CASE TimerFires
  BY <1>1 DEF TimerFires, table, children, bounds
<1>2. ASSUME NEW s \in Slots, Child(s) \/ LoaderDone(s) \/ Crash(s)
      PROVE  UNCHANGED <<mpc, flags, sigio, newBinary, role, exiting, exited, justSpawn,
                         gen, cycle, refused>>
  BY <1>2 DEF Child, Obey, Drained, LoaderDone, Crash, Die, table, bounds
<1>3. ASSUME NEW g \in Operator, Send(g)
      PROVE  UNCHANGED <<mpc, flags, sigio, newBinary, role, exiting, exited, justSpawn,
                         gen, cycle, refused>>
  BY <1>3 DEF Send, table, children
<1>4. CASE UNCHANGED vars
  BY <1>4 DEF vars, table, children, bounds
<1> QED BY <1>1, <1>2, <1>3, <1>4

-----------------------------------------------------------------------------
(* Reload.  Outside the pause of a reload no child is marked as just       *)
(* started and all workers of older configurations were told to go; in the *)
(* pause the marked children are exactly of the new configuration.         *)
NoneSpared == \A s \in Slots : Ours(s) => ~justSpawn[s]
OldTold == \A s \in Slots : role[s] = "worker" /\ gen[s] < cycle => exiting[s] \/ exited[s]
SparedAreNew == \A s \in Slots : Ours(s) /\ justSpawn[s] => gen[s] = cycle
ReloadInv == /\ mpc # "retire" => NoneSpared /\ OldTold
             /\ mpc = "retire" => SparedAreNew

(* Nothing is retired at the beginning. *)
LEMMA ReloadInit == Init => ReloadInv
BY DEF Init, ReloadInv, NoneSpared, OldTold

(* Every step keeps what a reload promises. *)
LEMMA ReloadNext == TypeOK /\ ReloadInv /\ [Next]_vars => ReloadInv'
<1> SUFFICES ASSUME TableOK, MasterOK, ReloadInv, [Next]_vars PROVE ReloadInv'
  BY TypeParts
<1>1. ASSUME UNCHANGED <<role, exiting, exited, justSpawn, gen, cycle>>,
             mpc' = "retire" <=> mpc = "retire"
      PROVE  ReloadInv'
  BY <1>1 DEF ReloadInv, NoneSpared, OldTold, SparedAreNew, Ours
<1>2. CASE Top \/ MasterExit \/ Proceed \/ ReloadRefused
  BY <1>1, <1>2, NextRequestType
  DEF Top, MasterExit, Proceed, ReloadRefused, table, children, Requests
<1>3. CASE Wake
  <2>1. /\ mpc = "suspend" /\ mpc' = "reap"
        /\ UNCHANGED <<role, exiting, justSpawn, gen, cycle>>
        /\ \A s \in Slots : exited[s] => exited'[s]
    BY <1>3 DEF Wake
  <2> QED BY <2>1 DEF ReloadInv, NoneSpared, OldTold, Ours
<1>4. CASE Reap
  <2>1. mpc = "reap" /\ mpc' = "check" /\ cycle' = cycle
    BY <1>4 DEF Reap
  <2>2. CASE ReapChildren
    <3>1. NoneSpared'
      BY <2>1, <2>2, ReapKeeps DEF ReloadInv, NoneSpared, Ours
    <3>2. OldTold'
      <4> SUFFICES ASSUME NEW s \in Slots, role'[s] = "worker", gen'[s] < cycle
                   PROVE  exiting'[s] \/ exited'[s]
        BY <2>1 DEF OldTold
      <4>1. /\ role[s] = "worker"
            /\ gen'[s] = cycle \/ (/\ gen'[s] = gen[s] /\ exiting'[s] = exiting[s]
                                   /\ exited'[s] = exited[s])
        BY <2>2, ReapKeeps
      <4>2. cycle \in Nat
        BY DEF MasterOK
      <4> QED BY <2>1, <4>1, <4>2 DEF ReloadInv, OldTold
    <3> QED BY <2>1, <3>1, <3>2 DEF ReloadInv
  <2>3. CASE UNCHANGED <<table, children>>
    BY <1>1, <2>1, <2>3 DEF table, children
  <2> QED BY <1>4, <2>2, <2>3 DEF Reap
<1>5. CASE Terminate
  <2>1. CASE UNCHANGED <<table, children>>
    BY <1>1, <1>5, <2>1 DEF Terminate, table, children
  <2>2. CASE Signal(TermSignal, flags)
    BY <1>5, <2>2, SignalTells DEF Terminate, ReloadInv, NoneSpared, OldTold, Ours
  <2> QED BY <1>5, <2>1, <2>2 DEF Terminate
<1>6. CASE Quit \/ Reopen \/ NoAccept
  <2>1. PICK cmd, f : Signal(cmd, f)
    BY <1>6 DEF Quit, Reopen, NoAccept
  <2>2. mpc # "retire" /\ mpc' # "retire" /\ cycle' = cycle
    BY <1>6, NextRequestType DEF Quit, Reopen, NoAccept, Requests
  <2> QED BY <2>1, <2>2, SignalTells DEF ReloadInv, NoneSpared, OldTold, Ours
<1>7. CASE Retire
  <2>1. mpc = "retire" /\ mpc' # "retire" /\ cycle' = cycle /\ Signal("QUIT", flags)
    BY <1>7, NextRequestType DEF Retire, Requests
  <2>2. NoneSpared'
    BY <2>1, SignalTells DEF NoneSpared, Ours
  <2>3. OldTold'
    <3> SUFFICES ASSUME NEW s \in Slots, role'[s] = "worker", gen'[s] < cycle
                 PROVE  exiting'[s] \/ exited'[s]
      BY <2>1 DEF OldTold
    <3>1. role[s] = "worker" /\ gen[s] < cycle /\ Ours(s)
      BY <2>1, SignalTells DEF Ours
    <3>2. gen[s] # cycle
      BY <3>1 DEF TableOK, MasterOK
    <3>3. ~justSpawn[s]
      BY <2>1, <3>1, <3>2 DEF ReloadInv, SparedAreNew
    <3> QED BY <2>1, <3>1, <3>3, SignalTells
  <2> QED BY <2>1, <2>2, <2>3 DEF ReloadInv
<1>8. CASE Reload
  <2>1. mpc # "retire" /\ mpc' = "retire" /\ Start(TRUE)
    BY <1>8, Zenon DEF Reload
  <2>2. SparedAreNew'
    BY <2>1, StartTouches DEF ReloadInv, NoneSpared, SparedAreNew, Ours
  <2> QED BY <2>1, <2>2 DEF ReloadInv
<1>9. CASE ResumeService \/ Restart
  <2>1. Start(FALSE) /\ cycle' = cycle /\ mpc \in {"reconfigure", "restart"}
    BY <1>9, Zenon DEF ResumeService, Restart
  <2>2. mpc' \in Requests \cup {"top"}
    <3>1. mpc' = "top" \/ mpc' = NextRequest(flags')
      BY <1>9, Zenon DEF ResumeService, Restart
    <3> QED BY <3>1, NextRequestType
  <2>3. NoneSpared'
    BY <2>1, StartTouches DEF ReloadInv, NoneSpared, Ours
  <2>4. OldTold'
    <3>1. \A s \in Slots : gen'[s] = cycle \/ (/\ role'[s] = role[s] /\ gen'[s] = gen[s]
                                               /\ exiting'[s] = exiting[s]
                                               /\ exited'[s] = exited[s])
      BY <2>1, StartTouches
    <3>2. cycle \in Nat /\ OldTold
      BY <2>1 DEF MasterOK, ReloadInv
    <3> QED BY <2>1, <3>1, <3>2 DEF OldTold
  <2> QED BY <2>2, <2>3, <2>4 DEF ReloadInv, Requests
<1>10. CASE ChangeBinary
  <2>1. mpc = "changeBinary" /\ mpc' # "retire" /\ cycle' = cycle
    BY <1>10, NextRequestType DEF ChangeBinary, Requests
  <2>2. CASE UNCHANGED <<table, children>>
    BY <1>1, <2>1, <2>2 DEF table, children
  <2>3. CASE \E b \in Lowest(FreeSlots, 1) : Spawn({b}, [r \in Slots |-> "binary"], FALSE)
    <3>1. PICK b \in Slots : Spawn({b}, [r \in Slots |-> "binary"], FALSE)
      BY <2>3 DEF Lowest, FreeSlots
    <3>2. \A s \in Slots :
            \/ role'[s] = "binary"
            \/ /\ role'[s] = role[s] /\ justSpawn'[s] = justSpawn[s] /\ gen'[s] = gen[s]
               /\ exiting'[s] = exiting[s] /\ exited'[s] = exited[s]
      <4> DEFINE as == [r \in Slots |-> "binary"]
                 new == {b}
      <4>1. Spawn(new, as, FALSE) /\ new \in SUBSET Slots
        BY <3>1
      <4>2. \A s \in Slots : as[s] = "binary"
        OBVIOUS
      <4> HIDE DEF as, new
      <4> QED BY <4>1, <4>2, SpawnTouches
    <3> QED BY <2>1, <3>2 DEF ReloadInv, NoneSpared, OldTold, Ours
  <2> QED BY <1>10, <2>2, <2>3 DEF ChangeBinary
<1>11. CASE TimerFires \/ (\E s \in Slots : Child(s) \/ LoaderDone(s) \/ Crash(s))
            \/ (\E g \in Operator : Send(g)) \/ UNCHANGED vars
  BY <1>1, <1>11, OthersKeep
<1> QED
  BY <1>2, <1>3, <1>4, <1>5, <1>6, <1>7, <1>8, <1>9, <1>10, <1>11 DEF Next, Master

(* What a reload promises holds in every state. *)
LEMMA ReloadCorrect == Spec => []ReloadInv
BY ReloadInit, ReloadNext, TypeCorrect, PTL DEF Spec

(* Whenever the master goes to sleep, every worker of an older             *)
(* configuration was told to go: no interleaving of reloads, crashes,      *)
(* failed respawns and upgrades leaves one behind.                         *)
THEOREM ReloadRetires == Spec => []OldWorkersRetired
<1>1. ReloadInv => OldWorkersRetired
  BY DEF ReloadInv, OldTold, OldWorkersRetired
<1> QED BY <1>1, ReloadCorrect, PTL

-----------------------------------------------------------------------------
(* Shutdown.  The requests are handled only while no shutdown is noted;    *)
(* once one is, all children are told before the loop starts over, and     *)
(* while sigio postpones the next round they were told before.             *)
AllTold == \A s \in Slots : Ours(s) => exiting[s] \/ exited[s]
ShutdownInv == /\ mpc \in Requests \cup {"retire"} => ~Stopping
               /\ mpc \in {"top", "suspend"} /\ Stopping => AllTold
               /\ sigio > 0 => "terminate" \in flags /\ AllTold

(* Nothing is stopping at the beginning. *)
LEMMA ShutdownInit == Init => ShutdownInv
BY DEF Init, ShutdownInv, Stopping, Requests

(* Every step keeps what a shutdown promises. *)
LEMMA ShutdownNext == TypeOK /\ ReloadInv /\ ShutdownInv /\ [Next]_vars => ShutdownInv'
<1> SUFFICES ASSUME TableOK, MasterOK, ReloadInv, ShutdownInv, [Next]_vars
             PROVE  ShutdownInv'
  BY TypeParts
<1>1. ASSUME UNCHANGED <<mpc, flags, sigio, role, exiting, exited>> PROVE ShutdownInv'
  BY <1>1 DEF ShutdownInv, Stopping, AllTold, Ours
<1>2. CASE Top
  <2>1. UNCHANGED <<role, exiting, exited>> /\ mpc = "top" /\ mpc' = "suspend"
    BY <1>2 DEF Top, table
  <2>2. sigio' \in {0, sigio} /\ flags' \in {flags, flags \ {"sigalrm"}}
    BY <1>2 DEF Top
  <2>3. AllTold => AllTold'
    BY <2>1 DEF AllTold, Ours
  <2>4. Stopping' <=> Stopping
    BY <2>2 DEF Stopping
  <2> QED BY <2>1, <2>2, <2>3, <2>4 DEF ShutdownInv, Requests
<1>3. CASE Wake
  <2>1. /\ mpc' = "reap" /\ UNCHANGED <<role, exiting, sigio>> /\ flags \subseteq flags'
        /\ \A s \in Slots : exited[s] => exited'[s]
    BY <1>3 DEF Wake
  <2>2. AllTold => AllTold'
    BY <2>1 DEF AllTold, Ours
  <2> QED BY <2>1, <2>2 DEF ShutdownInv, Requests
<1>4. CASE Reap
  <2>1. mpc' = "check" /\ sigio' = sigio
    BY <1>4 DEF Reap
  <2>2. CASE ReapChildren
    <3>1. "terminate" \in flags => "terminate" \in flags'
      BY <2>2 DEF ReapChildren
    <3>2. ASSUME sigio > 0 PROVE AllTold'
      <4>1. AllTold /\ Stopping
        BY <3>2 DEF ShutdownInv, Stopping
      <4> QED BY <2>2, <4>1, ReapKeeps DEF AllTold, Ours
    <3> QED BY <2>1, <3>1, <3>2 DEF ShutdownInv, Requests
  <2>3. CASE UNCHANGED <<flags, table>>
    BY <2>1, <2>3 DEF table, ShutdownInv, Requests, AllTold, Ours
  <2> QED BY <1>4, <2>2, <2>3 DEF Reap
<1>5. CASE MasterExit
  BY <1>5 DEF MasterExit, table, ShutdownInv, Requests, AllTold, Ours
<1>6. CASE Terminate
  <2>1. mpc = "check" /\ mpc' = "top" /\ "terminate" \in flags
    BY <1>6 DEF Terminate
  <2>2. AllTold' /\ flags \subseteq flags'
    <3>1. CASE sigio > 0 /\ UNCHANGED <<flags, table>>
      BY <3>1 DEF table, ShutdownInv, AllTold, Ours
    <3>2. CASE Signal(TermSignal, flags)
      <4>1. TermSignal # "REOPEN"
        BY DEF TermSignal
      <4>2. NoneSpared
        BY <2>1 DEF ReloadInv
      <4>3. AllTold'
        BY <3>2, <4>1, <4>2, SignalTells DEF NoneSpared, AllTold, Ours
      <4> QED BY <3>2, <4>3 DEF Signal
    <3> QED BY <1>6, <3>1, <3>2 DEF Terminate
  <2> QED BY <2>1, <2>2 DEF ShutdownInv, Requests
<1>7. CASE Quit
  <2>1. /\ mpc = "check" /\ mpc' = "top" /\ Signal("QUIT", flags)
        /\ "terminate" \notin flags /\ sigio' = sigio
    BY <1>7 DEF Quit
  <2>2. AllTold'
    <3>1. NoneSpared
      BY <2>1 DEF ReloadInv
    <3> QED BY <2>1, <3>1, SignalTells DEF NoneSpared, AllTold, Ours
  <2> QED BY <2>1, <2>2 DEF ShutdownInv, Requests
<1>8. CASE Proceed
  <2>1. ~Stopping /\ UNCHANGED <<flags, sigio, table>> /\ mpc' \in Requests \cup {"top"}
    BY <1>8, NextRequestType DEF Proceed
  <2> QED BY <2>1 DEF ShutdownInv, Stopping, table
<1>9. ASSUME mpc \in Requests \cup {"retire"}, sigio' = sigio,
             flags' \subseteq flags \cup {"noaccepting", "reap"}
      PROVE  ShutdownInv'
  <2>1. ~Stopping /\ ~Stopping'
    BY <1>9 DEF ShutdownInv, Stopping
  <2> QED BY <1>9, <2>1 DEF ShutdownInv, Stopping
<1>10. CASE ResumeService \/ Reload \/ Restart
  <2>1. /\ mpc \in {"reconfigure", "restart"} /\ sigio' = sigio
        /\ \/ flags' = flags \ {"reconfigure", "noaccepting"}
           \/ flags' = flags \ {"reconfigure"} \/ flags' = flags \ {"restart"}
    BY <1>10, Zenon DEF ResumeService, Reload, Restart
  <2> QED BY <1>9, <2>1 DEF Requests
<1>11. CASE Retire \/ Reopen \/ NoAccept
  BY <1>9, <1>11 DEF Retire, Reopen, NoAccept, Signal, Requests
<1>12. CASE ReloadRefused \/ ChangeBinary
  BY <1>9, <1>12 DEF ReloadRefused, ChangeBinary, Requests
<1>13. CASE TimerFires \/ (\E s \in Slots : Child(s) \/ LoaderDone(s) \/ Crash(s))
            \/ (\E g \in Operator : Send(g)) \/ UNCHANGED vars
  BY <1>1, <1>13, OthersKeep
<1> QED
  BY <1>2, <1>3, <1>4, <1>5, <1>6, <1>7, <1>8, <1>10, <1>11, <1>12, <1>13
  DEF Next, Master

(* Whenever the master goes to sleep with a shutdown noted, every child it *)
(* has was told: none was skipped as just started, none was started later. *)
THEOREM ShutdownTellsAll == Spec => []ShutdownReachesAll
<1>1. ShutdownInv => ShutdownReachesAll
  BY DEF ShutdownInv, AllTold, ShutdownReachesAll
<1> QED BY <1>1, ShutdownInit, ShutdownNext, TypeCorrect, ReloadCorrect, PTL DEF Spec

-----------------------------------------------------------------------------
(* Requests.  None of the requests noted in f comes before phase p in the  *)
(* loop: it would have been handled.                                       *)
Clear(p, f) ==
  /\ "reconfigure" \in f => p \notin {"top", "suspend", "retire"} \cup
                                     {"restart", "reopen", "changeBinary", "noaccept"}
  /\ "restart" \in f => p \notin {"top", "suspend", "reopen", "changeBinary", "noaccept"}
  /\ "reopen" \in f => p \notin {"top", "suspend", "changeBinary", "noaccept"}
  /\ "changeBinary" \in f => p \notin {"top", "suspend", "noaccept"}
  /\ "noaccept" \in f => p \notin {"top", "suspend"}

RequestInv == ~Stopping /\ newBinary = NoBinary /\ refused = 0 => Clear(mpc, flags)

(* The loop goes on to the first request that is noted. *)
LEMMA NextIsClear ==
  ASSUME NEW f, NEW f2, f2 \subseteq f \cup {"reap"} PROVE Clear(NextRequest(f), f2)
BY DEF Clear, NextRequest, Requests

(* No request is pending at the beginning. *)
LEMMA RequestInit == Init => RequestInv
BY DEF Init, RequestInv, Clear, Requests

(* Every step keeps the pending requests of the master. *)
LEMMA RequestNext == TypeOK /\ RequestInv /\ [Next]_vars => RequestInv'
<1> SUFFICES ASSUME MasterOK, RequestInv, [Next]_vars PROVE RequestInv'
  BY TypeParts
<1>1. CASE Top
  BY <1>1 DEF Top, bounds, RequestInv, Clear, Stopping, Requests
<1>2. CASE Wake \/ Reap \/ MasterExit
  BY <1>2 DEF Wake, Reap, MasterExit, RequestInv, Clear, Requests
<1>3. CASE Terminate \/ Quit
  BY <1>3 DEF Terminate, Quit, Signal, RequestInv, Stopping
<1>4. CASE Proceed
  BY <1>4, NextIsClear DEF Proceed, RequestInv
<1>5. CASE ResumeService
  <2>1. newBinary # NoBinary /\ newBinary' = newBinary
    BY <1>5, Zenon DEF ResumeService
  <2> QED BY <2>1 DEF RequestInv
<1>6. CASE ReloadRefused
  BY <1>6 DEF ReloadRefused, RequestInv, MasterOK
<1>7. CASE Reload
  <2>1. mpc' = "retire" /\ flags' = flags \ {"reconfigure"}
    BY <1>7, Zenon DEF Reload
  <2> QED BY <2>1 DEF RequestInv, Clear, Requests
<1>8. CASE Retire \/ Reopen
  <2>1. PICK f : mpc' = NextRequest(f) /\ flags' \subseteq f \cup {"reap"}
    BY <1>8 DEF Retire, Reopen, Signal
  <2> QED BY <2>1, NextIsClear DEF RequestInv
<1>9. CASE Restart
  <2>1. mpc' = NextRequest(flags')
    BY <1>9, Zenon DEF Restart
  <2> QED BY <2>1, NextIsClear DEF RequestInv
<1>10. CASE ChangeBinary
  BY <1>10, NextIsClear DEF ChangeBinary, RequestInv
<1>11. CASE NoAccept
  <2>1. /\ mpc = "noaccept" /\ UNCHANGED <<newBinary, refused>> /\ mpc' = "top"
        /\ flags' \in {(flags \ {"noaccept"}) \cup {"noaccepting"},
                       (flags \ {"noaccept"}) \cup {"noaccepting", "reap"}}
    BY <1>11 DEF NoAccept, Signal, bounds
  <2>2. Stopping' <=> Stopping
    BY <2>1 DEF Stopping
  <2> QED BY <2>1, <2>2 DEF RequestInv, Clear, Requests
<1>12. CASE TimerFires \/ (\E s \in Slots : Child(s) \/ LoaderDone(s) \/ Crash(s))
            \/ (\E g \in Operator : Send(g)) \/ UNCHANGED vars
  BY <1>12, OthersKeep DEF RequestInv, Stopping, Clear
<1> QED
  BY <1>1, <1>2, <1>3, <1>4, <1>5, <1>6, <1>7, <1>8, <1>9, <1>10, <1>11, <1>12
  DEF Next, Master

(* The master never goes to sleep on a request it has noted, unless a      *)
(* reload was cut short or it is shutting down.                            *)
THEOREM RequestsServed == Spec => []NothingForgotten
<1>1. RequestInv => NothingForgotten
  BY DEF RequestInv, Clear, NothingForgotten, Requests
<1> QED BY <1>1, RequestInit, RequestNext, TypeCorrect, PTL DEF Spec
-----------------------------------------------------------------------------
(* The end of the master.  A slot of the table whose child was collected   *)
(* has no process.                                                         *)
DeadInv == \A s \in Slots : exited[s] => os[s] = "none"

(* What ngx_reap_children does to one slot: one that is free, or whose     *)
(* child runs, is left alone and a child of the master makes it live; any  *)
(* other is freed, kept as it is, or has a child again.                    *)
LEMMA ReapOne ==
  ASSUME TableOK, ReapChildren, NEW s \in Slots
  PROVE  /\ role[s] = "none" \/ ~exited[s] =>
              /\ role'[s] = role[s] /\ exited'[s] = exited[s] /\ exiting'[s] = exiting[s]
              /\ os'[s] = os[s] /\ inbox'[s] = inbox[s] /\ justSpawn'[s] = justSpawn[s]
              /\ Ours(s) => live'
         /\ role[s] # "none" /\ exited[s] =>
              \/ role'[s] = "none" /\ ~exited'[s] /\ os'[s] = os[s]
              \/ role'[s] = role[s] /\ exited'[s] /\ os'[s] = os[s]
              \/ role'[s] = role[s] /\ ~exited'[s] /\ os'[s] = "run" /\ live'
<1> DEFINE gone == {r \in Slots : role[r] # "none" /\ exited[r]}
           again == {r \in gone : Respawnable(r)}
           leaving == gone \ again
<1>1. PICK failed \in SUBSET again :
        /\ role' = [r \in Slots |-> IF r \in leaving THEN "none" ELSE role[r]]
        /\ exited' = [r \in Slots |-> exited[r] /\ r \notin leaving \cup (again \ failed)]
        /\ exiting' = [r \in Slots |-> exiting[r] /\ r \notin leaving]
        /\ os' = [r \in Slots |-> IF r \in again \ failed THEN "run" ELSE os[r]]
        /\ inbox' = [r \in Slots |-> IF r \in gone THEN {} ELSE inbox[r]]
        /\ justSpawn' = justSpawn
        /\ live' = LiveAfter(gone, again \ failed)
  BY DEF ReapChildren
<1>2. s \in gone <=> role[s] # "none" /\ exited[s]
  OBVIOUS
<1>3. again \subseteq gone /\ leaving = gone \ again
  OBVIOUS
<1>4. exited[s] \in BOOLEAN /\ exiting[s] \in BOOLEAN
  BY DEF TableOK
<1> HIDE DEF gone, again, leaving
<1>5. ASSUME role[s] = "none" \/ ~exited[s]
      PROVE  /\ role'[s] = role[s] /\ exited'[s] = exited[s] /\ exiting'[s] = exiting[s]
             /\ os'[s] = os[s] /\ inbox'[s] = inbox[s] /\ justSpawn'[s] = justSpawn[s]
             /\ Ours(s) => live'
  <2>1. s \notin gone /\ s \notin again /\ s \notin leaving
    BY <1>2, <1>3, <1>5
  <2>2. Ours(s) => live'
    BY <1>1, <2>1 DEF LiveAfter
  <2>3. exited'[s] = exited[s] /\ exiting'[s] = exiting[s]
    BY <1>1, <1>4, <2>1
  <2> QED BY <1>1, <2>1, <2>2, <2>3
<1>6. ASSUME role[s] # "none", exited[s]
      PROVE  \/ role'[s] = "none" /\ ~exited'[s] /\ os'[s] = os[s]
             \/ role'[s] = role[s] /\ exited'[s] /\ os'[s] = os[s]
             \/ role'[s] = role[s] /\ ~exited'[s] /\ os'[s] = "run" /\ live'
  <2>1. s \in gone
    BY <1>2, <1>6
  <2>2. CASE s \in leaving
    BY <1>1, <1>3, <2>2
  <2>3. CASE s \in failed
    <3>1. s \notin leaving /\ s \notin again \ failed
      BY <1>1, <1>3, <2>3
    <3> QED BY <1>1, <1>6, <3>1
  <2>4. CASE s \in again \ failed
    <3>1. s \notin leaving
      BY <1>3, <2>4
    <3>2. live'
      BY <1>1, <2>4 DEF LiveAfter
    <3> QED BY <1>1, <2>4, <3>1, <3>2
  <2> QED BY <1>3, <2>1, <2>2, <2>3, <2>4
<1> QED BY <1>5, <1>6

(* What ngx_signal_worker_processes does to one slot. *)
LEMMA SignalOne ==
  ASSUME TableOK, NEW cmd, NEW f, Signal(cmd, f), NEW s \in Slots
  PROVE  /\ role'[s] = role[s]
         /\ exited[s] => exited'[s]
         /\ exited'[s] => exited[s] \/ os[s] = "none"
         /\ os[s] = "none" => os'[s] = "none"
         /\ s \notin Told(cmd) =>
              /\ exiting'[s] = exiting[s] /\ exited'[s] = exited[s]
              /\ os'[s] = os[s] /\ inbox'[s] = inbox[s]
         /\ cmd = "REOPEN" /\ os[s] # "none" =>
              /\ exiting'[s] = exiting[s] /\ exited'[s] = exited[s]
              /\ os'[s] = os[s] /\ inbox'[s] \subseteq inbox[s] \cup {"REOPEN"}
<1> DEFINE lost == {r \in Told(cmd) : os[r] = "none"}
           killed == {r \in Told(cmd) : cmd = "KILL" /\ os[r] \in Alive}
<1>1. /\ exiting'[s] = IF s \in lost THEN FALSE
                       ELSE exiting[s] \/ (s \in Told(cmd) /\ cmd # "REOPEN")
      /\ exited'[s] = (exited[s] \/ s \in lost)
      /\ inbox'[s] = IF s \in Told(cmd) /\ os[s] \in Alive /\ cmd # "KILL"
                     THEN inbox[s] \cup {cmd} ELSE inbox[s]
      /\ os'[s] = IF s \in killed THEN "zombie" ELSE os[s]
      /\ role' = role
  BY DEF Signal
<1>2. /\ s \in lost <=> s \in Told(cmd) /\ os[s] = "none"
      /\ s \in killed <=> s \in Told(cmd) /\ cmd = "KILL" /\ os[s] \in Alive
  OBVIOUS
<1> HIDE DEF lost, killed
<1>3. exited[s] \in BOOLEAN /\ exiting[s] \in BOOLEAN
  BY DEF TableOK
<1>4. /\ exited[s] => exited'[s]
      /\ exited'[s] => exited[s] \/ os[s] = "none"
      /\ os[s] = "none" => os'[s] = "none"
  BY <1>1, <1>2 DEF Alive
<1>5. ASSUME s \notin Told(cmd)
      PROVE  /\ exiting'[s] = exiting[s] /\ exited'[s] = exited[s]
             /\ os'[s] = os[s] /\ inbox'[s] = inbox[s]
  <2>1. s \notin lost /\ s \notin killed
    BY <1>2, <1>5
  <2> QED BY <1>1, <1>3, <1>5, <2>1
<1>6. ASSUME cmd = "REOPEN", os[s] # "none"
      PROVE  /\ exiting'[s] = exiting[s] /\ exited'[s] = exited[s]
             /\ os'[s] = os[s] /\ inbox'[s] \subseteq inbox[s] \cup {"REOPEN"}
  <2>1. s \notin lost /\ s \notin killed
    BY <1>2, <1>6
  <2> QED BY <1>1, <1>3, <1>6, <2>1
<1> QED BY <1>1, <1>4, <1>5, <1>6

(* What ngx_spawn_process does: it fills free slots. *)
LEMMA SpawnOne ==
  ASSUME TableOK, NEW S \in SUBSET FreeSlots, NEW as, NEW just \in BOOLEAN,
         Spawn(S, as, just), NEW s \in Slots
  PROVE  /\ s \in S => /\ role'[s] = as[s] /\ justSpawn'[s] = just /\ os'[s] = "run"
                       /\ inbox'[s] = {} /\ exiting'[s] = FALSE /\ exited'[s] = FALSE
         /\ s \notin S => /\ role'[s] = role[s] /\ justSpawn'[s] = justSpawn[s]
                          /\ os'[s] = os[s] /\ inbox'[s] = inbox[s]
                          /\ exiting'[s] = exiting[s] /\ exited'[s] = exited[s]
         /\ s \in S => role[s] = "none"
<1>1. s \in S => role[s] = "none"
  BY DEF FreeSlots
<1>2. CASE s \in S
  BY <1>1, <1>2 DEF Spawn
<1>3. CASE s \notin S
  <2>1. exited[s] \in BOOLEAN /\ exiting[s] \in BOOLEAN
    BY DEF TableOK
  <2> QED BY <1>3, <2>1 DEF Spawn
<1> QED BY <1>1, <1>2, <1>3

(* The functions that start workers and cache processes fill free slots. *)
LEMMA StartFills ==
  ASSUME NEW just, Start(just)
  PROVE  \E S \in SUBSET FreeSlots : \E as : Spawn(S, as, just)
<1>1. PICK m \in 0..WorkerProcesses, H \in SUBSET Helpers :
        LET W == Lowest(FreeSlots, m)
            M == IF "manager" \in H THEN Lowest(FreeSlots \ W, 1) ELSE {}
            L == IF "loader" \in H THEN Lowest(FreeSlots \ (W \cup M), 1) ELSE {}
        IN Spawn(W \cup M \cup L,
                 [s \in Slots |-> CASE s \in W -> "worker"
                                    [] s \in M -> "manager"
                                    [] OTHER -> "loader"], just)
  BY DEF Start
<1> DEFINE W == Lowest(FreeSlots, m)
           M == IF "manager" \in H THEN Lowest(FreeSlots \ W, 1) ELSE {}
           L == IF "loader" \in H THEN Lowest(FreeSlots \ (W \cup M), 1) ELSE {}
           as == [s \in Slots |-> CASE s \in W -> "worker"
                                    [] s \in M -> "manager"
                                    [] OTHER -> "loader"]
<1>2. Spawn(W \cup M \cup L, as, just)
  BY <1>1
<1>3. W \cup M \cup L \in SUBSET FreeSlots
  BY DEF Lowest
<1> HIDE DEF W, M, L, as
<1> QED BY <1>2, <1>3

(* Every step leaves a slot whose child was collected without a process.   *)
LEMMA DeadNext == TypeOK /\ DeadInv /\ [Next]_vars => DeadInv'
<1> SUFFICES ASSUME TableOK, DeadInv, [Next]_vars, NEW s \in Slots, exited'[s]
             PROVE  os'[s] = "none"
  BY TypeParts DEF DeadInv
<1>1. ASSUME exited'[s] = exited[s], os'[s] = os[s] PROVE os'[s] = "none"
  BY <1>1 DEF DeadInv
<1>2. CASE Top \/ MasterExit \/ Proceed \/ ReloadRefused
  BY <1>1, <1>2 DEF Top, MasterExit, Proceed, ReloadRefused, table, children
<1>3. CASE Wake
  <2> DEFINE dead == {r \in Slots : "CHLD" \in pending /\ os[r] \in Zombies}
  <2>1. /\ exited'[s] = (exited[s] \/ s \in dead)
        /\ os'[s] = IF s \in dead THEN "none" ELSE os[s]
    BY <1>3 DEF Wake
  <2> HIDE DEF dead
  <2> QED BY <2>1 DEF DeadInv
<1>4. CASE Reap
  <2>1. CASE ReapChildren
    BY <2>1, ReapOne DEF DeadInv
  <2>2. CASE UNCHANGED <<table, children>>
    BY <1>1, <2>2 DEF table, children
  <2> QED BY <1>4, <2>1, <2>2 DEF Reap
<1>5. CASE Terminate
  <2>1. CASE UNCHANGED <<table, children>>
    BY <1>1, <2>1 DEF table, children
  <2>2. CASE Signal(TermSignal, flags)
    BY <2>2, SignalOne DEF DeadInv
  <2> QED BY <1>5, <2>1, <2>2 DEF Terminate
<1>6. CASE Quit \/ Retire \/ Reopen \/ NoAccept
  <2>1. PICK cmd, f : Signal(cmd, f)
    BY <1>6 DEF Quit, Retire, Reopen, NoAccept
  <2> QED BY <2>1, SignalOne DEF DeadInv
<1>7. CASE Reload \/ ResumeService \/ Restart
  <2>1. Start(TRUE) \/ Start(FALSE)
    BY <1>7, Zenon DEF Reload, ResumeService, Restart
  <2>2. PICK S \in SUBSET FreeSlots : \E as : Spawn(S, as, TRUE) \/ Spawn(S, as, FALSE)
    BY <2>1, StartFills
  <2>3. PICK as : Spawn(S, as, TRUE) \/ Spawn(S, as, FALSE)
    BY <2>2
  <2>4. s \notin S
    BY <2>3, SpawnOne
  <2> QED BY <1>1, <2>3, <2>4, SpawnOne
<1>8. CASE ChangeBinary
  <2>1. CASE UNCHANGED <<table, children>>
    BY <1>1, <2>1 DEF table, children
  <2>2. CASE \E b \in Lowest(FreeSlots, 1) : Spawn({b}, [r \in Slots |-> "binary"], FALSE)
    <3>1. PICK b \in FreeSlots : Spawn({b}, [r \in Slots |-> "binary"], FALSE)
      BY <2>2 DEF Lowest
    <3>2. PICK as : as = [r \in Slots |-> "binary"]
      OBVIOUS
    <3>3. Spawn({b}, as, FALSE) /\ {b} \in SUBSET FreeSlots
      BY <3>1, <3>2
    <3>4. s \notin {b}
      BY <3>3, SpawnOne
    <3> QED BY <1>1, <3>3, <3>4, SpawnOne
  <2> QED BY <1>8, <2>1, <2>2 DEF ChangeBinary
<1>9. CASE TimerFires \/ (\E g \in Operator : Send(g)) \/ UNCHANGED vars
  BY <1>1, <1>9 DEF TimerFires, Send, vars, table, children
<1>10. ASSUME NEW r \in Slots, Child(r) \/ LoaderDone(r) \/ Crash(r)
       PROVE  os'[s] = "none"
  <2>1. exited' = exited /\ \E x : os' = [os EXCEPT ![r] = x]
    BY <1>10 DEF Child, Obey, Drained, LoaderDone, Crash, Die, table
  <2>2. os[r] # "none"
    BY <1>10 DEF Child, Obey, Drained, LoaderDone, Crash, Alive
  <2>3. os[s] = "none" /\ s # r
    BY <2>1, <2>2 DEF DeadInv
  <2> QED BY <1>1, <2>1, <2>3 DEF TableOK
<1> QED
  BY <1>2, <1>3, <1>4, <1>5, <1>6, <1>7, <1>8, <1>9, <1>10 DEF Next, Master

(* The master that is not live has no child that runs: in the pause of a   *)
(* reload it has new ones, and is live when the pause ends.  It is live    *)
(* whenever it starts children because no upgrade has been asked for.      *)
NoUpgrade == /\ newBinary = NoBinary /\ "changeBinary" \notin flags
             /\ mpc # "changeBinary" /\ "USR2" \notin pending
Childless == \A s \in Slots : Ours(s) => exited[s]
LiveInv == /\ NoUpgrade
           /\ mpc = "exited" => ~live
           /\ mpc # "retire" => live \/ Childless

(* No step goes on to an upgrade nobody asked for. *)
LEMMA NoUpgradeNext ==
  ASSUME MasterOK, NoUpgrade, [Next]_vars, "USR2" \notin Operator
  PROVE  NoUpgrade'
<1> USE DEF NoUpgrade
<1>0. /\ NextRequest(flags) # "changeBinary"
      /\ \A f : NextRequest(flags \ f) # "changeBinary"
  BY DEF NextRequest
<1>1. CASE Top \/ MasterExit \/ Proceed \/ ReloadRefused
  BY <1>0, <1>1 DEF Top, MasterExit, Proceed, ReloadRefused
<1>2. CASE Wake
  <2>1. \A g \in pending : "changeBinary" \notin FlagOf(g)
    BY DEF FlagOf, MasterOK, Signals
  <2>2. /\ mpc' = "reap" /\ newBinary' = newBinary /\ pending' = {}
        /\ flags' = flags \cup UNION {FlagOf(g) : g \in pending}
    BY <1>2 DEF Wake
  <2> QED BY <2>1, <2>2
<1>3. CASE Reap
  <2>1. mpc' = "check" /\ pending' = pending
    BY <1>3 DEF Reap
  <2>2. "changeBinary" \notin flags' /\ newBinary' = NoBinary
    BY <1>3 DEF Reap, ReapChildren
  <2> QED BY <2>1, <2>2
<1>4. CASE Terminate
  BY <1>4 DEF Terminate, Signal
<1>5. CASE Quit \/ NoAccept
  BY <1>5 DEF Quit, NoAccept, Signal
<1>6. CASE Retire \/ Reopen
  <2>1. /\ newBinary' = newBinary /\ pending' \subseteq pending \cup {"CHLD"}
        /\ flags' \subseteq flags \cup {"reap"}
        /\ mpc' = NextRequest(flags) \/ mpc' = NextRequest(flags \ {"reopen"})
    BY <1>6 DEF Retire, Reopen, Signal
  <2> QED BY <1>0, <2>1
<1>7. CASE Reload \/ ResumeService \/ Restart
  <2>1. /\ newBinary' = newBinary /\ pending' = pending
        /\ \/ flags' = flags \ {"reconfigure"} /\ mpc' = "retire"
           \/ flags' = flags \ {"reconfigure", "noaccepting"} /\ mpc' = "top"
           \/ flags' = flags \ {"restart"} /\ mpc' = NextRequest(flags')
    BY <1>7, Zenon DEF Reload, ResumeService, Restart
  <2> QED BY <1>0, <2>1
<1>8. CASE ChangeBinary
  BY <1>8 DEF ChangeBinary
<1>9. CASE TimerFires \/ (\E s \in Slots : Child(s) \/ LoaderDone(s) \/ Crash(s))
           \/ (\E g \in Operator : Send(g)) \/ UNCHANGED vars
  <2>1. UNCHANGED <<mpc, flags, newBinary>>
    BY <1>9, OthersKeep
  <2>2. "USR2" \notin pending'
    BY <1>9 DEF TimerFires, Child, Obey, Drained, LoaderDone, Crash, Die, Send, vars
  <2> QED BY <2>1, <2>2
<1> QED
  BY <1>1, <1>2, <1>3, <1>4, <1>5, <1>6, <1>7, <1>8, <1>9 DEF Next, Master

(* Every step keeps a master that is not live without children. *)
LEMMA LiveNext ==
  ASSUME TableOK, MasterOK, LiveInv, [Next]_vars, "USR2" \notin Operator
  PROVE  LiveInv'
<1>0. NoUpgrade'
  BY NoUpgradeNext DEF LiveInv
<1>a. \A f : NextRequest(f) \notin {"exited", "retire"}
  BY NextRequestType DEF Requests
<1>1. ASSUME live' = live, role' = role, \A s \in Slots : exited[s] => exited'[s],
             mpc # "retire", mpc' # "exited" \/ mpc = "exited"
      PROVE  LiveInv'
  BY <1>0, <1>1 DEF LiveInv, Childless, Ours
<1>2. CASE Top \/ Proceed \/ ReloadRefused
  BY <1>a, <1>1, <1>2 DEF Top, Proceed, ReloadRefused, table
<1>3. CASE Wake
  <2>1. live' = live /\ role' = role /\ mpc = "suspend" /\ mpc' = "reap"
        /\ \A s \in Slots : exited[s] => exited'[s]
    BY <1>3 DEF Wake
  <2> QED BY <1>1, <2>1
<1>4. CASE Reap
  <2>1. mpc = "reap" /\ mpc' = "check"
    BY <1>4 DEF Reap
  <2>2. CASE ReapChildren
    <3>1. live' \/ Childless'
      BY <2>2, ReapOne DEF Childless, Ours
    <3> QED BY <1>0, <2>1, <3>1 DEF LiveInv
  <2>3. CASE UNCHANGED <<live, table>>
    BY <1>1, <2>1, <2>3 DEF table
  <2> QED BY <1>4, <2>2, <2>3 DEF Reap
<1>5. CASE MasterExit
  <2>1. ~live /\ live' = live /\ mpc = "check" /\ role' = role /\ exited' = exited
    BY <1>5 DEF MasterExit, table
  <2> QED BY <1>0, <2>1 DEF LiveInv, Childless, Ours
<1>6. CASE Terminate \/ Quit \/ Reopen \/ NoAccept
  <2>1. live' = live /\ mpc # "retire" /\ mpc' # "exited"
    BY <1>a, <1>6 DEF Terminate, Quit, Reopen, NoAccept
  <2>2. CASE role' = role /\ exited' = exited
    BY <1>1, <2>1, <2>2
  <2>3. CASE \E cmd, f : Signal(cmd, f)
    <3>1. role' = role
      BY <2>3 DEF Signal
    <3>2. \A s \in Slots : exited[s] => exited'[s]
      BY <2>3, SignalOne
    <3> QED BY <1>1, <2>1, <3>1, <3>2
  <2> QED BY <1>6, <2>2, <2>3 DEF Terminate, Quit, Reopen, NoAccept, table
<1>7. CASE Retire \/ Restart
  <2>1. live' /\ mpc' # "exited"
    <3>1. live' /\ \E f : mpc' = NextRequest(f)
      BY <1>7, Zenon DEF Retire, Restart
    <3> QED BY <1>a, <3>1
  <2> QED BY <1>0, <2>1 DEF LiveInv
<1>8. CASE Reload
  <2>1. mpc' = "retire"
    BY <1>8, Zenon DEF Reload
  <2> QED BY <1>0, <2>1 DEF LiveInv
<1>9. CASE ResumeService \/ ChangeBinary
  <2>1. newBinary # NoBinary \/ mpc = "changeBinary"
    BY <1>9, Zenon DEF ResumeService, ChangeBinary
  <2> QED BY <2>1 DEF LiveInv, NoUpgrade
<1>10. CASE TimerFires \/ (\E s \in Slots : Child(s) \/ LoaderDone(s) \/ Crash(s))
            \/ (\E g \in Operator : Send(g)) \/ UNCHANGED vars
  <2>1. UNCHANGED <<mpc, role, exited>>
    BY <1>10, OthersKeep
  <2>2. live' = live
    BY <1>10 DEF TimerFires, Child, Obey, Drained, LoaderDone, Crash, Die, Send, vars
  <2> QED BY <1>0, <2>1, <2>2 DEF LiveInv, Childless, Ours
<1> QED
  BY <1>2, <1>3, <1>4, <1>5, <1>6, <1>7, <1>8, <1>9, <1>10 DEF Next, Master

(* As long as no upgrade of the executable is asked for, the master that   *)
(* exits on SIGTERM or SIGQUIT leaves no child running: the variable live  *)
(* tells the truth when the master looks at it.                            *)
THEOREM NobodyOrphaned ==
  ASSUME "USR2" \notin Operator
  PROVE  Spec => []NoOrphans
<1>1. Init => DeadInv /\ LiveInv
  BY DEF Init, DeadInv, LiveInv, NoUpgrade
<1>2. TypeOK /\ LiveInv /\ [Next]_vars => LiveInv'
  BY LiveNext, TypeParts
<1>3. DeadInv /\ LiveInv => NoOrphans
  BY DEF DeadInv, LiveInv, Childless, NoOrphans, Alive
<1> QED BY <1>1, <1>2, <1>3, DeadNext, TypeCorrect, PTL DEF Spec

-----------------------------------------------------------------------------
(* Service.  The lowest k elements of a set that has as many are k.  The   *)
(* least k for which this failed would follow one for which it holds, and  *)
(* the least element that is left makes one more.                          *)
LEMMA LowestCount ==
  ASSUME NEW S \in SUBSET Nat, IsFiniteSet(S), NEW n \in 0 .. Cardinality(S)
  PROVE  Cardinality(Lowest(S, n)) = n
<1>0. Cardinality(S) \in Nat
  BY FS_CardinalityType
<1> DEFINE T == {k \in 0 .. Cardinality(S) : Cardinality(Lowest(S, k)) # k}
           Below(s) == {t \in S : t < s}
<1>1. ASSUME T # {} PROVE FALSE
  <2>1. PICK k \in T : \A m \in T : k <= m
    <3>1. T \in SUBSET Nat
      BY <1>0
    <3> HIDE DEF T
    <3> QED BY <1>1, <3>1, LeastNat
  <2>2. k \in Nat /\ k <= Cardinality(S) /\ Cardinality(Lowest(S, k)) # k
    BY <1>0
  <2>3. \A s \in S : IsFiniteSet(Below(s)) /\ Cardinality(Below(s)) \in Nat
    BY FS_Subset, FS_CardinalityType
  <2>4. k # 0
    <3>1. ASSUME NEW s \in Lowest(S, 0) PROVE FALSE
      <4>1. s \in S /\ Cardinality(Below(s)) < 0
        BY DEF Lowest
      <4> HIDE DEF Below
      <4> QED BY <2>3, <4>1
    <3> QED BY <2>2, <3>1, FS_EmptySet
  <2> DEFINE A == Lowest(S, k - 1)
             R == S \ A
  <2>5. Cardinality(A) = k - 1
    <3>1. k - 1 \in 0 .. Cardinality(S) /\ k - 1 < k
      BY <1>0, <2>2, <2>4
    <3>2. k - 1 \notin T
      BY <2>1, <2>2, <3>1
    <3> QED BY <3>1, <3>2
  <2>6. A \subseteq S /\ IsFiniteSet(A)
    BY FS_Subset DEF Lowest
  <2>7. R # {}
    <3>1. A # S
      BY <1>0, <2>2, <2>5
    <3> QED BY <2>6, <3>1
  <2>8. PICK m \in R : \A t \in R : m <= t
    <3>1. R \in SUBSET Nat
      OBVIOUS
    <3> HIDE DEF R
    <3> QED BY <2>7, <3>1, LeastNat
  <2>9. m \in S /\ m \in Nat /\ m \notin A
    BY <2>8
  <2>10. ASSUME NEW s \in S, NEW t \in S, t < s
         PROVE  Cardinality(Below(t)) <= Cardinality(Below(s))
    <3>1. Below(t) \subseteq Below(s)
      <4>1. ASSUME NEW u \in S, u < t PROVE u < s
        <5>1. u \in Nat /\ t \in Nat /\ s \in Nat
          OBVIOUS
        <5> QED BY <2>10, <4>1, <5>1
      <4> QED BY <4>1
    <3> QED BY <2>3, <3>1, FS_Subset
  <2>11. ASSUME NEW a \in A PROVE a < m
    <3>1. a \in S /\ a \in Nat /\ Cardinality(Below(a)) < k - 1
      BY <2>11 DEF Lowest
    <3>2. a # m
      BY <2>9
    <3>3. ~(m < a)
      <4>1. ASSUME m < a PROVE FALSE
        <5>1. Cardinality(Below(m)) <= Cardinality(Below(a))
          BY <2>9, <2>10, <3>1, <4>1
        <5>2. Cardinality(Below(m)) < k - 1
          BY <2>2, <2>3, <2>9, <3>1, <5>1
        <5> QED BY <2>9, <5>2 DEF Lowest
      <4> QED BY <4>1
    <3> QED BY <2>9, <3>1, <3>2, <3>3
  <2>12. Below(m) = A
    <3>1. ASSUME NEW t \in S, t < m PROVE t \in A
      <4>1. t \notin R
        BY <2>8, <2>9, <3>1
      <4> QED BY <4>1
    <3> QED BY <2>6, <2>11, <3>1
  <2>a. Cardinality(A \cup {m}) = k
    <3> HIDE DEF A
    <3>1. Cardinality(A \cup {m}) = Cardinality(A) + 1
      BY <2>6, <2>9, FS_AddElement
    <3> QED BY <2>2, <2>5, <3>1
  <2>13. Lowest(S, k) = A \cup {m}
    <3>1. A \subseteq Lowest(S, k)
      <4>1. ASSUME NEW a \in A PROVE a \in Lowest(S, k)
        <5>1. a \in S /\ Cardinality(Below(a)) < k - 1
          BY <4>1 DEF Lowest
        <5>2. Cardinality(Below(a)) < k
          BY <2>2, <2>3, <5>1
        <5> QED BY <5>1, <5>2 DEF Lowest
      <4> QED BY <4>1
    <3>2. m \in Lowest(S, k)
      <4>1. Cardinality(Below(m)) < k
        <5> HIDE DEF Below, A
        <5> QED BY <2>2, <2>5, <2>12
      <4> QED BY <2>9, <4>1 DEF Lowest
    <3>3. ASSUME NEW s \in Lowest(S, k), s \notin A, s # m PROVE FALSE
      <4>1. s \in S /\ Cardinality(Below(s)) < k
        BY DEF Lowest
      <4>2. m < s
        BY <2>8, <2>9, <3>3, <4>1
      <4>3. A \cup {m} \subseteq Below(s)
        <5>1. ASSUME NEW a \in A PROVE a \in Below(s)
          <6>1. a < m /\ a \in S /\ a \in Nat /\ s \in Nat
            BY <2>6, <2>11, <4>1
          <6> QED BY <2>9, <4>2, <6>1
        <5> QED BY <2>9, <4>2, <5>1
      <4>5. k <= Cardinality(Below(s))
        BY <2>3, <2>a, <4>1, <4>3, FS_Subset
      <4> QED BY <2>2, <2>3, <4>1, <4>5
    <3> QED BY <3>1, <3>2, <3>3
  <2>14. Cardinality(Lowest(S, k)) = k
    BY <2>a, <2>13
  <2> QED BY <2>2, <2>14
<1>2. T = {}
  BY <1>1
<1> QED BY <1>2

(* The processes of S are started, those of W as a full set of workers. *)
FullSet(S, W, as, just) ==
  /\ Spawn(S, as, just)
  /\ W \subseteq S
  /\ Cardinality(W) = WorkerProcesses
  /\ \A s \in W : as[s] = "worker"

(* When every process could be started, there is a full set of workers.    *)
LEMMA StartFull ==
  ASSUME spawnFails \in Nat, NEW just, Start(just), spawnFails' = 0
  PROVE  \E S, W \in SUBSET FreeSlots : \E as : FullSet(S, W, as, just)
<1>1. PICK m \in 0..WorkerProcesses, H \in SUBSET Helpers :
        LET W == Lowest(FreeSlots, m)
            M == IF "manager" \in H THEN Lowest(FreeSlots \ W, 1) ELSE {}
            L == IF "loader" \in H THEN Lowest(FreeSlots \ (W \cup M), 1) ELSE {}
        IN /\ SpawnFailures(Wanted - m - Cardinality(H), Shortage)
           /\ Spawn(W \cup M \cup L,
                    [s \in Slots |-> CASE s \in W -> "worker"
                                       [] s \in M -> "manager"
                                       [] OTHER -> "loader"], just)
  BY DEF Start
<1> DEFINE W == Lowest(FreeSlots, m)
           M == IF "manager" \in H THEN Lowest(FreeSlots \ W, 1) ELSE {}
           L == IF "loader" \in H THEN Lowest(FreeSlots \ (W \cup M), 1) ELSE {}
           as == [s \in Slots |-> CASE s \in W -> "worker"
                                    [] s \in M -> "manager"
                                    [] OTHER -> "loader"]
           S == W \cup M \cup L
<1>2. Spawn(S, as, just) /\ SpawnFailures(Wanted - m - Cardinality(H), Shortage)
  BY <1>1
<1>3. S \in SUBSET FreeSlots /\ W \subseteq S /\ FreeSlots \subseteq Slots
  BY DEF Lowest, FreeSlots
<1>4. \A s \in W : as[s] = "worker"
  <2>1. W \subseteq Slots
    BY <1>3
  <2>2. \A s \in W : s \notin M
    BY DEF Lowest
  <2> HIDE DEF W, M
  <2>3. ASSUME NEW s \in W PROVE as[s] = "worker"
    <3>1. s \in Slots /\ s \notin M
      BY <2>1, <2>2
    <3>2. as[s] = CASE s \in W -> "worker"
                    [] s \in M -> "manager"
                    [] OTHER -> "loader"
      BY <3>1, Zenon DEF as
    <3> QED BY <3>1, <3>2
  <2> HIDE DEF as
  <2> QED BY <2>3
<1>5. IsFiniteSet(FreeSlots) /\ FreeSlots \in SUBSET Nat
  <2>1. IsFiniteSet(Slots) /\ Slots \subseteq Nat
    BY ConstAssumption, FS_Interval DEF Slots
  <2> QED BY <1>3, <2>1, FS_Subset
<1>6. m = WorkerProcesses /\ m \in 0 .. Cardinality(FreeSlots)
  <2>1. IsFiniteSet(Helpers)
    <3>1. IsFiniteSet({}) /\ IsFiniteSet({"manager"})
      BY FS_EmptySet, FS_Singleton
    <3>2. IsFiniteSet({"manager"} \cup {"loader"})
      BY <3>1, FS_Singleton, FS_Union
    <3>3. {"manager"} \cup {"loader"} = {"manager", "loader"}
      OBVIOUS
    <3> QED BY <3>1, <3>2, <3>3, ConstAssumption
  <2>2. /\ Cardinality(Helpers) \in Nat /\ Cardinality(H) \in Nat
        /\ Cardinality(H) <= Cardinality(Helpers) /\ Cardinality(FreeSlots) \in Nat
    BY <1>5, <2>1, FS_Subset, FS_CardinalityType
  <2> DEFINE k == Wanted - m - Cardinality(H)
  <2>3. k = WorkerProcesses + Cardinality(Helpers) - m - Cardinality(H)
    BY <2>2, ConstAssumption DEF Wanted
  <2>4. k \in Nat
    BY <2>2, <2>3, ConstAssumption
  <2>5. Shortage \in Nat
    BY <2>2, ConstAssumption DEF Shortage, Wanted
  <2> HIDE DEF k
  <2>6. k >= Shortage /\ spawnFails' = spawnFails + k
    BY <1>2 DEF SpawnFailures, k
  <2>7. k = 0 /\ Shortage = 0
    BY <2>4, <2>5, <2>6
  <2>8. m = WorkerProcesses
    BY <2>2, <2>3, <2>7, ConstAssumption
  <2>9. Wanted <= Cardinality(FreeSlots)
    BY <2>2, <2>7, ConstAssumption DEF Shortage, Wanted
  <2> QED BY <2>2, <2>8, <2>9, ConstAssumption DEF Wanted
<1>7. Cardinality(W) = WorkerProcesses
  BY <1>5, <1>6, LowestCount
<1> HIDE DEF W, M, L, as, S
<1>8. FullSet(S, W, as, just)
  BY <1>2, <1>3, <1>4, <1>7 DEF FullSet
<1> QED BY <1>3, <1>8

(* The workers that accept connections and that nobody will tell to go. *)
Staying == {s \in Serving : ~exiting[s] /\ ~exited[s]}
JustStarted == {s \in Staying : justSpawn[s]}

Undisturbed ==
  /\ crashes = 0 /\ spawnFails = 0
  /\ flags \cap {"terminate", "quit", "noaccept", "noaccepting"} = {}

(* A full set of workers stays.  In the pause of a reload it is the set    *)
(* just started: it alone is spared when the pause ends.  The workers that *)
(* had been sent away are only wanted back when the new executable's       *)
(* process has died.                                                       *)
ServiceInv ==
  Undisturbed => /\ Cardinality(Staying) >= WorkerProcesses
                 /\ mpc = "retire" => Cardinality(JustStarted) >= WorkerProcesses

BinaryInv ==
  newBinary \in Slots /\ crashes = 0 =>
    /\ role[newBinary] = "binary" /\ os[newBinary] = "run"
    /\ ~exited[newBinary] /\ inbox[newBinary] = {}

(* What it is to stay. *)
LEMMA Stays ==
  ASSUME NEW s \in Slots
  PROVE  s \in Staying <=> /\ role[s] = "worker" /\ os[s] = "run"
                           /\ inbox[s] \subseteq {"REOPEN"} /\ ~exiting[s] /\ ~exited[s]
BY DEF Staying, Serving

(* A worker that stays does so after every step, except that the end of a  *)
(* reload only spares those just started.                                  *)
LEMMA StaysNext ==
  ASSUME TableOK, MasterOK, [Next]_vars, Undisturbed, Undisturbed',
         NEW s \in Staying, mpc = "retire" => justSpawn[s]
  PROVE  s \in Staying'
<1>0. s \in Slots /\ Slots' = Slots
  BY DEF Staying, Serving, Slots
<1>a. /\ role[s] = "worker" /\ os[s] = "run"
      /\ inbox[s] \subseteq {"REOPEN"} /\ ~exiting[s] /\ ~exited[s]
  BY <1>0, Stays
<1>b. ASSUME role'[s] = "worker", os'[s] = "run", inbox'[s] \subseteq {"REOPEN"},
             ~exiting'[s], ~exited'[s]
      PROVE  s \in Staying'
  BY <1>0, <1>b DEF Staying, Serving
<1>c. ASSUME UNCHANGED <<role, os, inbox, exiting, exited>> PROVE s \in Staying'
  BY <1>a, <1>b, <1>c
<1>1. CASE Top \/ MasterExit \/ Proceed \/ ReloadRefused
  BY <1>c, <1>1 DEF Top, MasterExit, Proceed, ReloadRefused, table, children
<1>2. CASE Wake
  <2>1. role' = role /\ inbox' = inbox /\ exiting' = exiting
    BY <1>2 DEF Wake
  <2>2. os'[s] = os[s] /\ ~exited'[s]
    BY <1>0, <1>a, <1>2 DEF Wake, Zombies
  <2> QED BY <1>a, <1>b, <2>1, <2>2
<1>3. CASE Reap
  <2>1. CASE ReapChildren
    BY <1>0, <1>a, <1>b, <2>1, ReapOne
  <2>2. CASE UNCHANGED <<table, children>>
    BY <1>c, <2>2 DEF table, children
  <2> QED BY <1>3, <2>1, <2>2 DEF Reap
<1>4. CASE Terminate \/ Quit \/ NoAccept
  <2>1. \/ "terminate" \in flags \/ "quit" \in flags
        \/ "noaccepting" \in flags'
    BY <1>4 DEF Terminate, Quit, NoAccept, Signal
  <2> QED BY <2>1 DEF Undisturbed
<1>5. CASE Retire
  <2>1. Signal("QUIT", flags) /\ s \notin Told("QUIT")
    BY <1>5 DEF Retire, Told
  <2> QED BY <1>0, <1>a, <1>b, <2>1, SignalOne
<1>6. CASE Reopen
  <2>1. PICK f : Signal("REOPEN", f)
    BY <1>6 DEF Reopen
  <2>2. inbox'[s] \subseteq inbox[s] \cup {"REOPEN"}
    BY <1>0, <1>a, <2>1, SignalOne
  <2> QED BY <1>0, <1>a, <1>b, <2>1, <2>2, SignalOne
<1>7. CASE Reload \/ ResumeService \/ Restart
  <2>1. Start(TRUE) \/ Start(FALSE)
    BY <1>7, Zenon DEF Reload, ResumeService, Restart
  <2>2. PICK S, as : S \in SUBSET FreeSlots /\ (Spawn(S, as, TRUE) \/ Spawn(S, as, FALSE))
    BY <2>1, StartFills
  <2>3. s \notin S
    BY <1>a, <2>2 DEF FreeSlots
  <2> QED BY <1>0, <1>a, <1>b, <2>2, <2>3, SpawnOne
<1>8. CASE ChangeBinary
  <2>1. CASE UNCHANGED <<table, children>>
    BY <1>c, <2>1 DEF table, children
  <2>2. CASE \E b \in Lowest(FreeSlots, 1) : Spawn({b}, [r \in Slots |-> "binary"], FALSE)
    <3>1. PICK b \in FreeSlots : Spawn({b}, [r \in Slots |-> "binary"], FALSE)
      BY <2>2 DEF Lowest
    <3>2. PICK S, as : S \in SUBSET FreeSlots /\ Spawn(S, as, FALSE)
      BY <3>1
    <3>3. s \notin S
      BY <1>a, <3>2 DEF FreeSlots
    <3> QED BY <1>0, <1>a, <1>b, <3>2, <3>3, SpawnOne
  <2> QED BY <1>8, <2>1, <2>2 DEF ChangeBinary
<1>9. CASE TimerFires \/ (\E g \in Operator : Send(g)) \/ UNCHANGED vars
  BY <1>c, <1>9 DEF TimerFires, Send, vars, table, children
<1>10. ASSUME NEW r \in Slots, Child(r) \/ LoaderDone(r) \/ Crash(r)
       PROVE  s \in Staying'
  <2>1. UNCHANGED <<role, exiting, exited>>
    BY <1>10, OthersKeep
  <2>2. ~Crash(r)
    BY DEF Crash, Undisturbed
  <2>3. CASE r # s
    <3>1. os'[s] = os[s] /\ inbox'[s] = inbox[s]
      BY <1>0, <1>10, <2>2, <2>3 DEF TableOK, Child, Obey, Drained, LoaderDone, Die
    <3> QED BY <1>a, <1>b, <2>1, <3>1
  <2>4. CASE r = s
    <3>1. Obey(s)
      BY <1>a, <1>10, <2>2, <2>4 DEF Child, Drained, LoaderDone
    <3>2. "TERM" \notin inbox[s] /\ "QUIT" \notin inbox[s]
      BY <1>a
    <3>3. os'[s] = os[s] /\ inbox'[s] = {}
      BY <1>0, <3>1, <3>2 DEF Obey, TableOK
    <3> QED BY <1>a, <1>b, <2>1, <3>3
  <2> QED BY <2>3, <2>4
<1> QED
  BY <1>1, <1>2, <1>3, <1>4, <1>5, <1>6, <1>7, <1>8, <1>9, <1>10 DEF Next, Master

(* The new executable's process runs until it dies by itself: the master   *)
(* tells it nothing.                                                       *)
LEMMA BinaryNext == TypeOK /\ BinaryInv /\ [Next]_vars => BinaryInv'
<1> SUFFICES ASSUME TableOK, MasterOK, BinaryInv, [Next]_vars, newBinary' \in Slots, crashes' = 0
             PROVE  /\ role'[newBinary'] = "binary" /\ os'[newBinary'] = "run"
                    /\ ~exited'[newBinary'] /\ inbox'[newBinary'] = {}
  BY TypeParts DEF BinaryInv, Slots
<1>0. NoBinary \notin Slots /\ InvalidPid \notin Slots
  BY DEF NoBinary, InvalidPid, Slots
<1>1. ASSUME newBinary' = newBinary, crashes' = crashes
      PROVE  /\ newBinary \in Slots
             /\ role[newBinary] = "binary" /\ os[newBinary] = "run"
             /\ ~exited[newBinary] /\ inbox[newBinary] = {}
             /\ ~Ours(newBinary) /\ newBinary \notin FreeSlots
             /\ \A cmd : newBinary \notin Told(cmd)
  BY <1>1 DEF BinaryInv, Ours, FreeSlots, Told
<1>2. CASE Top \/ MasterExit \/ Proceed \/ ReloadRefused
  BY <1>1, <1>2 DEF Top, MasterExit, Proceed, ReloadRefused, table, children, bounds
<1>3. CASE Wake
  <2>1. UNCHANGED <<newBinary, crashes, role, inbox>>
    BY <1>3 DEF Wake, bounds
  <2>2. os'[newBinary] = os[newBinary] /\ exited'[newBinary] = exited[newBinary]
    BY <1>1, <1>3, <2>1 DEF Wake, Zombies, TableOK
  <2> QED BY <1>1, <2>1, <2>2
<1>4. CASE Reap
  <2>1. newBinary' = newBinary /\ crashes' = crashes
    BY <1>0, <1>4 DEF Reap, ReapChildren, bounds
  <2>2. CASE ReapChildren
    BY <1>1, <2>1, <2>2, ReapOne
  <2>3. CASE UNCHANGED <<table, children>>
    BY <1>1, <2>1, <2>3 DEF table, children
  <2> QED BY <1>4, <2>2, <2>3 DEF Reap
<1>5. CASE Terminate \/ Quit \/ Retire \/ Reopen \/ NoAccept
  <2>1. newBinary' = newBinary /\ crashes' = crashes
    BY <1>5 DEF Terminate, Quit, Retire, Reopen, NoAccept, bounds
  <2>2. CASE UNCHANGED <<table, children>>
    BY <1>1, <2>1, <2>2 DEF table, children
  <2>3. CASE \E cmd, f : Signal(cmd, f)
    BY <1>1, <2>1, <2>3, SignalOne
  <2> QED BY <1>5, <2>2, <2>3 DEF Terminate, Quit, Retire, Reopen, NoAccept
<1>6. CASE Reload \/ ResumeService \/ Restart
  <2>1. /\ newBinary' = newBinary /\ crashes' = crashes
        /\ Start(TRUE) \/ Start(FALSE)
    BY <1>6, Zenon DEF Reload, ResumeService, Restart
  <2>2. PICK S, as : S \in SUBSET FreeSlots /\ (Spawn(S, as, TRUE) \/ Spawn(S, as, FALSE))
    BY <2>1, StartFills
  <2> QED BY <1>1, <2>1, <2>2, SpawnOne
<1>7. CASE ChangeBinary
  <2>1. CASE newBinary' = InvalidPid
    BY <1>0, <2>1
  <2>2. CASE \E b \in Lowest(FreeSlots, 1) :
               Spawn({b}, [r \in Slots |-> "binary"], FALSE) /\ newBinary' = b
    <3>1. PICK b \in FreeSlots :
            Spawn({b}, [r \in Slots |-> "binary"], FALSE) /\ newBinary' = b
      BY <2>2 DEF Lowest
    <3> DEFINE as == [r \in Slots |-> "binary"]
    <3>2. as[b] = "binary" /\ b \in Slots
      BY DEF FreeSlots
    <3>3. PICK S \in SUBSET FreeSlots : S = {b}
      OBVIOUS
    <3>4. Spawn(S, as, FALSE) /\ b \in S
      BY <3>1, <3>3
    <3> HIDE DEF as
    <3>5. /\ role'[b] = as[b] /\ os'[b] = "run"
          /\ ~exited'[b] /\ inbox'[b] = {}
      BY <3>2, <3>4 DEF Spawn
    <3> QED BY <3>1, <3>2, <3>5
  <2> QED BY <1>7, <2>1, <2>2 DEF ChangeBinary
<1>8. CASE TimerFires \/ (\E g \in Operator : Send(g)) \/ UNCHANGED vars
  BY <1>1, <1>8 DEF TimerFires, Send, vars, table, children, bounds
<1>9. ASSUME NEW r \in Slots, Child(r) \/ LoaderDone(r) \/ Crash(r)
      PROVE  /\ role'[newBinary'] = "binary" /\ os'[newBinary'] = "run"
             /\ ~exited'[newBinary'] /\ inbox'[newBinary'] = {}
  <2>1. UNCHANGED <<newBinary, role, exited>>
    BY <1>9, OthersKeep
  <2>2. ~Crash(r)
    BY DEF Crash, MasterOK
  <2>3. crashes' = crashes
    BY <1>9, <2>2 DEF Child, Obey, Drained, LoaderDone, bounds
  <2>4. r # newBinary
    BY <1>1, <1>9, <2>1, <2>2, <2>3 DEF Child, Obey, Drained, LoaderDone
  <2>5. os'[newBinary] = os[newBinary] /\ inbox'[newBinary] = inbox[newBinary]
    BY <1>9, <2>1, <2>2, <2>4 DEF TableOK, Child, Obey, Drained, LoaderDone, Die
  <2> QED BY <1>1, <2>1, <2>3, <2>5
<1> QED
  BY <1>2, <1>3, <1>4, <1>5, <1>6, <1>7, <1>8, <1>9 DEF Next, Master

(* The failures that were counted stay counted. *)
LEMMA FailuresGrow ==
  ASSUME MasterOK, [Next]_vars
  PROVE  /\ spawnFails' = 0 => spawnFails = 0
         /\ crashes' = 0 => crashes = 0
<1>1. ASSUME NEW k \in Nat, spawnFails' = spawnFails + k, crashes' = crashes
      PROVE  /\ spawnFails' = 0 => spawnFails = 0
             /\ crashes' = 0 => crashes = 0
  BY <1>1 DEF MasterOK
<1>2. CASE Reload \/ ResumeService \/ Restart
  <2>1. crashes' = crashes /\ \E just : Start(just)
    BY <1>2, Zenon DEF Reload, ResumeService, Restart
  <2>2. PICK m \in 0..WorkerProcesses, H \in SUBSET Helpers :
          SpawnFailures(Wanted - m - Cardinality(H), Shortage)
    BY <2>1 DEF Start
  <2>3. Shortage \in Nat /\ Wanted - m - Cardinality(H) \in Int
    <3>1. IsFiniteSet(Helpers)
      <4>1. IsFiniteSet({}) /\ IsFiniteSet({"manager"})
        BY FS_EmptySet, FS_Singleton
      <4>2. IsFiniteSet({"manager"} \cup {"loader"})
        BY <4>1, FS_Singleton, FS_Union
      <4>3. {"manager"} \cup {"loader"} = {"manager", "loader"}
        OBVIOUS
      <4> QED BY <4>1, <4>2, <4>3, ConstAssumption
    <3>2. IsFiniteSet(FreeSlots)
      <4>1. IsFiniteSet(Slots)
        BY ConstAssumption, FS_Interval DEF Slots
      <4> QED BY <4>1, FS_Subset DEF FreeSlots
    <3>3. Cardinality(Helpers) \in Nat /\ Cardinality(FreeSlots) \in Nat
      BY <3>1, <3>2, FS_CardinalityType
    <3>4. Cardinality(H) \in Nat
      BY <3>1, FS_Subset, FS_CardinalityType
    <3> QED BY <3>3, <3>4, ConstAssumption DEF Shortage, Wanted
  <2>4. PICK k \in Int : k = Wanted - m - Cardinality(H)
    BY <2>3
  <2>5. k >= Shortage /\ spawnFails' = spawnFails + k
    BY <2>2, <2>4 DEF SpawnFailures
  <2>6. k \in Nat
    BY <2>3, <2>5
  <2> QED BY <1>1, <2>1, <2>5, <2>6
<1>3. CASE Reap
  <2>1. CASE ReapChildren
    <3>1. crashes' = crashes
      BY <2>1 DEF ReapChildren
    <3>2. PICK failed \in SUBSET Slots : SpawnFailures(Cardinality(failed), 0)
      BY <2>1 DEF ReapChildren
    <3>3. Cardinality(failed) \in Nat
      <4>1. IsFiniteSet(Slots)
        BY ConstAssumption, FS_Interval DEF Slots
      <4> QED BY <4>1, FS_Subset, FS_CardinalityType
    <3> QED BY <1>1, <3>1, <3>2, <3>3 DEF SpawnFailures
  <2>2. CASE UNCHANGED bounds
    BY <2>2 DEF bounds
  <2> QED BY <1>3, <2>1, <2>2 DEF Reap
<1>4. CASE UNCHANGED <<crashes, spawnFails>>
  BY <1>4
<1>5. CASE \/ Top \/ Wake \/ MasterExit \/ Terminate \/ Quit \/ Proceed \/ ReloadRefused
           \/ Retire \/ Reopen \/ ChangeBinary \/ NoAccept \/ TimerFires
           \/ (\E g \in Operator : Send(g)) \/ UNCHANGED vars
  BY <1>4, <1>5 DEF Top, Wake, MasterExit, Terminate, Quit, Proceed, ReloadRefused,
     Retire, Reopen, ChangeBinary, NoAccept, TimerFires, Send, vars, bounds
<1>6. ASSUME NEW s \in Slots, Child(s) \/ LoaderDone(s) \/ Crash(s)
      PROVE  /\ spawnFails' = 0 => spawnFails = 0
             /\ crashes' = 0 => crashes = 0
  BY <1>6 DEF Child, Obey, Drained, LoaderDone, Crash, bounds, MasterOK
<1> QED BY <1>2, <1>3, <1>5, <1>6 DEF Next, Master

(* Only SIGHUP during an upgrade brings workers back to a master that had  *)
(* sent them away, unless the new executable's process died.               *)
LEMMA DisturbedNext ==
  ASSUME MasterOK, BinaryInv, [Next]_vars, ~Undisturbed, Undisturbed', ~ResumeService
  PROVE  FALSE
<1> DEFINE D == {"terminate", "quit", "noaccept", "noaccepting"}
<1>1. crashes = 0 /\ spawnFails = 0 /\ flags' \cap D = {} /\ flags \cap D # {}
  BY FailuresGrow DEF Undisturbed
<1>2. CASE Reload \/ Restart
  <2>1. flags' \in {flags \ {"reconfigure"}, flags \ {"restart"}}
    BY <1>2, Zenon DEF Reload, Restart
  <2> QED BY <1>1, <2>1
<1>3. CASE Reap
  <2>1. ~ (newBinary \in Slots /\ exited[newBinary])
    BY <1>1 DEF BinaryInv
  <2>2. flags' \in {flags, flags \ {"reap"}}
    BY <1>3, <2>1 DEF Reap, ReapChildren
  <2> QED BY <1>1, <2>2
<1>4. CASE Terminate \/ Quit \/ Retire \/ Reopen \/ NoAccept
  BY <1>1, <1>4 DEF Terminate, Quit, Retire, Reopen, NoAccept, Signal
<1>5. CASE Top \/ Wake \/ MasterExit \/ Proceed \/ ReloadRefused \/ ChangeBinary
  BY <1>1, <1>5 DEF Top, Wake, MasterExit, Proceed, ReloadRefused, ChangeBinary
<1>6. CASE TimerFires \/ (\E s \in Slots : Child(s) \/ LoaderDone(s) \/ Crash(s))
           \/ (\E g \in Operator : Send(g)) \/ UNCHANGED vars
  BY <1>1, <1>6, OthersKeep
<1> QED BY <1>2, <1>3, <1>4, <1>5, <1>6 DEF Next, Master

(* Every step keeps a full set of workers. *)
LEMMA ServiceNext ==
  ASSUME TableOK, MasterOK, BinaryInv, ServiceInv, [Next]_vars
  PROVE  ServiceInv'
<1> SUFFICES ASSUME Undisturbed'
             PROVE  /\ Cardinality(Staying') >= WorkerProcesses
                    /\ mpc' = "retire" => Cardinality(JustStarted') >= WorkerProcesses
  BY DEF ServiceInv
<1>0. /\ \A T \in SUBSET Slots : IsFiniteSet(T) /\ Cardinality(T) \in Nat
      /\ WorkerProcesses \in Nat
  <2>1. IsFiniteSet(Slots)
    BY ConstAssumption, FS_Interval DEF Slots
  <2> QED BY <2>1, ConstAssumption, FS_Subset, FS_CardinalityType
<1>1. /\ Staying \in SUBSET Slots /\ Staying' \in SUBSET Slots
      /\ JustStarted \in SUBSET Slots /\ JustStarted' \in SUBSET Slots
      /\ JustStarted \subseteq Staying
  BY DEF Staying, JustStarted, Serving, Slots
<1>2. ASSUME NEW A \in SUBSET Slots, NEW B \in SUBSET Slots, A \subseteq B,
             Cardinality(A) >= WorkerProcesses
      PROVE  Cardinality(B) >= WorkerProcesses
  <2>1. Cardinality(A) <= Cardinality(B)
    BY <1>0, <1>2, FS_Subset
  <2> QED BY <1>0, <1>2, <2>1
<1>3. ASSUME NEW just \in BOOLEAN, Start(just)
      PROVE  /\ Cardinality(Staying') >= WorkerProcesses
             /\ just => Cardinality(JustStarted') >= WorkerProcesses
  <2>1. PICK S, W, as : S \in SUBSET FreeSlots /\ W \in SUBSET FreeSlots /\ FullSet(S, W, as, just)
    BY <1>3, StartFull DEF Undisturbed, MasterOK
  <2>2. FreeSlots \subseteq Slots /\ W \in SUBSET Slots
    BY <2>1 DEF FreeSlots
  <2>3. Spawn(S, as, just) /\ Cardinality(W) >= WorkerProcesses
    BY <1>0, <2>1 DEF FullSet
  <2>4. ASSUME NEW s \in W PROVE s \in Staying' /\ (just => s \in JustStarted')
    <3>1. s \in S /\ s \in Slots /\ as[s] = "worker"
      BY <2>1, <2>2 DEF FullSet
    <3>2. /\ role'[s] = as[s] /\ justSpawn'[s] = just /\ os'[s] = "run"
          /\ inbox'[s] = {} /\ exiting'[s] = FALSE /\ exited'[s] = FALSE
      BY <2>3, <3>1 DEF Spawn
    <3>3. s \in Staying'
      BY <3>1, <3>2 DEF Staying, Serving, Slots
    <3> QED BY <3>2, <3>3 DEF JustStarted
  <2> QED BY <1>1, <1>2, <2>2, <2>3, <2>4
<1>4. CASE ~Undisturbed
  <2>1. ResumeService
    BY <1>4, DisturbedNext
  <2>2. Start(FALSE) /\ mpc' = "top"
    BY <2>1, Zenon DEF ResumeService
  <2> QED BY <1>3, <2>2
<1>5. CASE Undisturbed /\ mpc # "retire"
  <2>1. Cardinality(Staying) >= WorkerProcesses
    BY <1>5 DEF ServiceInv
  <2>2. Staying \subseteq Staying'
    BY <1>5, StaysNext
  <2>3. ASSUME mpc' = "retire" PROVE Start(TRUE)
    <3>1. Reload
      <4>1. CASE ~Master
        <5>1. mpc' = mpc
          BY <4>1, OthersKeep DEF Next
        <5> QED BY <1>5, <2>3, <5>1
      <4>2. CASE ResumeService \/ Restart
        <5>1. mpc' = "top" \/ \E f : mpc' = NextRequest(f)
          BY <4>2, Zenon DEF ResumeService, Restart
        <5> QED BY <2>3, <5>1, NextRequestType DEF Requests
      <4>3. CASE \/ Top \/ Wake \/ Reap \/ MasterExit \/ Terminate \/ Quit \/ Proceed
                 \/ ReloadRefused \/ Retire \/ Reopen \/ ChangeBinary \/ NoAccept
        BY <2>3, <4>3, NextRequestType
        DEF Top, Wake, Reap, MasterExit, Terminate, Quit, Proceed, ReloadRefused,
            Retire, Reopen, ChangeBinary, NoAccept, Requests
      <4> QED BY <4>1, <4>2, <4>3 DEF Master
    <3> QED BY <3>1, Zenon DEF Reload
  <2> QED BY <1>1, <1>2, <1>3, <2>1, <2>2, <2>3
<1>6. CASE Undisturbed /\ mpc = "retire"
  <2>1. Cardinality(JustStarted) >= WorkerProcesses
    BY <1>6 DEF ServiceInv
  <2>2. JustStarted \subseteq Staying'
    BY <1>6, StaysNext DEF JustStarted
  <2>3. ASSUME mpc' = "retire" PROVE JustStarted \subseteq JustStarted'
    <3>1. CASE ~Master
      <4>1. justSpawn' = justSpawn
        BY <3>1, OthersKeep DEF Next
      <4> QED BY <2>2, <4>1 DEF JustStarted
    <3>2. CASE Master
      <4>1. Retire
        <5>1. ~Reload /\ ~ResumeService /\ ~Restart
          BY <1>6, Zenon DEF Reload, ResumeService, Restart
        <5> QED BY <1>6, <3>2, <5>1 DEF Master, Top, Wake, Reap, MasterExit, Terminate, Quit,
               Proceed, ReloadRefused, Reopen, ChangeBinary, NoAccept
      <4> QED BY <2>3, <4>1, NextRequestType DEF Retire, Requests
    <3> QED BY <3>1, <3>2
  <2> QED BY <1>1, <1>2, <2>1, <2>2, <2>3
<1> QED BY <1>4, <1>5, <1>6

(* As long as nothing crashes, cannot be started or is told to go away, a  *)
(* full set of workers accepts connections in every state, for every size  *)
(* of the table that the processes of one configuration fit into.          *)
THEOREM ServiceKept ==
  ASSUME Wanted <= MaxProcs
  PROVE  Spec => []NeverOutOfService
<1>1. ASSUME Init PROVE ServiceInv /\ BinaryInv
  <2> DEFINE W == 1 .. WorkerProcesses
  <2>1. W \subseteq Slots /\ WorkerProcesses \in Nat
    <3>1. Cardinality(Helpers) \in Nat
      <4>1. IsFiniteSet({}) /\ IsFiniteSet({"manager"})
        BY FS_EmptySet, FS_Singleton
      <4>2. IsFiniteSet({"manager"} \cup {"loader"})
        BY <4>1, FS_Singleton, FS_Union
      <4>3. {"manager"} \cup {"loader"} = {"manager", "loader"}
        OBVIOUS
      <4> QED BY <4>1, <4>2, <4>3, ConstAssumption, FS_CardinalityType
    <3> QED BY <3>1, ConstAssumption DEF Wanted, Slots
  <2>2. ASSUME NEW s \in W PROVE s \in Staying
    <3>1. s \in Slots /\ role[s] = "worker"
      BY <1>1, <2>1 DEF Init
    <3>2. os[s] = "run" /\ inbox[s] = {} /\ ~exiting[s] /\ ~exited[s]
      BY <1>1, <3>1 DEF Init
    <3> QED BY <3>1, <3>2, Stays
  <2>3. Cardinality(W) = WorkerProcesses
    BY <2>1, FS_Interval
  <2>4. IsFiniteSet(Staying)
    <3>1. IsFiniteSet(Slots)
      BY ConstAssumption, FS_Interval DEF Slots
    <3> QED BY <3>1, FS_Subset DEF Staying, Serving
  <2>5. Cardinality(Staying) >= WorkerProcesses
    <3>1. Cardinality(W) <= Cardinality(Staying) /\ Cardinality(Staying) \in Nat
      BY <2>2, <2>4, FS_Subset, FS_CardinalityType
    <3> QED BY <2>1, <2>3, <3>1
  <2>6. mpc = "top" /\ newBinary \notin Slots
    BY <1>1 DEF Init, NoBinary, Slots
  <2> QED BY <2>5, <2>6 DEF ServiceInv, BinaryInv
<1>2. TypeOK /\ BinaryInv /\ ServiceInv /\ [Next]_vars => ServiceInv'
  BY ServiceNext, TypeParts
<1>3. ServiceInv => NeverOutOfService
  <2> SUFFICES ASSUME ServiceInv, Undisturbed PROVE Cardinality(Serving) >= WorkerProcesses
    BY DEF NeverOutOfService, Undisturbed
  <2>1. Cardinality(Staying) >= WorkerProcesses
    BY DEF ServiceInv
  <2>2. IsFiniteSet(Serving) /\ Staying \subseteq Serving
    <3>1. IsFiniteSet(Slots)
      BY ConstAssumption, FS_Interval DEF Slots
    <3> QED BY <3>1, FS_Subset DEF Serving, Staying
  <2>3. Cardinality(Staying) <= Cardinality(Serving)
        /\ Cardinality(Staying) \in Nat /\ Cardinality(Serving) \in Nat
    BY <2>2, FS_Subset, FS_CardinalityType
  <2> QED BY <2>1, <2>3, ConstAssumption
<1> QED BY <1>1, <1>2, <1>3, BinaryNext, TypeCorrect, PTL DEF Spec

=============================================================================
