--------------------------- MODULE ChannelsProofs ---------------------------
(***************************************************************************)
(* Proofs about the channels, for every number of workers, crashes and     *)
(* failed respawns.                                                        *)
(*                                                                         *)
(* A descriptor leads to its worker because the lowest free number is in   *)
(* no other slot: every number in the table is open (Exact) and every open *)
(* one is in the table (Known), so that there also is a free number when a *)
(* slot has been given up.  The pids do not run out because the workers    *)
(* that are gone before the master is to quit have crashed (BeforeQuit).   *)
(*                                                                         *)
(* The workers' tables agree with the master's because every channel,      *)
(* read to its end, leads there (Agrees), whatever has been read of it.    *)
(***************************************************************************)
EXTENDS Channels, Lemmas

(* A message in a channel: what a worker does with it keeps its table a    *)
(* table.                                                                  *)
MessageType ==
  {m \in [command : {"open", "close", "quit"}, slot : Slots \cup {None},
          chan : Pids \cup {None}] : m.command # "quit" <=> m.slot \in Slots}

Announcements == {m \in MessageType : m.command # "quit"}

(* The types of what TypeOK leaves out. *)
MoreTypes ==
  /\ ch \in [command : {"open", "close"}, fd : Fds \cup {None}]
  /\ inbox \in [Pids -> Seq(MessageType)]
  /\ alive \subseteq Pids
  /\ told \subseteq Pids
  /\ quit \in BOOLEAN
  /\ dangling \in BOOLEAN
  /\ crashes \in 0 .. MaxCrashes
  /\ last \in Pids
  /\ step = "reap" => i \in Slots

(* Who was ever started, and who was found dead. *)
Started ==
  /\ \A q \in alive : q <= last
  /\ \A s \in Slots : proc[s].pid <= last
  /\ \A s \in Slots : proc[s].exited => proc[s].pid \notin alive

(* Before the master is told to quit every worker has a slot, and every    *)
(* one that is gone has crashed.                                           *)
BeforeQuit ==
  ~quit => /\ last = Cardinality(alive) + crashes
           /\ told = {}
           /\ inbox \in [Pids -> Seq(Announcements)]
           /\ \A q \in alive : \E s \in Slots : proc[s].pid = q
           /\ \A s \in Slots : ~proc[s].exiting

(* Every open descriptor is in the table. *)
Known == \A d \in Fds : fd[d] # None => \E s \in Slots : proc[s].channel = d

(* Without a failed fork() no number of a closed one is, and no number is  *)
(* there twice.                                                            *)
Exact ==
  ~dangling =>
    /\ \A s \in Slots : proc[s].channel # None => fd[proc[s].channel] # None
    /\ \A s \in Slots : proc[s].pid # None /\ ~proc[s].exited =>
                          At(fd, proc[s].channel) = proc[s].pid
    /\ \A s, t \in Slots :
         s # t /\ proc[s].channel # None => proc[s].channel # proc[t].channel

IInv == TypeOK /\ MoreTypes /\ Started /\ BeforeQuit /\ Known /\ Exact

-----------------------------------------------------------------------------
(* The slots are finitely many. *)
LEMMA FiniteSlots ==
  /\ IsFiniteSet(Slots) /\ Cardinality(Slots) = NWorkers /\ NWorkers \in Nat
  /\ Fds = Slots
  /\ IsFiniteSet(Pids)
BY BoundAssumption, FS_Interval DEF Slots, Fds, Pids

(* ngx_write_channel puts messages into channels and nothing else. *)
LEMMA SendType ==
  ASSUME NEW M, NEW box \in [Pids -> Seq(M)], NEW p, NEW f,
         NEW S \in SUBSET Slots, NEW m \in M
  PROVE  Send(box, p, f, S, m) \in [Pids -> Seq(M)]
<1> DEFINE copies(q) == Cardinality({n \in S : At(f, p[n].channel) = q})
           sent(q) == [k \in 1 .. copies(q) |-> m]
<1>1. ASSUME NEW q \in Pids PROVE box[q] \o sent(q) \in Seq(M)
  <2>1. IsFiniteSet({n \in S : At(f, p[n].channel) = q})
    <3>1. {n \in S : At(f, p[n].channel) = q} \in SUBSET Slots
      OBVIOUS
    <3> QED BY <3>1, FiniteSlots, FS_Subset
  <2>2. copies(q) \in Nat
    BY <2>1, FS_CardinalityType
  <2> HIDE DEF copies
  <2>3. sent(q) \in Seq(M)
    BY <2>2
  <2> HIDE DEF sent
  <2> QED BY <2>3
<1> HIDE DEF sent
<1>2. [q \in Pids |-> IF q \in alive THEN box[q] \o sent(q) ELSE box[q]] \in [Pids -> Seq(M)]
  BY <1>1
<1> QED BY <1>2 DEF Send, sent

(* The channel of a slot is given up: a number is free, and what the other *)
(* slots have is left alone.                                               *)
LEMMA FreeNumber ==
  ASSUME TypeOK, Known, i \in Slots
  PROVE  /\ GoneFd \in [Fds -> Pids \cup {None}]
         /\ \A e \in Fds : GoneFd[e] # None =>
              GoneFd[e] = fd[e] /\ \E s \in Slots \ {i} : proc[s].channel = e
         /\ \A e \in Fds : e # proc[i].channel => GoneFd[e] = fd[e]
         /\ Min({e \in Fds : GoneFd[e] = None}) \in Fds
         /\ GoneFd[Min({e \in Fds : GoneFd[e] = None})] = None
<1> DEFINE free == {e \in Fds : GoneFd[e] = None}
           channel == [s \in Slots |-> proc[s].channel]
<1>1. proc[i].channel \in Fds \cup {None} /\ None \notin Fds
  BY DEF TypeOK, Fds, None
<1>2. GoneFd \in [Fds -> Pids \cup {None}]
  BY <1>1 DEF GoneFd, Close, TypeOK
<1>3. \A e \in Fds : e # proc[i].channel => GoneFd[e] = fd[e]
  BY <1>1 DEF GoneFd, Close, TypeOK
<1>4. \A e \in Fds : GoneFd[e] # None => e # proc[i].channel
  BY <1>1 DEF GoneFd, Close, TypeOK
<1>5. \A e \in Fds : GoneFd[e] # None =>
        GoneFd[e] = fd[e] /\ \E s \in Slots \ {i} : proc[s].channel = e
  BY <1>3, <1>4 DEF Known
<1>6. free # {}
  <2> SUFFICES ASSUME free = {} PROVE FALSE
    OBVIOUS
  <2>1. \A e \in Fds : \E s \in Slots \ {i} : channel[s] = e
    BY <1>5
  <2>2. /\ IsFiniteSet(Slots \ {i})
        /\ Cardinality(Slots \ {i}) = NWorkers - 1
    BY FiniteSlots, FS_RemoveElement
  <2>3. Cardinality(Fds) <= Cardinality(Slots \ {i})
    <3> HIDE DEF channel
    <3> QED BY <2>1, <2>2, Covers
  <2> QED BY <2>2, <2>3, FiniteSlots
<1>7. free \in SUBSET Nat
  BY DEF Fds
<1>8. Min(free) \in free
  BY <1>6, <1>7, MinIn
<1> QED BY <1>2, <1>3, <1>5, <1>8

(* The next pid is one: whoever has the other slots, one worker has        *)
(* crashed for each that was started later.                                *)
LEMMA NextPid ==
  ASSUME IInv, i \in Slots, proc[i].exited, ~quit
  PROVE  last + 1 \in Pids /\ last \in Nat /\ last + 1 # None
<1> DEFINE pid == [s \in Slots |-> proc[s].pid]
<1>1. \A q \in alive : \E s \in Slots \ {i} : pid[s] = q
  BY DEF IInv, BeforeQuit, Started
<1>2. /\ IsFiniteSet(Slots \ {i})
      /\ Cardinality(Slots \ {i}) = NWorkers - 1
  BY FiniteSlots, FS_RemoveElement
<1>3. Cardinality(alive) <= NWorkers - 1 /\ Cardinality(alive) \in Nat
  <2> HIDE DEF pid
  <2> QED BY <1>1, <1>2, Covers
<1>4. last = Cardinality(alive) + crashes /\ crashes \in 0 .. MaxCrashes
  BY DEF IInv, BeforeQuit, MoreTypes
<1> QED BY <1>3, <1>4, BoundAssumption DEF Pids, None

SlotType == [pid : Pids \cup {None}, channel : Fds \cup {None},
             exited : BOOLEAN, exiting : BOOLEAN]

-----------------------------------------------------------------------------
(* Steps that leave the master's table and descriptors alone. *)

(* Only pids and slots that were there before, fewer workers, and no order *)
(* to quit before the master has one.                                      *)
LEMMA TableKept ==
  ASSUME IInv, UNCHANGED <<proc, fd, last, quit, dangling, ch>>,
         step' \in {"sleep", "reap", "check", "gone"}, i' \in 1 .. NWorkers + 1,
         step' = "reap" => i' \in Slots,
         table' \in [Pids -> [Slots -> Pids \cup {None}]],
         alive' \subseteq alive, told' \subseteq Pids, crashes' \in 0 .. MaxCrashes,
         inbox' \in [Pids -> Seq(MessageType)],
         ~quit => /\ told' = {}
                  /\ inbox' \in [Pids -> Seq(Announcements)]
                  /\ Cardinality(alive') + crashes' = Cardinality(alive) + crashes
  PROVE  IInv'
<1>1. TypeOK'
  BY DEF IInv, TypeOK
<1>2. MoreTypes'
  BY DEF IInv, MoreTypes
<1>3. Started'
  BY DEF IInv, Started
<1>4. BeforeQuit'
  BY DEF IInv, BeforeQuit
<1>5. Known' /\ Exact'
  BY DEF IInv, Known, Exact, At
<1> QED BY <1>1, <1>2, <1>3, <1>4, <1>5 DEF IInv

(* A worker dies: of those the master did not tell to quit, by a crash. *)
LEMMA DeathKeeps ==
  ASSUME IInv, NEW q \in Pids, Crash(q) \/ Exit(q)
  PROVE  IInv'
<1>1. IsFiniteSet(alive) /\ q \in alive /\ Die(q)
  BY FiniteSlots, FS_Subset DEF IInv, MoreTypes, Crash, Exit
<1>2. /\ alive' = alive \ {q}
      /\ Cardinality(alive \ {q}) = Cardinality(alive) - 1
      /\ Cardinality(alive) \in Nat
  BY <1>1, FS_RemoveElement, FS_CardinalityType DEF Die
<1>3. /\ inbox' = [inbox EXCEPT ![q] = <<>>] /\ told' = told \ {q}
      /\ table' = [table EXCEPT ![q] = [s \in Slots |-> None]]
      /\ UNCHANGED masterVars
  BY <1>1 DEF Die
<1>4. /\ inbox' \in [Pids -> Seq(MessageType)]
      /\ table' \in [Pids -> [Slots -> Pids \cup {None}]]
      /\ told' \subseteq Pids
  BY <1>3 DEF IInv, TypeOK, MoreTypes
<1>5. crashes \in 0 .. MaxCrashes /\ MaxCrashes \in Nat
  BY BoundAssumption DEF IInv, MoreTypes
<1>6. crashes' \in 0 .. MaxCrashes
  BY <1>5 DEF Crash, Exit
<1>7. ASSUME ~quit
      PROVE  /\ told' = {}
             /\ inbox' \in [Pids -> Seq(Announcements)]
             /\ Cardinality(alive') + crashes' = Cardinality(alive) + crashes
  <2>1. told = {} /\ inbox \in [Pids -> Seq(Announcements)]
    BY <1>7 DEF IInv, BeforeQuit
  <2>2. Crash(q)
    BY <2>1 DEF Exit
  <2> QED BY <1>2, <1>3, <1>5, <2>1, <2>2 DEF Crash
<1>8. /\ UNCHANGED <<proc, fd, last, quit, dangling, ch, step, i>>
      /\ step \in {"sleep", "reap", "check", "gone"} /\ i \in 1 .. NWorkers + 1
      /\ step = "reap" => i \in Slots
  BY <1>3 DEF masterVars, IInv, TypeOK, MoreTypes
<1> QED BY <1>2, <1>4, <1>6, <1>7, <1>8, TableKept

(* ngx_channel_handler: a worker reads a message. *)
LEMMA ReadKeeps ==
  ASSUME IInv, NEW q \in Pids, Read(q)
  PROVE  IInv'
<1> DEFINE m == Head(inbox[q])
<1>1. /\ inbox \in [Pids -> Seq(MessageType)] /\ inbox[q] # <<>>
      /\ table \in [Pids -> [Slots -> Pids \cup {None}]]
  BY DEF IInv, TypeOK, MoreTypes, Read
<1>2. m \in MessageType
  BY <1>1, HeadTailProperties
<1>3. /\ inbox' = [inbox EXCEPT ![q] = Tail(@)]
      /\ Tail(inbox[q]) \in Seq(MessageType)
      /\ inbox' \in [Pids -> Seq(MessageType)]
  BY <1>1, HeadTailProperties DEF Read
<1>4. m.command # "quit" => m.slot \in Slots /\ m.chan \in Pids \cup {None}
  BY <1>2 DEF MessageType
<1>5. table' \in [Pids -> [Slots -> Pids \cup {None}]]
  <2> HIDE DEF m
  <2>1. table' = CASE m.command = "open" -> [table EXCEPT ![q][m.slot] = m.chan]
                   [] m.command = "close" -> [table EXCEPT ![q][m.slot] = None]
                   [] OTHER -> table
    BY DEF Read, m
  <2>2. CASE m.command = "open"
    <3>1. table' = [table EXCEPT ![q][m.slot] = m.chan]
      BY <2>1, <2>2
    <3> QED BY <1>1, <1>4, <2>2, <3>1
  <2>3. CASE m.command = "close"
    <3>1. table' = [table EXCEPT ![q][m.slot] = None]
      BY <2>1, <2>3
    <3> QED BY <1>1, <1>4, <2>3, <3>1
  <2>4. CASE m.command \notin {"open", "close"}
    BY <1>1, <2>1, <2>4
  <2> QED BY <2>2, <2>3, <2>4
<1>6. told' \subseteq Pids
  BY DEF Read, IInv, MoreTypes
<1>7. ASSUME ~quit
      PROVE  told' = {} /\ inbox' \in [Pids -> Seq(Announcements)]
  <2>1. told = {} /\ inbox \in [Pids -> Seq(Announcements)]
    BY <1>7 DEF IInv, BeforeQuit
  <2>2. m \in Announcements /\ Tail(inbox[q]) \in Seq(Announcements)
    BY <1>1, <2>1, HeadTailProperties
  <2>3. m.command # "quit"
    BY <2>2 DEF Announcements
  <2> QED BY <1>3, <2>1, <2>2, <2>3 DEF Read
<1>8. UNCHANGED <<proc, fd, last, quit, dangling, ch, step, i, alive, crashes>>
  BY DEF Read, masterVars
<1>9. /\ step \in {"sleep", "reap", "check", "gone"} /\ i \in 1 .. NWorkers + 1
      /\ step = "reap" => i \in Slots
      /\ crashes \in 0 .. MaxCrashes
  BY DEF IInv, TypeOK, MoreTypes
<1> HIDE DEF m
<1> QED BY <1>3, <1>5, <1>6, <1>7, <1>8, <1>9, TableKept

(* The master goes on without touching its table. *)
LEMMA IdleKeeps ==
  ASSUME IInv,
         \/ SigQuit
         \/ ReapOther
         \/ GoToSleep
         \/ MasterExit
         \/ UNCHANGED vars
  PROVE  IInv'
<1>1. /\ step \in {"sleep", "reap", "check", "gone"} /\ i \in 1 .. NWorkers + 1
      /\ step = "reap" => i \in Slots
      /\ crashes \in 0 .. MaxCrashes /\ table \in [Pids -> [Slots -> Pids \cup {None}]]
      /\ inbox \in [Pids -> Seq(MessageType)] /\ told \subseteq Pids
      /\ ~quit => told = {} /\ inbox \in [Pids -> Seq(Announcements)]
  BY DEF IInv, TypeOK, MoreTypes, BeforeQuit
<1>2. UNCHANGED <<proc, fd, last, quit, dangling, ch, alive, told, inbox, table, crashes>>
  BY DEF SigQuit, ReapOther, GoToSleep, MasterExit, vars, masterVars, workerVars
<1>3. /\ step' \in {"sleep", "reap", "check", "gone"} /\ i' \in 1 .. NWorkers + 1
      /\ step' = "reap" => i' \in Slots
  BY <1>1, BoundAssumption
     DEF SigQuit, ReapOther, GoToSleep, MasterExit, vars, masterVars, Advance, Slots
<1> QED BY <1>1, <1>2, <1>3, TableKept

-----------------------------------------------------------------------------
(* Steps that mark the slots. *)

(* Pids and channels stay, a worker marked as dead is dead. *)
LEMMA SlotsMarked ==
  ASSUME IInv, proc' \in [Slots -> SlotType],
         \A s \in Slots : /\ proc'[s].pid = proc[s].pid
                          /\ proc'[s].channel = proc[s].channel
                          /\ proc[s].exited => proc'[s].exited
                          /\ proc'[s].exited => proc[s].pid \notin alive,
         UNCHANGED <<fd, last, dangling, alive, table, crashes>>,
         quit' \in BOOLEAN, quit => quit', step' \in {"sleep", "reap", "check"},
         i' \in Slots \/ (i' = i /\ step' # "reap"),
         ch' \in [command : {"open", "close"}, fd : Fds \cup {None}],
         told' \subseteq Pids,
         inbox' \in [Pids -> Seq(MessageType)],
         ~quit' => /\ UNCHANGED <<told, inbox>>
                   /\ \A s \in Slots : proc'[s].exiting = proc[s].exiting
  PROVE  IInv'
<1>1. TypeOK'
  <2>1. i' \in 1 .. NWorkers + 1
    BY BoundAssumption DEF IInv, TypeOK, Slots
  <2> QED BY <2>1 DEF IInv, TypeOK, SlotType
<1>2. MoreTypes'
  BY DEF IInv, MoreTypes
<1>3. Started'
  BY DEF IInv, Started
<1>4. BeforeQuit'
  <2> SUFFICES ASSUME ~quit' PROVE BeforeQuit'
    BY DEF BeforeQuit
  <2> QED BY ZenonT(40) DEF IInv, BeforeQuit
<1>5. Known'
  BY DEF IInv, Known
<1>6. Exact'
  BY DEF IInv, Exact, At
<1> QED BY <1>1, <1>2, <1>3, <1>4, <1>5, <1>6 DEF IInv

(* ngx_process_get_status marks the children that have died. *)
LEMMA WakeKeeps ==
  ASSUME IInv, Wake
  PROVE  IInv'
<1>1. proc \in [Slots -> SlotType] /\ 1 \in Slots
  BY BoundAssumption DEF IInv, TypeOK, SlotType, Slots
<1>2. ASSUME NEW s \in Slots
      PROVE  /\ proc'[s] \in SlotType
             /\ proc'[s].pid = proc[s].pid
             /\ proc'[s].channel = proc[s].channel
             /\ proc'[s].exiting = proc[s].exiting
             /\ proc[s].exited => proc'[s].exited
             /\ proc'[s].exited => proc[s].pid \notin alive
  <2> DEFINE dead == "CHLD" \in pending /\ proc[s].pid # None /\ proc[s].pid \notin alive
  <2>1. proc'[s] = [proc[s] EXCEPT !.exited = @ \/ dead]
    BY DEF Wake
  <2>2. proc[s] \in SlotType /\ (proc[s].exited => proc[s].pid \notin alive)
        /\ dead \in BOOLEAN /\ (dead => proc[s].pid \notin alive)
    BY <1>1 DEF IInv, Started
  <2> HIDE DEF dead
  <2>3. /\ proc'[s] \in SlotType
        /\ proc'[s].pid = proc[s].pid
        /\ proc'[s].channel = proc[s].channel
        /\ proc'[s].exiting = proc[s].exiting
        /\ proc'[s].exited = (proc[s].exited \/ dead)
    BY <2>1, <2>2 DEF SlotType
  <2> QED BY <2>2, <2>3
<1>3. proc' \in [Slots -> SlotType]
  BY <1>2 DEF Wake
<1>4. /\ UNCHANGED <<fd, last, dangling, alive, table, crashes, told, inbox>>
      /\ quit' \in BOOLEAN /\ (quit => quit') /\ step' \in {"sleep", "reap", "check"}
      /\ i' = 1 /\ ch' \in [command : {"open", "close"}, fd : Fds \cup {None}]
  BY DEF Wake, workerVars, IInv, MoreTypes
<1>5. told \subseteq Pids /\ inbox \in [Pids -> Seq(MessageType)]
  BY DEF IInv, MoreTypes
<1>6. \A s \in Slots : /\ proc'[s].pid = proc[s].pid
                       /\ proc'[s].channel = proc[s].channel
                       /\ proc[s].exited => proc'[s].exited
                       /\ proc'[s].exited => proc[s].pid \notin alive
  BY <1>2
<1>7. \A s \in Slots : proc'[s].exiting = proc[s].exiting
  BY <1>2
<1>8. /\ i' \in Slots \/ (i' = i /\ step' # "reap")
      /\ told' \subseteq Pids
      /\ inbox' \in [Pids -> Seq(MessageType)]
      /\ ~quit' => /\ UNCHANGED <<told, inbox>>
                   /\ \A s \in Slots : proc'[s].exiting = proc[s].exiting
  BY <1>1, <1>4, <1>5, <1>7
<1> QED BY <1>3, <1>4, <1>6, <1>8, SlotsMarked

(* ngx_signal_worker_processes marks those it has told to quit. *)
LEMMA SignalKeeps ==
  ASSUME IInv, Signal
  PROVE  IInv'
<1>1. proc \in [Slots -> SlotType]
  BY DEF IInv, TypeOK, SlotType
<1>2. ASSUME NEW s \in Slots
      PROVE  /\ proc'[s] \in SlotType
             /\ proc'[s].pid = proc[s].pid
             /\ proc'[s].channel = proc[s].channel
             /\ proc'[s].exited = proc[s].exited
  <2>1. proc'[s] = [proc[s] EXCEPT !.exiting = @ \/ s \in Untold \ Missing]
    BY DEF Signal
  <2>2. proc[s] \in SlotType /\ (s \in Untold \ Missing) \in BOOLEAN
    BY <1>1
  <2> QED BY <2>1, <2>2 DEF SlotType
<1>3. proc' \in [Slots -> SlotType]
  BY <1>2 DEF Signal
<1>4. Message("quit", None, None) \in MessageType
  BY DEF Message, MessageType, Slots, None
<1>5. inbox \in [Pids -> Seq(MessageType)] /\ ByChannel \in SUBSET Slots
  BY DEF IInv, MoreTypes, ByChannel, Untold
<1>6. inbox' \in [Pids -> Seq(MessageType)]
  BY <1>4, <1>5, SendType DEF Signal
<1>7. /\ UNCHANGED <<fd, last, dangling, alive, table, crashes, quit, i, ch>>
      /\ quit /\ step' = "sleep" /\ told' \subseteq Pids
  BY DEF Signal, IInv, MoreTypes
<1>8. /\ ch \in [command : {"open", "close"}, fd : Fds \cup {None}]
      /\ quit \in BOOLEAN
      /\ \A s \in Slots : proc[s].exited => proc[s].pid \notin alive
  BY DEF IInv, MoreTypes, Started
<1> QED BY <1>2, <1>3, <1>6, <1>7, <1>8, SlotsMarked

-----------------------------------------------------------------------------
(* Steps of ngx_reap_children at a dead child. *)

(* The others are told, which is no order to quit. *)
LEMMA GoneTold ==
  ASSUME IInv, step = "reap"
  PROVE  /\ GoneBox \in [Pids -> Seq(MessageType)]
         /\ ~quit => GoneBox \in [Pids -> Seq(Announcements)]
<1> DEFINE m == Message(ch.command, i, At(GoneFd, ch.fd))
<1>1. /\ i \in Slots /\ TypeOK /\ Known
      /\ ch.command \in {"open", "close"} /\ ch.fd \in Fds \cup {None}
  BY DEF IInv, MoreTypes
<1>2. At(GoneFd, ch.fd) \in Pids \cup {None}
  BY <1>1, FreeNumber DEF At
<1>3. m \in MessageType /\ m \in Announcements
  BY <1>1, <1>2 DEF Message, MessageType, Announcements
<1>4. Listeners(Gone) \in SUBSET Slots
  BY DEF Listeners
<1>5. inbox \in [Pids -> Seq(MessageType)]
  BY DEF IInv, MoreTypes
<1>6. ~quit => inbox \in [Pids -> Seq(Announcements)]
  BY DEF IInv, BeforeQuit
<1> HIDE DEF m
<1> QED BY <1>3, <1>4, <1>5, <1>6, SendType DEF GoneBox, m

(* The table without the channel of the dead child. *)
LEMMA GoneSlots ==
  ASSUME IInv, i \in Slots
  PROVE  /\ Gone = [proc EXCEPT ![i] = [proc[i] EXCEPT !.channel = None]]
         /\ Gone \in [Slots -> SlotType]
         /\ Gone[i].channel = None
         /\ Gone[i].pid = proc[i].pid
         /\ Gone[i].exited = proc[i].exited
         /\ Gone[i].exiting = proc[i].exiting
         /\ \A s \in Slots : s # i => Gone[s] = proc[s]
BY DEF Gone, IInv, TypeOK, SlotType

(* The dead child's slot is left empty, or as one still to be respawned,   *)
(* whose channel may be the number of a closed one.                        *)
LEMMA SlotEmptied ==
  ASSUME IInv, step = "reap", proc[i].exited, NEW x \in SlotType,
         proc' = [proc EXCEPT ![i] = x],
         fd' = GoneFd, inbox' = GoneBox, Advance,
         UNCHANGED <<last, quit, ch, alive, told, table, crashes>>,
         dangling' \in BOOLEAN, dangling => dangling',
         x.channel = None \/ dangling',
         \/ x.pid = None /\ ~x.exited /\ (proc[i].exiting \/ quit)
         \/ x.pid = proc[i].pid /\ x.exited,
         x.exiting = proc[i].exiting
  PROVE  IInv'
<1>1. /\ i \in Slots /\ TypeOK /\ Known /\ proc \in [Slots -> SlotType]
      /\ i' = i + 1 /\ step' = IF i = NWorkers THEN "check" ELSE "reap"
  BY DEF IInv, MoreTypes, Advance, TypeOK, SlotType
<1>2. /\ proc' \in [Slots -> SlotType] /\ proc'[i] = x
      /\ \A s \in Slots : s # i => proc'[s] = proc[s]
  BY <1>1
<1>3. /\ GoneFd \in [Fds -> Pids \cup {None}]
      /\ \A e \in Fds : GoneFd[e] # None =>
           GoneFd[e] = fd[e] /\ \E s \in Slots \ {i} : proc[s].channel = e
      /\ \A e \in Fds : e # proc[i].channel => GoneFd[e] = fd[e]
  BY <1>1, FreeNumber
<1>4. i' \in 1 .. NWorkers + 1 /\ (step' = "reap" => i' \in Slots)
  BY <1>1, BoundAssumption DEF Slots
<1>5. TypeOK'
  BY <1>1, <1>2, <1>3, <1>4 DEF IInv, TypeOK, SlotType
<1>6. MoreTypes'
  BY <1>4, GoneTold DEF IInv, MoreTypes
<1>7. Started'
  <2>1. last \in Nat /\ 0 <= last
    BY DEF IInv, MoreTypes, Pids
  <2> QED BY <1>1, <1>2, <2>1 DEF IInv, Started, None
<1>8. BeforeQuit'
  <2> SUFFICES ASSUME ~quit PROVE BeforeQuit'
    BY DEF BeforeQuit
  <2>1. ~proc[i].exiting
    BY <1>1 DEF IInv, BeforeQuit
  <2>2. x.pid = proc[i].pid
    BY <2>1
  <2> QED BY <1>1, <1>2, <2>1, <2>2, GoneTold DEF IInv, BeforeQuit
<1>9. Known'
  BY <1>2, <1>3 DEF Known
<1>10. Exact'
  <2> SUFFICES ASSUME ~dangling' PROVE Exact'
    BY DEF Exact
  <2>1. x.channel = None /\ ~dangling /\ None \notin Fds
    BY DEF Fds, None
  <2>2. ASSUME NEW s \in Slots, s # i, proc[s].channel # None
        PROVE  proc[s].channel \in Fds /\ fd'[proc[s].channel] = fd[proc[s].channel]
    BY <1>1, <1>3, <2>1, <2>2 DEF IInv, Exact, SlotType
  <2>3. \A s \in Slots : proc'[s].channel # None => fd'[proc'[s].channel] # None
    BY <1>2, <2>1, <2>2 DEF IInv, Exact
  <2>4. \A s \in Slots : proc'[s].pid # None /\ ~proc'[s].exited =>
                           At(fd', proc'[s].channel) = proc'[s].pid
    BY <1>2, <2>1, <2>2 DEF IInv, Exact, At
  <2>5. \A s, t \in Slots :
          s # t /\ proc'[s].channel # None => proc'[s].channel # proc'[t].channel
    BY <1>2, <2>1 DEF IInv, Exact
  <2> QED BY <2>3, <2>4, <2>5 DEF Exact
<1> QED BY <1>5, <1>6, <1>7, <1>8, <1>9, <1>10 DEF IInv

(* A child that is not to be respawned. *)
LEMMA ReapEndsKeeps ==
  ASSUME IInv, ReapEnds
  PROVE  IInv'
<1> DEFINE g == [proc[i] EXCEPT !.channel = None]
           g1 == [g EXCEPT !.pid = None]
           x == [g1 EXCEPT !.exited = FALSE]
<1>1. step = "reap" /\ i \in Slots /\ proc \in [Slots -> SlotType]
  BY DEF ReapEnds, IInv, MoreTypes, TypeOK, SlotType
<1>2. g \in SlotType /\ g.channel = None /\ g.exiting = proc[i].exiting
  BY <1>1 DEF SlotType
<1>3. g1 \in SlotType /\ g1.channel = None /\ g1.pid = None /\ g1.exiting = proc[i].exiting
  <2> HIDE DEF g
  <2> QED BY <1>2 DEF SlotType
<1>4. /\ x \in SlotType /\ x.channel = None /\ x.pid = None /\ ~x.exited
      /\ x.exiting = proc[i].exiting
  <2> HIDE DEF g1
  <2> QED BY <1>3 DEF SlotType
<1>5. proc' = [proc EXCEPT ![i] = x]
  BY <1>1, GoneSlots DEF ReapEnds
<1>6. proc[i].exiting \/ quit
  BY DEF ReapEnds, Respawns
<1>7. /\ proc[i].exited /\ fd' = GoneFd /\ inbox' = GoneBox /\ Advance
      /\ UNCHANGED <<last, quit, ch, alive, told, table, crashes, dangling>>
  BY DEF ReapEnds
<1>8. dangling \in BOOLEAN
  BY DEF IInv, MoreTypes
<1> HIDE DEF x
<1> QED BY <1>1, <1>4, <1>5, <1>6, <1>7, <1>8, SlotEmptied

(* A respawn that fails, before or after the socket pair was made. *)
LEMMA ReapFailsKeeps ==
  ASSUME IInv, ReapFails
  PROVE  IInv'
<1> DEFINE d == Min({e \in Fds : GoneFd[e] = None})
           x == [proc[i] EXCEPT !.channel = None]
           y == [x EXCEPT !.channel = d]
<1>1. step = "reap" /\ i \in Slots /\ proc \in [Slots -> SlotType] /\ TypeOK /\ Known
  BY DEF ReapFails, IInv, MoreTypes, TypeOK, SlotType
<1>2. /\ x \in SlotType /\ x.channel = None /\ x.pid = proc[i].pid
      /\ x.exited = proc[i].exited /\ x.exiting = proc[i].exiting
  BY <1>1 DEF SlotType
<1>3. d \in Fds
  BY <1>1, FreeNumber
<1>4. /\ y \in SlotType /\ y.channel = d /\ y.pid = proc[i].pid
      /\ y.exited = proc[i].exited /\ y.exiting = proc[i].exiting
  <2> HIDE DEF x, d
  <2> QED BY <1>2, <1>3 DEF SlotType
<1>5. /\ proc[i].exited /\ fd' = GoneFd /\ inbox' = GoneBox /\ Advance
      /\ UNCHANGED <<last, quit, ch, alive, told, table, crashes>>
  BY DEF ReapFails, Respawns
<1>6. dangling \in BOOLEAN
  BY DEF IInv, MoreTypes
<1>7. CASE proc' = Gone /\ UNCHANGED dangling
  <2>1. proc' = [proc EXCEPT ![i] = x]
    BY <1>1, <1>7, GoneSlots
  <2> HIDE DEF x
  <2> QED BY <1>1, <1>2, <1>5, <1>6, <1>7, <2>1, SlotEmptied
<1>8. CASE proc' = [Gone EXCEPT ![i].channel = d] /\ dangling' = TRUE
  <2>1. proc' = [proc EXCEPT ![i] = y]
    BY <1>1, <1>8, GoneSlots
  <2> HIDE DEF y
  <2> QED BY <1>1, <1>4, <1>5, <1>6, <1>8, <2>1, SlotEmptied
<1> QED BY <1>7, <1>8 DEF ReapFails

(* A respawn: the new worker has a pid and a descriptor of its own. *)
LEMMA ReapRespawnsKeeps ==
  ASSUME IInv, ReapRespawns
  PROVE  IInv'
<1> DEFINE d == Min({e \in Fds : GoneFd[e] = None})
           q == last + 1
           f == [GoneFd EXCEPT ![d] = q]
           x1 == [proc[i] EXCEPT !.channel = None]
           x2 == [x1 EXCEPT !.pid = q]
           x3 == [x2 EXCEPT !.channel = d]
           x == [x3 EXCEPT !.exited = FALSE]
           p == [Gone EXCEPT ![i].pid = q, ![i].channel = d, ![i].exited = FALSE]
           others == {n \in Slots \ {i} : p[n].pid # None /\ p[n].channel # None}
<1>1. /\ step = "reap" /\ i \in Slots /\ proc \in [Slots -> SlotType] /\ TypeOK /\ Known
      /\ proc[i].exited /\ ~quit /\ None \notin Fds
  <2>1. step = "reap" /\ proc[i].exited /\ ~quit
    BY DEF ReapRespawns, Respawns
  <2>2. i \in Slots /\ proc \in [Slots -> SlotType] /\ TypeOK /\ Known
    BY <2>1 DEF IInv, MoreTypes, TypeOK, SlotType
  <2>3. None \notin Fds
    BY DEF Fds, None
  <2> QED BY <2>1, <2>2, <2>3
<1>2. q \in Pids /\ last \in Nat /\ q # None
  BY <1>1, NextPid
<1>3. /\ GoneFd \in [Fds -> Pids \cup {None}]
      /\ \A e \in Fds : GoneFd[e] # None =>
           GoneFd[e] = fd[e] /\ \E s \in Slots \ {i} : proc[s].channel = e
      /\ \A e \in Fds : e # proc[i].channel => GoneFd[e] = fd[e]
      /\ d \in Fds /\ GoneFd[d] = None
  BY <1>1, FreeNumber
<1>4. /\ x \in SlotType /\ x.pid = q /\ x.channel = d /\ x.exited = FALSE
      /\ x.exiting = proc[i].exiting
  <2>1. x1 \in SlotType /\ x1.exiting = proc[i].exiting
    BY <1>1 DEF SlotType
  <2>2. x2 \in SlotType /\ x2.pid = q /\ x2.exiting = proc[i].exiting
    <3> HIDE DEF x1, q
    <3> QED BY <1>2, <2>1 DEF SlotType
  <2>3. x3 \in SlotType /\ x3.pid = q /\ x3.channel = d /\ x3.exiting = proc[i].exiting
    <3> HIDE DEF x2, q, d
    <3> QED BY <1>3, <2>2 DEF SlotType
  <2> HIDE DEF x3, q, d
  <2> QED BY <2>3 DEF SlotType
<1>5. p = [proc EXCEPT ![i] = x]
  BY <1>1, GoneSlots
<1>6. /\ proc' = p /\ fd' = f /\ last' = q /\ ch' = [command |-> "open", fd |-> d]
      /\ inbox' = Send(GoneBox, p, f, others, Message("open", i, q))
      /\ alive' = alive \cup {q}
      /\ table' = [table EXCEPT ![q] = [s \in Slots |->
                                          IF s = i THEN None ELSE At(f, p[s].channel)]]
  BY DEF ReapRespawns
<1>7. Advance /\ UNCHANGED <<quit, dangling, told, crashes>>
  BY DEF ReapRespawns
<1> HIDE DEF d, q, f, p, x, others
<1>8. /\ p \in [Slots -> SlotType] /\ p[i] = x
      /\ \A s \in Slots : s # i => p[s] = proc[s]
  BY <1>1, <1>4, <1>5
<1>9. /\ f \in [Fds -> Pids \cup {None}] /\ f[d] = q
      /\ \A e \in Fds : e # d => f[e] = GoneFd[e]
  BY <1>2, <1>3 DEF f
<1>10. i' \in 1 .. NWorkers + 1 /\ (step' = "reap" => i' \in Slots)
       /\ step' \in {"check", "reap"}
  BY <1>1, <1>7, BoundAssumption DEF Slots, Advance
<1>11. table' \in [Pids -> [Slots -> Pids \cup {None}]]
  <2>1. \A s \in Slots : At(f, p[s].channel) \in Pids \cup {None}
    BY <1>8, <1>9 DEF At, SlotType
  <2>2. table \in [Pids -> [Slots -> Pids \cup {None}]]
    BY <1>1 DEF TypeOK
  <2> QED BY <1>2, <1>6, <2>1, <2>2
<1>12. TypeOK'
  BY <1>6, <1>8, <1>9, <1>10, <1>11 DEF TypeOK, SlotType
<1>13. /\ inbox' \in [Pids -> Seq(MessageType)]
       /\ inbox' \in [Pids -> Seq(Announcements)]
  <2> DEFINE m == Message("open", i, q)
  <2>1. m \in MessageType /\ m \in Announcements
    BY <1>1, <1>2 DEF Message, MessageType, Announcements
  <2>2. others \in SUBSET Slots
    BY DEF others
  <2>3. GoneBox \in [Pids -> Seq(MessageType)] /\ GoneBox \in [Pids -> Seq(Announcements)]
    BY <1>1, GoneTold
  <2> HIDE DEF m
  <2>4. inbox' = Send(GoneBox, p, f, others, m)
    BY <1>6 DEF m
  <2> QED BY <2>1, <2>2, <2>3, <2>4, SendType
<1>14. MoreTypes'
  BY <1>2, <1>3, <1>6, <1>7, <1>10, <1>13 DEF IInv, MoreTypes
<1>15. Started'
  <2>1. \A s \in Slots : s # i => proc[s].pid \in Nat /\ proc[s].pid <= last
    BY <1>1 DEF IInv, Started, SlotType, Pids, None
  <2>2. \A r \in alive : r \in Nat /\ r <= last
    BY DEF IInv, Started, MoreTypes, Pids
  <2>3. q = last + 1
    BY DEF q
  <2> QED BY <1>2, <1>4, <1>6, <1>8, <2>1, <2>2, <2>3 DEF IInv, Started
<1>16. BeforeQuit'
  <2>1. IsFiniteSet(alive)
    BY FiniteSlots, FS_Subset DEF IInv, MoreTypes
  <2>2. q \notin alive
    BY <1>2 DEF IInv, Started, q
  <2>3. Cardinality(alive \cup {q}) = Cardinality(alive) + 1 /\ Cardinality(alive) \in Nat
    BY <2>1, <2>2, FS_AddElement, FS_CardinalityType
  <2>4. last = Cardinality(alive) + crashes /\ crashes \in Nat /\ q = last + 1
    BY <1>1 DEF IInv, BeforeQuit, MoreTypes, q
  <2>5. \A r \in alive \cup {q} : \E s \in Slots : p[s].pid = r
    <3>1. \A r \in alive : \E s \in Slots : s # i /\ proc[s].pid = r
      BY <1>1 DEF IInv, BeforeQuit, Started
    <3> QED BY <1>1, <1>4, <1>8, <3>1
  <2>6. told = {} /\ \A s \in Slots : ~p[s].exiting
    BY <1>1, <1>4, <1>8 DEF IInv, BeforeQuit
  <2>7. last' = Cardinality(alive') + crashes'
    BY <1>6, <1>7, <2>3, <2>4
  <2> QED BY <1>6, <1>7, <1>13, <2>5, <2>6, <2>7 DEF BeforeQuit
<1>17. Known'
  BY <1>1, <1>3, <1>4, <1>6, <1>8, <1>9 DEF Known
<1>18. Exact'
  <2> SUFFICES ASSUME ~dangling PROVE Exact'
    BY <1>7 DEF Exact
  <2>1. ASSUME NEW s \in Slots, s # i, proc[s].channel # None
        PROVE  /\ proc[s].channel \in Fds /\ proc[s].channel # d
               /\ f[proc[s].channel] = fd[proc[s].channel]
    <3>1. proc[s].channel \in Fds /\ proc[s].channel # proc[i].channel
          /\ fd[proc[s].channel] # None
      BY <1>1, <2>1 DEF IInv, Exact, SlotType
    <3> QED BY <1>3, <1>9, <3>1
  <2>2. \A s \in Slots : p[s].channel # None => f[p[s].channel] # None
    BY <1>2, <1>4, <1>8, <1>9, <2>1 DEF IInv, Exact
  <2>3. \A s \in Slots : p[s].pid # None /\ ~p[s].exited => At(f, p[s].channel) = p[s].pid
    <3>1. At(f, d) = q
      BY <1>1, <1>3, <1>9 DEF At
    <3> QED BY <1>4, <1>8, <2>1, <3>1 DEF IInv, Exact, At
  <2>4. \A s, t \in Slots : s # t /\ p[s].channel # None => p[s].channel # p[t].channel
    BY <1>4, <1>8, <2>1 DEF IInv, Exact
  <2> QED BY <1>6, <2>2, <2>3, <2>4 DEF Exact
<1> QED BY <1>12, <1>14, <1>15, <1>16, <1>17, <1>18 DEF IInv

-----------------------------------------------------------------------------
(* ngx_start_worker_processes leaves every worker with a slot, a pid and a *)
(* descriptor.                                                             *)
LEMMA InvInit ==
  ASSUME Init
  PROVE  IInv
<1>1. NWorkers \in Nat \ {0} /\ MaxCrashes \in Nat
  BY BoundAssumption
<1>2. Slots \subseteq Pids /\ Fds = Slots /\ None \notin Slots /\ 1 \in Slots
      /\ NWorkers \in Pids
  BY <1>1 DEF Slots, Pids, Fds, None
<1>3. /\ \A s \in Slots : /\ proc[s].pid = s /\ proc[s].channel = s
                           /\ proc[s].exited = FALSE /\ proc[s].exiting = FALSE
      /\ \A d \in Fds : fd[d] = d
  BY DEF Init
<1>4. TypeOK
  BY <1>1, <1>2 DEF Init, TypeOK, Slots
<1>5. MoreTypes
  <2>1. inbox \in [Pids -> Seq(MessageType)]
    BY DEF Init
  <2>2. ch \in [command : {"open", "close"}, fd : Fds \cup {None}]
    BY DEF Init
  <2>3. alive \subseteq Pids /\ told \subseteq Pids /\ last \in Pids
    BY <1>2 DEF Init
  <2>4. crashes \in 0 .. MaxCrashes
    BY <1>1 DEF Init
  <2> QED BY <2>1, <2>2, <2>3, <2>4 DEF Init, MoreTypes
<1>6. Started
  BY <1>3 DEF Init, Started, Slots
<1>7. BeforeQuit
  BY <1>1, <1>2, <1>3, FiniteSlots DEF Init, BeforeQuit
<1>8. Known
  BY <1>2, <1>3 DEF Known
<1>9. Exact
  BY <1>2, <1>3 DEF Exact, At
<1> QED BY <1>4, <1>5, <1>6, <1>7, <1>8, <1>9 DEF IInv

(* Every step of the master and of the workers keeps the invariant. *)
LEMMA InvNext ==
  ASSUME IInv, [Next]_vars
  PROVE  IInv'
BY WakeKeeps, ReapEndsKeeps, ReapRespawnsKeeps, ReapFailsKeeps, SignalKeeps, IdleKeeps,
   DeathKeeps, ReadKeeps DEF Next, Master, Worker

(* The inductive invariant, of every reachable state. *)
THEOREM Inductive == Spec => []IInv
<1>1. Init => IInv
  BY InvInit
<1>2. IInv /\ [Next]_vars => IInv'
  BY InvNext
<1> QED BY <1>1, <1>2, PTL DEF Spec

(* What the master writes for a worker is read by that worker: whatever    *)
(* dies, in whatever order ngx_reap_children finds it and whichever        *)
(* respawns fail, as long as fork() left no number behind; and it never    *)
(* lacks a descriptor or a pid.                                            *)
THEOREM ChannelsCorrect == Spec => []ChannelsOwned
<1>1. IInv => ChannelsOwned
  BY DEF IInv, Exact, ChannelsOwned
<1> QED BY <1>1, Inductive, PTL

-----------------------------------------------------------------------------
(* The workers' tables.  A worker will have read its channel to the end    *)
(* some day: what it will then have in a slot is what the last message     *)
(* about that slot says, or what it has now if there is none.              *)
Result(m) == IF m.command = "open" THEN m.chan ELSE None

(* What a worker that has w in slot s, and box to read, will have there    *)
(* before it reads message n, and in the end.                              *)
Before(w, box, s, n, v) ==
  \/ (\A k \in 1 .. n - 1 : box[k].slot # s) /\ v = w
  \/ \E k \in 1 .. n - 1 : /\ box[k].slot = s /\ v = Result(box[k])
                           /\ \A j \in k + 1 .. n - 1 : box[j].slot # s

Ends(w, box, s, v) == Before(w, box, s, Len(box) + 1, v)

(* Nothing is announced as opened over what is open. *)
Clean(w, box, s) ==
  \A n \in 1 .. Len(box) :
    box[n].slot = s /\ box[n].command = "open" => Before(w, box, s, n, None)

(* And in the end it has x, or nothing. *)
Orderly(w, box, s, x) == Clean(w, box, s) /\ (Ends(w, box, s, None) \/ Ends(w, box, s, x))

(* A pid has one slot and, without a failed fork(), one descriptor; who    *)
(* does not run has nothing to read.                                       *)
Births ==
  /\ leaked \in [Pids -> SUBSET (Pids \cup {None})]
  /\ \A q \in Pids \ alive : inbox[q] = <<>> /\ leaked[q] = {}
  /\ \A q \in alive : \E s \in Slots : proc[s].pid = q
  /\ \A s, t \in Slots : proc[s].pid = proc[t].pid /\ s # t => proc[s].pid = None
  /\ ~dangling => \A s \in Slots : proc[s].channel # None => fd[proc[s].channel] = proc[s].pid

(* TablesAgree for the end of every channel, at any step of the master. *)
Agrees ==
  ~dangling => \A q \in alive :
    /\ \A s \in Slots : proc[s].pid \in alive \ {q} =>
                          Ends(table[q][s], inbox[q], s, proc[s].pid)
    /\ ~together => /\ leaked[q] = {}
                    /\ \A s \in Slots : Orderly(table[q][s], inbox[q], s, proc[s].pid)

TInv == Births /\ Agrees

(* A message is read. *)
LEMMA BoxRead ==
  ASSUME NEW box \in Seq(MessageType), box # <<>>, NEW s, NEW w, NEW u,
         u = IF Head(box).slot = s THEN Result(Head(box)) ELSE w
  PROVE  /\ Tail(box) \in Seq(MessageType)
         /\ \A v : Ends(w, box, s, v) => Ends(u, Tail(box), s, v)
         /\ Clean(w, box, s) => Clean(u, Tail(box), s)
         /\ Clean(w, box, s) /\ Head(box).slot = s /\ Head(box).command = "open" => w = None
<1>1. PICK t : t = Tail(box)
  OBVIOUS
<1>2. PICK l : l = Len(box)
  OBVIOUS
<1>3. /\ t \in Seq(MessageType) /\ l \in Nat \ {0} /\ Len(t) = l - 1 /\ Head(box) = box[1]
      /\ \A k \in 1 .. l - 1 : t[k] = box[k + 1]
  <2>1. l \in Nat /\ l # 0 /\ Head(box) = box[1]
    BY <1>2, EmptySeq
  <2>2. t \in Seq(MessageType) /\ Len(t) = l - 1
    BY <1>1, <1>2, HeadTailProperties
  <2>3. \A k \in 1 .. l - 1 : t[k] = box[k + 1]
    BY <1>1, <1>2, <2>2
  <2> QED BY <2>1, <2>2, <2>3
<1>4. ASSUME NEW n \in 2 .. l + 1, NEW v, Before(w, box, s, n, v)
      PROVE  Before(u, t, s, n - 1, v)
  <2>1. n \in Nat /\ n <= l + 1
    BY <1>3, <1>4
  <2>2. CASE (\A k \in 1 .. n - 1 : box[k].slot # s) /\ v = w
    <3>1. u = v
      BY <1>3, <2>1, <2>2
    <3>2. \A k \in 1 .. n - 2 : t[k].slot # s
      BY <1>3, <2>1, <2>2
    <3> QED BY <2>1, <3>1, <3>2 DEF Before
  <2>3. CASE \E k \in 1 .. n - 1 : /\ box[k].slot = s /\ v = Result(box[k])
                                   /\ \A j \in k + 1 .. n - 1 : box[j].slot # s
    <3>1. PICK k \in 1 .. n - 1 : /\ box[k].slot = s /\ v = Result(box[k])
                                  /\ \A j \in k + 1 .. n - 1 : box[j].slot # s
      BY <2>3
    <3>2. CASE k = 1
      <4>1. u = v
        BY <1>3, <3>1, <3>2
      <4>2. \A j \in 1 .. n - 2 : t[j].slot # s
        BY <1>3, <2>1, <3>1, <3>2
      <4> QED BY <2>1, <4>1, <4>2 DEF Before
    <3>3. CASE k # 1
      <4>1. k - 1 \in 1 .. n - 2 /\ t[k - 1] = box[k]
        BY <1>3, <2>1, <3>1, <3>3
      <4>2. ASSUME NEW j \in (k - 1) + 1 .. n - 2 PROVE t[j].slot # s
        <5>1. j \in 1 .. l - 1 /\ j + 1 \in k + 1 .. n - 1
          BY <1>3, <2>1, <3>1, <3>3
        <5> QED BY <1>3, <3>1, <5>1
      <4> QED BY <2>1, <3>1, <4>1, <4>2 DEF Before
    <3> QED BY <3>2, <3>3
  <2> QED BY <1>4, <2>2, <2>3 DEF Before
<1>5. \A v : Ends(w, box, s, v) => Ends(u, t, s, v)
  <2> SUFFICES ASSUME NEW v, Ends(w, box, s, v) PROVE Ends(u, t, s, v)
    OBVIOUS
  <2>1. Before(w, box, s, l + 1, v) /\ l + 1 \in 2 .. l + 1
    BY <1>2, <1>3 DEF Ends
  <2>2. Before(u, t, s, (l + 1) - 1, v)
    BY <1>4, <2>1
  <2>3. (l + 1) - 1 = Len(t) + 1
    BY <1>3
  <2> QED BY <2>2, <2>3 DEF Ends
<1>6. ASSUME Clean(w, box, s) PROVE Clean(u, t, s)
  <2> SUFFICES ASSUME NEW n \in 1 .. Len(t), t[n].slot = s, t[n].command = "open"
               PROVE  Before(u, t, s, n, None)
    BY DEF Clean
  <2>1. n + 1 \in 2 .. l + 1 /\ n + 1 \in 1 .. l /\ t[n] = box[n + 1] /\ (n + 1) - 1 = n
    BY <1>3
  <2>2. Before(w, box, s, n + 1, None)
    BY <1>2, <1>6, <2>1 DEF Clean
  <2> QED BY <1>4, <2>1, <2>2
<1>7. ASSUME Clean(w, box, s), box[1].slot = s, box[1].command = "open" PROVE w = None
  <2>1. 1 \in 1 .. Len(box)
    BY <1>2, <1>3
  <2>2. Before(w, box, s, 1, None)
    BY <1>7, <2>1 DEF Clean
  <2> QED BY <2>2 DEF Before
<1> QED BY <1>1, <1>3, <1>5, <1>6, <1>7

(* A message is written. *)
LEMMA BoxWritten ==
  ASSUME NEW box \in Seq(MessageType), NEW s, NEW w, NEW m
  PROVE  /\ \A v : Ends(w, box, s, v) /\ m.slot # s => Ends(w, Append(box, m), s, v)
         /\ m.slot = s => Ends(w, Append(box, m), s, Result(m))
         /\ Clean(w, box, s) /\ (m.slot = s /\ m.command = "open" => Ends(w, box, s, None))
              => Clean(w, Append(box, m), s)
<1>1. PICK b : b = Append(box, m)
  OBVIOUS
<1>2. PICK l : l = Len(box)
  OBVIOUS
<1>3. /\ l \in Nat /\ Len(b) = l + 1 /\ b[l + 1] = m
      /\ \A k \in 1 .. l : b[k] = box[k]
  <2>1. box \in Seq(MessageType \cup {m}) /\ m \in MessageType \cup {m}
    BY SeqMonotonic
  <2> QED BY <1>1, <1>2, <2>1, AppendProperties
<1>4. ASSUME NEW n \in 1 .. l + 1, NEW v, Before(w, box, s, n, v)
      PROVE  Before(w, b, s, n, v)
  <2>1. \A k \in 1 .. n - 1 : b[k] = box[k] /\ k \in Nat
    BY <1>3, <1>4
  <2>2. \A k \in 1 .. n - 1 : \A j \in k + 1 .. n - 1 : j \in 1 .. n - 1
    BY <1>3, <1>4
  <2> QED BY SMTT(30), <1>4, <2>1, <2>2 DEF Before
<1>5. ASSUME NEW v, Ends(w, box, s, v), m.slot # s PROVE Ends(w, b, s, v)
  <2>1. Before(w, box, s, l + 1, v) /\ Len(b) + 1 = l + 2
    BY <1>2, <1>3, <1>5 DEF Ends
  <2>2. Before(w, b, s, l + 1, v)
    BY <1>3, <1>4, <2>1
  <2>3. Before(w, b, s, l + 2, v)
    <3>1. \A j \in 1 .. (l + 2) - 1 : j = l + 1 \/ j \in 1 .. (l + 1) - 1
      BY <1>3
    <3>2. CASE (\A k \in 1 .. (l + 1) - 1 : b[k].slot # s) /\ v = w
      BY <1>3, <1>5, <3>1, <3>2 DEF Before
    <3>3. CASE \E k \in 1 .. (l + 1) - 1 :
                 /\ b[k].slot = s /\ v = Result(b[k])
                 /\ \A j \in k + 1 .. (l + 1) - 1 : b[j].slot # s
      <4>1. PICK k \in 1 .. (l + 1) - 1 :
                 /\ b[k].slot = s /\ v = Result(b[k])
                 /\ \A j \in k + 1 .. (l + 1) - 1 : b[j].slot # s
        BY <3>3
      <4>2. k \in 1 .. (l + 2) - 1
        BY <1>3, <4>1
      <4>3. \A j \in k + 1 .. (l + 2) - 1 : b[j].slot # s
        BY <1>3, <1>5, <4>1
      <4> QED BY <4>1, <4>2, <4>3 DEF Before
    <3> QED BY <2>2, <3>2, <3>3 DEF Before
  <2> QED BY <2>1, <2>3 DEF Ends
<1>6. ASSUME m.slot = s PROVE Ends(w, b, s, Result(m))
  <2>1. l + 1 \in 1 .. (Len(b) + 1) - 1 /\ b[l + 1] = m
        /\ \A j \in (l + 1) + 1 .. (Len(b) + 1) - 1 : b[j].slot # s
    BY <1>3
  <2> QED BY <1>6, <2>1 DEF Ends, Before
<1>7. ASSUME Clean(w, box, s), m.slot = s /\ m.command = "open" => Ends(w, box, s, None)
      PROVE  Clean(w, b, s)
  <2> SUFFICES ASSUME NEW n \in 1 .. Len(b), b[n].slot = s, b[n].command = "open"
               PROVE  Before(w, b, s, n, None)
    BY DEF Clean
  <2>1. Before(w, box, s, n, None)
    <3>1. CASE n = l + 1
      BY <1>2, <1>3, <1>7, <3>1 DEF Ends
    <3>2. CASE n # l + 1
      <4>1. n \in 1 .. l /\ b[n] = box[n]
        BY <1>3, <3>2
      <4> QED BY <1>2, <1>7, <4>1 DEF Clean
    <3> QED BY <3>1, <3>2
  <2>2. n \in 1 .. l + 1
    BY <1>3
  <2> QED BY <1>4, <2>1, <2>2
<1> QED BY <1>1, <1>5, <1>6, <1>7

(* Only slot t leads to q. *)
OneWay(p, f, q, t) == \A n \in Slots : At(f, p[n].channel) = q => n = t

(* ngx_write_channel: who does not run gets nothing. *)
LEMMA SendNone ==
  ASSUME NEW box \in [Pids -> Seq(MessageType)], NEW p, NEW f, NEW S, NEW m,
         NEW q \in Pids, q \notin alive
  PROVE  Send(box, p, f, S, m)[q] = box[q]
BY DEF Send

(* A worker with one slot gets the message once or, if its slot is not     *)
(* written to or the message carries nothing, not at all.                  *)
Once(box, p, f, S, m, q, t) ==
  /\ Send(box, p, f, S, m)[q] \in {box[q], Append(box[q], m)}
  /\ t \in S /\ At(f, p[t].channel) = q /\ (m.command # "open" \/ m.chan # None) =>
       Send(box, p, f, S, m)[q] = Append(box[q], m)

(* So it is, for any message and any slots. *)
LEMMA SendOne ==
  ASSUME NEW box \in [Pids -> Seq(MessageType)], NEW p, NEW f, NEW S \in SUBSET Slots,
         NEW m, NEW q \in Pids, q \in alive, NEW t \in Slots, OneWay(p, f, q, t)
  PROVE  Once(box, p, f, S, m, q, t)
<1> USE DEF Once
<1>0. PICK b : b = Send(box, p, f, S, m)[q]
  OBVIOUS
<1>1. CASE m.command = "open" /\ m.chan = None
  BY <1>1 DEF Send
<1>2. CASE m.command # "open" \/ m.chan # None
  <2>1. PICK D : D = {n \in S : At(f, p[n].channel) = q}
    OBVIOUS
  <2>2. PICK l : l = Cardinality(D)
    OBVIOUS
  <2>3. b = box[q] \o [k \in 1 .. l |-> m]
    BY <1>0, <1>2, <2>1, <2>2 DEF Send
  <2>4. box[q] \in Seq(MessageType \cup {m}) /\ m \in MessageType \cup {m}
    BY SeqMonotonic
  <2>5. CASE t \in S /\ At(f, p[t].channel) = q
    <3>1. D = {t}
      BY <2>1, <2>5 DEF OneWay
    <3>2. l = 1
      BY <2>2, <3>1, FS_Singleton
    <3>3. [k \in 1 .. l |-> m] = <<m>>
      BY <3>2
    <3>4. box[q] \o <<m>> = Append(box[q], m)
      BY <2>4
    <3> QED BY <1>0, <2>3, <3>3, <3>4
  <2>6. CASE ~(t \in S /\ At(f, p[t].channel) = q)
    <3>1. D = {}
      BY <2>1, <2>6 DEF OneWay
    <3>2. l = 0
      BY <2>2, <3>1, FS_EmptySet
    <3>3. [k \in 1 .. l |-> m] = <<>>
      BY <3>2
    <3>4. box[q] \o <<>> = box[q]
      BY <2>4, ConcatEmptySeq
    <3> QED BY <1>0, <2>3, <2>6, <3>3, <3>4
  <2> QED BY <2>5, <2>6
<1> QED BY <1>1, <1>2

(* The slot of a worker that runs, and the only way to it. *)
LEMMA OwnSlot ==
  ASSUME IInv, Births, ~dangling, NEW q \in alive
  PROVE  /\ q \in Pids /\ q # None
         /\ \E t \in Slots :
              /\ proc[t].pid = q /\ ~proc[t].exited /\ proc[t].channel \in Fds
              /\ fd[proc[t].channel] = q
              /\ OneWay(proc, fd, q, t)
<1>1. PICK t \in Slots : proc[t].pid = q
  BY DEF Births
<1>2. q \in Pids /\ q # None
  BY DEF IInv, MoreTypes, Pids, None
<1>3. ~proc[t].exited
  BY <1>1 DEF IInv, Started
<1>4. At(fd, proc[t].channel) = q
  BY <1>1, <1>2, <1>3 DEF IInv, Exact
<1>5. proc[t].channel \in Fds /\ fd[proc[t].channel] = q
  <2>1. proc[t].channel # None
    BY <1>2, <1>4 DEF At
  <2> QED BY <1>4, <2>1 DEF At, IInv, TypeOK
<1>6. OneWay(proc, fd, q, t)
  BY <1>1, <1>2 DEF At, Births, OneWay
<1> QED BY <1>1, <1>2, <1>3, <1>5, <1>6

-----------------------------------------------------------------------------
(* Steps that leave slots and descriptors, and send nothing but the order  *)
(* to quit.                                                                *)
LEMMA MarksAgree ==
  ASSUME IInv, TInv, UNCHANGED <<fd, dangling, together, alive, table, leaked>>,
         \A s \in Slots : proc'[s].pid = proc[s].pid /\ proc'[s].channel = proc[s].channel,
         \A q \in Pids \ alive : inbox'[q] = inbox[q],
         ~dangling => \A q \in alive : \/ inbox'[q] = inbox[q]
                                       \/ \E m : /\ m.slot \notin Slots /\ m.command # "open"
                                                 /\ inbox'[q] = Append(inbox[q], m)
  PROVE  TInv'
<1>1. Births'
  BY DEF TInv, Births
<1>2. ASSUME ~dangling, NEW q \in alive, NEW s \in Slots, NEW x
      PROVE  /\ Ends(table[q][s], inbox[q], s, x) => Ends(table[q][s], inbox'[q], s, x)
             /\ Orderly(table[q][s], inbox[q], s, x) => Orderly(table[q][s], inbox'[q], s, x)
  <2>1. inbox[q] \in Seq(MessageType)
    BY DEF IInv, MoreTypes
  <2>2. CASE inbox'[q] = inbox[q]
    BY <2>2
  <2>3. CASE \E m : m.slot \notin Slots /\ m.command # "open" /\ inbox'[q] = Append(inbox[q], m)
    <3>1. PICK m : m.slot \notin Slots /\ m.command # "open" /\ inbox'[q] = Append(inbox[q], m)
      BY <2>3
    <3>2. m.slot # s
      BY <3>1
    <3>3. /\ \A v : Ends(table[q][s], inbox[q], s, v) =>
                    Ends(table[q][s], Append(inbox[q], m), s, v)
          /\ Clean(table[q][s], inbox[q], s) => Clean(table[q][s], Append(inbox[q], m), s)
      BY <2>1, <3>2, BoxWritten
    <3> QED BY <3>1, <3>3 DEF Orderly
  <2> QED BY <1>2, <2>2, <2>3
<1>3. Agrees'
  <2> SUFFICES ASSUME ~dangling, NEW q \in alive
               PROVE  /\ \A s \in Slots : proc'[s].pid \in alive \ {q} =>
                           Ends(table[q][s], inbox'[q], s, proc'[s].pid)
                      /\ ~together =>
                           /\ leaked[q] = {}
                           /\ \A s \in Slots : Orderly(table[q][s], inbox'[q], s, proc'[s].pid)
    BY DEF Agrees
  <2> QED BY <1>2 DEF TInv, Agrees
<1> QED BY <1>1, <1>3 DEF TInv

(* A death takes nothing from the others. *)
LEMMA DeathAgree ==
  ASSUME IInv, TInv, NEW q \in Pids, Crash(q) \/ Exit(q)
  PROVE  TInv'
<1>1. /\ alive' = alive \ {q} /\ inbox' = [inbox EXCEPT ![q] = <<>>]
      /\ table' = [table EXCEPT ![q] = [s \in Slots |-> None]]
      /\ leaked' = [leaked EXCEPT ![q] = {}]
      /\ UNCHANGED <<proc, fd, dangling, together>>
  BY DEF Crash, Exit, Die, masterVars
<1>2. inbox \in [Pids -> Seq(MessageType)] /\ alive \subseteq Pids
      /\ DOMAIN table = Pids
  BY DEF IInv, MoreTypes, TypeOK
<1>3. leaked \in [Pids -> SUBSET (Pids \cup {None})]
  BY DEF TInv, Births
<1>4. /\ leaked' \in [Pids -> SUBSET (Pids \cup {None})]
      /\ inbox'[q] = <<>> /\ leaked'[q] = {}
      /\ \A r \in Pids \ {q} : /\ inbox'[r] = inbox[r] /\ leaked'[r] = leaked[r]
                               /\ table'[r] = table[r]
  BY <1>1, <1>2, <1>3
<1>5. Births'
  BY <1>1, <1>2, <1>4 DEF TInv, Births
<1>6. Agrees'
  BY <1>1, <1>2, <1>4 DEF TInv, Agrees
<1> QED BY <1>5, <1>6 DEF TInv

(* A worker that reads comes closer to the end and forgets no descriptor.  *)
LEMMA ReadAgree ==
  ASSUME IInv, TInv, NEW q \in Pids, Read(q)
  PROVE  TInv'
<1>1. PICK m : m = Head(inbox[q])
  OBVIOUS
<1>2. /\ inbox \in [Pids -> Seq(MessageType)] /\ alive \subseteq Pids
      /\ table \in [Pids -> [Slots -> Pids \cup {None}]]
      /\ leaked \in [Pids -> SUBSET (Pids \cup {None})]
      /\ q \in alive /\ inbox[q] # <<>> /\ inbox[q] \in Seq(MessageType)
  BY DEF IInv, MoreTypes, TypeOK, TInv, Births, Read
<1>3. m \in MessageType
  BY <1>1, <1>2, HeadTailProperties
<1>4. /\ m.command \in {"open", "close", "quit"} /\ m.chan \in Pids \cup {None}
      /\ m.command # "quit" <=> m.slot \in Slots
  BY <1>3 DEF MessageType
<1>5. /\ table' = CASE m.command = "open" -> [table EXCEPT ![q][m.slot] = m.chan]
                    [] m.command = "close" -> [table EXCEPT ![q][m.slot] = None]
                    [] OTHER -> table
      /\ leaked' = IF m.command = "open" /\ table[q][m.slot] # None
                   THEN [leaked EXCEPT ![q] = @ \cup {table[q][m.slot]}] ELSE leaked
      /\ inbox' = [inbox EXCEPT ![q] = Tail(@)]
      /\ UNCHANGED <<proc, fd, dangling, together, alive>>
  BY <1>1 DEF Read, masterVars
<1>6. /\ \A r \in Pids \ {q} : inbox'[r] = inbox[r] /\ leaked'[r] = leaked[r]
      /\ inbox'[q] = Tail(inbox[q])
      /\ m.command # "open" \/ table[q][m.slot] = None => leaked'[q] = leaked[q]
      /\ leaked' \in [Pids -> SUBSET (Pids \cup {None})]
  <2>1. m.command = "open" => table[q][m.slot] \in Pids \cup {None}
    BY <1>2, <1>4
  <2> QED BY <1>2, <1>5, <2>1
<1>7. /\ \A r \in Pids \ {q} : table'[r] = table[r]
      /\ \A s \in Slots : table'[q][s] = IF m.slot = s THEN Result(m) ELSE table[q][s]
  <2>1. CASE m.command = "open"
    <3>1. table' = [table EXCEPT ![q][m.slot] = m.chan]
      BY <1>5, <2>1
    <3> QED BY <1>2, <1>4, <2>1, <3>1 DEF Result
  <2>2. CASE m.command = "close"
    <3>1. table' = [table EXCEPT ![q][m.slot] = None]
      BY <1>5, <2>2
    <3> QED BY <1>2, <1>4, <2>2, <3>1 DEF Result
  <2>3. CASE m.command = "quit"
    <3>1. table' = table
      BY <1>5, <2>3
    <3> QED BY <1>4, <2>3, <3>1
  <2> QED BY <1>4, <2>1, <2>2, <2>3
<1>8. Births'
  BY <1>2, <1>5, <1>6 DEF TInv, Births
<1>9. ASSUME NEW s \in Slots
      PROVE  /\ \A v : Ends(table[q][s], inbox[q], s, v) => Ends(table'[q][s], inbox'[q], s, v)
             /\ Clean(table[q][s], inbox[q], s) => Clean(table'[q][s], inbox'[q], s)
             /\ Clean(table[q][s], inbox[q], s) /\ m.slot = s /\ m.command = "open" =>
                  table[q][s] = None
  <2>1. PICK w : w = table[q][s]
    OBVIOUS
  <2>2. PICK u : u = table'[q][s]
    OBVIOUS
  <2>3. PICK box : box = inbox[q]
    OBVIOUS
  <2>4. /\ box \in Seq(MessageType) /\ box # <<>> /\ inbox'[q] = Tail(box)
        /\ u = IF Head(box).slot = s THEN Result(Head(box)) ELSE w
    BY <1>1, <1>2, <1>6, <1>7, <2>1, <2>2, <2>3
  <2>5. /\ \A v : Ends(w, box, s, v) => Ends(u, Tail(box), s, v)
        /\ Clean(w, box, s) => Clean(u, Tail(box), s)
        /\ Clean(w, box, s) /\ Head(box).slot = s /\ Head(box).command = "open" => w = None
    BY <2>4, BoxRead
  <2> QED BY <1>1, <2>1, <2>2, <2>3, <2>4, <2>5
<1>10. Agrees'
  <2> SUFFICES ASSUME ~dangling, NEW r \in alive
               PROVE  /\ \A s \in Slots : proc[s].pid \in alive \ {r} =>
                           Ends(table'[r][s], inbox'[r], s, proc[s].pid)
                      /\ ~together =>
                           /\ leaked'[r] = {}
                           /\ \A s \in Slots : Orderly(table'[r][s], inbox'[r], s, proc[s].pid)
    BY <1>5 DEF Agrees
  <2>1. /\ \A s \in Slots : proc[s].pid \in alive \ {r} =>
             Ends(table[r][s], inbox[r], s, proc[s].pid)
        /\ ~together => /\ leaked[r] = {}
                        /\ \A s \in Slots : Orderly(table[r][s], inbox[r], s, proc[s].pid)
    BY DEF TInv, Agrees
  <2>2. CASE r # q
    BY <1>2, <1>6, <1>7, <2>1, <2>2
  <2>3. CASE r = q
    <3>1. ~together => leaked'[q] = {}
      BY <1>4, <1>6, <1>9, <2>1, <2>3 DEF Orderly
    <3> QED BY <1>9, <2>1, <2>3, <3>1 DEF Orderly
  <2> QED BY <2>2, <2>3
<1> QED BY <1>8, <1>10 DEF TInv

-----------------------------------------------------------------------------
(* The death of a child is announced, once, to every worker that runs,     *)
(* with the command left in ch.                                            *)
GoneMessage == Message(ch.command, i, At(GoneFd, ch.fd))

(* The announcement is lost only where it would pass a closed descriptor.  *)
LEMMA GoneTells ==
  ASSUME IInv, Births, ~dangling, step = "reap", proc[i].exited, NEW q \in Pids
  PROVE  /\ q \notin alive => GoneBox[q] = inbox[q]
         /\ q \in alive => \/ GoneBox[q] = Append(inbox[q], GoneMessage)
                           \/ ch.command = "open" /\ GoneBox[q] = inbox[q]
<1>1. PICK m : m = GoneMessage
  OBVIOUS
<1>2. PICK p : p = Gone
  OBVIOUS
<1>3. PICK f : f = GoneFd
  OBVIOUS
<1>4. PICK S : S = Listeners(Gone)
  OBVIOUS
<1>5. PICK b : b = GoneBox[q]
  OBVIOUS
<1>6. /\ b = Send(inbox, p, f, S, m)[q] /\ S \in SUBSET Slots
      /\ inbox \in [Pids -> Seq(MessageType)] /\ m.command = ch.command
  BY <1>1, <1>2, <1>3, <1>4, <1>5
     DEF GoneBox, GoneMessage, Message, Listeners, IInv, MoreTypes
<1>7. q \notin alive => b = inbox[q]
  BY <1>6, SendNone
<1>8. ASSUME q \in alive
      PROVE  b = Append(inbox[q], m) \/ (ch.command = "open" /\ b = inbox[q])
  <2>1. q # None
    BY <1>8, OwnSlot
  <2>2. PICK t \in Slots :
          /\ proc[t].pid = q /\ ~proc[t].exited /\ proc[t].channel \in Fds
          /\ fd[proc[t].channel] = q
          /\ OneWay(proc, fd, q, t)
    BY <1>8, OwnSlot
  <2>3. i \in Slots /\ TypeOK /\ Known /\ t # i /\ None \notin Fds
    BY <2>2 DEF IInv, MoreTypes, Fds, None
  <2>4. /\ p[i].channel = None /\ \A s \in Slots : s # i => p[s] = proc[s]
    BY <1>2, <2>3, GoneSlots
  <2>5. /\ \A e \in Fds : f[e] # None => f[e] = fd[e]
        /\ \A e \in Fds : e # proc[i].channel => f[e] = fd[e]
    BY <1>3, <2>3, FreeNumber
  <2>6. proc[t].channel # proc[i].channel
    BY <2>2, <2>3 DEF IInv, Exact
  <2>7. At(f, p[t].channel) = q
    BY <2>2, <2>3, <2>4, <2>5, <2>6 DEF At
  <2>8. ASSUME NEW n \in Slots, At(f, p[n].channel) = q PROVE n = t
    <3>1. n # i
      BY <2>1, <2>4, <2>8 DEF At
    <3>2. p[n] = proc[n] /\ proc[n].channel \in Fds
      BY <2>1, <2>3, <2>4, <2>8, <3>1 DEF At, TypeOK
    <3>3. At(fd, proc[n].channel) = q
      BY <2>1, <2>3, <2>5, <2>8, <3>2 DEF At
    <3> QED BY <2>2, <3>3 DEF OneWay
  <2>9. t \in S
    BY <1>2, <1>4, <2>1, <2>2, <2>3, <2>4 DEF Listeners
  <2>10. /\ b \in {inbox[q], Append(inbox[q], m)}
         /\ m.command # "open" \/ m.chan # None => b = Append(inbox[q], m)
    <3>1. OneWay(p, f, q, t)
      BY <2>8 DEF OneWay
    <3>2. Once(inbox, p, f, S, m, q, t)
      BY <1>6, <1>8, <3>1, SendOne
    <3> QED BY <1>6, <2>7, <2>9, <3>2 DEF Once
  <2> QED BY <1>6, <2>10
<1> QED BY <1>1, <1>5, <1>7, <1>8

(* What this does to the end of a worker's channel. *)
LEMMA GoneAgrees ==
  ASSUME IInv, Births, ~dangling, step = "reap", proc[i].exited, NEW q \in alive,
         NEW s \in Slots, NEW w, NEW b, b = GoneBox[q]
  PROVE  /\ b \in Seq(MessageType)
         /\ s # i => /\ \A v : Ends(w, inbox[q], s, v) => Ends(w, b, s, v)
                     /\ Clean(w, inbox[q], s) => Clean(w, b, s)
         /\ s = i /\ ch.command = "close" => /\ Ends(w, b, s, None)
                                             /\ Clean(w, inbox[q], s) => Clean(w, b, s)
<1>1. PICK m : m = GoneMessage
  OBVIOUS
<1>2. PICK box : box = inbox[q]
  OBVIOUS
<1>3. q \in Pids /\ box \in Seq(MessageType) /\ b \in Seq(MessageType)
  BY <1>2, GoneTold DEF IInv, MoreTypes
<1>4. m.slot = i /\ m.command = ch.command
  BY <1>1 DEF GoneMessage, Message
<1>5. b = Append(box, m) \/ (ch.command = "open" /\ b = box)
  BY <1>1, <1>2, <1>3, GoneTells
<1>6. CASE b = box /\ ch.command = "open"
  BY <1>2, <1>3, <1>6
<1>7. CASE b = Append(box, m)
  <2>1. /\ \A v : Ends(w, box, s, v) /\ m.slot # s => Ends(w, b, s, v)
        /\ m.slot = s => Ends(w, b, s, Result(m))
        /\ Clean(w, box, s) /\ (m.slot = s /\ m.command = "open" => Ends(w, box, s, None))
             => Clean(w, b, s)
    BY <1>3, <1>7, BoxWritten
  <2>2. m.command = "close" => Result(m) = None
    BY DEF Result
  <2> QED BY <1>2, <1>3, <1>4, <2>1, <2>2
<1> QED BY <1>5, <1>6, <1>7

(* After the first respawn of a pass the promise about leaks is given up.  *)
LEMMA StillApart ==
  ASSUME ReapedTogether, ~together'
  PROVE  ~together /\ ch.command = "close"
BY Zenon DEF ReapedTogether

(* A child is reaped and its slot left empty, or to be respawned later.    *)
LEMMA EmptiedAgree ==
  ASSUME IInv, TInv, step = "reap", proc[i].exited, NEW x \in SlotType,
         proc' = [proc EXCEPT ![i] = x], fd' = GoneFd, inbox' = GoneBox, ReapedTogether,
         UNCHANGED <<alive, table, leaked>>, dangling => dangling',
         x.channel = None \/ dangling', x.pid \in {None, proc[i].pid}
  PROVE  TInv'
<1>1. /\ i \in Slots /\ TypeOK /\ Known /\ proc \in [Slots -> SlotType] /\ alive \subseteq Pids
      /\ proc[i].pid \notin alive /\ None \notin Pids /\ None \notin Fds /\ Births
  BY DEF IInv, MoreTypes, TypeOK, SlotType, Started, TInv, Pids, Fds, None
<1>2. proc'[i] = x /\ \A s \in Slots : s # i => proc'[s] = proc[s]
  BY <1>1
<1>3. Births'
  <2>1. ~dangling' => \A s \in Slots : proc'[s].channel # None =>
                                         fd'[proc'[s].channel] = proc'[s].pid
    <3> SUFFICES ASSUME ~dangling', NEW s \in Slots, proc'[s].channel # None
                 PROVE  fd'[proc'[s].channel] = proc'[s].pid
      OBVIOUS
    <3>1. s # i /\ proc'[s] = proc[s] /\ ~dangling
      BY <1>2
    <3>2. proc[s].channel \in Fds /\ proc[s].channel # proc[i].channel
      BY <1>1, <3>1 DEF IInv, Exact, SlotType
    <3>3. GoneFd[proc[s].channel] = fd[proc[s].channel]
      BY <1>1, <3>2, FreeNumber
    <3> QED BY <1>1, <3>1, <3>3 DEF Births
  <2>2. inbox \in [Pids -> Seq(MessageType)]
    BY DEF IInv, MoreTypes
  <2>3. \A q \in Pids \ alive : inbox'[q] = inbox[q]
    BY <2>2, SendNone DEF GoneBox
  <2>4. \A q \in alive : \E s \in Slots : proc'[s].pid = q
    BY <1>1, <1>2 DEF Births
  <2>5. \A s, t \in Slots : proc'[s].pid = proc'[t].pid /\ s # t => proc'[s].pid = None
    BY <1>1, <1>2 DEF Births
  <2> QED BY <1>1, <2>1, <2>3, <2>4, <2>5 DEF Births
<1>4. Agrees'
  <2> SUFFICES ASSUME ~dangling', NEW q \in alive
               PROVE  /\ \A s \in Slots : proc'[s].pid \in alive \ {q} =>
                           Ends(table[q][s], inbox'[q], s, proc'[s].pid)
                      /\ ~together' =>
                           /\ leaked[q] = {}
                           /\ \A s \in Slots : Orderly(table[q][s], inbox'[q], s, proc'[s].pid)
    BY DEF Agrees
  <2>1. ~dangling
    OBVIOUS
  <2>2. /\ \A s \in Slots : proc[s].pid \in alive \ {q} =>
             Ends(table[q][s], inbox[q], s, proc[s].pid)
        /\ ~together => /\ leaked[q] = {}
                        /\ \A s \in Slots : Orderly(table[q][s], inbox[q], s, proc[s].pid)
    BY <2>1 DEF TInv, Agrees
  <2>3. ASSUME NEW s \in Slots
        PROVE  /\ s # i => /\ \A v : Ends(table[q][s], inbox[q], s, v) =>
                                     Ends(table[q][s], inbox'[q], s, v)
                           /\ Clean(table[q][s], inbox[q], s) => Clean(table[q][s], inbox'[q], s)
               /\ s = i /\ ch.command = "close" =>
                    /\ Ends(table[q][s], inbox'[q], s, None)
                    /\ Clean(table[q][s], inbox[q], s) => Clean(table[q][s], inbox'[q], s)
    BY <1>1, <2>1, GoneAgrees
  <2>4. ASSUME NEW s \in Slots, proc'[s].pid \in alive \ {q}
        PROVE  Ends(table[q][s], inbox'[q], s, proc'[s].pid)
    <3>1. s # i
      BY <1>1, <1>2, <2>4
    <3> QED BY <1>2, <2>2, <2>3, <2>4, <3>1
  <2>5. ASSUME ~together'
        PROVE  /\ leaked[q] = {}
               /\ \A s \in Slots : Orderly(table[q][s], inbox'[q], s, proc'[s].pid)
    <3>1. ~together /\ ch.command = "close"
      BY <2>5, StillApart
    <3> QED BY <1>2, <2>2, <2>3, <3>1 DEF Orderly
  <2> QED BY <2>4, <2>5
<1> QED BY <1>3, <1>4 DEF TInv

(* ReapEnds, ReapFails *)
LEMMA ReapEndsAgree ==
  ASSUME IInv, TInv, ReapEnds \/ ReapFails
  PROVE  TInv'
<1> DEFINE d == Min({e \in Fds : GoneFd[e] = None})
           g == [proc[i] EXCEPT !.channel = None]
           g1 == [g EXCEPT !.pid = None]
           x == [g1 EXCEPT !.exited = FALSE]
           y == [g EXCEPT !.channel = d]
<1>1. step = "reap" /\ proc[i].exited
  BY DEF ReapEnds, ReapFails, Respawns
<1>2. i \in Slots /\ proc \in [Slots -> SlotType] /\ TypeOK /\ Known
  BY <1>1 DEF IInv, MoreTypes, TypeOK, SlotType
<1>3. g \in SlotType /\ g.channel = None /\ g.pid = proc[i].pid
  BY <1>2 DEF SlotType
<1>4. g1 \in SlotType /\ g1.channel = None /\ g1.pid = None
  <2> HIDE DEF g
  <2> QED BY <1>3 DEF SlotType
<1>5. x \in SlotType /\ x.channel = None /\ x.pid = None
  <2> HIDE DEF g1
  <2> QED BY <1>4 DEF SlotType
<1>6. d \in Fds
  BY <1>2, FreeNumber
<1>7. y \in SlotType /\ y.pid = proc[i].pid
  <2> HIDE DEF g, d
  <2> QED BY <1>3, <1>6 DEF SlotType
<1>8. /\ fd' = GoneFd /\ inbox' = GoneBox /\ ReapedTogether
      /\ UNCHANGED <<alive, table, leaked>> /\ (dangling => dangling')
  BY DEF ReapEnds, ReapFails
<1>9. CASE ReapEnds
  <2>1. proc' = [proc EXCEPT ![i] = x]
    BY <1>2, <1>9, GoneSlots DEF ReapEnds
  <2> HIDE DEF x
  <2> QED BY <1>1, <1>5, <1>8, <2>1, EmptiedAgree
<1>10. CASE ReapFails /\ proc' = Gone
  <2>1. proc' = [proc EXCEPT ![i] = g]
    BY <1>2, <1>10, GoneSlots
  <2> HIDE DEF g
  <2> QED BY <1>1, <1>3, <1>8, <2>1, EmptiedAgree
<1>11. CASE proc' = [Gone EXCEPT ![i].channel = d] /\ dangling' = TRUE
  <2>1. proc' = [proc EXCEPT ![i] = y]
    BY <1>2, <1>11, GoneSlots
  <2> HIDE DEF y
  <2> QED BY <1>1, <1>7, <1>8, <1>11, <2>1, EmptiedAgree
<1> QED BY <1>9, <1>10, <1>11 DEF ReapFails

(* ReapRespawns, step by step: the new worker's slot and descriptor. *)
Reborn(d, q, f, p, S) ==
  /\ q = last + 1 /\ q \in Pids /\ q \notin alive /\ q # None
  /\ d \in Fds /\ GoneFd[d] = None
  /\ f \in [Fds -> Pids \cup {None}] /\ f[d] = q
  /\ \A e \in Fds : e # d => f[e] = GoneFd[e]
  /\ p[i].pid = q /\ p[i].channel = d
  /\ \A s \in Slots : s # i => p[s] = proc[s]
  /\ S = {n \in Slots \ {i} : p[n].pid # None /\ p[n].channel # None}
  /\ proc' = p /\ fd' = f /\ alive' = alive \cup {q}
  /\ inbox' = Send(GoneBox, p, f, S, Message("open", i, q))
  /\ table' = [table EXCEPT ![q] = [s \in Slots |-> IF s = i THEN None ELSE At(f, p[s].channel)]]
  /\ UNCHANGED <<dangling, leaked>>
  /\ ReapedTogether
  /\ step = "reap" /\ proc[i].exited /\ i \in Slots

(* They are what the action says. *)
LEMMA RespawnReborn ==
  ASSUME IInv, ReapRespawns
  PROVE  \E d, q, f, p, S : Reborn(d, q, f, p, S)
<1>1. PICK d : d = Min({e \in Fds : GoneFd[e] = None})
  OBVIOUS
<1>2. PICK q : q = last + 1
  OBVIOUS
<1>3. PICK f : f = [GoneFd EXCEPT ![d] = q]
  OBVIOUS
<1>4. PICK p : p = [Gone EXCEPT ![i].pid = q, ![i].channel = d, ![i].exited = FALSE]
  OBVIOUS
<1>5. PICK S : S = {n \in Slots \ {i} : p[n].pid # None /\ p[n].channel # None}
  OBVIOUS
<1>6. step = "reap" /\ proc[i].exited /\ ~quit
  BY DEF ReapRespawns, Respawns
<1>7. i \in Slots /\ TypeOK /\ Known
  BY <1>6 DEF IInv, MoreTypes
<1>8. /\ q \in Pids /\ last \in Nat /\ q # None
      /\ GoneFd \in [Fds -> Pids \cup {None}] /\ d \in Fds /\ GoneFd[d] = None
  BY <1>1, <1>2, <1>6, <1>7, NextPid, FreeNumber
<1>9. q \notin alive
  BY <1>2, <1>8 DEF IInv, Started
<1>10. /\ f \in [Fds -> Pids \cup {None}] /\ f[d] = q
       /\ \A e \in Fds : e # d => f[e] = GoneFd[e]
  BY <1>3, <1>8
<1>11. p[i].pid = q /\ p[i].channel = d /\ \A s \in Slots : s # i => p[s] = proc[s]
  <2>1. /\ Gone \in [Slots -> SlotType] /\ \A s \in Slots : s # i => Gone[s] = proc[s]
    BY <1>7, GoneSlots
  <2>2. PICK g : g = Gone
    OBVIOUS
  <2>3. g \in [Slots -> SlotType] /\ p = [g EXCEPT ![i].pid = q, ![i].channel = d, ![i].exited = FALSE]
    BY <1>4, <2>1, <2>2
  <2>4. p[i].pid = q /\ p[i].channel = d /\ \A s \in Slots : s # i => p[s] = g[s]
    BY <1>7, <2>3 DEF SlotType
  <2> QED BY <2>1, <2>2, <2>4
<1>12. /\ proc' = p /\ fd' = f /\ alive' = alive \cup {q}
       /\ inbox' = Send(GoneBox, p, f, S, Message("open", i, q))
       /\ table' = [table EXCEPT ![q] = [s \in Slots |->
                                           IF s = i THEN None ELSE At(f, p[s].channel)]]
       /\ UNCHANGED <<dangling, leaked>> /\ ReapedTogether
  <2> DEFINE d0 == Min({e \in Fds : GoneFd[e] = None})
             q0 == last + 1
             f0 == [GoneFd EXCEPT ![d0] = q0]
             p0 == [Gone EXCEPT ![i].pid = q0, ![i].channel = d0, ![i].exited = FALSE]
             S0 == {n \in Slots \ {i} : p0[n].pid # None /\ p0[n].channel # None}
  <2>1. /\ proc' = p0 /\ fd' = f0 /\ alive' = alive \cup {q0}
        /\ inbox' = Send(GoneBox, p0, f0, S0, Message("open", i, q0))
        /\ table' = [table EXCEPT ![q0] = [s \in Slots |->
                                            IF s = i THEN None ELSE At(f0, p0[s].channel)]]
        /\ UNCHANGED <<dangling, leaked>> /\ ReapedTogether
    BY Zenon DEF ReapRespawns
  <2>2. d = d0 /\ q = q0
    BY <1>1, <1>2
  <2> HIDE DEF d0, q0
  <2>3. f = f0 /\ p = p0
    BY <1>3, <1>4, <2>2
  <2> HIDE DEF f0, p0
  <2>4. S = S0
    BY <1>5, <2>3
  <2> HIDE DEF S0
  <2> QED BY <2>1, <2>2, <2>3, <2>4, Zenon
<1>13. Reborn(d, q, f, p, S)
  BY <1>2, <1>5, <1>6, <1>7, <1>8, <1>9, <1>10, <1>11, <1>12 DEF Reborn
<1> QED BY <1>13

(* The new descriptor is one nobody has. *)
LEMMA OldDescriptors ==
  ASSUME IInv, TInv, ~dangling, NEW d, NEW q, NEW f, NEW p, NEW S, Reborn(d, q, f, p, S),
         NEW s \in Slots, s # i
  PROVE  At(f, p[s].channel) = At(fd, proc[s].channel)
<1>1. i \in Slots /\ TypeOK /\ Known /\ p[s] = proc[s] /\ proc[s].channel \in Fds \cup {None}
  BY DEF IInv, Reborn, TypeOK
<1>2. ASSUME proc[s].channel # None
      PROVE  f[proc[s].channel] = fd[proc[s].channel]
  <2>1. proc[s].channel # proc[i].channel /\ fd[proc[s].channel] # None
    BY <1>1, <1>2 DEF IInv, Exact
  <2>2. GoneFd[proc[s].channel] = fd[proc[s].channel]
    BY <1>1, <1>2, <2>1, FreeNumber
  <2> QED BY <1>1, <1>2, <2>1, <2>2 DEF Reborn
<1> QED BY <1>1, <1>2 DEF At

(* The others hear of the new worker, after they have heard of the death.  *)
LEMMA RebornTells ==
  ASSUME IInv, TInv, ~dangling, NEW d, NEW q, NEW f, NEW p, NEW S, Reborn(d, q, f, p, S)
  PROVE  /\ \A r \in Pids \ alive : inbox'[r] = inbox[r]
         /\ \A r \in alive : inbox'[r] = Append(GoneBox[r], Message("open", i, q))
<1>1. PICK m : m = Message("open", i, q)
  OBVIOUS
<1>2. PICK box : box = GoneBox
  OBVIOUS
<1>3. /\ inbox' = Send(box, p, f, S, m) /\ S \in SUBSET Slots /\ m.chan # None
      /\ step = "reap" /\ proc[i].exited /\ Births /\ alive \subseteq Pids
  BY <1>1, <1>2 DEF Reborn, TInv, Message, IInv, MoreTypes
<1>4. box \in [Pids -> Seq(MessageType)]
  BY <1>2, <1>3, GoneTold
<1>5. ASSUME NEW r \in Pids \ alive PROVE inbox'[r] = inbox[r]
  <2>1. GoneBox[r] = inbox[r]
    BY <1>3, <1>5, GoneTells
  <2>2. Send(box, p, f, S, m)[r] = box[r]
    BY <1>4, <1>5, SendNone
  <2> QED BY <1>2, <1>3, <2>1, <2>2
<1>6. ASSUME NEW r \in alive PROVE inbox'[r] = Append(box[r], m)
  <2>1. PICK t \in Slots :
          /\ proc[t].pid = r /\ ~proc[t].exited /\ proc[t].channel \in Fds
          /\ fd[proc[t].channel] = r
          /\ OneWay(proc, fd, r, t)
    BY <1>3, <1>6, OwnSlot
  <2>2. t # i /\ None \notin Fds /\ r # None /\ r \in Pids
    BY <1>3, <1>6, <2>1 DEF Fds, None, Pids
  <2>3. At(f, p[t].channel) = r /\ t \in S
    <3>1. At(f, p[t].channel) = At(fd, proc[t].channel)
      BY <2>2, OldDescriptors
    <3> QED BY <2>1, <2>2, <3>1 DEF At, Reborn
  <2>4. OneWay(p, f, r, t)
    <3> SUFFICES ASSUME NEW n \in Slots, At(f, p[n].channel) = r PROVE n = t
      BY DEF OneWay
    <3>1. n # i
      BY <1>6, <2>2 DEF Reborn, At, Fds, None
    <3>2. At(fd, proc[n].channel) = r
      BY <3>1, OldDescriptors
    <3> QED BY <2>1, <3>2 DEF OneWay
  <2>5. Once(box, p, f, S, m, r, t)
    BY <1>3, <1>4, <1>6, <2>2, <2>4, SendOne
  <2> QED BY <1>3, <2>3, <2>5 DEF Once
<1> QED BY <1>1, <1>2, <1>5, <1>6

(* Who has nothing to read has come to the end. *)
LEMMA BoxEmpty ==
  ASSUME NEW s, NEW w
  PROVE  /\ \A v : Ends(w, <<>>, s, v) <=> v = w
         /\ Clean(w, <<>>, s)
<1>1. Len(<<>>) = 0
  OBVIOUS
<1>2. \A v : Ends(w, <<>>, s, v) <=> v = w
  BY <1>1 DEF Ends, Before
<1>3. Clean(w, <<>>, s)
  BY <1>1 DEF Clean
<1> QED BY <1>2, <1>3

(* The new worker is in no other slot. *)
LEMMA RebornBirths ==
  ASSUME IInv, TInv, NEW d, NEW q, NEW f, NEW p, NEW S, Reborn(d, q, f, p, S)
  PROVE  Births'
<1>1. /\ i \in Slots /\ alive \subseteq Pids /\ inbox \in [Pids -> Seq(MessageType)]
      /\ proc[i].pid \notin alive /\ Births /\ step = "reap" /\ proc[i].exited
  BY DEF IInv, MoreTypes, Started, TInv, Reborn
<1>2. /\ proc' = p /\ fd' = f /\ alive' = alive \cup {q} /\ q \in Pids /\ q # None
      /\ dangling' = dangling /\ leaked' = leaked
      /\ inbox' = Send(GoneBox, p, f, S, Message("open", i, q))
      /\ p[i].pid = q /\ p[i].channel = d /\ f[d] = q
      /\ \A s \in Slots : s # i => p[s] = proc[s]
  BY DEF Reborn
<1>3. \A s \in Slots : proc[s].pid # q
  <2>1. q = last + 1 /\ last \in Nat
    BY DEF IInv, MoreTypes, Pids, Reborn
  <2>2. \A s \in Slots : proc[s].pid <= last
    BY DEF IInv, Started
  <2> QED BY <2>1, <2>2
<1>4. \A r \in Pids \ alive : inbox'[r] = inbox[r]
  <2> SUFFICES ASSUME NEW r \in Pids \ alive PROVE inbox'[r] = inbox[r]
    OBVIOUS
  <2>1. PICK box : box = GoneBox
    OBVIOUS
  <2>2. box \in [Pids -> Seq(MessageType)]
    BY <1>1, <2>1, GoneTold
  <2>3. box[r] = inbox[r]
    BY <1>1, <2>1, SendNone DEF GoneBox
  <2>4. PICK m : m = Message("open", i, q)
    OBVIOUS
  <2>5. Send(box, p, f, S, m)[r] = box[r]
    BY <2>2, SendNone
  <2> QED BY <1>2, <2>1, <2>3, <2>4, <2>5
<1>5. \A r \in alive' : \E s \in Slots : p[s].pid = r
  BY SMTT(30), <1>1, <1>2 DEF Births
<1>6. \A s, t \in Slots : p[s].pid = p[t].pid /\ s # t => p[s].pid = None
  BY <1>1, <1>2, <1>3 DEF Births
<1>7. ASSUME ~dangling, NEW s \in Slots, p[s].channel # None
      PROVE  f[p[s].channel] = p[s].pid
  <2>1. CASE s = i
    BY <1>2, <2>1
  <2>2. CASE s # i
    <3>1. At(f, p[s].channel) = At(fd, proc[s].channel)
      BY <1>7, <2>2, OldDescriptors
    <3> QED BY <1>1, <1>2, <1>7, <2>2, <3>1 DEF At, Births
  <2> QED BY <2>1, <2>2
<1>8. \A r \in Pids \ alive' : inbox'[r] = <<>> /\ leaked'[r] = {}
  BY <1>1, <1>2, <1>4 DEF Births
<1>9. leaked' \in [Pids -> SUBSET (Pids \cup {None})]
  BY <1>1, <1>2 DEF Births
<1> QED BY <1>2, <1>5, <1>6, <1>7, <1>8, <1>9 DEF Births

(* The others: close, then open. *)
LEMMA RebornOthers ==
  ASSUME IInv, TInv, ~dangling, NEW d, NEW q, NEW f, NEW p, NEW S, Reborn(d, q, f, p, S),
         NEW r \in alive, NEW s \in Slots
  PROVE  /\ p[s].pid \in (alive \cup {q}) \ {r} => Ends(table[r][s], inbox'[r], s, p[s].pid)
         /\ ~together' => /\ leaked[r] = {}
                          /\ Orderly(table[r][s], inbox'[r], s, p[s].pid)
<1>1. /\ Births /\ step = "reap" /\ proc[i].exited /\ i \in Slots /\ p[i].pid = q
      /\ (s # i => p[s] = proc[s]) /\ ReapedTogether
  BY DEF TInv, Reborn
<1>2. PICK b : b = GoneBox[r]
  OBVIOUS
<1>3. PICK m : m = Message("open", i, q)
  OBVIOUS
<1>4. PICK w : w = table[r][s]
  OBVIOUS
<1>5. m.slot = i /\ m.command = "open" /\ Result(m) = q
  BY <1>3 DEF Message, Result
<1>6. PICK c : c = Append(b, m)
  OBVIOUS
<1>7. inbox'[r] = c
  BY <1>2, <1>3, <1>6, RebornTells
<1>8. /\ b \in Seq(MessageType)
      /\ s # i => /\ \A v : Ends(w, inbox[r], s, v) => Ends(w, b, s, v)
                  /\ Clean(w, inbox[r], s) => Clean(w, b, s)
      /\ s = i /\ ch.command = "close" => /\ Ends(w, b, s, None)
                                          /\ Clean(w, inbox[r], s) => Clean(w, b, s)
  BY <1>1, <1>2, GoneAgrees
<1>9. /\ \A v : Ends(w, b, s, v) /\ m.slot # s => Ends(w, c, s, v)
      /\ m.slot = s => Ends(w, c, s, Result(m))
      /\ Clean(w, b, s) /\ (m.slot = s /\ m.command = "open" => Ends(w, b, s, None))
           => Clean(w, c, s)
  BY <1>6, <1>8, BoxWritten
<1>10. /\ proc[s].pid \in alive \ {r} => Ends(w, inbox[r], s, proc[s].pid)
       /\ ~together => leaked[r] = {} /\ Orderly(w, inbox[r], s, proc[s].pid)
  BY <1>4 DEF TInv, Agrees
<1>11. proc[s].pid # q
  BY DEF IInv, MoreTypes, Started, Reborn, Pids
<1>12. ASSUME p[s].pid \in (alive \cup {q}) \ {r} PROVE Ends(w, c, s, p[s].pid)
  <2>1. CASE s = i
    BY <1>1, <1>5, <1>9, <2>1
  <2>2. CASE s # i
    BY <1>1, <1>5, <1>8, <1>9, <1>10, <1>11, <1>12, <2>2
  <2> QED BY <2>1, <2>2
<1>13. ASSUME ~together' PROVE leaked[r] = {} /\ Orderly(w, c, s, p[s].pid)
  <2>1. ~together /\ ch.command = "close"
    BY <1>1, <1>13, StillApart
  <2>2. leaked[r] = {} /\ Orderly(w, inbox[r], s, proc[s].pid)
    BY <1>10, <2>1
  <2>3. CASE s = i
    BY <1>1, <1>5, <1>8, <1>9, <2>1, <2>2, <2>3 DEF Orderly
  <2>4. CASE s # i
    BY <1>1, <1>5, <1>8, <1>9, <2>2, <2>4 DEF Orderly
  <2> QED BY <2>2, <2>3, <2>4
<1> QED BY <1>4, <1>7, <1>12, <1>13

(* The new worker: it has the master's table. *)
LEMMA RebornItself ==
  ASSUME IInv, TInv, ~dangling, NEW d, NEW q, NEW f, NEW p, NEW S, Reborn(d, q, f, p, S),
         NEW s \in Slots
  PROVE  /\ inbox'[q] = <<>> /\ leaked[q] = {}
         /\ p[s].pid \in (alive \cup {q}) \ {q} => table'[q][s] = p[s].pid
         /\ table'[q][s] \in {None, p[s].pid}
<1>1. /\ q \in Pids \ alive /\ i \in Slots /\ Births /\ DOMAIN table = Pids /\ None \notin Pids
      /\ (s # i => p[s] = proc[s]) /\ alive \subseteq Pids
      /\ table' = [table EXCEPT ![q] =
                     [n \in Slots |-> IF n = i THEN None ELSE At(f, p[n].channel)]]
      /\ p[i].pid = q
  BY DEF TInv, Reborn, IInv, TypeOK, MoreTypes, Pids, None
<1>2. inbox'[q] = <<>> /\ leaked[q] = {}
  BY <1>1, RebornTells DEF Births
<1>3. table'[q][s] = IF s = i THEN None ELSE At(f, p[s].channel)
  BY <1>1
<1>4. CASE s = i
  BY <1>1, <1>2, <1>3, <1>4
<1>5. CASE s # i
  <2>1. table'[q][s] = At(fd, proc[s].channel)
    BY <1>3, <1>5, OldDescriptors
  <2>2. At(fd, proc[s].channel) \in {None, proc[s].pid}
    BY <1>1 DEF At, Births
  <2>3. proc[s].pid \in alive => At(fd, proc[s].channel) = proc[s].pid
    BY <1>1 DEF IInv, Started, Exact
  <2> QED BY <1>1, <1>2, <1>5, <2>1, <2>2, <2>3
<1> QED BY <1>4, <1>5

(* ReapRespawns *)
LEMMA RespawnAgree ==
  ASSUME IInv, TInv, ReapRespawns
  PROVE  TInv'
<1>1. \E d, q, f, p, S : Reborn(d, q, f, p, S)
  BY RespawnReborn
<1>2. PICK d, q, f, p, S : Reborn(d, q, f, p, S)
  BY <1>1
<1>3. Births'
  BY <1>2, RebornBirths
<1>4. /\ proc' = p /\ alive' = alive \cup {q} /\ dangling' = dangling /\ leaked' = leaked
      /\ q \in Pids \ alive /\ alive \subseteq Pids /\ DOMAIN table = Pids
      /\ \A r \in Pids : r # q => table'[r] = table[r]
  BY <1>2 DEF Reborn, IInv, TypeOK, MoreTypes
<1>5. Agrees'
  <2> SUFFICES ASSUME ~dangling, NEW r \in alive \cup {q}, NEW s \in Slots
               PROVE  /\ p[s].pid \in (alive \cup {q}) \ {r} =>
                           Ends(table'[r][s], inbox'[r], s, p[s].pid)
                      /\ ~together' =>
                           /\ leaked[r] = {}
                           /\ Orderly(table'[r][s], inbox'[r], s, p[s].pid)
    <3>1. \A r \in alive \cup {q} : leaked[r] = {} <=> leaked'[r] = {}
      BY <1>4
    <3>2. \E s \in Slots : TRUE
      BY <1>2 DEF Reborn
    <3> QED BY <1>4, <3>2 DEF Agrees
  <2>1. CASE r = q
    <3>1. PICK w : w = table'[q][s]
      OBVIOUS
    <3>2. /\ inbox'[q] = <<>> /\ leaked[q] = {} /\ w \in {None, p[s].pid}
          /\ p[s].pid \in (alive \cup {q}) \ {q} => w = p[s].pid
      BY <1>2, <3>1, RebornItself
    <3>3. (\A v : Ends(w, <<>>, s, v) <=> v = w) /\ Clean(w, <<>>, s)
      BY BoxEmpty
    <3> QED BY <2>1, <3>1, <3>2, <3>3 DEF Orderly
  <2>2. CASE r # q
    <3>1. r \in alive /\ table'[r] = table[r]
      BY <1>4, <2>2
    <3> QED BY <1>2, <3>1, RebornOthers
  <2> QED BY <2>1, <2>2
<1> QED BY <1>3, <1>5 DEF TInv

(* Signal: the order to quit is about no slot. *)
LEMMA SignalAgree ==
  ASSUME IInv, TInv, Signal
  PROVE  TInv'
<1>1. PICK m : m = Message("quit", None, None)
  OBVIOUS
<1>2. PICK S : S = ByChannel
  OBVIOUS
<1>3. /\ inbox' = Send(inbox, proc, fd, S, m) /\ S \in SUBSET Slots
      /\ m.slot \notin Slots /\ m.command # "open"
      /\ inbox \in [Pids -> Seq(MessageType)] /\ alive \subseteq Pids
  BY <1>1, <1>2 DEF Signal, ByChannel, Untold, Message, Slots, None, IInv, MoreTypes
<1>4. \A q \in Pids \ alive : inbox'[q] = inbox[q]
  BY <1>3, SendNone
<1>5. ASSUME ~dangling, NEW q \in alive
      PROVE  inbox'[q] = inbox[q] \/ inbox'[q] = Append(inbox[q], m)
  <2>1. PICK t \in Slots : OneWay(proc, fd, q, t)
    BY <1>5, OwnSlot DEF TInv
  <2>2. Once(inbox, proc, fd, S, m, q, t)
    BY <1>3, <1>5, <2>1, SendOne
  <2> QED BY <1>3, <2>2 DEF Once
<1>6. ~dangling => \A q \in alive : \/ inbox'[q] = inbox[q]
                                    \/ \E n : /\ n.slot \notin Slots /\ n.command # "open"
                                              /\ inbox'[q] = Append(inbox[q], n)
  BY <1>3, <1>5
<1>7. \A s \in Slots : proc'[s].pid = proc[s].pid /\ proc'[s].channel = proc[s].channel
  <2>1. proc \in [Slots -> [pid : Pids \cup {None}, channel : Fds \cup {None},
                            exited : BOOLEAN, exiting : BOOLEAN]]
    BY DEF IInv, TypeOK
  <2> QED BY <2>1 DEF Signal
<1>8. UNCHANGED <<fd, dangling, together, alive, table, leaked>>
  BY DEF Signal
<1> QED BY <1>4, <1>6, <1>7, <1>8, MarksAgree

(* Wake marks the dead. *)
LEMMA WakeAgree ==
  ASSUME IInv, TInv, Wake
  PROVE  TInv'
<1>1. \A s \in Slots : proc'[s].pid = proc[s].pid /\ proc'[s].channel = proc[s].channel
  <2>1. proc \in [Slots -> [pid : Pids \cup {None}, channel : Fds \cup {None},
                            exited : BOOLEAN, exiting : BOOLEAN]]
    BY DEF IInv, TypeOK
  <2> QED BY <2>1 DEF Wake
<1>2. UNCHANGED <<fd, dangling, together, alive, table, leaked>> /\ inbox' = inbox
  BY DEF Wake, workerVars
<1> QED BY <1>1, <1>2, MarksAgree

(* The other steps of the master touch nothing of this. *)
LEMMA IdleAgree ==
  ASSUME IInv, TInv, ReapOther \/ GoToSleep \/ MasterExit \/ SigQuit \/ UNCHANGED vars
  PROVE  TInv'
<1>1. UNCHANGED <<proc, fd, dangling, together, alive, table, leaked, inbox>>
  BY DEF ReapOther, GoToSleep, MasterExit, SigQuit, vars, workerVars, masterVars
<1> QED BY <1>1, MarksAgree

(* Initially every worker has the others' channels. *)
LEMMA AgreeInit == Init => TInv
<1> SUFFICES ASSUME Init PROVE TInv
  OBVIOUS
<1>1. Slots \subseteq Pids /\ None \notin Slots /\ Slots = Fds
  BY BoundAssumption DEF Slots, Pids, None, Fds
<1>2. Births
  BY <1>1 DEF Init, Births
<1>3. Agrees
  <2> SUFFICES ASSUME NEW q \in Slots, NEW s \in Slots
               PROVE  /\ s # q => Ends(table[q][s], inbox[q], s, s)
                      /\ leaked[q] = {}
                      /\ Orderly(table[q][s], inbox[q], s, s)
    <3>1. alive = Slots /\ \A s \in Slots : proc[s].pid = s
      BY DEF Init
    <3> QED BY ZenonT(40), <3>1 DEF Agrees
  <2>1. PICK w : w = table[q][s]
    OBVIOUS
  <2>2. w = (IF q # s THEN s ELSE None) /\ inbox[q] = <<>> /\ leaked[q] = {}
    BY <1>1, <2>1 DEF Init
  <2>3. (\A v : Ends(w, <<>>, s, v) <=> v = w) /\ Clean(w, <<>>, s)
    BY BoxEmpty
  <2> QED BY <2>1, <2>2, <2>3 DEF Orderly
<1> QED BY <1>2, <1>3 DEF TInv

(* Every step keeps the tables in agreement with the master's. *)
LEMMA AgreeNext == IInv /\ TInv /\ [Next]_vars => TInv'
BY WakeAgree, SignalAgree, ReapEndsAgree, RespawnAgree, IdleAgree, DeathAgree, ReadAgree
   DEF Next, Master, Worker

(* TablesAgree: once a worker has read what it was sent, it has the        *)
(* channel of every process that runs, and of none that has been reaped;   *)
(* and, if no child was reaped after the respawn of another, it leaks no   *)
(* descriptor.                                                             *)
THEOREM TablesCorrect == Spec => []TablesAgree
<1>1. TInv => TablesAgree
  <2> SUFFICES ASSUME TInv, ~dangling, NEW q \in alive, inbox[q] = <<>>, NEW s \in Slots
               PROVE  /\ proc[s].pid \in alive \ {q} => table[q][s] = proc[s].pid
                      /\ ~together => /\ leaked[q] = {}
                                      /\ table[q][s] \in {None, proc[s].pid}
    <3>1. \E s \in Slots : TRUE
      BY BoundAssumption DEF Slots
    <3> QED BY <3>1 DEF TablesAgree
  <2>1. PICK w : w = table[q][s]
    OBVIOUS
  <2>2. (\A v : Ends(w, <<>>, s, v) <=> v = w) /\ Clean(w, <<>>, s)
    BY BoxEmpty
  <2> QED BY <2>1, <2>2 DEF TInv, Agrees, Orderly
<1> QED BY <1>1, Inductive, AgreeInit, AgreeNext, PTL DEF Spec

=============================================================================
