------------------------------ MODULE Channels ------------------------------
(***************************************************************************)
(* The channels between the master and its workers                         *)
(* (os/unix/ngx_channel.c, ngx_reap_children, ngx_pass_open_channel,       *)
(* ngx_signal_worker_processes and ngx_channel_handler of                  *)
(* os/unix/ngx_process_cycle.c, ngx_spawn_process of                       *)
(* os/unix/ngx_process.c): which descriptors the master has for whom, and  *)
(* the copies of the process table that the workers keep up to date by     *)
(* messages.  MasterCycle takes for granted that a command reaches the     *)
(* process it is meant for; here it goes to whoever has the other end of   *)
(* the descriptor.                                                         *)
(*                                                                         *)
(* A process, its pid and its socket pair have one number, never used      *)
(* again.  The two descriptors of a pair are opened and closed together:   *)
(* they are one descriptor here, the lowest that is free.  Workers are     *)
(* respawned; reload and the other signals are in MasterCycle.             *)
(***************************************************************************)
EXTENDS Integers, Sequences, SequencesExt, FiniteSets, FiniteSetsExt

CONSTANTS
  NWorkers,    \* worker_processes
  MaxCrashes,  \* bound: workers that die
  MaxFails     \* bound: respawns that fail

ASSUME BoundAssumption == /\ NWorkers \in Nat \ {0}
                          /\ MaxCrashes \in Nat
                          /\ MaxFails \in Nat

Slots == 1 .. NWorkers
Pids == 1 .. NWorkers + MaxCrashes
Fds == 1 .. NWorkers
None == 0      \* -1: no process, no descriptor; nothing open

VARIABLES
  proc,     \* ngx_processes of the master: pid, channel, exited, exiting
  fd,       \* the master's descriptors: the process at the other end
  last,     \* the last pid given
  step,     \* of the master: "sleep", "reap", "check" or "gone"
  i,        \* the slot ngx_reap_children has come to
  ch,       \* its message: command, and the descriptor to pass
  live,
  quit,     \* ngx_quit
  reap,     \* ngx_reap
  pending,  \* signals to the master
  alive,    \* the workers that run
  told,     \* the workers that are to quit
  inbox,    \* messages in the channel of each worker
  table,    \* the workers' ngx_processes[].channel[0]
  leaked,   \* descriptors a worker has open and no longer knows
  together, \* a child was reaped after the respawn of another
  dangling, \* fork() failed and left the numbers of a closed channel
  crashes, fails

masterVars == <<proc, fd, last, step, i, ch, live, quit, reap, together, dangling>>
workerVars == <<alive, told, inbox, table, leaked>>
vars == <<masterVars, workerVars, pending, crashes, fails>>

At(f, d) == IF d = None THEN None ELSE f[d]

(* ngx_close_channel: whatever the descriptor stands for by now. *)
Close(f, d) == IF d = None THEN f ELSE [f EXCEPT ![d] = None]

(* ngx_write_channel to the slots S: a message arrives at whoever has the  *)
(* other end, if it is still alive; a message is not sent to, and does     *)
(* not carry, a closed descriptor.                                         *)
Send(box, p, f, S, m) ==
  IF m.command = "open" /\ m.chan = None THEN box
  ELSE [q \in Pids |->
          LET copies == Cardinality({n \in S : At(f, p[n].channel) = q})
          IN  IF q \in alive THEN box[q] \o [k \in 1 .. copies |-> m] ELSE box[q]]

Message(command, slot, chan) == [command |-> command, slot |-> slot, chan |-> chan]

-----------------------------------------------------------------------------
(* Workers. *)

(* What a worker has is of no interest when it is gone. *)
Die(q) ==
  /\ alive' = alive \ {q}
  /\ told' = told \ {q}
  /\ pending' = pending \cup {"CHLD"}
  /\ inbox' = [inbox EXCEPT ![q] = <<>>]
  /\ table' = [table EXCEPT ![q] = [s \in Slots |-> None]]
  /\ leaked' = [leaked EXCEPT ![q] = {}]
  /\ UNCHANGED masterVars

Crash(q) ==
  /\ crashes < MaxCrashes
  /\ q \in alive
  /\ Die(q)
  /\ crashes' = crashes + 1
  /\ UNCHANGED fails

(* A worker that is to quit does, when its last request has ended. *)
Exit(q) ==
  /\ q \in alive \cap told
  /\ Die(q)
  /\ UNCHANGED <<crashes, fails>>

(* Mutant: a channel is not closed. *)
ReadForgets(q) ==
  /\ q \in alive
  /\ inbox[q] # <<>>
  /\ LET m == Head(inbox[q])
     IN  /\ told' = IF m.command = "quit" THEN told \cup {q} ELSE told
         /\ table' = IF m.command = "open" THEN [table EXCEPT ![q][m.slot] = m.chan]
                     ELSE table
         /\ leaked' = IF m.command = "open" /\ table[q][m.slot] # None
                      THEN [leaked EXCEPT ![q] = @ \cup {table[q][m.slot]}] ELSE leaked
  /\ inbox' = [inbox EXCEPT ![q] = Tail(@)]
  /\ UNCHANGED <<masterVars, alive, pending, crashes, fails>>

(* ngx_channel_handler *)
Read(q) ==
  /\ q \in alive
  /\ inbox[q] # <<>>
  /\ LET m == Head(inbox[q])
     IN  /\ told' = IF m.command = "quit" THEN told \cup {q} ELSE told
         /\ table' = CASE m.command = "open" -> [table EXCEPT ![q][m.slot] = m.chan]
                       [] m.command = "close" -> [table EXCEPT ![q][m.slot] = None]
                       [] OTHER -> table
         /\ leaked' = IF m.command = "open" /\ table[q][m.slot] # None
                      THEN [leaked EXCEPT ![q] = @ \cup {table[q][m.slot]}] ELSE leaked
  /\ inbox' = [inbox EXCEPT ![q] = Tail(@)]
  /\ UNCHANGED <<masterVars, alive, pending, crashes, fails>>

-----------------------------------------------------------------------------
(* The master. *)

SigQuit ==
  /\ step # "gone"
  /\ ~quit
  /\ pending' = pending \cup {"QUIT"}
  /\ UNCHANGED <<masterVars, workerVars, crashes, fails>>

(* sigsuspend() returns after the handlers of what is pending;             *)
(* ngx_process_get_status collects every child that has died.              *)
Wake ==
  /\ step = "sleep"
  /\ pending # {}
  /\ pending' = {}
  /\ quit' = (quit \/ "QUIT" \in pending)
  /\ proc' = [s \in Slots |-> [proc[s] EXCEPT
                !.exited = @ \/ ("CHLD" \in pending /\ proc[s].pid # None
                                                    /\ proc[s].pid \notin alive)]]
  /\ step' = IF reap \/ "CHLD" \in pending THEN "reap" ELSE "check"
  /\ i' = 1
  /\ ch' = [command |-> "close", fd |-> None]
  /\ live' = IF reap \/ "CHLD" \in pending THEN FALSE ELSE live
  /\ reap' = FALSE
  /\ UNCHANGED <<fd, last, together, dangling, workerVars, crashes, fails>>

(* ngx_reap_children goes on to the next slot. *)
Advance ==
  /\ i' = i + 1
  /\ step' = IF i = NWorkers THEN "check" ELSE "reap"

(* Mutant: a child that runs does not count. *)
ReapOtherIdle ==
  /\ step = "reap"
  /\ ~proc[i].exited
  /\ Advance
  /\ UNCHANGED <<proc, fd, last, ch, live, quit, reap, together, dangling,
                 workerVars, pending, crashes, fails>>

ReapOther ==
  /\ step = "reap"
  /\ ~proc[i].exited
  /\ live' = (live \/ proc[i].pid # None)
  /\ Advance
  /\ UNCHANGED <<proc, fd, last, ch, quit, reap, together, dangling, workerVars,
                 pending, crashes, fails>>

Listeners(p) == {n \in Slots : ~p[n].exited /\ p[n].pid # None /\ p[n].channel # None}

(* Mutant: the number of the closed channel is kept. *)
GoneKept == proc

(* A dead child: its channel is closed and the others are told, with the   *)
(* command that was last put into ch.                                      *)
Gone == [proc EXCEPT ![i].channel = None]
GoneFd == Close(fd, proc[i].channel)
GoneBox == Send(inbox, Gone, GoneFd, Listeners(Gone),
                Message(ch.command, i, At(GoneFd, ch.fd)))

(* The command is no longer the first one. *)
ReapedTogether == together' = (together \/ ch.command # "close")

Respawns == proc[i].exited /\ ~proc[i].exiting /\ ~quit

ReapEnds ==
  /\ step = "reap"
  /\ proc[i].exited
  /\ proc[i].pid # None
  /\ ~Respawns
  /\ proc' = [Gone EXCEPT ![i].pid = None, ![i].exited = FALSE]
  /\ fd' = GoneFd
  /\ inbox' = GoneBox
  /\ ReapedTogether
  /\ Advance
  /\ UNCHANGED <<last, ch, live, quit, reap, dangling, alive, told, table, leaked,
                 pending, crashes, fails>>

(* ngx_spawn_process, ngx_pass_open_channel.  The child has the master's   *)
(* table and descriptors as they are, but its own.                         *)
ReapRespawns ==
  /\ step = "reap"
  /\ Respawns
  /\ LET d == Min({e \in Fds : GoneFd[e] = None})
         q == last + 1
         f == [GoneFd EXCEPT ![d] = q]
         p == [Gone EXCEPT ![i].pid = q, ![i].channel = d, ![i].exited = FALSE]
         others == {n \in Slots \ {i} : p[n].pid # None /\ p[n].channel # None}
     IN  /\ proc' = p
         /\ fd' = f
         /\ last' = q
         /\ ch' = [command |-> "open", fd |-> d]
         /\ inbox' = Send(GoneBox, p, f, others, Message("open", i, q))
         /\ alive' = alive \cup {q}
         /\ table' = [table EXCEPT ![q] = [s \in Slots |->
                                             IF s = i THEN None ELSE At(f, p[s].channel)]]
  /\ live' = TRUE
  /\ ReapedTogether
  /\ Advance
  /\ UNCHANGED <<quit, reap, dangling, told, leaked, pending, crashes, fails>>

(* socketpair() fails, or fork() does: then the pair is closed again and   *)
(* its numbers stay in the table.                                          *)
ReapFails ==
  /\ step = "reap"
  /\ Respawns
  /\ fails < MaxFails
  /\ fails' = fails + 1
  /\ \/ /\ proc' = Gone
        /\ UNCHANGED dangling
     \/ /\ proc' = [Gone EXCEPT ![i].channel = Min({e \in Fds : GoneFd[e] = None})]
        /\ dangling' = TRUE
  /\ fd' = GoneFd
  /\ inbox' = GoneBox
  /\ ReapedTogether
  /\ Advance
  /\ UNCHANGED <<last, ch, live, quit, reap, alive, told, table, leaked, pending,
                 crashes>>

(* ngx_signal_worker_processes(NGX_SHUTDOWN_SIGNAL): by the channel, or,   *)
(* if that cannot be written to, by kill(); a pid that is no longer there  *)
(* is to be reaped again.                                                  *)
Untold == {s \in Slots : proc[s].pid # None /\ ~proc[s].exiting}
ByChannel == {s \in Untold : At(fd, proc[s].channel) # None}
ByKill == Untold \ ByChannel
Missing == {s \in ByKill : proc[s].exited}

Signal ==
  /\ step = "check"
  /\ quit /\ live
  /\ inbox' = Send(inbox, proc, fd, ByChannel, Message("quit", None, None))
  /\ told' = told \cup (alive \cap {proc[s].pid : s \in ByKill})
  /\ proc' = [s \in Slots |-> [proc[s] EXCEPT !.exiting = @ \/ s \in Untold \ Missing]]
  /\ reap' = (Missing # {})
  /\ step' = "sleep"
  /\ UNCHANGED <<fd, last, i, ch, live, quit, together, dangling, alive, table, leaked,
                 pending, crashes, fails>>

GoToSleep ==
  /\ step = "check"
  /\ ~quit
  /\ step' = "sleep"
  /\ UNCHANGED <<proc, fd, last, i, ch, live, quit, reap, together, dangling,
                 workerVars, pending, crashes, fails>>

(* ngx_master_process_exit *)
MasterExit ==
  /\ step = "check"
  /\ quit /\ ~live
  /\ step' = "gone"
  /\ UNCHANGED <<proc, fd, last, i, ch, live, quit, reap, together, dangling,
                 workerVars, pending, crashes, fails>>

-----------------------------------------------------------------------------
(* After ngx_start_worker_processes, when the workers have read what it    *)
(* sent them.                                                              *)
Init ==
  /\ proc = [s \in Slots |-> [pid |-> s, channel |-> s, exited |-> FALSE, exiting |-> FALSE]]
  /\ fd = [d \in Fds |-> d]
  /\ last = NWorkers
  /\ step = "sleep"
  /\ i = 1
  /\ ch = [command |-> "close", fd |-> None]
  /\ live = TRUE
  /\ quit = FALSE
  /\ reap = FALSE
  /\ pending = {}
  /\ alive = Slots
  /\ told = {}
  /\ inbox = [q \in Pids |-> <<>>]
  /\ table = [q \in Pids |-> [s \in Slots |-> IF q \in Slots \ {s} THEN s ELSE None]]
  /\ leaked = [q \in Pids |-> {}]
  /\ together = FALSE
  /\ dangling = FALSE
  /\ crashes = 0
  /\ fails = 0

Master == Wake \/ ReapOther \/ ReapEnds \/ ReapRespawns \/ ReapFails \/ Signal
          \/ GoToSleep \/ MasterExit
Worker(q) == Exit(q) \/ Read(q)

Next == \/ Master
        \/ SigQuit
        \/ \E q \in Pids : Worker(q) \/ Crash(q)

Spec == Init /\ [][Next]_vars

(* The master runs when signalled; a worker reads its channel and, told to *)
(* quit, ends.                                                             *)
Fairness == WF_vars(Master) /\ \A q \in Pids : WF_vars(Worker(q))

FairSpec == Spec /\ Fairness

-----------------------------------------------------------------------------
(* Properties. *)

TypeOK ==
  /\ proc \in [Slots -> [pid : Pids \cup {None}, channel : Fds \cup {None},
                         exited : BOOLEAN, exiting : BOOLEAN]]
  /\ fd \in [Fds -> Pids \cup {None}]
  /\ step \in {"sleep", "reap", "check", "gone"}
  /\ i \in 1 .. NWorkers + 1
  /\ table \in [Pids -> [Slots -> Pids \cup {None}]]

(* The descriptor the master has for a worker leads to that worker, and to *)
(* no other: what is written for one is not read by another.  Numbers that *)
(* a failed fork() leaves in the table are closed once more at the next    *)
(* reaping, whoever has them then: after that nothing is promised.         *)
ChannelsOwned ==
  /\ TypeOK
  /\ ~dangling =>
       /\ \A s \in Slots : proc[s].pid # None /\ ~proc[s].exited =>
            At(fd, proc[s].channel) = proc[s].pid
       /\ \A s, t \in Slots :
            s # t /\ proc[s].channel # None => proc[s].channel # proc[t].channel

(* A worker that has read what the master sent it has, for every other     *)
(* worker, the channel of the process that now has its slot, and of no     *)
(* process that has been reaped; and no descriptor it does not know of,    *)
(* unless a child was ever reaped after the respawn of another in one pass *)
(* (and then announced as opened).                                         *)
TablesAgree ==
  step = "sleep" /\ ~dangling =>
    \A q \in alive : inbox[q] = <<>> =>
      /\ \A s \in Slots : proc[s].pid \in alive \ {q} => table[q][s] = proc[s].pid
      /\ ~together => /\ leaked[q] = {}
                      /\ \A s \in Slots : table[q][s] \in {None, proc[s].pid}

(* "SIGQUIT: shut down gracefully": the master ends, after its workers;    *)
(* also when respawns have failed, unless fork() left a number behind and  *)
(* two workers came to share a channel.                                    *)
QuitEnds == "QUIT" \in pending ~> (step = "gone" /\ alive = {}) \/ dangling

=============================================================================
