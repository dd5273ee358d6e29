------------------------ MODULE EventLoopProofs -----------------------------
(***************************************************************************)
(* Proofs about the event loop of the workers: the accept mutex and the    *)
(* listening events it protects, for any number of workers and listening   *)
(* sockets, and the connections of one worker, for any number of objects   *)
(* and events.                                                             *)
(***************************************************************************)
EXTENDS AcceptMutex, Connections, Lemmas

(* The types hold at the beginning. *)
LEMMA TypeInit == Init => TypeOK
BY ConstAssumption DEF Init, TypeOK, PCs, LivePCs, Modes, Listeners

(* What each step does to the variables that one worker writes. *)
LEMMA TypeNext == TypeOK /\ [Next]_vars => TypeOK'
<1> SUFFICES ASSUME TypeOK, [Next]_vars PROVE TypeOK'
  OBVIOUS
<1> USE WorkersAssumption, ConstAssumption, BoundAssumption
    DEF TypeOK, PCs, LivePCs, Modes
<1>1. ASSUME NEW w \in Workers, CloseListening(w) PROVE TypeOK'
  BY <1>1 DEF CloseListening, bounds
<1>2. ASSUME NEW w \in Workers,
             Exit(w) \/ Undo(w) \/ AcceptsDone(w) \/ Unlock(w) \/ Reap(w)
      PROVE  TypeOK'
  BY <1>2 DEF Exit, Undo, AcceptsDone, Unlock, Reap, Release, Goto, own, bounds
<1>3. ASSUME NEW w \in Workers, SkipMutex(w) PROVE TypeOK'
  BY <1>3 DEF SkipMutex, PollAs, Goto, bounds
<1>4. ASSUME NEW w \in Workers, TakeAgain(w) \/ TakeAndEnable(w) PROVE TypeOK'
  <2>1. CASE TakeAgain(w)
    BY <2>1 DEF TakeAgain, PollAs, Goto, bounds
  <2>2. CASE TakeAndEnable(w)
    BY <2>2 DEF TakeAndEnable, PollAs, Goto, bounds
  <2> QED
    BY <1>4, <2>1, <2>2
<1>5. ASSUME NEW w \in Workers, NEW l \in Listeners, EnableFails(w, l)
      PROVE  TypeOK'
  <2>1. 1..(l - 1) \subseteq Listeners
    BY DEF Listeners
  <2>2. active' \in [Workers -> SUBSET Listeners]
    BY <1>5, <2>1 DEF EnableFails
  <2> QED
    BY <1>5, <2>2 DEF EnableFails, Fail, Goto, bounds
<1>6. ASSUME NEW w \in Workers, LoseTurn(w) PROVE TypeOK'
  BY <1>6 DEF LoseTurn, PollAs, Goto, bounds
<1>7. ASSUME NEW w \in Workers, NEW l \in Listeners, DisableFails(w, l)
      PROVE  TypeOK'
  BY <1>7 DEF DisableFails, Fail, bounds
<1>8. ASSUME NEW w \in Workers, Poll(w) PROVE TypeOK'
  BY <1>8 DEF Poll, Goto, bounds
<1>9. ASSUME NEW w \in Workers, NEW l \in Listeners,
             AcceptAgain(w, l) \/ AcceptError(w, l)
      PROVE  TypeOK'
  BY <1>9 DEF AcceptAgain, AcceptError, Accepting, Return, Repeat, Fail, bounds
<1>10. ASSUME NEW w \in Workers, NEW l \in Listeners, AcceptOne(w, l)
       PROVE  TypeOK'
  <2>1. ConnectionN \div 8 \in Int /\ free[w] \in Int
    OBVIOUS
  <2>2. Drained(w) \subseteq 0..InitFree
    BY DEF Drained
  <2>3. PICK f \in Drained(w) :
          \/ /\ f = 0 /\ Return(w, l) /\ UNCHANGED <<free, bounds>>
          \/ /\ f > 0 /\ free' = [free EXCEPT ![w] = f - 1]
             /\ Repeat(w, l) /\ UNCHANGED bounds
          \/ /\ f > 0 /\ Fail /\ free' = [free EXCEPT ![w] = f] /\ Return(w, l)
    BY <1>10 DEF AcceptOne
  <2>4. f \in 0..InitFree /\ (f > 0 => f - 1 \in 0..InitFree)
    BY <2>2
  <2>5. free' \in [Workers -> 0..InitFree]
    BY <2>3, <2>4
  <2>6. todo' \in [Workers -> SUBSET Listeners]
    BY <2>3 DEF Return, Repeat
  <2>7. arrivals' \in [Listeners -> Nat] /\ crashes' \in Nat /\ errors' \in Nat
    BY <2>3 DEF Fail, bounds
  <2>8. disabled' \in [Workers -> Int] /\ backlog' \in [Listeners -> Nat]
    BY <1>10, <2>1 DEF AcceptOne
  <2> QED
    BY <1>10, <2>5, <2>6, <2>7, <2>8 DEF AcceptOne, Accepting
<1>11. ASSUME NEW w \in Workers, CloseInline(w) \/ RunEvents(w) PROVE TypeOK'
  <2>1. free' \in [Workers -> 0..InitFree]
    BY <1>11 DEF CloseInline, RunEvents
  <2> QED
    BY <1>11, <2>1 DEF CloseInline, RunEvents, Goto, bounds
<1>12. ASSUME NEW w \in Workers, QuitSignal(w) \/ Crash(w) PROVE TypeOK'
  <2>1. CASE QuitSignal(w)
    BY <2>1 DEF QuitSignal, bounds
  <2>2. CASE Crash(w)
    BY <2>2 DEF Crash, Goto, own
  <2> QED
    BY <1>12, <2>1, <2>2
<1>13. ASSUME NEW w \in Workers, Respawn(w) PROVE TypeOK'
  BY <1>13 DEF Respawn, Goto, bounds
<1>14. ASSUME NEW l \in Listeners, Arrive(l) PROVE TypeOK'
  BY <1>14 DEF Arrive, own
<1>15. CASE UNCHANGED vars
  BY <1>15 DEF vars, own, bounds
<1> QED
  BY <1>1, <1>2, <1>3, <1>4, <1>5, <1>6, <1>7, <1>8, <1>9, <1>10, <1>11,
     <1>12, <1>13, <1>14, <1>15
     DEF Next, WorkerStep, MasterStep

(* Every variable keeps its type; no worker ever counts fewer than none or *)
(* more than all of its connections as free.                               *)
THEOREM TypeCorrect == Spec => []TypeOK
BY TypeInit, TypeNext, PTL DEF Spec

-----------------------------------------------------------------------------
(* The owner of the mutex.  OwnerInv is inductive, given the types.        *)

(* Every step keeps the owner of the mutex right. *)
LEMMA OwnerNext == TypeOK /\ OwnerInv /\ [Next]_vars => OwnerInv'
<1> SUFFICES ASSUME TypeOK, OwnerInv, [Next]_vars PROVE OwnerInv'
  OBVIOUS
<1> USE WorkersAssumption DEF TypeOK, OwnerInv
<1>1. ASSUME NEW w \in Workers,
             CloseListening(w) \/ Exit(w) \/ SkipMutex(w) \/ LoseTurn(w)
      PROVE  OwnerInv'
  BY <1>1 DEF CloseListening, Exit, SkipMutex, LoseTurn, Asking, Iterating,
              PollAs, Goto, own
<1>2. ASSUME NEW w \in Workers, TakeAgain(w) \/ TakeAndEnable(w)
      PROVE  OwnerInv'
  BY <1>2 DEF TakeAgain, TakeAndEnable, Asking, Iterating, PollAs, Goto
<1>3. ASSUME NEW w \in Workers, NEW l \in Listeners,
             EnableFails(w, l) \/ DisableFails(w, l)
      PROVE  OwnerInv'
  BY <1>3 DEF EnableFails, DisableFails, Asking, Iterating, Goto
<1>4. ASSUME NEW w \in Workers, Undo(w) \/ Unlock(w) \/ Reap(w)
      PROVE  OwnerInv'
  BY <1>4 DEF Undo, Unlock, Reap, Release, Goto, own
<1>5. ASSUME NEW w \in Workers,
             Poll(w) \/ AcceptsDone(w) \/ CloseInline(w) \/ RunEvents(w)
      PROVE  OwnerInv'
  BY <1>5 DEF Poll, AcceptsDone, CloseInline, RunEvents, Goto, own
<1>6. ASSUME NEW w \in Workers, NEW l \in Listeners,
             AcceptAgain(w, l) \/ AcceptError(w, l) \/ AcceptOne(w, l)
      PROVE  OwnerInv'
  BY <1>6 DEF AcceptAgain, AcceptError, AcceptOne, Accepting
<1>7. ASSUME NEW w \in Workers, QuitSignal(w) \/ Crash(w) \/ Respawn(w)
      PROVE  OwnerInv'
  BY <1>7 DEF QuitSignal, Crash, Respawn, LivePCs, Goto, own
<1>8. ASSUME NEW l \in Listeners, Arrive(l) PROVE OwnerInv'
  BY <1>8 DEF Arrive, own
<1>9. CASE UNCHANGED vars
  BY <1>9 DEF vars, own
<1> QED
  BY <1>1, <1>2, <1>3, <1>4, <1>5, <1>6, <1>7, <1>8, <1>9
     DEF Next, WorkerStep, MasterStep

(* At most one worker postpones accept events, and it is the owner of the  *)
(* mutex; no live worker carries the mutex into its client handlers or its *)
(* next iteration, whatever registrations failed and whoever died.         *)
THEOREM OwnerCorrect == Spec => []OwnerInv
<1>1. Init => OwnerInv
  BY WorkersAssumption DEF Init, OwnerInv
<1> QED
  BY <1>1, OwnerNext, TypeInit, TypeNext, PTL DEF Spec

-----------------------------------------------------------------------------
(* The flag and the registrations. *)

(* Accept handlers only run for registered sockets. *)
TodoInv == \A w \in Workers : pc[w] = "accept" => todo[w] \subseteq active[w]

(* Only a worker that listens backs off. *)
BackOffInv == errors = 0 => \A w \in Workers :
                pc[w] \in LivePCs /\ use[w] /\ disabled[w] > 0 => held[w]

ListenInv == TodoInv /\ BackOffInv /\ HeldMeansListening

(* Every step keeps the flag and the registrations in agreement. *)
LEMMA ListenNext == TypeOK /\ ListenInv /\ [Next]_vars => ListenInv'
<1> SUFFICES ASSUME TypeOK, ListenInv, [Next]_vars PROVE ListenInv'
  OBVIOUS
<1> USE DEF TypeOK, ListenInv, TodoInv, BackOffInv, HeldMeansListening, LivePCs
<1>1. ASSUME NEW w \in Workers,
             CloseListening(w) \/ Exit(w) \/ SkipMutex(w) \/ LoseTurn(w)
      PROVE  ListenInv'
  <2>1. CASE CloseListening(w)
    BY <2>1 DEF CloseListening, bounds
  <2>2. CASE Exit(w)
    BY <2>2 DEF Exit, Goto, own, bounds
  <2>3. CASE SkipMutex(w)
    BY <2>3 DEF SkipMutex, Iterating, PollAs, Goto, bounds
  <2>4. CASE LoseTurn(w)
    <3>1. /\ pc[w] = "loop" /\ pc' = [pc EXCEPT ![w] = "poll"] /\ errors' = errors
          /\ ~held'[w] /\ (held[w] => active'[w] = {})
          /\ (~held[w] => active'[w] = active[w])
          /\ UNCHANGED <<use, disabled, todo>> /\ ~(disabled[w] > 0)
      BY <2>4 DEF LoseTurn, Asking, Iterating, PollAs, Goto, bounds
    <3>2. \A v \in Workers : v # w => /\ held'[v] = held[v]
                                      /\ active'[v] = active[v]
      BY <2>4 DEF LoseTurn
    <3>3. TodoInv'
      BY <3>1, <3>2
    <3>4. BackOffInv'
      BY <3>1, <3>2
    <3>5. HeldMeansListening'
      BY <3>1, <3>2
    <3> QED
      BY <3>3, <3>4, <3>5
  <2> QED
    BY <1>1, <2>1, <2>2, <2>3, <2>4
<1>2. ASSUME NEW w \in Workers,
             TakeAgain(w) \/ TakeAndEnable(w)
      PROVE  ListenInv'
  <2>1. CASE TakeAgain(w)
    BY <2>1 DEF TakeAgain, Asking, Iterating, PollAs, Goto, bounds
  <2>2. CASE TakeAndEnable(w)
    BY <2>2 DEF TakeAndEnable, Asking, Iterating, PollAs, Goto, bounds
  <2> QED
    BY <1>2, <2>1, <2>2
<1>3. ASSUME NEW w \in Workers, NEW l \in Listeners,
             EnableFails(w, l) \/ DisableFails(w, l)
      PROVE  ListenInv'
  BY <1>3 DEF EnableFails, DisableFails, Asking, Iterating, Goto, Fail, bounds
<1>4. ASSUME NEW w \in Workers, Undo(w) \/ Unlock(w) \/ Reap(w)
      PROVE  ListenInv'
  BY ZenonT(40), <1>4 DEF Undo, Unlock, Reap, Goto, own, bounds
<1>5. ASSUME NEW w \in Workers,
             Poll(w) \/ AcceptsDone(w) \/ CloseInline(w) \/ RunEvents(w)
      PROVE  ListenInv'
  <2>1. CASE Poll(w)
    BY <2>1 DEF Poll, Goto, bounds
  <2>2. CASE AcceptsDone(w)
    BY <2>2 DEF AcceptsDone, Goto, own, bounds
  <2>3. CASE CloseInline(w)
    BY <2>3 DEF CloseInline, bounds
  <2>4. CASE RunEvents(w)
    BY <2>4 DEF RunEvents, Goto, bounds
  <2> QED
    BY <1>5, <2>1, <2>2, <2>3, <2>4
<1>6. ASSUME NEW w \in Workers, NEW l \in Listeners,
             AcceptAgain(w, l) \/ AcceptError(w, l)
      PROVE  ListenInv'
  <2>1. CASE AcceptAgain(w, l)
    BY <2>1 DEF AcceptAgain, Accepting, Return, bounds
  <2>2. CASE AcceptError(w, l)
    BY <2>2 DEF AcceptError, Accepting, Return, Repeat, Fail
  <2> QED
    BY <1>6, <2>1, <2>2
<1>7. ASSUME NEW w \in Workers, NEW l \in Listeners, AcceptOne(w, l)
      PROVE  ListenInv'
  <2>1. UNCHANGED <<pc, held, use, active>> /\ l \in todo[w] /\ pc[w] = "accept"
    BY <1>7 DEF AcceptOne, Accepting
  <2>2. todo' = todo \/ todo' = [todo EXCEPT ![w] = @ \ {l}]
    BY <1>7 DEF AcceptOne, Return, Repeat
  <2>3. errors' = 0 => errors = 0
    BY <1>7 DEF AcceptOne, Fail, bounds
  <2>4. errors = 0 => held[w]
    BY <2>1
  <2>5. \A v \in Workers : v # w => disabled'[v] = disabled[v]
    BY <1>7 DEF AcceptOne
  <2> QED
    BY <2>1, <2>2, <2>3, <2>4, <2>5
<1>8. ASSUME NEW w \in Workers,
             QuitSignal(w) \/ Crash(w) \/ Respawn(w)
      PROVE  ListenInv'
  <2>1. CASE QuitSignal(w)
    BY <2>1 DEF QuitSignal, bounds
  <2>2. CASE Crash(w)
    BY <2>2 DEF Crash, Goto, own
  <2>3. CASE Respawn(w)
    <3>1. /\ pc' = [pc EXCEPT ![w] = "loop"] /\ errors' = errors
          /\ ~held'[w] /\ active'[w] = {} /\ disabled'[w] = 0
      BY <2>3 DEF Respawn, Goto, bounds
    <3>2. \A v \in Workers : v # w =>
            /\ held'[v] = held[v] /\ active'[v] = active[v] /\ use'[v] = use[v]
            /\ disabled'[v] = disabled[v] /\ todo'[v] = todo[v]
      BY <2>3 DEF Respawn
    <3>3. TodoInv'
      BY <3>1, <3>2
    <3>4. BackOffInv'
      BY <3>1, <3>2
    <3>5. HeldMeansListening'
      BY <3>1, <3>2
    <3> QED
      BY <3>3, <3>4, <3>5
  <2> QED
    BY <1>8, <2>1, <2>2, <2>3
<1>9. ASSUME NEW l \in Listeners, Arrive(l) PROVE ListenInv'
  BY <1>9 DEF Arrive, own
<1>10. CASE UNCHANGED vars
  BY <1>10 DEF vars, own, bounds
<1> QED
  BY <1>1, <1>2, <1>3, <1>4, <1>5, <1>6, <1>7, <1>8, <1>9, <1>10
     DEF Next, WorkerStep, MasterStep

(* The flag and the registrations agree in every state. *)
LEMMA ListenCorrect == Spec => []ListenInv
<1>1. Init => ListenInv
  BY DEF Init, ListenInv, TodoInv, BackOffInv, HeldMeansListening
<1> QED
  BY <1>1, ListenNext, TypeInit, TypeNext, PTL DEF Spec

(* The flag ngx_accept_mutex_held tells the truth about the registrations. *)
THEOREM FlagCorrect == Spec => []HeldMeansListening
BY ListenCorrect, PTL DEF ListenInv

(* A worker short of connections still has its listening events.           *)
THEOREM BackOffCorrect == Spec => []BackOffIsNotDeaf
<1>1. ListenInv => BackOffIsNotDeaf
  BY DEF ListenInv, BackOffInv, HeldMeansListening, BackOffIsNotDeaf
<1> QED
  BY <1>1, ListenCorrect, PTL

-----------------------------------------------------------------------------
(* The accept mutex is used as the abstract one allows: it is tried and    *)
(* never waited for, given back by its owner alone, and taken from a dead  *)
(* worker by the master.                                                   *)

(* What a worker is doing with the mutex; one that exited does not return. *)
Owning(w) == \/ pc[w] = "undo"
             \/ pc[w] \in {"poll", "accept", "unlock"} /\ mode[w] = "owner"

AcceptStOf(w) == IF Owning(w) THEN "in"
                 ELSE IF pc[w] \in LivePCs THEN "out" ELSE "dead"

AbstractAccept == INSTANCE Mutex WITH Procs <- Workers, owner <- lock,
                                      st <- [w \in Workers |-> AcceptStOf(w)]

(* A worker owns the mutex exactly in the part of its iteration that takes *)
(* itself for the owner, or died there.                                    *)
UndoOwns == \A w \in Workers : pc[w] = "undo" => lock = w

(* The failed attempt to register events is made by the owner.             *)
LEMMA UndoNext ==
  TypeOK /\ OwnerInv /\ UndoOwns /\ [Next]_vars => UndoOwns'
<1> SUFFICES ASSUME TypeOK, OwnerInv, UndoOwns, [Next]_vars PROVE UndoOwns'
  OBVIOUS
<1> USE WorkersAssumption DEF TypeOK, OwnerInv, UndoOwns
<1>1. ASSUME NEW w \in Workers,
             \/ CloseListening(w) \/ Exit(w) \/ SkipMutex(w) \/ LoseTurn(w)
             \/ Poll(w) \/ AcceptsDone(w) \/ CloseInline(w) \/ RunEvents(w)
             \/ QuitSignal(w) \/ Crash(w) \/ Respawn(w)
      PROVE  UndoOwns'
  BY <1>1 DEF CloseListening, Exit, SkipMutex, LoseTurn, Poll,
     AcceptsDone, CloseInline, RunEvents, QuitSignal, Crash, Respawn,
     PollAs, Goto, own
<1>2. ASSUME NEW w \in Workers, TakeAgain(w) \/ TakeAndEnable(w) PROVE UndoOwns'
  BY <1>2 DEF TakeAgain, TakeAndEnable, PollAs, Goto
<1>3. ASSUME NEW w \in Workers, NEW l \in Listeners,
             \/ EnableFails(w, l) \/ DisableFails(w, l) \/ AcceptAgain(w, l)
             \/ AcceptError(w, l) \/ AcceptOne(w, l)
      PROVE  UndoOwns'
  BY <1>3 DEF EnableFails, DisableFails, AcceptAgain, AcceptError,
     AcceptOne, Accepting, Goto
<1>4. ASSUME NEW w \in Workers, Undo(w) \/ Unlock(w) \/ Reap(w) PROVE UndoOwns'
  BY <1>4 DEF Undo, Unlock, Reap, Release, Goto
<1>5. ASSUME NEW l \in Listeners, Arrive(l) PROVE UndoOwns'
  BY <1>5 DEF Arrive, own
<1>6. CASE UNCHANGED vars
  BY <1>6 DEF vars, own
<1> QED
  BY <1>1, <1>2, <1>3, <1>4, <1>5, <1>6 DEF Next, WorkerStep, MasterStep

(* Every step is a step of the abstract mutex, or stutters. *)
LEMMA AcceptStepRefines ==
  TypeOK /\ OwnerInv /\ UndoOwns /\ [Next]_vars
    => [AbstractAccept!MNext]_AbstractAccept!mutexVars
<1> DEFINE ST == [w \in Workers |-> AcceptStOf(w)]
           Stutter == lock' = lock /\ ST' = ST
<1> SUFFICES ASSUME TypeOK, OwnerInv, UndoOwns, [Next]_vars
             PROVE  AbstractAccept!MNext \/ Stutter
  BY DEF AbstractAccept!mutexVars
<1> USE WorkersAssumption
    DEF TypeOK, OwnerInv, UndoOwns, AcceptStOf, Owning, LivePCs, PCs
<1>1. ASSUME NEW w \in Workers,
             \/ CloseListening(w) \/ SkipMutex(w) \/ LoseTurn(w)
             \/ CloseInline(w) \/ RunEvents(w) \/ QuitSignal(w)
      PROVE  Stutter
  BY <1>1 DEF CloseListening, SkipMutex, LoseTurn, CloseInline,
     RunEvents, QuitSignal, Iterating, Asking, PollAs, Goto
<1>2. ASSUME NEW w \in Workers, Poll(w) \/ AcceptsDone(w) PROVE Stutter
  BY <1>2 DEF Poll, AcceptsDone, Goto, own
<1>3. ASSUME NEW w \in Workers, TakeAgain(w) \/ TakeAndEnable(w)
      PROVE  AbstractAccept!Enter(w)
  <2>1. /\ pc[w] = "loop" /\ lock = NoPid /\ lock' = w
        /\ pc' = [pc EXCEPT ![w] = "poll"] /\ mode' = [mode EXCEPT ![w] = "owner"]
    BY <1>3 DEF TakeAgain, TakeAndEnable, Asking, Iterating, PollAs, Goto
  <2>2. ST' = [ST EXCEPT ![w] = "in"]
    BY <2>1
  <2> QED BY <2>1, <2>2 DEF AbstractAccept!Enter
<1>4. ASSUME NEW w \in Workers, NEW l \in Listeners, EnableFails(w, l)
      PROVE  AbstractAccept!Enter(w)
  BY <1>4 DEF EnableFails, Asking, Iterating, Goto, AbstractAccept!Enter
<1>5. ASSUME NEW w \in Workers, NEW l \in Listeners,
             \/ DisableFails(w, l) \/ AcceptAgain(w, l)
             \/ AcceptError(w, l) \/ AcceptOne(w, l)
      PROVE  Stutter
  BY <1>5 DEF DisableFails, AcceptAgain, AcceptError, AcceptOne, Accepting
<1>6. ASSUME NEW w \in Workers, Undo(w) PROVE AbstractAccept!Exit(w)
  BY <1>6 DEF Undo, Release, Goto, own, AbstractAccept!Exit
<1>7. ASSUME NEW w \in Workers, Unlock(w) PROVE AbstractAccept!Exit(w) \/ Stutter
  <2>1. /\ pc[w] = "unlock" /\ pc' = [pc EXCEPT ![w] = "events"] /\ mode' = mode
        /\ lock' = IF held[w] /\ lock = w THEN NoPid ELSE lock
    BY <1>7 DEF Unlock, Release, Goto, own
  <2>2. CASE mode[w] = "owner"
    <3>1. ST[w] = "in" /\ lock = w /\ lock' = NoPid
      BY <2>1, <2>2
    <3>2. ST' = [ST EXCEPT ![w] = "out"]
      BY <2>1, <2>2
    <3> QED BY <3>1, <3>2 DEF AbstractAccept!Exit
  <2>3. CASE mode[w] # "owner"
    <3>1. lock' = lock
      BY <2>1, <2>3
    <3>2. ST' = ST
      BY <2>1, <2>3
    <3> QED BY <3>1, <3>2
  <2> QED BY <2>2, <2>3
<1>8. ASSUME NEW w \in Workers, Exit(w) \/ Crash(w) PROVE AbstractAccept!Die(w)
  <2>1. /\ pc[w] \in LivePCs /\ lock' = lock /\ mode' = mode
        /\ \E l \in {"dead", "exited"} : pc' = [pc EXCEPT ![w] = l]
    BY <1>8 DEF Exit, Crash, Goto, own
  <2>2. ST' = [ST EXCEPT ![w] = "dead"]
    BY <2>1
  <2>3. ST[w] # "dead"
    BY <2>1
  <2> QED BY <2>1, <2>2, <2>3 DEF AbstractAccept!Die
<1>9. ASSUME NEW w \in Workers, Reap(w) PROVE AbstractAccept!Recover(w) \/ Stutter
  BY <1>9 DEF Reap, Release, Goto, own, AbstractAccept!Recover
<1>10. ASSUME NEW w \in Workers, Respawn(w) PROVE AbstractAccept!Restart(w)
  BY <1>10 DEF Respawn, Goto, AbstractAccept!Restart
<1>11. ASSUME NEW l \in Listeners, Arrive(l) PROVE Stutter
  BY <1>11 DEF Arrive, own
<1>12. CASE UNCHANGED vars
  BY <1>12 DEF vars, own
<1> HIDE DEF Stutter
<1> QED
  BY <1>1, <1>2, <1>3, <1>4, <1>5, <1>6, <1>7, <1>8, <1>9, <1>10, <1>11, <1>12
     DEF Next, WorkerStep, MasterStep, AbstractAccept!MNext

(* The accept mutex, as ngx_process_events_and_timers takes it and gives   *)
(* it back, is the abstract mutex: whatever registrations fail, whoever    *)
(* dies, shuts down or is started again.                                   *)
THEOREM AcceptRefinement == Spec => AbstractAccept!MSpec
<1>1. Init => AbstractAccept!MInit /\ UndoOwns
  BY WorkersAssumption
     DEF Init, AbstractAccept!MInit, AcceptStOf, Owning, LivePCs, UndoOwns
<1>2. Spec => AbstractAccept!MInit
                /\ [][AbstractAccept!MNext]_AbstractAccept!mutexVars
  BY <1>1, UndoNext, AcceptStepRefines, TypeInit, TypeNext,
     OwnerCorrect, PTL DEF Spec
<1> QED
  BY <1>2 DEF AbstractAccept!MSpec

-----------------------------------------------------------------------------
(* Posted events. *)

(* What ngx_delete_posted_event leaves: events of the queue, and none of   *)
(* the connection's.                                                       *)
LEMMA UnpostedEvents ==
  ASSUME NEW S, NEW q \in Seq(S), NEW c
  PROVE  /\ Unposted(q, c) \in Seq(S)
         /\ \A i \in 1 .. Len(Unposted(q, c)) :
              /\ Unposted(q, c)[i].c # c
              /\ \E j \in 1 .. Len(q) : Unposted(q, c)[i] = q[j]
<1> DEFINE N == Len(q)
           R == {e \in S : e.c # c /\ \E j \in 1 .. N : e = q[j]}
           P(f) == f = [n \in 0 .. N |-> IF n = 0 THEN <<>>
                                         ELSE IF q[n].c = c THEN f[n - 1]
                                         ELSE Append(f[n - 1], q[n])]
           left[n \in 0 .. N] == IF n = 0 THEN <<>>
                                 ELSE IF q[n].c = c THEN left[n - 1]
                                 ELSE Append(left[n - 1], q[n])
           g == [n \in 1 .. N |-> [s \in Seq(R) |->
                   IF q[n].c = c THEN s ELSE Append(s, q[n])]]
<1>1. N \in Nat /\ \A n \in 1 .. N : q[n] \in S /\ (q[n].c # c => q[n] \in R)
  OBVIOUS
<1>2. g \in [1 .. N -> [Seq(R) -> Seq(R)]] /\ <<>> \in Seq(R)
  <2> HIDE DEF R
  <2>1. \A n \in 1 .. N : \A s \in Seq(R) :
          (IF q[n].c = c THEN s ELSE Append(s, q[n])) \in Seq(R)
    BY <1>1
  <2> QED BY <2>1
<1>3. PICK h \in [0 .. N -> Seq(R)] : Repeats(h, <<>>, g, N)
  <2> HIDE DEF g, N, R
  <2> QED BY <1>1, <1>2, Iteration
<1>4. P(h)
  <2>1. h[0] = <<>>
    BY <1>3 DEF Repeats
  <2>2. ASSUME NEW n \in 1 .. N
        PROVE  h[n] = IF q[n].c = c THEN h[n - 1] ELSE Append(h[n - 1], q[n])
    <3>1. h[n] = g[n][h[n - 1]]
      BY <1>3 DEF Repeats
    <3>2. h[n - 1] \in Seq(R)
      <4> HIDE DEF g, R
      <4>1. n - 1 \in 0 .. N
        BY <1>1
      <4> QED BY <1>3, <4>1
    <3>3. g[n] = [s \in Seq(R) |-> IF q[n].c = c THEN s ELSE Append(s, q[n])]
      OBVIOUS
    <3> HIDE DEF g, R
    <3> QED BY <3>1, <3>2, <3>3
  <2> HIDE DEF g, R
  <2>3. \A n \in 0 .. N : h[n] = IF n = 0 THEN <<>>
                                 ELSE IF q[n].c = c THEN h[n - 1]
                                 ELSE Append(h[n - 1], q[n])
    <3> SUFFICES ASSUME NEW n \in 0 .. N, n # 0
                 PROVE  h[n] = IF q[n].c = c THEN h[n - 1] ELSE Append(h[n - 1], q[n])
      BY <2>1
    <3>1. n \in 1 .. N
      BY <1>1
    <3> QED BY <2>2, <3>1, Zenon
  <2>4. h = [n \in 0 .. N |-> h[n]]
    BY <1>3
  <2> QED BY <2>3, <2>4
<1>5. left = CHOOSE f : P(f)
  BY Zenon
<1>6. P(CHOOSE f : P(f))
  <2> HIDE DEF P
  <2> QED BY <1>4, Zenon
<1>7. Unposted(q, c) = left[N]
  BY ZenonT(40) DEF Unposted
<1> HIDE DEF left
<1>8. P(left)
  BY <1>5, <1>6
<1> DEFINE T == {n \in 0 .. N : left[n] \in Seq(R)}
<1>9. 0 .. N \subseteq T
  <2>1. 0 \in T
    <3>1. \A n \in 0 .. N : n = 0 => left[n] = <<>>
      BY <1>8
    <3>2. 0 \in 0 .. N
      BY <1>1
    <3>3. left[0] \in Seq(R)
      BY <1>2, <3>1, <3>2, Zenon
    <3> QED BY <3>2, <3>3, Zenon
  <2>2. ASSUME NEW n \in 1 .. N, n - 1 \in T PROVE n \in T
    <3>0. n \in 0 .. N /\ n # 0
      BY <1>1
    <3>1. left[n] = IF q[n].c = c THEN left[n - 1] ELSE Append(left[n - 1], q[n])
      <4>1. left[n] = IF n = 0 THEN <<>>
                      ELSE IF q[n].c = c THEN left[n - 1]
                      ELSE Append(left[n - 1], q[n])
        BY <1>8, <3>0
      <4> QED BY <3>0, <4>1, Zenon
    <3>2. q[n].c # c => q[n] \in R
      BY <1>1
    <3> HIDE DEF R, P
    <3>3. left[n] \in Seq(R)
      BY <2>2, <3>1, <3>2
    <3> QED BY <3>0, <3>3, Zenon
  <2> HIDE DEF T, N
  <2> QED BY <1>1, <2>1, <2>2, Upto
<1>10. left[N] \in Seq(R)
  <2> HIDE DEF R, P
  <2> QED BY <1>1, <1>9
<1>11. Seq(R) \subseteq Seq(S)
  BY SeqMonotonic
<1>12. \A i \in 1 .. Len(left[N]) : left[N][i] \in R
  <2> HIDE DEF R, P
  <2> QED BY <1>10, ElementOfSeq
<1> QED BY <1>7, <1>10, <1>11, <1>12

-----------------------------------------------------------------------------
(* The connections of a worker. *)

ConnType == [open : BOOLEAN, instance : BOOLEAN,
             handler : {"none", "request", "keepalive", "shutdown", "cached"},
             client : Conns \cup {None}, reusable : BOOLEAN, close : BOOLEAN,
             ssl : BOOLEAN]

EventType == [c : Conns \cup {Listen}, dir : {"read", "write"}, instance : BOOLEAN,
              reused : Nat]

WorldType == [conn : [Conns -> ConnType], free : Seq(Conns), reusable : Seq(Conns),
              batch : Seq(EventType), timers : SUBSET Conns, posted : Seq(EventType),
              refused : BOOLEAN, linger : BOOLEAN, got : Conns \cup {None}]

Unused(k) == {c \in Conns : ~k[c].open}
Marked(k) == {c \in Conns : k[c].reusable}

(* What a connection may be, by itself and with the others: an upstream    *)
(* connection has a client with a request, and a client at most one of     *)
(* them.                                                                   *)
Role(r) == /\ r.open <=> r.handler # "none"
           /\ r.handler = "keepalive" => r.reusable
           /\ r.reusable => r.handler \in {"keepalive", "shutdown"}
           /\ r.client # None => r.handler = "request"

Serves(k, c) == k[c].handler = "request" /\ k[c].client = None

Roles(k) == /\ \A c \in Conns : Role(k[c])
            /\ \A c \in Conns : k[c].client # None => Serves(k, k[c].client)
            /\ \A c, d \in Conns : k[c].client # None /\ k[c].client = k[d].client => c = d

(* Timers and posted events are of open connections, in their present use. *)
Current(k, ti, po) ==
  /\ \A c \in ti : k[c].open
  /\ \A i \in 1 .. Len(po) : po[i].c \in Conns /\ k[po[i].c].open /\ po[i].reused = 0

(* The instance bit counts the reuses of an object, modulo 2. *)
Reported(k, ba) ==
  \A i \in 1 .. Len(ba) :
    ba[i].c \in Conns => (k[ba[i].c].instance = ba[i].instance <=> ba[i].reused % 2 = 0)

Sound(w) == /\ w \in WorldType
            /\ Roles(w.conn)
            /\ Holds(w.free, Unused(w.conn))
            /\ Holds(w.reusable, Marked(w.conn))
            /\ Current(w.conn, w.timers, w.posted)
            /\ Reported(w.conn, w.batch)
            /\ w.refused = FALSE

(* A connection that may be in the place of c, as far as the others go. *)
Fits(k, c, r) ==
  /\ r \in ConnType /\ Role(r)
  /\ r.client # None => /\ r.client # c /\ Serves(k, r.client)
                        /\ \A d \in Conns : k[d].client = r.client => d = c
  /\ (r.handler = "request" /\ r.client = None) \/ (\A d \in Conns : k[d].client # c)

(* One connection changes, and the roles of all remain right. *)
LEMMA RolesKept ==
  ASSUME NEW k \in [Conns -> ConnType], Roles(k), NEW c \in Conns, NEW r, Fits(k, c, r)
  PROVE  Roles([k EXCEPT ![c] = r]) /\ [k EXCEPT ![c] = r] \in [Conns -> ConnType]
<1> DEFINE m == [k EXCEPT ![c] = r]
<1>1. m \in [Conns -> ConnType] /\ m[c] = r /\ \A d \in Conns : d # c => m[d] = k[d]
  BY DEF Fits
<1>2. \A d \in Conns : k[d].client \in Conns \cup {None}
  BY DEF ConnType
<1>3. r.client \in Conns \cup {None} /\ None \notin Conns
  BY ConnsAssumption DEF Fits, ConnType
<1> HIDE DEF m
<1>4. ASSUME NEW d \in Conns PROVE Role(m[d])
  BY <1>1 DEF Fits, Roles
<1>5. ASSUME NEW d \in Conns, m[d].client # None PROVE Serves(m, m[d].client)
  <2>1. CASE d = c
    BY <1>1, <1>3, <1>5, <2>1 DEF Fits, Serves
  <2>2. CASE d # c
    <3>1. Serves(k, k[d].client) /\ m[d].client = k[d].client /\ k[d].client \in Conns
      BY <1>1, <1>2, <1>5, <2>2 DEF Roles
    <3>2. CASE k[d].client = c
      BY <1>1, <3>1, <3>2 DEF Fits, Serves
    <3>3. CASE k[d].client # c
      BY <1>1, <3>1, <3>3 DEF Serves
    <3> QED BY <3>2, <3>3
  <2> QED BY <2>1, <2>2
<1>6. ASSUME NEW d \in Conns, NEW e \in Conns, m[d].client # None,
             m[d].client = m[e].client
      PROVE  d = e
  <2>1. CASE d # c /\ e # c
    BY <1>1, <1>6, <2>1 DEF Roles
  <2>2. CASE d = c /\ e # c
    BY <1>1, <1>6, <2>2 DEF Fits
  <2>3. CASE d # c /\ e = c
    BY <1>1, <1>6, <2>3 DEF Fits
  <2> QED BY <2>1, <2>2, <2>3
<1>7. Roles(m)
  BY <1>4, <1>5, <1>6 DEF Roles
<1> QED BY <1>1, <1>7 DEF m

(* ... and the lists it belongs in. *)
LEMMA ListsChange ==
  ASSUME NEW k \in [Conns -> ConnType], NEW c \in Conns, NEW r \in ConnType
  PROVE  /\ Unused([k EXCEPT ![c] = r]) = IF r.open THEN Unused(k) \ {c}
                                          ELSE Unused(k) \cup {c}
         /\ Marked([k EXCEPT ![c] = r]) = IF r.reusable THEN Marked(k) \cup {c}
                                          ELSE Marked(k) \ {c}
<1> DEFINE m == [k EXCEPT ![c] = r]
<1>1. m[c] = r /\ \A d \in Conns : d # c => m[d] = k[d]
  OBVIOUS
<1> HIDE DEF m
<1>2. Unused(m) = IF r.open THEN Unused(k) \ {c} ELSE Unused(k) \cup {c}
  BY <1>1 DEF Unused
<1>3. Marked(m) = IF r.reusable THEN Marked(k) \cup {c} ELSE Marked(k) \ {c}
  BY <1>1 DEF Marked
<1> QED BY <1>2, <1>3 DEF m

(* What a handler leaves alone with the connections and the two lists. *)
Rest(x, w) == /\ x.batch = w.batch /\ x.timers = w.timers /\ x.posted = w.posted
              /\ x.refused = w.refused /\ x.linger = w.linger /\ x.got = w.got

(* The mark of a connection is b, and the queue agrees. *)
Queued(x, w, c, b) ==
  /\ x \in WorldType
  /\ x.conn = [w.conn EXCEPT ![c].reusable = b]
  /\ x.free = w.free
  /\ Holds(x.reusable, IF b THEN Marked(w.conn) \cup {c} ELSE Marked(w.conn) \ {c})
  /\ Rest(x, w)

(* ngx_reusable_connection: the queue and the mark agree. *)
LEMMA SetReusableResult ==
  ASSUME NEW w \in WorldType, Holds(w.reusable, Marked(w.conn)), NEW c \in Conns,
         NEW b \in BOOLEAN, NEW x, x = SetReusable(w, c, b)
  PROVE  Queued(x, w, c, b)
<1> DEFINE M == Marked(w.conn)
           rest == IF w.conn[c].reusable THEN QueueRemove(w.reusable, c) ELSE w.reusable
           q == IF b THEN <<c>> \o rest ELSE rest
           k == [w.conn EXCEPT ![c].reusable = b]
<1>1. Holds(rest, M \ {c})
  <2>1. CASE w.conn[c].reusable
    <3>1. c \in M
      BY <2>1 DEF Marked
    <3>2. Holds(QueueRemove(w.reusable, c), M \ {c})
      BY <3>1, HoldsRemove
    <3>3. rest = QueueRemove(w.reusable, c)
      BY <2>1
    <3> HIDE DEF rest
    <3> QED BY <3>2, <3>3
  <2>2. CASE ~w.conn[c].reusable
    <3>1. M \ {c} = M
      BY <2>2 DEF Marked
    <3> QED BY <2>2, <3>1
  <2> QED BY <2>1, <2>2
<1>2. Holds(q, IF b THEN M \cup {c} ELSE M \ {c})
  <2>1. CASE b
    <3> HIDE DEF rest, M
    <3>1. Holds(<<c>> \o rest, (M \ {c}) \cup {c})
      BY <1>1, HoldsInsert
    <3>2. (M \ {c}) \cup {c} = M \cup {c}
      OBVIOUS
    <3> QED BY <2>1, <3>1, <3>2
  <2>2. CASE ~b
    BY <1>1, <2>2
  <2> QED BY <2>1, <2>2
<1>3. q \in Seq(Conns)
  <2>1. M \subseteq Conns
    BY DEF Marked
  <2>2. q \in Seq(IF b THEN M \cup {c} ELSE M \ {c})
    BY <1>2 DEF Holds
  <2>3. (IF b THEN M \cup {c} ELSE M \ {c}) \subseteq Conns
    BY <2>1
  <2> HIDE DEF q, M
  <2> QED BY <2>2, <2>3, SeqMonotonic
<1>4. k \in [Conns -> ConnType]
  BY ZenonT(40) DEF WorldType, ConnType
<1>5. x = [w EXCEPT !.conn = k, !.reusable = q]
  BY Zenon DEF SetReusable
<1> HIDE DEF k, q
<1>6. /\ x \in WorldType /\ x.conn = k /\ x.reusable = q /\ x.free = w.free
      /\ Rest(x, w)
  BY <1>3, <1>4, <1>5 DEF WorldType, Rest
<1> QED BY <1>2, <1>6 DEF k, Queued

-----------------------------------------------------------------------------
(* Closing. *)

(* A world in which one connection changed and its lists have followed. *)
Follows(x, w, c, r) ==
  /\ x \in WorldType /\ x.conn = [w.conn EXCEPT ![c] = r]
  /\ Holds(x.free, IF r.open THEN Unused(w.conn) \ {c} ELSE Unused(w.conn) \cup {c})
  /\ Holds(x.reusable, IF r.reusable THEN Marked(w.conn) \cup {c}
                       ELSE Marked(w.conn) \ {c})
  /\ Current(x.conn, x.timers, x.posted)
  /\ Reported(x.conn, x.batch)
  /\ x.refused = FALSE

(* ... is sound. *)
LEMMA SoundChange ==
  ASSUME NEW w, Sound(w), NEW c \in Conns, NEW r, Fits(w.conn, c, r),
         NEW x, Follows(x, w, c, r)
  PROVE  Sound(x)
<1> USE DEF Follows
<1>1. w.conn \in [Conns -> ConnType] /\ Roles(w.conn) /\ r \in ConnType
  BY DEF Sound, WorldType, Fits
<1>2. Roles(x.conn)
  BY <1>1, RolesKept
<1>3. Holds(x.free, Unused(x.conn)) /\ Holds(x.reusable, Marked(x.conn))
  BY <1>1, ListsChange
<1> QED BY <1>2, <1>3 DEF Sound

(* What a closed object is. *)
LEMMA ClosedType ==
  ASSUME NEW i \in BOOLEAN
  PROVE  /\ Closed(i) \in ConnType /\ Role(Closed(i))
         /\ ~Closed(i).open /\ Closed(i).instance = i /\ Closed(i).client = None
         /\ ~Closed(i).reusable
BY ConnsAssumption DEF Closed, ConnType, Role

(* The fields of a sound world have their types. *)
LEMMA SoundFields ==
  ASSUME NEW w, Sound(w)
  PROVE  /\ w \in WorldType /\ w.conn \in [Conns -> ConnType]
         /\ w.free \in Seq(Conns) /\ w.reusable \in Seq(Conns)
         /\ w.batch \in Seq(EventType) /\ w.posted \in Seq(EventType)
         /\ w.timers \in SUBSET Conns /\ w.linger \in BOOLEAN
         /\ w.got \in Conns \cup {None}
         /\ \A c \in Conns : /\ w.conn[c] \in ConnType
                             /\ w.conn[c].instance \in BOOLEAN
                             /\ w.conn[c].client \in Conns \cup {None}
BY DEF Sound, WorldType, ConnType

(* Nobody's upstream connection is at c for its client. *)
Unserved(k, c) == \A d \in Conns : k[d].client # c

(* ngx_close_connection: the object is in the free list, its timer and its *)
(* posted events are gone.                                                 *)
LEMMA CloseConnectionResult ==
  ASSUME NEW w, Sound(w), NEW c \in Conns, w.conn[c].open, Unserved(w.conn, c),
         NEW x, x = CloseConnection(w, c)
  PROVE  /\ Sound(x)
         /\ x.conn = [w.conn EXCEPT ![c] = Closed(w.conn[c].instance)]
         /\ x.free # <<>> /\ x.linger = w.linger /\ x.got = w.got
<1> PICK i \in BOOLEAN : i = w.conn[c].instance
  BY SoundFields
<1> DEFINE r == Closed(i)
           U == Unused(w.conn)
           M == Marked(w.conn)
<1>1. r \in ConnType /\ Role(r) /\ ~r.open /\ r.instance = i /\ r.client = None /\ ~r.reusable
  BY ClosedType
<1>2. PICK v : v = SetReusable(w, c, FALSE)
  OBVIOUS
<1>3. /\ v \in WorldType
      /\ v.conn = [w.conn EXCEPT ![c].reusable = FALSE]
      /\ v.free = w.free
      /\ Holds(v.reusable, M \ {c})
      /\ Rest(v, w)
  <2>1. Holds(w.reusable, Marked(w.conn)) /\ w \in WorldType
    BY DEF Sound
  <2> PICK b \in BOOLEAN : b = FALSE
    OBVIOUS
  <2>2. Queued(v, w, c, b)
    BY <1>2, <2>1, SetReusableResult
  <2> QED BY <2>2 DEF Queued
<1> HIDE DEF r
<1>4. PICK p : p = Unposted(w.posted, c)
  OBVIOUS
<1>5. /\ p \in Seq(EventType)
      /\ \A n \in 1 .. Len(p) : /\ p[n].c # c
                                /\ \E j \in 1 .. Len(w.posted) : p[n] = w.posted[j]
  <2>1. w.posted \in Seq(EventType)
    BY SoundFields
  <2> QED BY <1>4, <2>1, UnpostedEvents
<1>6. PICK f : f = <<c>> \o w.free
  OBVIOUS
<1>7. f \in Seq(Conns) /\ f # <<>> /\ Holds(f, U \cup {c})
  <2>1. c \notin U /\ Holds(w.free, U)
    BY DEF Sound, Unused
  <2>2. Holds(f, U \cup {c})
    BY <1>6, <2>1, HoldsInsert
  <2>3. U \cup {c} \subseteq Conns
    BY DEF Unused
  <2>4. f \in Seq(U \cup {c})
    BY <2>2 DEF Holds
  <2>5. f \in Seq(Conns)
    BY <2>3, <2>4, SeqMonotonic
  <2>6. f # <<>>
    BY <2>2, HoldsEmpty, Zenon
  <2> QED BY <2>2, <2>5, <2>6
<1>8. PICK m : m = [w.conn EXCEPT ![c] = r]
  OBVIOUS
<1>9. m \in [Conns -> ConnType] /\ m[c] = r /\ \A d \in Conns : d # c => m[d] = w.conn[d]
  BY <1>1, <1>8, SoundFields
<1>10. [v.conn EXCEPT ![c] = r] = m
  BY <1>1, <1>3, <1>8, SoundFields
<1>11. x = [v EXCEPT !.conn = m, !.free = f, !.timers = w.timers \ {c}, !.posted = p]
  <2>1. x = [v EXCEPT !.conn[c] = Closed(w.conn[c].instance), !.free = <<c>> \o v.free,
                      !.timers = v.timers \ {c}, !.posted = Unposted(v.posted, c)]
    BY <1>2, Zenon DEF CloseConnection
  <2>2. v.timers = w.timers /\ v.posted = w.posted /\ v.free = w.free
    BY <1>3 DEF Rest
  <2> QED BY <1>4, <1>6, <1>10, <2>1, <2>2 DEF r
<1>12. /\ x \in WorldType /\ x.conn = m /\ x.free = f /\ x.timers = w.timers \ {c}
       /\ x.posted = p /\ x.reusable = v.reusable /\ x.batch = w.batch
       /\ x.refused = w.refused /\ x.linger = w.linger /\ x.got = w.got
  <2>1. w.timers \ {c} \in SUBSET Conns
    BY SoundFields
  <2> QED BY ZenonT(40), <1>3, <1>5, <1>7, <1>9, <1>11, <2>1 DEF WorldType, Rest
<1>13. Fits(w.conn, c, r)
  BY <1>1 DEF Fits, Unserved
<1>14. Current(m, w.timers \ {c}, p)
  <2>1. Current(w.conn, w.timers, w.posted)
    BY DEF Sound
  <2>2. ASSUME NEW d \in w.timers \ {c} PROVE m[d].open
    BY <1>9, <2>1, SoundFields DEF Current
  <2>3. ASSUME NEW n \in 1 .. Len(p)
        PROVE  p[n].c \in Conns /\ m[p[n].c].open /\ p[n].reused = 0
    <3>1. PICK j \in 1 .. Len(w.posted) : p[n] = w.posted[j]
      BY <1>5
    <3>2. p[n].c \in Conns /\ w.conn[p[n].c].open /\ p[n].reused = 0 /\ p[n].c # c
      BY <1>5, <2>1, <3>1 DEF Current
    <3> QED BY <1>9, <3>2
  <2> QED BY <2>2, <2>3 DEF Current
<1>15. Reported(m, w.batch)
  BY <1>1, <1>9 DEF Sound, Reported
<1>16. w.refused = FALSE
  BY DEF Sound
<1>17. Sound(x)
  <2>1. /\ Holds(x.free, IF r.open THEN U \ {c} ELSE U \cup {c})
        /\ Holds(x.reusable, IF r.reusable THEN M \cup {c} ELSE M \ {c})
    BY <1>1, <1>3, <1>7, <1>12
  <2>2. Current(x.conn, x.timers, x.posted) /\ Reported(x.conn, x.batch) /\ x.refused = FALSE
    BY <1>12, <1>14, <1>15, <1>16
  <2>3. x.conn = [w.conn EXCEPT ![c] = r] /\ x \in WorldType
    BY <1>8, <1>12
  <2>4. Follows(x, w, c, r)
    BY <2>1, <2>2, <2>3 DEF Follows
  <2> QED BY <1>13, <2>4, SoundChange
<1> QED BY <1>7, <1>8, <1>12, <1>17 DEF r

(* A connection changes its role and stays in its lists. *)
Becomes(w, c, r) == [w EXCEPT !.conn = [w.conn EXCEPT ![c] = r]]

SameLists(r, s) ==
  r.open = s.open /\ r.reusable = s.reusable /\ r.instance = s.instance

LEMMA RoleChange ==
  ASSUME NEW w, Sound(w), NEW c \in Conns, NEW r, Fits(w.conn, c, r),
         SameLists(r, w.conn[c]),
         NEW x, x = Becomes(w, c, r)
  PROVE  /\ Sound(x)
         /\ x.conn = [w.conn EXCEPT ![c] = r]
         /\ x.free = w.free /\ x.reusable = w.reusable /\ Rest(x, w)
<1> PICK m : m = [w.conn EXCEPT ![c] = r]
  OBVIOUS
<1>1. m \in [Conns -> ConnType] /\ m[c] = r /\ \A d \in Conns : d # c => m[d] = w.conn[d]
  BY SoundFields DEF Fits
<1>2. /\ x \in WorldType /\ x.conn = m
      /\ x.free = w.free /\ x.reusable = w.reusable /\ Rest(x, w)
  BY <1>1 DEF Sound, WorldType, Rest, Becomes
<1>3. Unused(m) = Unused(w.conn) /\ Marked(m) = Marked(w.conn)
  BY <1>1 DEF Unused, Marked, SameLists
<1>4. Current(m, w.timers, w.posted)
  <2>1. Current(w.conn, w.timers, w.posted)
    BY DEF Sound
  <2>2. \A d \in Conns : m[d].open = w.conn[d].open
    BY <1>1 DEF SameLists
  <2> QED BY <2>1, <2>2, SoundFields DEF Current
<1>5. Reported(m, w.batch)
  <2>1. \A d \in Conns : m[d].instance = w.conn[d].instance
    BY <1>1 DEF SameLists
  <2> QED BY <2>1 DEF Sound, Reported
<1>6. Roles(m)
  <2>1. w.conn \in [Conns -> ConnType] /\ Roles(w.conn)
    BY DEF Sound, WorldType
  <2> QED BY <2>1, RolesKept
<1> QED BY <1>2, <1>3, <1>4, <1>5, <1>6 DEF Sound, Rest

(* A connection that is no request of a client has nobody upstream. *)
LEMMA NobodyUpstream ==
  ASSUME NEW w, Sound(w), NEW c \in Conns, ~Serves(w.conn, c)
  PROVE  Unserved(w.conn, c)
<1> SUFFICES ASSUME NEW d \in Conns, w.conn[d].client = c PROVE FALSE
  BY DEF Unserved
<1>1. w.conn[d].client # None
  BY ConnsAssumption
<1> QED BY <1>1 DEF Sound, Roles

(* ngx_http_close_connection: closed, or ending TLS where it is. *)
LEMMA CloseHttpResult ==
  ASSUME NEW w, Sound(w), NEW c \in Conns, w.conn[c].open, w.conn[c].client = None,
         Unserved(w.conn, c), NEW x, x = CloseHttp(w, c)
  PROVE  /\ Sound(x) /\ x.linger = w.linger /\ x.got = w.got
         /\ \A d \in Conns : d # c => x.conn[d] = w.conn[d]
         /\ x.conn[c].client = None
         /\ \/ x.free # <<>>
            \/ x.conn[c].handler = "shutdown" /\ x.conn[c].reusable = w.conn[c].reusable
<1>1. CASE w.conn[c].ssl /\ w.linger
  <2>1. PICK r \in ConnType :
          /\ r.open = w.conn[c].open /\ r.instance = w.conn[c].instance
          /\ r.reusable = w.conn[c].reusable /\ r.client = None /\ r.handler = "shutdown"
          /\ x = Becomes(w, c, r)
    <3> DEFINE r == [w.conn[c] EXCEPT !.handler = "shutdown"]
    <3>1. /\ r \in ConnType /\ r.open = w.conn[c].open /\ r.instance = w.conn[c].instance
          /\ r.reusable = w.conn[c].reusable /\ r.client = None /\ r.handler = "shutdown"
      BY ZenonT(40), SoundFields DEF ConnType
    <3>2. x = Becomes(w, c, r)
      BY <1>1 DEF CloseHttp, Becomes
    <3> HIDE DEF r
    <3> QED BY <3>1, <3>2
  <2>2. Role(w.conn[c])
    BY DEF Sound, Roles
  <2>3. Fits(w.conn, c, r)
    BY <2>1, <2>2 DEF Fits, Unserved, Role
  <2>5. Sound(x) /\ x.conn = [w.conn EXCEPT ![c] = r] /\ Rest(x, w)
    <3>1. SameLists(r, w.conn[c])
      BY <2>1 DEF SameLists
    <3> QED BY <2>1, <2>3, <3>1, RoleChange
  <2> QED BY <2>1, <2>5, SoundFields DEF Rest
<1>2. CASE ~(w.conn[c].ssl /\ w.linger)
  <2>1. x = CloseConnection(w, c)
    BY <1>2 DEF CloseHttp
  <2>2. /\ Sound(x) /\ x.conn = [w.conn EXCEPT ![c] = Closed(w.conn[c].instance)]
        /\ x.free # <<>> /\ x.linger = w.linger /\ x.got = w.got
    BY <2>1, CloseConnectionResult
  <2>3. Closed(w.conn[c].instance).client = None
    BY DEF Closed
  <2> QED BY <2>2, <2>3, SoundFields
<1> QED BY <1>1, <1>2

-----------------------------------------------------------------------------
(* Draining. *)

(* What a drain leaves alone: upstream connections, and what clients ask.  *)
KeepsRequests(x, w) ==
  \A c \in Conns : /\ x.conn[c].client = w.conn[c].client
                   /\ w.conn[c].handler = "request" => x.conn[c] = w.conn[c]

(* One call of a handler: afterwards there is a free connection, or one    *)
(* that is ending TLS holds up the queue, or none is idle.                 *)
LEMMA DrainOneResult ==
  ASSUME NEW w, Sound(w), NEW x, x = DrainOne(w)
  PROVE  /\ Sound(x) /\ KeepsRequests(x, w) /\ x.linger = w.linger /\ x.got = w.got
         /\ x.free # <<>> \/ EndingIn(x) # {} \/ IdleIn(x) = {}
<1> DEFINE M == Marked(w.conn)
<1>0. Holds(w.reusable, M)
  BY DEF Sound
<1>1. CASE w.reusable = <<>>
  <2>1. x = w
    BY <1>1 DEF DrainOne
  <2>2. M = {}
    BY <1>0, <1>1, HoldsEmpty
  <2>3. \A c \in Conns : ~w.conn[c].reusable
    BY <2>2 DEF Marked
  <2>4. \A c \in Conns : w.conn[c].handler # "keepalive"
    BY <2>3 DEF Sound, Roles, Role
  <2> QED BY <2>1, <2>4 DEF IdleIn, KeepsRequests
<1>2. CASE w.reusable # <<>>
  <2> PICK c : c = Last(w.reusable)
    OBVIOUS
  <2>1. c \in M
    BY <1>0, <1>2, HoldsFront
  <2>2. /\ c \in Conns /\ w.conn[c].reusable /\ w.conn[c].open /\ w.conn[c].client = None
        /\ w.conn[c].handler \in {"keepalive", "shutdown"}
    BY <2>1 DEF Marked, Sound, Roles, Role
  <2>3. Unserved(w.conn, c)
    BY <2>2, NobodyUpstream DEF Serves
  <2>4. PICK r \in ConnType :
          /\ r.open = w.conn[c].open /\ r.instance = w.conn[c].instance
          /\ r.reusable = w.conn[c].reusable /\ r.client = w.conn[c].client
          /\ r.handler = w.conn[c].handler
          /\ x = CloseHttp(Becomes(w, c, r), c)
    <3> DEFINE r == [w.conn[c] EXCEPT !.close = TRUE]
    <3>1. w.conn[c] \in ConnType
      BY <2>2, SoundFields
    <3>2. /\ r \in ConnType /\ r.open = w.conn[c].open /\ r.instance = w.conn[c].instance
          /\ r.reusable = w.conn[c].reusable /\ r.client = w.conn[c].client
          /\ r.handler = w.conn[c].handler
      BY <3>1 DEF ConnType
    <3>3. Becomes(w, c, r) = [w EXCEPT !.conn[c].close = TRUE]
      BY DEF Becomes
    <3>4. x = CloseHttp(Becomes(w, c, r), c)
      BY <1>2, <3>3, Zenon DEF DrainOne
    <3> HIDE DEF r
    <3> QED BY <3>2, <3>4
  <2>5. Fits(w.conn, c, r)
    <3>1. Role(w.conn[c])
      BY <2>2 DEF Sound, Roles
    <3> QED BY <2>2, <2>3, <2>4, <3>1 DEF Fits, Unserved, Role
  <2> PICK v : v = Becomes(w, c, r)
    OBVIOUS
  <2>6. Sound(v) /\ v.conn = [w.conn EXCEPT ![c] = r] /\ Rest(v, w)
    <3>1. SameLists(r, w.conn[c])
      BY <2>4 DEF SameLists
    <3> QED BY <2>2, <2>5, <3>1, RoleChange
  <2>7. v.conn[c] = r /\ \A d \in Conns : d # c => v.conn[d] = w.conn[d]
    BY <2>2, <2>6, SoundFields
  <2>8. x = CloseHttp(v, c)
    BY <2>4
  <2>9. v.conn[c].open /\ v.conn[c].client = None /\ Unserved(v.conn, c)
    <3>1. v.conn[c].open
      BY <2>2, <2>4, <2>7
    <3>2. \A d \in Conns : v.conn[d].client = w.conn[d].client
      BY <2>4, <2>7
    <3> QED BY <2>2, <2>3, <3>1, <3>2 DEF Unserved
  <2>10. /\ Sound(x) /\ x.linger = v.linger /\ x.got = v.got
         /\ \A d \in Conns : d # c => x.conn[d] = v.conn[d]
         /\ x.conn[c].client = None
         /\ \/ x.free # <<>>
            \/ x.conn[c].handler = "shutdown" /\ x.conn[c].reusable = v.conn[c].reusable
    <3>1. c \in Conns /\ Sound(v)
      BY <2>2, <2>6
    <3> QED BY <2>8, <2>9, <3>1, CloseHttpResult
  <2>11. KeepsRequests(x, w)
    BY <2>2, <2>7, <2>10 DEF KeepsRequests
  <2>12. x.free # <<>> \/ EndingIn(x) # {}
    BY <2>2, <2>4, <2>7, <2>10 DEF EndingIn
  <2> QED BY <2>6, <2>10, <2>11, <2>12 DEF Rest
<1> QED BY <1>1, <1>2

(* ngx_drain_connections *)
LEMMA DrainResult ==
  ASSUME NEW w, Sound(w), NEW x, x = Drain(w)
  PROVE  /\ Sound(x) /\ KeepsRequests(x, w) /\ x.linger = w.linger /\ x.got = w.got
         /\ x.free # <<>> \/ EndingIn(x) # {} \/ IdleIn(x) = {}
<1> DEFINE N == MaxDrain
           S == {y \in WorldType : /\ Sound(y) /\ KeepsRequests(y, w)
                                   /\ y.linger = w.linger /\ y.got = w.got}
           P(f) == f = [n \in 0 .. MaxDrain |-> IF n = 0 THEN w ELSE DrainOne(f[n - 1])]
           drained[n \in 0 .. MaxDrain] == IF n = 0 THEN w ELSE DrainOne(drained[n - 1])
           g == [n \in 1 .. N |-> [y \in S |-> DrainOne(y)]]
<1>1. N \in Nat /\ N # 0
  BY BatchAssumption
<1>2. w \in S
  BY DEF Sound, KeepsRequests
<1>3. ASSUME NEW y \in S
      PROVE  /\ DrainOne(y) \in S
             /\ \/ DrainOne(y).free # <<>> \/ EndingIn(DrainOne(y)) # {}
                \/ IdleIn(DrainOne(y)) = {}
  <2> PICK z : z = DrainOne(y)
    OBVIOUS
  <2>1. /\ Sound(z) /\ KeepsRequests(z, y) /\ z.linger = y.linger /\ z.got = y.got
        /\ z.free # <<>> \/ EndingIn(z) # {} \/ IdleIn(z) = {}
    BY DrainOneResult
  <2>2. KeepsRequests(z, w)
    BY <2>1 DEF KeepsRequests
  <2>3. z \in WorldType
    BY <2>1 DEF Sound
  <2> QED BY <2>1, <2>2, <2>3
<1> HIDE DEF S
<1>4. g \in [1 .. N -> [S -> S]]
  BY <1>3
<1>5. PICK h \in [0 .. N -> S] : Repeats(h, w, g, N)
  <2> HIDE DEF g, N
  <2> QED BY <1>1, <1>2, <1>4, Iteration
<1>6. P(h)
  <2>1. h[0] = w
    BY <1>5 DEF Repeats
  <2>2. ASSUME NEW n \in 1 .. N PROVE h[n] = DrainOne(h[n - 1])
    <3>1. h[n] = g[n][h[n - 1]]
      BY <1>5 DEF Repeats
    <3>2. n - 1 \in 0 .. N
      BY <1>1
    <3>3. h[n - 1] \in S
      BY <1>5, <3>2
    <3>4. g[n] = [y \in S |-> DrainOne(y)]
      OBVIOUS
    <3> HIDE DEF g
    <3> QED BY <3>1, <3>3, <3>4
  <2>3. \A n \in 0 .. N : h[n] = IF n = 0 THEN w ELSE DrainOne(h[n - 1])
    <3> SUFFICES ASSUME NEW n \in 0 .. N, n # 0 PROVE h[n] = DrainOne(h[n - 1])
      BY <2>1
    <3>1. n \in 1 .. N
      BY <1>1
    <3> QED BY <2>2, <3>1
  <2>4. h = [n \in 0 .. N |-> h[n]]
    BY <1>5
  <2> QED BY <2>3, <2>4
<1>7. drained = CHOOSE f : P(f)
  BY Zenon
<1>8. P(CHOOSE f : P(f))
  <2> HIDE DEF P
  <2> QED BY <1>6, Zenon
<1>9. x = drained[N]
  BY Zenon DEF Drain
<1> HIDE DEF drained
<1>10. P(drained)
  BY <1>7, <1>8
<1>11. \A n \in 0 .. N : drained[n] = IF n = 0 THEN w ELSE DrainOne(drained[n - 1])
  BY <1>10
<1> HIDE DEF P
<1> DEFINE T == {n \in 0 .. N : drained[n] \in S}
<1>12. 0 .. N \subseteq T
  <2>1. 0 \in T
    <3>1. \A n \in 0 .. N : n = 0 => drained[n] = w
      BY <1>11
    <3>2. 0 \in 0 .. N
      BY <1>1
    <3> QED BY <1>2, <3>1, <3>2, Zenon
  <2>2. ASSUME NEW n \in 1 .. N, n - 1 \in T PROVE n \in T
    <3>1. n \in 0 .. N /\ n # 0
      BY <1>1
    <3>2. drained[n] = DrainOne(drained[n - 1])
      BY <1>11, <3>1
    <3>3. drained[n] \in S
      BY <1>3, <2>2, <3>2
    <3> QED BY <3>1, <3>3, Zenon
  <2> HIDE DEF T, N
  <2> QED BY <1>1, <2>1, <2>2, Upto
<1>13. N \in 0 .. N /\ N - 1 \in 0 .. N
  BY <1>1
<1>14. drained[N] = DrainOne(drained[N - 1]) /\ drained[N - 1] \in S
  BY <1>1, <1>11, <1>12, <1>13
<1> HIDE DEF N
<1> QED BY <1>3, <1>9, <1>14 DEF S

-----------------------------------------------------------------------------
(* Opening. *)

Older(e) == [e EXCEPT !.reused = e.reused + 1]

(* The events of an object count its uses; nothing else about them changes. *)
LEMMA ReusedEvents ==
  ASSUME NEW q \in Seq(EventType), NEW c \in Conns
  PROVE  /\ Reused(q, c) \in Seq(EventType)
         /\ Len(Reused(q, c)) = Len(q)
         /\ \A i \in 1 .. Len(q) :
              \/ q[i].c = c /\ Reused(q, c)[i] = Older(q[i])
              \/ q[i].c # c /\ Reused(q, c)[i] = q[i]
<1> DEFINE p == Reused(q, c)
<1>1. Len(q) \in Nat /\ DOMAIN q = 1 .. Len(q) /\ \A i \in 1 .. Len(q) : q[i] \in EventType
  BY ElementOfSeq
<1>2. p = [i \in 1 .. Len(q) |-> IF q[i].c = c THEN Older(q[i])
                                 ELSE q[i]]
  BY <1>1 DEF Reused, Older
<1>3. \A i \in 1 .. Len(q) : Older(q[i]) \in EventType
  BY SMTT(30), <1>1 DEF EventType, Older
<1>4. p \in [1 .. Len(q) -> EventType]
  BY <1>1, <1>2, <1>3
<1>5. p \in Seq(EventType) /\ Len(p) = Len(q)
  <2> HIDE DEF p
  <2> QED BY <1>1, <1>4, LenProperties, SeqDef
<1>6. \A i \in 1 .. Len(q) :
        \/ q[i].c = c /\ p[i] = Older(q[i])
        \/ q[i].c # c /\ p[i] = q[i]
  BY <1>2
<1> QED BY <1>5, <1>6

(* The record of a connection that has just been opened. *)
Opened(i, client, ssl) ==
  [Closed(i) EXCEPT !.open = TRUE, !.client = client, !.handler = "request", !.ssl = ssl]

(* A client that may be given an upstream connection. *)
MayConnect(k, c) == c # None => c \in Conns /\ Serves(k, c) /\ Unserved(k, c)

(* A free object has been taken for a connection of the client. *)
TookFrom(x, w, client) ==
  /\ Sound(x) /\ x.got \in Conns /\ ~w.conn[x.got].open
  /\ x.conn[x.got].open /\ x.conn[x.got].handler = "request"
  /\ x.conn[x.got].client = client
  /\ \A d \in Conns : d # x.got => x.conn[d] = w.conn[d]

(* ngx_get_connection with an object in the free list: its instance bit is *)
(* turned, and the events that are left of its earlier uses are older now. *)
LEMMA TakeResult ==
  ASSUME NEW w, Sound(w), w.free # <<>>, NEW client \in Conns \cup {None},
         MayConnect(w.conn, client), NEW ssl \in BOOLEAN, NEW x, x = Take(w, client, ssl)
  PROVE  TookFrom(x, w, client)
<1> DEFINE c == Head(w.free)
           k == w.conn
           U == Unused(k)
<1>1. c \in U /\ Holds(Tail(w.free), U \ {c})
  <2>1. Holds(w.free, U)
    BY DEF Sound
  <2> QED BY <2>1, HoldsTail
<1>2. c \in Conns /\ ~k[c].open /\ k[c].client = None /\ ~k[c].reusable
  BY <1>1 DEF Unused, Sound, Roles, Role
<1> HIDE DEF c
<1> PICK i \in BOOLEAN : i = k[c].instance
  BY <1>2, SoundFields
<1> PICK j \in BOOLEAN : j = ~i
  OBVIOUS
<1> PICK r : r = Opened(j, client, ssl)
  OBVIOUS
<1>3. /\ r \in ConnType /\ Role(r) /\ r.open /\ r.handler = "request"
      /\ r.client = client /\ ~r.reusable
  BY DEF Opened, Closed, ConnType, Role
<1>4. r.instance = j
  BY DEF Opened, Closed, ConnType, Role
<1> PICK m : m = [k EXCEPT ![c] = r]
  OBVIOUS
<1>5. m \in [Conns -> ConnType] /\ m[c] = r /\ \A d \in Conns : d # c => m[d] = k[d]
  BY <1>2, <1>3, SoundFields
<1> PICK f : f = Tail(w.free)
  OBVIOUS
<1> PICK ba : ba = Reused(w.batch, c)
  OBVIOUS
<1> PICK po : po = Reused(w.posted, c)
  OBVIOUS
<1>6. /\ ba \in Seq(EventType) /\ po \in Seq(EventType)
  BY <1>2, SoundFields, ReusedEvents
<1>7. f \in Seq(Conns)
  <2>1. f \in Seq(U \ {c}) /\ U \ {c} \subseteq Conns
    BY <1>1 DEF Holds, Unused
  <2> QED BY <2>1, SeqMonotonic
<1>8. x = [w EXCEPT !.free = f, !.conn = m, !.batch = ba, !.posted = po, !.got = c]
  <2>1. [Closed(~k[c].instance) EXCEPT !.open = TRUE, !.client = client,
                                       !.handler = "request", !.ssl = ssl] = r
    BY Zenon DEF Opened
  <2>2. x = [w EXCEPT !.free = Tail(w.free),
                      !.conn[c] = [Closed(~k[c].instance) EXCEPT
                                     !.open = TRUE, !.client = client,
                                     !.handler = "request", !.ssl = ssl],
                      !.batch = Reused(w.batch, c), !.posted = Reused(w.posted, c),
                      !.got = c]
    BY Zenon DEF Take, c
  <2> QED BY <2>1, <2>2, Zenon
<1>9. /\ x \in WorldType /\ x.conn = m /\ x.free = f /\ x.batch = ba /\ x.posted = po
      /\ x.got = c /\ x.reusable = w.reusable /\ x.timers = w.timers
      /\ x.refused = w.refused
  BY <1>2, <1>5, <1>6, <1>7, <1>8 DEF Sound, WorldType
<1>10. Fits(k, c, r)
  <2>1. Unserved(k, c)
    <3>1. ~Serves(k, c)
      BY <1>2 DEF Serves, Sound, Roles, Role
    <3> QED BY <1>2, <3>1, NobodyUpstream
  <2>2. client # None => client # c
    <3>1. ~Serves(k, c)
      BY <1>2 DEF Serves, Sound, Roles, Role
    <3> QED BY <3>1 DEF MayConnect
  <2> QED BY <1>2, <1>3, <2>1, <2>2 DEF Fits, Unserved, MayConnect
<1>11. Current(m, w.timers, po)
  <2>1. Current(k, w.timers, w.posted) /\ w.posted \in Seq(EventType)
    BY SoundFields DEF Sound
  <2>2. \A d \in w.timers : m[d].open
    BY <1>2, <1>5, <2>1, SoundFields DEF Current
  <2>3. Len(po) = Len(w.posted)
    BY <1>2, <2>1, ReusedEvents
  <2>4. ASSUME NEW n \in 1 .. Len(w.posted)
        PROVE  po[n].c \in Conns /\ m[po[n].c].open /\ po[n].reused = 0
    <3>1. /\ w.posted[n].c \in Conns /\ k[w.posted[n].c].open
          /\ w.posted[n].reused = 0
      BY <2>1 DEF Current
    <3>2. w.posted[n].c # c
      BY <1>2, <3>1
    <3>3. po[n] = w.posted[n]
      BY <1>2, <2>1, <3>2, ReusedEvents
    <3> QED BY <1>5, <3>1, <3>2, <3>3
  <2> QED BY <2>2, <2>3, <2>4 DEF Current
<1>12. Reported(m, ba)
  <2>1. Reported(k, w.batch) /\ w.batch \in Seq(EventType)
    BY SoundFields DEF Sound
  <2>2. Len(ba) = Len(w.batch)
    BY <1>2, <2>1, ReusedEvents
  <2>3. ASSUME NEW n \in 1 .. Len(w.batch), ba[n].c \in Conns
        PROVE  m[ba[n].c].instance = ba[n].instance <=> ba[n].reused % 2 = 0
    <3> PICK e : e = w.batch[n]
      OBVIOUS
    <3> PICK b : b = ba[n]
      OBVIOUS
    <3>1. e \in EventType
      BY <2>1, ElementOfSeq
    <3>2. e.instance \in BOOLEAN /\ e.reused \in Nat
      BY <3>1 DEF EventType
    <3>3. e.c \in Conns => (k[e.c].instance = e.instance <=> e.reused % 2 = 0)
      BY <2>1 DEF Reported
    <3>4. \/ e.c = c /\ b = Older(e)
          \/ e.c # c /\ b = e
      BY <1>2, <2>1, ReusedEvents
    <3>5. CASE e.c = c /\ b = Older(e)
      <4>1. b.c = c /\ b.reused = e.reused + 1
        BY <3>1, <3>5 DEF EventType, Older
      <4> PICK v \in BOOLEAN : v = e.instance
        BY <3>2
      <4>2. b.instance = v
        BY <3>1, <3>5 DEF EventType, Older
      <4>3. i = v <=> e.reused % 2 = 0
        BY <1>2, <3>3, <3>5
      <4>4. (e.reused + 1) % 2 = 0 <=> ~(e.reused % 2 = 0)
        BY <3>2, Parity
      <4>5. j = v <=> b.reused % 2 = 0
        BY <4>1, <4>3, <4>4
      <4> QED BY <1>4, <1>5, <4>1, <4>2, <4>5
    <3>6. CASE e.c # c /\ b = e
      BY <1>5, <2>3, <3>3, <3>6
    <3> QED BY <3>4, <3>5, <3>6
  <2> QED BY <2>2, <2>3 DEF Reported
<1>13. Sound(x)
  <2>1. x.conn = [w.conn EXCEPT ![c] = r] /\ x \in WorldType /\ c \in Conns
    BY <1>2, <1>9
  <2>2. Holds(x.free, IF r.open THEN U \ {c} ELSE U \cup {c})
    BY <1>1, <1>3, <1>9
  <2>3. Holds(x.reusable, IF r.reusable THEN Marked(k) \cup {c} ELSE Marked(k) \ {c})
    <3>1. Marked(k) \ {c} = Marked(k)
      BY <1>2 DEF Marked
    <3>2. Holds(w.reusable, Marked(k))
      BY DEF Sound
    <3> QED BY <1>3, <1>9, <3>1, <3>2
  <2>4. Current(x.conn, x.timers, x.posted) /\ Reported(x.conn, x.batch) /\ x.refused = FALSE
    <3>1. w.refused = FALSE
      BY DEF Sound
    <3> QED BY <1>9, <1>11, <1>12, <3>1
  <2>5. Follows(x, w, c, r)
    BY <2>1, <2>2, <2>3, <2>4 DEF Follows
  <2> QED BY <1>10, <2>1, <2>5, SoundChange
<1> QED BY <1>2, <1>3, <1>5, <1>9, <1>13 DEF TookFrom

(* What ngx_get_connection returns to the caller who had w: none, after a  *)
(* drain, or an object that had no request and has one now.                *)
GotFrom(x, w, client) ==
  /\ Sound(x)
  /\ x.got = None => KeepsRequests(x, w)
  /\ x.got # None =>
       /\ x.got \in Conns /\ w.conn[x.got].handler # "request"
       /\ x.conn[x.got].open /\ x.conn[x.got].handler = "request"
       /\ x.conn[x.got].client = client
       /\ \A d \in Conns : d # x.got =>
            /\ x.conn[d].client = w.conn[d].client
            /\ w.conn[d].handler = "request" => x.conn[d] = w.conn[d]

(* ngx_get_connection: with nothing free, it drains; a connection is never *)
(* refused while an idle one is left that nothing holds up.                *)
LEMMA GetConnectionResult ==
  ASSUME NEW w, Sound(w), NEW client \in Conns \cup {None},
         MayConnect(w.conn, client), NEW ssl \in BOOLEAN,
         NEW x, x = GetConnection(w, client, ssl)
  PROVE  GotFrom(x, w, client)
<1> PICK v : v = IF w.free = <<>> THEN Drain(w) ELSE w
  OBVIOUS
<1>1. /\ Sound(v) /\ KeepsRequests(v, w)
      /\ v.free # <<>> \/ EndingIn(v) # {} \/ IdleIn(v) = {}
  <2>1. CASE w.free = <<>>
    BY <2>1, DrainResult
  <2>2. CASE w.free # <<>>
    BY <2>2 DEF KeepsRequests
  <2> QED BY <2>1, <2>2
<1>2. x = GetFrom(v, client, ssl)
  BY Zenon DEF GetConnection
<1>3. CASE v.free # <<>>
  <2>1. x = Take(v, client, ssl)
    BY <1>2, <1>3 DEF GetFrom
  <2>2. MayConnect(v.conn, client)
    BY <1>1 DEF MayConnect, KeepsRequests, Serves, Unserved
  <2>0. TookFrom(x, v, client)
    BY <1>1, <1>3, <2>1, <2>2, TakeResult, Zenon
  <2>3. /\ Sound(x) /\ x.got \in Conns /\ ~v.conn[x.got].open
        /\ x.conn[x.got].open /\ x.conn[x.got].handler = "request"
        /\ x.conn[x.got].client = client
        /\ \A d \in Conns : d # x.got => x.conn[d] = v.conn[d]
    BY <2>0 DEF TookFrom
  <2>4. w.conn[x.got].handler # "request"
    <3>1. v.conn[x.got].handler # "request"
      BY <1>1, <2>3 DEF Sound, Roles, Role
    <3> QED BY <1>1, <2>3, <3>1 DEF KeepsRequests
  <2>5. x.got # None
    BY <2>3, ConnsAssumption
  <2> QED BY <1>1, <2>3, <2>4, <2>5 DEF GotFrom, KeepsRequests
<1>4. CASE v.free = <<>>
  <2>1. (v.refused \/ (IdleIn(v) # {} /\ EndingIn(v) = {})) = FALSE
    BY <1>1, <1>4 DEF Sound
  <2>2. x = [v EXCEPT !.got = None,
                      !.refused = v.refused \/ (IdleIn(v) # {} /\ EndingIn(v) = {})]
    BY <1>2, <1>4, Zenon DEF GetFrom
  <2> PICK b : b = FALSE
    OBVIOUS
  <2>3. x = [v EXCEPT !.got = None, !.refused = b]
    BY <2>1, <2>2, Zenon
  <2>4. /\ x \in WorldType /\ x.conn = v.conn /\ x.free = v.free /\ x.reusable = v.reusable
        /\ x.batch = v.batch /\ x.timers = v.timers /\ x.posted = v.posted
        /\ x.got = None /\ x.refused = b
    BY <1>1, <2>3 DEF Sound, WorldType
  <2>5. Sound(x)
    BY <1>1, <2>4 DEF Sound
  <2> QED BY <1>1, <2>4, <2>5 DEF GotFrom, KeepsRequests
<1> QED BY <1>3, <1>4

(* A client with a request and nobody upstream. *)
Ready(w, c) == Sound(w) /\ c \in Conns /\ Serves(w.conn, c) /\ Unserved(w.conn, c)

(* A client is as before when no connection could be had for it, and when  *)
(* the one it got has been closed again.                                   *)
LEMMA TriedAgain ==
  ASSUME NEW w, NEW c, Ready(w, c), NEW x, x = Got(w, c)
  PROVE  /\ Sound(x) /\ x.got \in Conns \cup {None}
         /\ x.got = None => Ready(x, c)
         /\ x.got # None => Ready(CloseConnection(x, x.got), c)
<1>1. GotFrom(x, w, c)
  <2> PICK no : no = FALSE
    OBVIOUS
  <2>1. no \in BOOLEAN /\ x = GetConnection(w, c, no)
    BY DEF Got
  <2>2. Sound(w) /\ c \in Conns \cup {None} /\ MayConnect(w.conn, c)
    BY DEF Ready, MayConnect
  <2> QED BY <2>1, <2>2, GetConnectionResult, Zenon
<1>2. CASE x.got = None
  BY <1>1, <1>2 DEF GotFrom, KeepsRequests, Ready, Serves, Unserved
<1>3. CASE x.got # None
  <2> PICK u : u = x.got
    OBVIOUS
  <2>1. /\ Sound(x) /\ u \in Conns /\ u # c
        /\ x.conn[u].open /\ x.conn[u].client = c
        /\ \A d \in Conns : d # u => /\ x.conn[d].client = w.conn[d].client
                                     /\ w.conn[d].handler = "request" => x.conn[d] = w.conn[d]
    BY <1>1, <1>3 DEF GotFrom, Ready, Serves
  <2>2. Unserved(x.conn, u)
    <3>1. ~Serves(x.conn, u)
      BY <2>1, ConnsAssumption DEF Serves, Ready
    <3> QED BY <2>1, <3>1, NobodyUpstream
  <2> PICK y : y = CloseConnection(x, u)
    OBVIOUS
  <2>3. Sound(y) /\ y.conn = [x.conn EXCEPT ![u] = Closed(x.conn[u].instance)]
    BY <2>1, <2>2, CloseConnectionResult
  <2>4. y.conn[u].client = None /\ \A d \in Conns : d # u => y.conn[d] = x.conn[d]
    BY <2>1, <2>3, SoundFields DEF Closed
  <2>5. Serves(y.conn, c)
    BY <2>1, <2>4 DEF Serves, Ready
  <2>6. Unserved(y.conn, c)
    BY <2>1, <2>4, ConnsAssumption DEF Unserved, Ready
  <2> QED BY <1>3, <2>1, <2>3, <2>5, <2>6 DEF Ready
<1> QED BY <1>2, <1>3

(* ngx_post_event *)
LEMMA PostResult ==
  ASSUME NEW w, Sound(w), NEW c \in Conns, w.conn[c].open, NEW dir \in {"read", "write"},
         NEW x, x = Post(w, c, dir)
  PROVE  Sound(x)
<1> DEFINE e == Event(w.conn, c, dir)
           posting == \E i \in DOMAIN w.posted : w.posted[i].c = c /\ w.posted[i].dir = dir
<1>1. CASE posting
  <2>1. x = w
    BY <1>1 DEF Post
  <2> QED BY <2>1
<1>2. CASE ~posting
  <2>1. e \in EventType /\ e.c = c /\ e.reused = 0
    BY SoundFields DEF Event, EventType
  <2> HIDE DEF e
  <2> PICK p : p = <<e>> \o w.posted
    OBVIOUS
  <2>2. /\ w.posted \in Seq(EventType) /\ Len(w.posted) \in Nat
        /\ <<e>> \in Seq(EventType) /\ Len(<<e>>) = 1
    BY <2>1, SoundFields
  <2>3. /\ p \in Seq(EventType) /\ Len(p) = Len(w.posted) + 1
        /\ \A i \in 1 .. Len(p) : p[i] = IF i = 1 THEN e ELSE w.posted[i - 1]
    BY <2>2, ConcatProperties
  <2>4. x = [w EXCEPT !.posted = p]
    BY <1>2, Zenon DEF Post, e
  <2>5. /\ x \in WorldType /\ x.conn = w.conn /\ x.free = w.free /\ x.reusable = w.reusable
        /\ x.batch = w.batch /\ x.timers = w.timers /\ x.posted = p /\ x.refused = w.refused
    BY <2>3, <2>4 DEF Sound, WorldType
  <2>6. Current(w.conn, w.timers, p)
    <3>1. Current(w.conn, w.timers, w.posted)
      BY DEF Sound
    <3>2. ASSUME NEW i \in 1 .. Len(p)
          PROVE  p[i].c \in Conns /\ w.conn[p[i].c].open /\ p[i].reused = 0
      <4>1. CASE i = 1
        BY <2>1, <2>3, <4>1
      <4>2. CASE i # 1
        <5>1. i - 1 \in 1 .. Len(w.posted) /\ p[i] = w.posted[i - 1]
          BY <2>2, <2>3, <4>2
        <5> QED BY <3>1, <5>1 DEF Current
      <4> QED BY <4>1, <4>2
    <3> QED BY <3>1, <3>2 DEF Current
  <2> QED BY <2>5, <2>6 DEF Sound
<1> QED BY <1>1, <1>2

-----------------------------------------------------------------------------
(* Handlers. *)

TurnTo(w, c, h) == [w EXCEPT !.conn[c].handler = h]

(* Connections for later are marked, and no others. *)
Marks(h, b) == b <=> h = "keepalive"

(* A client's connection is for requests or for later; nothing else        *)
(* changes but its place in the queue.                                     *)
Turned(x, w, c, h) ==
  /\ Sound(x) /\ x.conn[c].open /\ x.conn[c].handler = h /\ x.conn[c].client = None
  /\ \A d \in Conns : d # c => x.conn[d] = w.conn[d]

LEMMA TurnedResult ==
  ASSUME NEW w, Sound(w), NEW c \in Conns, w.conn[c].open, w.conn[c].client = None,
         Unserved(w.conn, c), NEW h \in {"request", "keepalive"},
         NEW b \in BOOLEAN, Marks(h, b),
         NEW x, x = SetReusable(TurnTo(w, c, h), c, b)
  PROVE  Turned(x, w, c, h)
<1>1. PICK s \in ConnType :
        /\ s.open = w.conn[c].open /\ s.instance = w.conn[c].instance
        /\ s.reusable = w.conn[c].reusable /\ s.client = None /\ s.handler = h
        /\ TurnTo(w, c, h) = Becomes(w, c, s)
  <2> DEFINE s == [w.conn[c] EXCEPT !.handler = h]
  <2>1. /\ s \in ConnType /\ s.open = w.conn[c].open /\ s.instance = w.conn[c].instance
        /\ s.reusable = w.conn[c].reusable /\ s.client = None /\ s.handler = h
    BY ZenonT(40), SoundFields DEF ConnType
  <2>2. TurnTo(w, c, h) = Becomes(w, c, s)
    BY DEF Becomes, TurnTo
  <2> HIDE DEF s
  <2> QED BY <2>1, <2>2
<1>2. PICK r \in ConnType :
        /\ r.open = s.open /\ r.instance = s.instance
        /\ r.reusable = b /\ r.client = None /\ r.handler = h
        /\ r = [s EXCEPT !.reusable = b]
  <2> DEFINE r == [s EXCEPT !.reusable = b]
  <2>1. /\ r \in ConnType /\ r.open = s.open /\ r.instance = s.instance
        /\ r.reusable = b /\ r.client = None /\ r.handler = h
    BY <1>1 DEF ConnType
  <2> HIDE DEF r
  <2>2. r = [s EXCEPT !.reusable = b]
    BY DEF r
  <2> QED BY <2>1, <2>2
<1> PICK v : v = Becomes(w, c, s)
  OBVIOUS
<1> PICK k : k = w.conn
  OBVIOUS
<1> PICK m : m = [k EXCEPT ![c] = r]
  OBVIOUS
<1>3. k \in [Conns -> ConnType] /\ w \in WorldType
  BY SoundFields
<1>4. v \in WorldType /\ v.conn = [k EXCEPT ![c] = s] /\ v.free = w.free
      /\ v.reusable = w.reusable /\ Rest(v, w)
  <2>1. [k EXCEPT ![c] = s] \in [Conns -> ConnType]
    BY <1>1, <1>3
  <2> QED BY <1>3, <2>1 DEF WorldType, Rest, Becomes
<1>5. Marked(v.conn) = Marked(k)
  <2>1. Marked([k EXCEPT ![c] = s]) = IF s.reusable THEN Marked(k) \cup {c}
                                      ELSE Marked(k) \ {c}
    BY <1>1, <1>3, ListsChange
  <2>2. s.reusable <=> c \in Marked(k)
    BY <1>1 DEF Marked
  <2> QED BY <1>4, <2>1, <2>2
<1>6. Holds(v.reusable, Marked(v.conn))
  BY <1>4, <1>5 DEF Sound
<1>7. x = SetReusable(v, c, b)
  BY <1>1
<1>8. /\ x \in WorldType
      /\ x.conn = [v.conn EXCEPT ![c].reusable = b]
      /\ x.free = v.free
      /\ Holds(x.reusable, IF b THEN Marked(v.conn) \cup {c} ELSE Marked(v.conn) \ {c})
      /\ Rest(x, v)
  <2>1. Queued(x, v, c, b)
    BY <1>4, <1>6, <1>7, SetReusableResult
  <2> QED BY <2>1 DEF Queued
<1>9. x.conn = m
  <2>1. [[k EXCEPT ![c] = s] EXCEPT ![c].reusable = b] = [k EXCEPT ![c] = [s EXCEPT !.reusable = b]]
    BY <1>3
  <2> QED BY <1>2, <1>4, <1>8, <2>1
<1>10. m[c] = r /\ \A d \in Conns : d # c => m[d] = k[d]
  BY <1>3
<1>11. Fits(k, c, r)
  <2>1. Role(k[c])
    BY DEF Sound, Roles
  <2> QED BY <1>1, <1>2, <2>1 DEF Fits, Unserved, Role, Marks
<1>12. SameLists(s, k[c]) /\ r.open = k[c].open /\ r.instance = k[c].instance
  BY <1>1, <1>2 DEF SameLists
<1>13. Current(m, w.timers, w.posted)
  <2>1. Current(k, w.timers, w.posted)
    BY DEF Sound
  <2>2. \A d \in Conns : m[d].open = k[d].open
    BY <1>10, <1>12
  <2> QED BY <2>1, <2>2, SoundFields DEF Current
<1>14. Reported(m, w.batch)
  <2>1. \A d \in Conns : m[d].instance = k[d].instance
    BY <1>10, <1>12
  <2> QED BY <2>1 DEF Sound, Reported
<1>15. Follows(x, w, c, r)
  <2>1. Holds(x.free, IF r.open THEN Unused(k) \ {c} ELSE Unused(k) \cup {c})
    <3>1. Unused(k) \ {c} = Unused(k)
      BY DEF Unused
    <3>2. x.free = w.free /\ r.open
      BY <1>1, <1>2, <1>4, <1>8
    <3> QED BY <3>1, <3>2 DEF Sound
  <2>2. Holds(x.reusable, IF r.reusable THEN Marked(k) \cup {c} ELSE Marked(k) \ {c})
    BY <1>2, <1>5, <1>8
  <2>3. Current(x.conn, x.timers, x.posted) /\ Reported(x.conn, x.batch) /\ x.refused = FALSE
    <3>1. w.refused = FALSE
      BY DEF Sound
    <3> QED BY <1>4, <1>8, <1>9, <1>13, <1>14, <3>1 DEF Rest
  <2> QED BY <1>8, <1>9, <2>1, <2>2, <2>3 DEF Follows
<1>16. Sound(x)
  BY <1>11, <1>15, SoundChange
<1>17. r.open /\ r.client = None /\ r.handler = h
  BY <1>1, <1>2
<1>18. x.conn[c] = r /\ \A d \in Conns : d # c => x.conn[d] = w.conn[d]
  BY <1>9, <1>10
<1> QED BY <1>16, <1>17, <1>18 DEF Turned

(* ngx_http_set_keepalive: each outcome is sound. *)
LEMMA SetKeepaliveResult ==
  ASSUME NEW w, NEW c, Ready(w, c), NEW x \in SetKeepalive(w, c)
  PROVE  Sound(x)
<1>1. /\ Sound(w) /\ c \in Conns /\ w.conn[c].open /\ w.conn[c].client = None
      /\ Unserved(w.conn, c)
  BY DEF Ready, Serves, Sound, Roles, Role
<1> PICK b \in BOOLEAN : b = TRUE
  OBVIOUS
<1> PICK h \in {"request", "keepalive"} : h = "keepalive"
  OBVIOUS
<1> PICK idle : idle = SetReusable(TurnTo(w, c, h), c, b)
  OBVIOUS
<1>2. Turned(idle, w, c, "keepalive")
  <2>1. Marks(h, b)
    BY DEF Marks
  <2>2. Turned(idle, w, c, h)
    BY <1>1, <2>1, TurnedResult
  <2> QED BY <2>2
<1>3. Sound(idle) /\ idle.conn[c].open
  BY <1>2 DEF Turned
<1> PICK dir \in {"read", "write"} : dir = "read"
  OBVIOUS
<1>4. x \in {Post(w, c, dir), idle, Post(idle, c, dir)}
  BY Zenon DEF SetKeepalive, TurnTo
<1>5. Sound(Post(w, c, dir)) /\ Sound(Post(idle, c, dir))
  BY <1>1, <1>3, PostResult
<1> QED BY <1>3, <1>4, <1>5

(* A connection to an upstream is closed: its client is on its own. *)
LEMMA UpstreamClosed ==
  ASSUME NEW w, Sound(w), NEW c \in Conns, NEW u \in Conns, w.conn[u].client = c,
         NEW x, x = CloseConnection(w, u)
  PROVE  Ready(x, c)
<1>1. /\ w.conn[u].client # None /\ Serves(w.conn, c) /\ w.conn[u].open /\ u # c
      /\ ~Serves(w.conn, u)
      /\ \A d \in Conns : w.conn[d].client = c => d = u
  <2>1. w.conn[u].client # None
    BY ConnsAssumption
  <2> QED BY <2>1 DEF Sound, Roles, Role, Serves
<1>2. Unserved(w.conn, u)
  BY <1>1, NobodyUpstream
<1>3. Sound(x) /\ x.conn = [w.conn EXCEPT ![u] = Closed(w.conn[u].instance)]
  BY <1>1, <1>2, CloseConnectionResult
<1>4. x.conn[u].client = None /\ \A d \in Conns : d # u => x.conn[d] = w.conn[d]
  BY <1>3, SoundFields DEF Closed
<1>5. Serves(x.conn, c)
  BY <1>1, <1>4 DEF Serves
<1>6. Unserved(x.conn, c)
  BY <1>1, <1>4, ConnsAssumption DEF Unserved
<1> QED BY <1>3, <1>5, <1>6 DEF Ready

(* ngx_http_close_request, after ngx_http_upstream_finalize_request *)
LEMMA CloseRequestResult ==
  ASSUME NEW w, Sound(w), NEW c \in Conns, w.conn[c].open, w.conn[c].client = None,
         NEW x, x = CloseRequest(w, c)
  PROVE  Sound(x)
<1>1. CASE Upstreams(w, c) = {}
  <2>1. Unserved(w.conn, c)
    BY <1>1 DEF Upstreams, Unserved
  <2>2. x = CloseHttp(w, c)
    BY <1>1 DEF CloseRequest
  <2> QED BY <2>1, <2>2, CloseHttpResult
<1>2. CASE Upstreams(w, c) # {}
  <2> PICK u : u = CHOOSE d \in Upstreams(w, c) : TRUE
    OBVIOUS
  <2>1. u \in Conns /\ w.conn[u].client = c
    <3>1. u \in Upstreams(w, c)
      BY <1>2, Zenon
    <3> QED BY <3>1 DEF Upstreams
  <2> PICK y : y = CloseConnection(w, u)
    OBVIOUS
  <2>2. Ready(y, c)
    BY <2>1, UpstreamClosed
  <2>3. x = CloseHttp(y, c)
    BY <1>2, Zenon DEF CloseRequest
  <2>4. /\ Sound(y) /\ y.conn[c].open /\ y.conn[c].client = None /\ Unserved(y.conn, c)
    BY <2>2 DEF Ready, Serves, Sound, Roles, Role
  <2> QED BY <2>3, <2>4, CloseHttpResult
<1> QED BY <1>1, <1>2

(* The end of a request, one way or the other. *)
LEMMA FinishResult ==
  ASSUME NEW w, NEW c, Ready(w, c), NEW x \in Finish(w, c)
  PROVE  Sound(x)
<1>1. CASE x \in SetKeepalive(w, c)
  BY <1>1, SetKeepaliveResult
<1>2. CASE x = CloseRequest(w, c)
  <2>1. Sound(w) /\ c \in Conns /\ w.conn[c].open /\ w.conn[c].client = None
    BY DEF Ready, Serves, Sound, Roles, Role
  <2> QED BY <1>2, <2>1, CloseRequestResult
<1> QED BY <1>1, <1>2 DEF Finish

(* ngx_http_upstream_free_keepalive_peer: the client is on its own. *)
LEMMA KeptResult ==
  ASSUME NEW w, Sound(w), NEW c \in Conns, NEW u \in Conns, w.conn[u].client = c,
         NEW x, x = Kept(w, u)
  PROVE  Ready(x, c)
<1>1. /\ w.conn[u].client # None /\ Serves(w.conn, c) /\ w.conn[u].open /\ u # c
      /\ ~Serves(w.conn, u) /\ ~w.conn[u].reusable
      /\ \A d \in Conns : w.conn[d].client = c => d = u
  <2>1. w.conn[u].client # None
    BY ConnsAssumption
  <2> QED BY <2>1 DEF Sound, Roles, Role, Serves
<1>2. Unserved(w.conn, u)
  BY <1>1, NobodyUpstream
<1>3. PICK r \in ConnType :
        /\ r.open = w.conn[u].open /\ r.instance = w.conn[u].instance
        /\ r.reusable = w.conn[u].reusable /\ r.client = None /\ r.handler = "cached"
        /\ r = [w.conn[u] EXCEPT !.handler = "cached", !.client = None]
  <2> PICK a \in ConnType : a = w.conn[u]
    BY SoundFields
  <2> DEFINE r == [a EXCEPT !.handler = "cached", !.client = None]
  <2>1. /\ r \in ConnType /\ r.open = a.open /\ r.instance = a.instance
        /\ r.reusable = a.reusable /\ r.client = None /\ r.handler = "cached"
    BY DEF ConnType
  <2> HIDE DEF r
  <2>2. r = [a EXCEPT !.handler = "cached", !.client = None]
    BY DEF r
  <2> QED BY <2>1, <2>2
<1> PICK m : m = [w.conn EXCEPT ![u] = r]
  OBVIOUS
<1> PICK ti : ti = w.timers \ {u}
  OBVIOUS
<1>4. m \in [Conns -> ConnType] /\ m[u] = r /\ \A d \in Conns : d # u => m[d] = w.conn[d]
  BY SoundFields
<1>5. x = [w EXCEPT !.conn = m, !.timers = ti]
  <2>1. x = [w EXCEPT !.conn[u] = [w.conn[u] EXCEPT !.handler = "cached", !.client = None],
                      !.timers = w.timers \ {u}]
    BY Zenon DEF Kept
  <2>2. x = [w EXCEPT !.conn = [w.conn EXCEPT ![u] = r], !.timers = ti]
    BY <1>3, <2>1, Zenon
  <2> QED BY <2>2, Zenon
<1>6. /\ x \in WorldType /\ x.conn = m /\ x.timers = ti
      /\ x.free = w.free /\ x.reusable = w.reusable /\ x.batch = w.batch
      /\ x.posted = w.posted /\ x.refused = w.refused
  <2>1. ti \in SUBSET Conns
    BY SoundFields
  <2> QED BY <1>4, <1>5, <2>1 DEF Sound, WorldType
<1>7. Fits(w.conn, u, r)
  BY <1>1, <1>2, <1>3 DEF Fits, Role, Unserved
<1>8. SameLists(r, w.conn[u])
  BY <1>3 DEF SameLists
<1>9. Current(m, ti, w.posted)
  <2>1. Current(w.conn, w.timers, w.posted)
    BY DEF Sound
  <2>2. \A d \in Conns : m[d].open = w.conn[d].open
    BY <1>4, <1>8 DEF SameLists
  <2> QED BY <2>1, <2>2, SoundFields DEF Current
<1>10. Reported(m, w.batch)
  <2>1. \A d \in Conns : m[d].instance = w.conn[d].instance
    BY <1>4, <1>8 DEF SameLists
  <2> QED BY <2>1 DEF Sound, Reported
<1>11. Follows(x, w, u, r)
  <2>1. Holds(x.free, IF r.open THEN Unused(w.conn) \ {u} ELSE Unused(w.conn) \cup {u})
    <3>1. Unused(w.conn) \ {u} = Unused(w.conn)
      BY <1>1 DEF Unused
    <3> QED BY <1>1, <1>3, <1>6, <3>1 DEF Sound
  <2>2. Holds(x.reusable, IF r.reusable THEN Marked(w.conn) \cup {u}
                          ELSE Marked(w.conn) \ {u})
    <3>1. Marked(w.conn) \ {u} = Marked(w.conn)
      BY <1>1 DEF Marked
    <3> QED BY <1>1, <1>3, <1>6, <3>1 DEF Sound
  <2>3. x.refused = FALSE
    BY <1>6 DEF Sound
  <2> QED BY <1>6, <1>9, <1>10, <2>1, <2>2, <2>3 DEF Follows
<1>12. Sound(x)
  BY <1>7, <1>11, SoundChange
<1>13. Serves(x.conn, c) /\ Unserved(x.conn, c)
  <2>1. Serves(x.conn, c)
    BY <1>1, <1>4, <1>6 DEF Serves
  <2>2. r.client = None
    BY <1>3
  <2>3. Unserved(x.conn, c)
    BY <1>1, <1>4, <1>6, <2>2, ConnsAssumption DEF Unserved
  <2> QED BY <2>1, <2>3
<1> QED BY <1>12, <1>13 DEF Ready

(* The worlds in which a server was tried that failed at once. *)
Failing(s, c) ==
  {CloseConnection(x, x.got) : x \in {y \in {Got(w, c) : w \in s} : y.got # None}}

LEMMA FailingResult ==
  ASSUME NEW c, NEW s, \A w \in s : Ready(w, c), NEW x \in Failing(s, c)
  PROVE  Ready(x, c)
<1>1. PICK w \in s : LET y == Got(w, c) IN y.got # None /\ x = CloseConnection(y, y.got)
  BY DEF Failing
<1> PICK y : y = Got(w, c)
  OBVIOUS
<1>2. y.got # None /\ x = CloseConnection(y, y.got)
  BY <1>1
<1>3. Ready(w, c)
  OBVIOUS
<1>4. y.got # None => Ready(CloseConnection(y, y.got), c)
  BY <1>3, TriedAgain
<1> QED BY <1>2, <1>4

(* A connection of the cache is taken for a client. *)
Hit(w, u, c) ==
  [w EXCEPT !.conn[u] = [w.conn[u] EXCEPT !.handler = "request", !.client = c]]

LEMMA CacheHit ==
  ASSUME NEW w, NEW c, Ready(w, c), NEW u \in Conns, w.conn[u].handler = "cached",
         NEW x, x = Hit(w, u, c)
  PROVE  Sound(x)
<1>1. PICK r : r = [w.conn[u] EXCEPT !.handler = "request", !.client = c]
  OBVIOUS
<1>2. x = Becomes(w, u, r)
  BY <1>1, Zenon DEF Becomes, Hit
<1>3. /\ Sound(w) /\ c \in Conns /\ Serves(w.conn, c) /\ Unserved(w.conn, c)
  BY DEF Ready
<1>4. /\ r \in ConnType /\ r.handler = "request" /\ r.client = c
      /\ SameLists(r, w.conn[u])
  <2>1. PICK a \in ConnType : a = w.conn[u]
    BY <1>3, SoundFields
  <2>2. r = [a EXCEPT !.handler = "request", !.client = c]
    BY <1>1, <2>1
  <2>3. /\ r \in ConnType /\ r.handler = "request" /\ r.client = c
        /\ r.open = a.open /\ r.reusable = a.reusable /\ r.instance = a.instance
    BY <1>3, <2>2 DEF ConnType
  <2> QED BY <2>1, <2>3 DEF SameLists
<1>5. Unserved(w.conn, u)
  BY <1>3, NobodyUpstream DEF Serves
<1>6. Role(w.conn[u]) /\ u # c
  BY <1>3 DEF Sound, Roles, Serves
<1>7. Fits(w.conn, u, r)
  <2>1. Role(r)
    BY <1>4, <1>6 DEF Role, SameLists
  <2> QED BY <1>3, <1>4, <1>5, <1>6, <2>1 DEF Fits, Unserved
<1>8. Sound(w) /\ SameLists(r, w.conn[u])
  BY <1>3, <1>4
<1>9. Sound(x) /\ x.conn = [w.conn EXCEPT ![u] = r] /\ Rest(x, w)
  BY <1>2, <1>7, <1>8, RoleChange
<1> QED BY <1>9

(* ngx_http_upstream_connect, ngx_http_upstream_next: each outcome is      *)
(* sound, of whatever servers were tried.                                  *)
LEMMA ConnectResult ==
  ASSUME NEW w0, NEW c, Ready(w0, c), NEW z \in Connect(w0, c)
  PROVE  Sound(z)
<1> DEFINE N == MaxTries
           R == {y \in WorldType : Ready(y, c)}
           P(f) == f = [n \in 0 .. MaxTries |->
                          IF n = 0 THEN {w0}
                          ELSE {CloseConnection(x, x.got) :
                                  x \in {y \in {Got(w, c) : w \in f[n - 1]} : y.got # None}}]
           failed[n \in 0 .. MaxTries] ==
             IF n = 0 THEN {w0}
             ELSE {CloseConnection(x, x.got) :
                     x \in {y \in {Got(w, c) : w \in failed[n - 1]} : y.got # None}}
           cached == {u \in Conns : w0.conn[u].handler = "cached"}
           opened == UNION {{Got(w, c) : w \in failed[n]} : n \in 0 .. MaxTries - 1}
           ended == {w \in opened : w.got = None} \cup UNION {failed[n] : n \in 1 .. MaxTries}
           g == [n \in 1 .. N |-> [s \in SUBSET R |-> Failing(s, c)]]
<1>1. N \in Nat /\ N # 0
  BY BatchAssumption
<1>2. {w0} \in SUBSET R
  BY DEF Ready, Sound
<1>3. ASSUME NEW s \in SUBSET R PROVE Failing(s, c) \in SUBSET R
  <2> SUFFICES ASSUME NEW x \in Failing(s, c) PROVE x \in R
    OBVIOUS
  <2>1. Ready(x, c)
    BY FailingResult
  <2> QED BY <2>1 DEF Ready, Sound
<1> HIDE DEF R
<1>4. g \in [1 .. N -> [SUBSET R -> SUBSET R]]
  BY <1>3
<1>5. PICK h \in [0 .. N -> SUBSET R] : Repeats(h, {w0}, g, N)
  <2> HIDE DEF g, N
  <2> QED BY <1>1, <1>2, <1>4, Iteration
<1>6. P(h)
  <2>1. h[0] = {w0}
    BY <1>5 DEF Repeats
  <2>2. ASSUME NEW n \in 1 .. N PROVE h[n] = Failing(h[n - 1], c)
    <3>1. h[n] = g[n][h[n - 1]]
      BY <1>5 DEF Repeats
    <3>2. n - 1 \in 0 .. N
      BY <1>1
    <3>3. h[n - 1] \in SUBSET R
      BY <1>5, <3>2
    <3>4. g[n] = [s \in SUBSET R |-> Failing(s, c)]
      OBVIOUS
    <3> HIDE DEF g
    <3> QED BY <3>1, <3>3, <3>4
  <2>3. \A n \in 0 .. N : h[n] = IF n = 0 THEN {w0} ELSE Failing(h[n - 1], c)
    <3> SUFFICES ASSUME NEW n \in 0 .. N, n # 0 PROVE h[n] = Failing(h[n - 1], c)
      BY <2>1
    <3>1. n \in 1 .. N
      BY <1>1
    <3> QED BY <2>2, <3>1
  <2>4. h = [n \in 0 .. N |-> h[n]]
    BY <1>5
  <2>5. h = [n \in 0 .. N |-> IF n = 0 THEN {w0} ELSE Failing(h[n - 1], c)]
    BY <2>3, <2>4
  <2> HIDE DEF g
  <2> QED BY <2>5, Zenon DEF Failing
<1>7. failed = CHOOSE f : P(f)
  BY Zenon
<1>8. P(CHOOSE f : P(f))
  <2> HIDE DEF P
  <2> QED BY <1>6, Zenon
<1>9. z \in {Hit(w0, u, c) : u \in cached}
            \cup {w \in opened : w.got # None}
            \cup UNION {Finish(w, c) : w \in ended}
  BY Zenon DEF Connect, Hit
<1> HIDE DEF failed
<1>10. P(failed)
  BY <1>7, <1>8
<1>11. \A n \in 0 .. N : failed[n] = IF n = 0 THEN {w0} ELSE Failing(failed[n - 1], c)
  BY <1>10, Zenon DEF Failing
<1> HIDE DEF P
<1> DEFINE T == {n \in 0 .. N : failed[n] \in SUBSET R}
<1>12. 0 .. N \subseteq T
  <2>1. 0 \in T
    <3>1. \A n \in 0 .. N : n = 0 => failed[n] = {w0}
      BY <1>11
    <3>2. 0 \in 0 .. N
      BY <1>1
    <3> QED BY <1>2, <3>1, <3>2, Zenon
  <2>2. ASSUME NEW n \in 1 .. N, n - 1 \in T PROVE n \in T
    <3>1. n \in 0 .. N /\ n # 0
      BY <1>1
    <3>2. failed[n] = Failing(failed[n - 1], c)
      BY <1>11, <3>1
    <3>3. failed[n] \in SUBSET R
      BY <1>3, <2>2, <3>2
    <3> QED BY <3>1, <3>3, Zenon
  <2> HIDE DEF T, N
  <2> QED BY <1>1, <2>1, <2>2, Upto
<1>13. ASSUME NEW n \in 0 .. N, NEW w \in failed[n] PROVE Ready(w, c)
  BY <1>12 DEF R
<1>14. ASSUME NEW w \in opened
       PROVE  Sound(w) /\ (w.got = None => Ready(w, c))
  <2>1. PICK n \in 0 .. N - 1 : \E v \in failed[n] : w = Got(v, c)
    OBVIOUS
  <2>2. n \in 0 .. N
    BY <1>1
  <2>3. PICK v \in failed[n] : w = Got(v, c)
    BY <2>1
  <2>4. Ready(v, c)
    BY <1>13, <2>2
  <2> QED BY <2>3, <2>4, TriedAgain
<1>15. ASSUME NEW w \in ended PROVE Ready(w, c)
  <2>1. CASE w \in opened /\ w.got = None
    <3> HIDE DEF opened
    <3> QED BY <1>14, <2>1
  <2>2. CASE w \in UNION {failed[n] : n \in 1 .. N}
    <3>1. PICK n \in 1 .. N : w \in failed[n]
      BY <2>2
    <3>2. n \in 0 .. N
      BY <1>1
    <3> QED BY <1>13, <3>1, <3>2
  <2> QED BY <2>1, <2>2
<1> HIDE DEF opened, ended
<1>16. CASE \E u \in cached : z = Hit(w0, u, c)
  BY <1>16, CacheHit
<1>17. CASE z \in opened
  BY <1>14, <1>17
<1>18. CASE \E w \in ended : z \in Finish(w, c)
  BY <1>15, <1>18, FinishResult
<1> QED BY <1>9, <1>16, <1>17, <1>18

(* A client's request is served, or it ends: each outcome is sound. *)
LEMMA RequestResult ==
  ASSUME NEW w, Sound(w), NEW c \in Conns, Serves(w.conn, c), NEW x \in Request(w, c)
  PROVE  Sound(x)
<1>1. w.conn[c].open /\ w.conn[c].client = None
  BY DEF Serves, Sound, Roles, Role
<1>2. CASE x = w
  BY <1>2
<1>3. CASE x = CloseRequest(w, c)
  BY <1>1, <1>3, CloseRequestResult
<1>4. CASE Upstreams(w, c) = {} /\ x \in SetKeepalive(w, c) \cup Connect(w, c)
  <2>1. Ready(w, c)
    BY <1>4 DEF Ready, Unserved, Upstreams
  <2> QED BY <1>4, <2>1, SetKeepaliveResult, ConnectResult
<1> QED BY <1>2, <1>3, <1>4 DEF Request

(* The upstream connection is done with: the request goes on, or ends. *)
LEMMA AnsweredResult ==
  ASSUME NEW w, NEW c, Ready(w, c), NEW x \in Answered(w, c)
  PROVE  Sound(x)
<1>1. Sound(w)
  BY DEF Ready
<1> QED BY <1>1, FinishResult DEF Answered

(* ngx_http_upstream_next, and the other ends of an upstream connection. *)
LEMMA UpstreamFailsResult ==
  ASSUME NEW w, Sound(w), NEW u \in Conns, w.conn[u].client # None,
         NEW x \in UpstreamFails(w, u)
  PROVE  Sound(x)
<1> PICK c : c = w.conn[u].client
  OBVIOUS
<1> PICK y : y = CloseConnection(w, u)
  OBVIOUS
<1>1. c \in Conns
  BY SoundFields
<1>2. Ready(y, c)
  BY <1>1, UpstreamClosed
<1>3. x \in Connect(y, c) \cup Answered(y, c)
  BY Zenon DEF UpstreamFails
<1> QED BY <1>2, <1>3, ConnectResult, AnsweredResult

LEMMA UpstreamResult ==
  ASSUME NEW w, Sound(w), NEW u \in Conns, w.conn[u].client # None,
         NEW x \in Upstream(w, u)
  PROVE  Sound(x)
<1> PICK c : c = w.conn[u].client
  OBVIOUS
<1> PICK y : y = Kept(w, u)
  OBVIOUS
<1>1. c \in Conns
  BY SoundFields
<1>2. Ready(y, c)
  BY <1>1, KeptResult
<1>3. x \in {w} \cup UpstreamFails(w, u) \cup Answered(y, c)
  BY Zenon DEF Upstream
<1> QED BY <1>2, <1>3, UpstreamFailsResult, AnsweredResult

(* ngx_http_keepalive_handler: closed, left, or with a request again. *)
LEMMA KeepaliveResult ==
  ASSUME NEW w, Sound(w), NEW c \in Conns, w.conn[c].handler = "keepalive",
         NEW x \in Keepalive(w, c)
  PROVE  Sound(x)
<1>1. w.conn[c].open /\ w.conn[c].client = None /\ ~Serves(w.conn, c)
  BY DEF Serves, Sound, Roles, Role
<1>2. Unserved(w.conn, c)
  BY <1>1, NobodyUpstream
<1> PICK b \in BOOLEAN : b = FALSE
  OBVIOUS
<1> PICK h \in {"request", "keepalive"} : h = "request"
  OBVIOUS
<1> PICK y : y = SetReusable(TurnTo(w, c, h), c, b)
  OBVIOUS
<1>3. Turned(y, w, c, h)
  <2>1. Marks(h, b)
    BY DEF Marks
  <2> QED BY <1>1, <1>2, <2>1, TurnedResult
<1>4. Sound(y) /\ Serves(y.conn, c)
  BY <1>3 DEF Turned, Serves
<1>5. x \in {w, CloseHttp(w, c)} \cup Request(y, c)
  BY Zenon DEF Keepalive, TurnTo
<1>6. Sound(CloseHttp(w, c))
  BY <1>1, <1>2, CloseHttpResult
<1> QED BY <1>4, <1>5, <1>6, RequestResult

(* The handler of an event, whatever the connection is for. *)
LEMMA HandledResult ==
  ASSUME NEW w, Sound(w), NEW c \in Conns, w.conn[c].open, NEW dir,
         NEW x \in Handled(w, c, dir)
  PROVE  Sound(x)
<1>1. /\ w.conn[c].handler \in {"request", "keepalive", "shutdown", "cached"}
      /\ w.conn[c].client # None => w.conn[c].handler = "request"
  <2>1. w.conn[c] \in ConnType /\ Role(w.conn[c])
    BY SoundFields DEF Sound, Roles
  <2> QED BY <2>1 DEF ConnType, Role
<1>2. CASE w.conn[c].handler = "keepalive"
  <2>1. x \in IF dir = "read" THEN Keepalive(w, c) ELSE {w}
    BY <1>2 DEF Handled
  <2> QED BY <1>2, <2>1, KeepaliveResult
<1>3. CASE w.conn[c].handler \in {"shutdown", "cached"}
  <2>1. ~Serves(w.conn, c) /\ w.conn[c].client = None
    BY <1>1, <1>3 DEF Serves
  <2>2. Unserved(w.conn, c)
    BY <2>1, NobodyUpstream
  <2>3. Sound(CloseHttp(w, c)) /\ Sound(CloseConnection(w, c))
    BY <2>1, <2>2, CloseHttpResult, CloseConnectionResult
  <2>4. x \in {w, CloseHttp(w, c), CloseConnection(w, c)}
    BY <1>3 DEF Handled
  <2> QED BY <2>3, <2>4
<1>4. CASE w.conn[c].handler = "request"
  <2>1. x \in IF w.conn[c].client = None THEN Request(w, c) ELSE Upstream(w, c)
    BY <1>4 DEF Handled
  <2>2. w.conn[c].client = None => Serves(w.conn, c)
    BY <1>4 DEF Serves
  <2> QED BY <2>1, <2>2, RequestResult, UpstreamResult
<1> QED BY <1>1, <1>2, <1>3, <1>4

(* The handler of a timeout. *)
LEMMA TimedOutResult ==
  ASSUME NEW w, Sound(w), NEW c \in Conns, w.conn[c].open, NEW x \in TimedOut(w, c)
  PROVE  Sound(x)
<1>1. w.conn[c].client # None => w.conn[c].handler = "request"
  BY DEF Sound, Roles, Role
<1>2. CASE w.conn[c].handler \in {"keepalive", "shutdown"}
  <2>1. ~Serves(w.conn, c) /\ w.conn[c].client = None
    BY <1>1, <1>2 DEF Serves
  <2>2. Unserved(w.conn, c)
    BY <2>1, NobodyUpstream
  <2>3. Sound(CloseHttp(w, c)) /\ Sound(CloseConnection(w, c))
    BY <2>1, <2>2, CloseHttpResult, CloseConnectionResult
  <2>4. x \in {CloseHttp(w, c), CloseConnection(w, c)}
    BY <1>2 DEF TimedOut
  <2> QED BY <2>3, <2>4
<1>3. CASE w.conn[c].handler \notin {"keepalive", "shutdown"}
  <2>1. x \in IF w.conn[c].client = None THEN {CloseRequest(w, c)} ELSE UpstreamFails(w, c)
    BY <1>3 DEF TimedOut
  <2>2. CASE w.conn[c].client = None
    BY <2>1, <2>2, CloseRequestResult
  <2>3. CASE w.conn[c].client # None
    BY <2>1, <2>3, UpstreamFailsResult
  <2> QED BY <2>2, <2>3
<1> QED BY <1>2, <1>3

-----------------------------------------------------------------------------
(* The event loop. *)

(* An order of a finite set is a sequence that holds each element once. *)
LEMMA OrdersHold ==
  ASSUME NEW S, IsFiniteSet(S), NEW o \in Orders(S)
  PROVE  Holds(o, S)
<1> PICK n : n = Cardinality(S)
  OBVIOUS
<1>1. n \in Nat
  BY FS_CardinalityType
<1>2. o \in [1 .. n -> S] /\ Range(o) = S
  BY DEF Orders
<1>3. o \in Surjection(1 .. n, S)
  BY <1>2 DEF Surjection, Range
<1>4. IsFiniteSet(1 .. n) /\ Cardinality(1 .. n) = n
  BY <1>1, FS_Interval
<1>5. o \in Injection(1 .. n, S)
  BY <1>3, <1>4, FS_Surjection
<1>6. o \in Seq(S) /\ Len(o) = n
  BY <1>1, <1>2, SeqDef, LenProperties
<1>7. \A x \in S : \E i \in 1 .. n : o[i] = x
  BY <1>2 DEF Range
<1>8. \A i, j \in 1 .. n : o[i] = o[j] => i = j
  BY <1>5 DEF Injection, IsInjective
<1> QED BY <1>6, <1>7, <1>8 DEF Holds

-----------------------------------------------------------------------------
(* The states. *)

Steady ==
  /\ conn \in [Conns -> ConnType] /\ free_connections \in Seq(Conns)
  /\ reusable \in Seq(Conns) /\ batch \in Seq(EventType)
  /\ timers \in SUBSET Conns /\ posted \in Seq(EventType)
  /\ Roles(conn)
  /\ Holds(free_connections, Unused(conn))
  /\ Holds(reusable, Marked(conn))
  /\ Current(conn, timers, posted)
  /\ Reported(conn, batch)
  /\ refused = FALSE

IInv ==
  /\ conf \in Configs
  /\ phase \in {"poll", "events", "timers", "posted"}
  /\ accepts \in 0 .. MaxBacklog
  /\ Steady

(* What a handler starts from, when what it was called for has been taken  *)
(* off.                                                                    *)
Entering(ba, ti, po, linger) ==
  [conn |-> conn, free |-> free_connections, reusable |-> reusable, batch |-> ba,
   timers |-> ti, posted |-> po, refused |-> refused,
   linger |-> linger, got |-> None]

LEMMA EnteringSound ==
  ASSUME Steady, NEW ba \in Seq(EventType), Reported(conn, ba),
         NEW ti \in SUBSET Conns, NEW po \in Seq(EventType), Current(conn, ti, po),
         NEW l \in BOOLEAN, NEW w, w = Entering(ba, ti, po, l)
  PROVE  Sound(w) /\ w.conn = conn
<1>1. /\ w.conn = conn /\ w.free = free_connections /\ w.reusable = reusable
      /\ w.batch = ba /\ w.timers = ti /\ w.posted = po /\ w.refused = refused
  BY DEF Entering
<1> PICK b \in BOOLEAN : b = refused
  BY DEF Steady
<1>2. w \in WorldType
  <2>1. w = [conn |-> conn, free |-> free_connections, reusable |-> reusable, batch |-> ba,
             timers |-> ti, posted |-> po, refused |-> b, linger |-> l, got |-> None]
    BY Zenon DEF Entering
  <2> QED BY <2>1 DEF WorldType, Steady
<1> QED BY <1>1, <1>2 DEF Sound, Steady

(* What a handler leaves. *)
LEMMA CommitSteady ==
  ASSUME NEW w, Sound(w), Commit(w)
  PROVE  Steady' /\ conf' = conf
<1>1. /\ w.conn \in [Conns -> ConnType] /\ w.free \in Seq(Conns)
      /\ w.reusable \in Seq(Conns) /\ w.batch \in Seq(EventType)
      /\ w.timers \in SUBSET Conns /\ w.posted \in Seq(EventType)
  BY SoundFields
<1>2. refused' = FALSE
  BY DEF Commit, Sound
<1> QED BY <1>1, <1>2 DEF Sound, Commit, Steady

(* The first element of a list is one of its own, and so are the others. *)
LEMMA RestOfEvents ==
  ASSUME NEW k, NEW q \in Seq(EventType), q # <<>>
  PROVE  /\ Head(q) \in EventType /\ Head(q) = q[1] /\ 1 \in 1 .. Len(q)
         /\ Tail(q) \in Seq(EventType)
         /\ Reported(k, q) => Reported(k, Tail(q))
         /\ \A ti : Current(k, ti, q) => Current(k, ti, Tail(q))
<1>1. /\ Head(q) \in EventType /\ Head(q) = q[1] /\ 1 \in 1 .. Len(q)
      /\ Tail(q) \in Seq(EventType) /\ Len(Tail(q)) = Len(q) - 1 /\ Len(q) \in Nat
      /\ \A i \in 1 .. Len(q) - 1 : Tail(q)[i] = q[i + 1]
  BY EmptySeq, HeadTailProperties, ElementOfSeq
<1>2. \A i \in 1 .. Len(Tail(q)) : \E j \in 1 .. Len(q) : Tail(q)[i] = q[j]
  <2> SUFFICES ASSUME NEW i \in 1 .. Len(Tail(q))
               PROVE  \E j \in 1 .. Len(q) : Tail(q)[i] = q[j]
    OBVIOUS
  <2>1. i \in 1 .. Len(q) - 1 /\ i + 1 \in 1 .. Len(q)
    BY <1>1
  <2> QED BY <1>1, <2>1
<1> PICK p : p = Tail(q)
  OBVIOUS
<1>3. \A i \in 1 .. Len(p) : \E j \in 1 .. Len(q) : p[i] = q[j]
  BY <1>2
<1>4. Reported(k, q) => Reported(k, p)
  BY <1>3 DEF Reported
<1>5. \A ti : Current(k, ti, q) => Current(k, ti, p)
  BY <1>3 DEF Current
<1> QED BY <1>1, <1>4, <1>5

(* Events as they are reported of connections of C. *)
Fresh(k, C) ==
  {e \in EventType : /\ e.c \in C /\ e.reused = 0
                     /\ e.c \in Conns => k[e.c].open /\ k[e.c].instance = e.instance}

(* What epoll_wait() reports is of open connections, in their present use. *)
LEMMA ReportedEvents ==
  ASSUME Steady, NEW S, S \subseteq Open \cup {Listen}, NEW o \in Orders(S)
  PROVE  FlattenSeq([i \in DOMAIN o |-> EventsOf(o[i])]) \in Seq(Fresh(conn, S))
<1> DEFINE q == [i \in DOMAIN o |-> EventsOf(o[i])]
<1>1. IsFiniteSet(S)
  <2>1. IsFiniteSet(Conns \cup {Listen})
    BY ConnsAssumption, FS_AddElement
  <2>2. S \in SUBSET (Conns \cup {Listen})
    BY DEF Open
  <2> QED BY <2>1, <2>2, FS_Subset
<1>2. o \in Seq(S) /\ DOMAIN o = 1 .. Len(o) /\ Len(o) \in Nat
  <2>1. o \in Seq(S)
    BY <1>1, OrdersHold DEF Holds
  <2> QED BY <2>1
<1>3. ASSUME NEW c \in S PROVE EventsOf(c) \in Seq(Fresh(conn, S))
  <2>1. CASE c = Listen
    <3> PICK no \in BOOLEAN : no = FALSE
      OBVIOUS
    <3> DEFINE e == [c |-> Listen, dir |-> "read", instance |-> no, reused |-> 0]
    <3>1. e \in EventType /\ e.c = Listen /\ e.reused = 0
      BY DEF EventType
    <3>2. EventsOf(c) = <<e>>
      BY <2>1, Zenon DEF EventsOf
    <3> HIDE DEF e
    <3>3. e \in Fresh(conn, S)
      BY <2>1, <3>1, ConnsAssumption DEF Fresh
    <3> QED BY <3>2, <3>3
  <2>2. CASE c # Listen
    <3>1. c \in Conns /\ conn[c].open /\ conn[c].instance \in BOOLEAN
      BY <2>2 DEF Open, Steady, ConnType
    <3>2. ASSUME NEW dir \in {"read", "write"}
          PROVE  Event(conn, c, dir) \in Fresh(conn, S)
      <4> PICK i \in BOOLEAN : i = conn[c].instance
        BY <3>1
      <4> DEFINE e == [c |-> c, dir |-> dir, instance |-> i, reused |-> 0]
      <4>1. e \in EventType /\ e.c = c /\ e.reused = 0
        BY <3>1 DEF EventType
      <4>2. e.instance = i
        OBVIOUS
      <4>3. Event(conn, c, dir) = e
        BY Zenon DEF Event
      <4> HIDE DEF e
      <4>4. e \in Fresh(conn, S)
        BY <3>1, <4>1, <4>2 DEF Fresh
      <4> QED BY <4>3, <4>4
    <3>3. PICK F : F = Fresh(conn, S)
      OBVIOUS
    <3>4. PICK r \in F : r = Event(conn, c, "read")
      BY <3>2, <3>3
    <3>5. PICK s \in F : s = Event(conn, c, "write")
      BY <3>2, <3>3
    <3>6. EventsOf(c) \in {<<r, s>>, <<r>>}
      BY <2>2, <3>4, <3>5, Zenon DEF EventsOf
    <3>7. <<r, s>> \in Seq(F) /\ <<r>> \in Seq(F)
      OBVIOUS
    <3> QED BY <3>3, <3>6, <3>7
  <2> QED BY <2>1, <2>2
<1>4. q \in Seq(Seq(Fresh(conn, S)))
  <2>1. \A i \in 1 .. Len(o) : o[i] \in S
    BY <1>2, ElementOfSeq
  <2>2. q \in [1 .. Len(o) -> Seq(Fresh(conn, S))]
    BY <1>2, <1>3, <2>1
  <2> HIDE DEF q
  <2> QED BY <1>2, <2>2, SeqDef
<1> HIDE DEF q
<1>5. FlattenSeq(q) \in Seq(Fresh(conn, S))
  BY <1>4, Flattened
<1> QED BY <1>5 DEF q

(* ngx_process_events_and_timers, the events are handled as they come. *)
LEMMA PollDirectStep ==
  ASSUME IInv, PollDirect
  PROVE  IInv'
<1> USE DEF IInv, PollDirect
<1>0. PICK S \in SUBSET (Open \cup {Listen}) :
        \E o \in Orders(S) : batch' = FlattenSeq([i \in DOMAIN o |-> EventsOf(o[i])])
  OBVIOUS
<1>1. PICK o \in Orders(S) : batch' = FlattenSeq([i \in DOMAIN o |-> EventsOf(o[i])])
  BY <1>0
<1>2. batch' \in Seq(Fresh(conn, S))
  BY <1>1, ReportedEvents
<1>3. batch' \in Seq(EventType)
  <2>1. Fresh(conn, S) \subseteq EventType
    BY DEF Fresh
  <2> QED BY <1>2, <2>1, SeqMonotonic
<1>4. Reported(conn, batch')
  <2>1. \A i \in 1 .. Len(batch') : batch'[i] \in Fresh(conn, S)
    BY <1>2, ElementOfSeq
  <2>2. 0 % 2 = 0
    OBVIOUS
  <2> QED BY <2>1, <2>2 DEF Fresh, Reported
<1>5. Steady'
  BY <1>3, <1>4 DEF Steady
<1> QED BY <1>5

(* ... or posted, each in front of the last. *)
LEMMA PollPostingStep ==
  ASSUME IInv, PollPosting
  PROVE  IInv'
<1> USE DEF IInv, PollPosting
<1>0. PICK S \in SUBSET Open :
        \E o \in Orders(S) :
          posted' = Reverse(FlattenSeq([i \in DOMAIN o |-> EventsOf(o[i])])) \o posted
  OBVIOUS
<1>1. PICK o \in Orders(S) :
        posted' = Reverse(FlattenSeq([i \in DOMAIN o |-> EventsOf(o[i])])) \o posted
  BY <1>0
<1> PICK p : p = Reverse(FlattenSeq([i \in DOMAIN o |-> EventsOf(o[i])]))
  OBVIOUS
<1>2. p \in Seq(Fresh(conn, S))
  <2>1. FlattenSeq([i \in DOMAIN o |-> EventsOf(o[i])]) \in Seq(Fresh(conn, S))
    BY <1>1, ReportedEvents
  <2> QED BY <2>1, Reversed
<1>3. p \in Seq(EventType)
  <2>1. Fresh(conn, S) \subseteq EventType
    BY DEF Fresh
  <2> QED BY <1>2, <2>1, SeqMonotonic
<1>4. \A i \in 1 .. Len(p) : p[i].c \in Conns /\ conn[p[i].c].open /\ p[i].reused = 0
  <2>1. \A i \in 1 .. Len(p) : p[i] \in Fresh(conn, S)
    BY <1>2, ElementOfSeq
  <2> QED BY <2>1 DEF Fresh, Open
<1>5. posted' = p \o posted /\ posted \in Seq(EventType)
  BY <1>1 DEF Steady
<1>6. posted' \in Seq(EventType) /\ Len(posted') = Len(p) + Len(posted)
  BY <1>3, <1>5, ConcatProperties
<1>7. Current(conn, timers, posted')
  <2>1. Current(conn, timers, posted)
    BY DEF Steady
  <2>2. Len(p) \in Nat /\ Len(posted) \in Nat
    BY <1>3, <1>5
  <2>3. \A i \in 1 .. Len(p) + Len(posted) :
          posted'[i] = IF i <= Len(p) THEN p[i] ELSE posted[i - Len(p)]
    BY <1>3, <1>5, ConcatProperties
  <2>4. ASSUME NEW i \in 1 .. Len(posted')
        PROVE  posted'[i].c \in Conns /\ conn[posted'[i].c].open /\ posted'[i].reused = 0
    <3>1. CASE i <= Len(p)
      <4>1. i \in 1 .. Len(p)
        BY <2>2, <3>1
      <4>2. posted'[i] = p[i]
        BY <1>6, <2>3, <3>1
      <4> QED BY <1>4, <4>1, <4>2
    <3>2. CASE ~(i <= Len(p))
      <4>1. posted'[i] = posted[i - Len(p)] /\ i - Len(p) \in 1 .. Len(posted)
        BY <1>6, <2>2, <2>3, <3>2
      <4> QED BY <2>1, <4>1 DEF Current
    <3> QED BY <3>1, <3>2
  <2> QED BY <2>1, <2>4 DEF Current
<1>8. Steady'
  BY <1>6, <1>7 DEF Steady
<1> QED BY <1>8

(* ngx_epoll_process_events: an event that is not stale is handled. *)
LEMMA ProcessEventStep ==
  ASSUME IInv, ProcessEvent
  PROVE  IInv'
<1> PICK e : e = Head(batch)
  OBVIOUS
<1> PICK ba : ba = Tail(batch)
  OBVIOUS
<1>1. /\ e \in EventType /\ e.c \in Conns \cup {Listen}
      /\ ba \in Seq(EventType) /\ Reported(conn, ba)
  <2>1. batch \in Seq(EventType) /\ batch # <<>> /\ Reported(conn, batch)
    BY DEF IInv, Steady, ProcessEvent
  <2>2. e \in EventType /\ ba \in Seq(EventType) /\ Reported(conn, ba)
    BY <2>1, RestOfEvents
  <2> QED BY <2>2 DEF EventType
<1>2. CASE /\ batch' = ba /\ accepts' \in {accepts} \cup 1 .. MaxBacklog
           /\ UNCHANGED <<conf, conn, free_connections, reusable, timers, posted, refused>>
  <2>1. Steady'
    BY <1>1, <1>2 DEF IInv, Steady
  <2> QED BY <1>2, <2>1 DEF IInv, ProcessEvent
<1>3. CASE /\ e.c # Listen /\ ~Stale(e)
           /\ \E linger \in BOOLEAN :
                \E w \in Handled([World(linger) EXCEPT !.batch = Tail(batch)], e.c, e.dir) :
                  Commit(w)
           /\ UNCHANGED accepts
  <2>1. PICK l \in BOOLEAN :
          \E w \in Handled([World(l) EXCEPT !.batch = Tail(batch)], e.c, e.dir) : Commit(w)
    BY <1>3
  <2>2. PICK v : v = [World(l) EXCEPT !.batch = Tail(batch)]
    OBVIOUS
  <2>3. v = Entering(ba, timers, posted, l)
    BY <2>2 DEF World, Entering
  <2>4. Sound(v) /\ v.conn = conn
    <3>1. /\ Steady /\ timers \in SUBSET Conns /\ posted \in Seq(EventType)
          /\ Current(conn, timers, posted)
      BY DEF IInv, Steady
    <3> QED BY <1>1, <2>3, <3>1, EnteringSound
  <2>5. e.c \in Conns /\ conn[e.c].open
    BY <1>1, <1>3 DEF Stale
  <2>6. PICK w \in Handled(v, e.c, e.dir) : Commit(w)
    BY <2>1, <2>2, Zenon
  <2>7. Sound(w)
    BY <2>4, <2>5, HandledResult
  <2>8. Steady' /\ conf' = conf
    BY <2>6, <2>7, CommitSteady
  <2> QED BY <1>3, <2>8 DEF IInv, ProcessEvent
<1> QED BY <1>2, <1>3 DEF ProcessEvent

(* ngx_event_accept *)
LEMMA AcceptStep ==
  ASSUME IInv, Accept
  PROVE  IInv'
<1>0. PICK l \in BOOLEAN : \E w \in {GetConnection(World(l), None, conf.ssl)} :
        \/ /\ w.got = None
           /\ Commit(w)
           /\ accepts' = 0
        \/ /\ w.got # None
           /\ Commit(CloseConnection(w, w.got))
           /\ accepts' = 0
        \/ /\ w.got # None
           /\ \E x \in IF ~conf.deferred THEN {w}
                       ELSE IF conf.accept_mutex THEN {Post(w, w.got, "read")}
                       ELSE Request(w, w.got) :
                Commit(x)
           /\ accepts' = accepts - 1
  BY DEF Accept
<1>1. PICK w :
        /\ w = GetConnection(World(l), None, conf.ssl)
        /\ \/ /\ w.got = None
              /\ Commit(w)
              /\ accepts' = 0
           \/ /\ w.got # None
              /\ Commit(CloseConnection(w, w.got))
              /\ accepts' = 0
           \/ /\ w.got # None
              /\ \E x \in IF ~conf.deferred THEN {w}
                          ELSE IF conf.accept_mutex THEN {Post(w, w.got, "read")}
                          ELSE Request(w, w.got) :
                   Commit(x)
              /\ accepts' = accepts - 1
  BY <1>0
<1> PICK v : v = World(l)
  OBVIOUS
<1>2. Sound(v) /\ v.conn = conn
  <2>1. v = Entering(batch, timers, posted, l)
    BY DEF World, Entering
  <2>2. /\ Steady /\ timers \in SUBSET Conns /\ posted \in Seq(EventType)
        /\ Current(conn, timers, posted) /\ batch \in Seq(EventType) /\ Reported(conn, batch)
    BY DEF IInv, Steady
  <2> QED BY <2>1, <2>2, EnteringSound
<1> PICK ssl : ssl = conf.ssl
  OBVIOUS
<1>3. ssl \in BOOLEAN
  BY ConfigsAssumption DEF IInv
<1>4. GotFrom(w, v, None)
  <2>1. w = GetConnection(v, None, ssl)
    BY <1>1
  <2>2. None \in Conns \cup {None} /\ MayConnect(v.conn, None)
    BY DEF MayConnect
  <2> QED BY <1>2, <1>3, <2>1, <2>2, GetConnectionResult
<1>5. Sound(w)
  BY <1>4 DEF GotFrom
<1>6. accepts' \in 0 .. MaxBacklog /\ phase' = phase
  <2>1. accepts \in 0 .. MaxBacklog /\ accepts > 0 /\ phase' = phase /\ MaxBacklog \in Nat
    BY BatchAssumption DEF IInv, Accept
  <2> QED BY <1>1, <2>1
<1>7. Steady' /\ conf' = conf
  <2>1. CASE Commit(w)
    BY <1>5, <2>1, CommitSteady
  <2>2. CASE w.got # None
    <3> PICK c : c = w.got
      OBVIOUS
    <3>1. /\ c \in Conns /\ w.conn[c].open /\ w.conn[c].client = None /\ Serves(w.conn, c)
          /\ ~Serves(v.conn, c)
          /\ \A d \in Conns : d # c => w.conn[d].client = v.conn[d].client
      BY <1>4, <2>2 DEF GotFrom, Serves
    <3>2. Unserved(v.conn, c)
      BY <1>2, <3>1, NobodyUpstream
    <3>3. Unserved(w.conn, c)
      BY <3>1, <3>2, ConnsAssumption DEF Unserved
    <3>4. CASE Commit(CloseConnection(w, c))
      <4> PICK x : x = CloseConnection(w, c)
        OBVIOUS
      <4>1. Sound(x)
        BY <1>5, <3>1, <3>3, CloseConnectionResult
      <4> QED BY <3>4, <4>1, CommitSteady
    <3>5. CASE \E x \in {w, Post(w, c, "read")} \cup Request(w, c) : Commit(x)
      <4>1. PICK x \in {w, Post(w, c, "read")} \cup Request(w, c) : Commit(x)
        BY <3>5
      <4> PICK dir \in {"read", "write"} : dir = "read"
        OBVIOUS
      <4>2. Sound(Post(w, c, dir))
        BY <1>5, <3>1, PostResult
      <4>3. Sound(x)
        BY <1>5, <3>1, <4>2, RequestResult
      <4> QED BY <4>1, <4>3, CommitSteady
    <3> QED BY <1>1, <2>2, <3>4, <3>5, <2>1
  <2> QED BY <1>1, <2>1, <2>2
<1> QED BY <1>6, <1>7 DEF IInv

(* ngx_event_expire_timers *)
LEMMA EndEventsStep ==
  ASSUME IInv, EndEvents
  PROVE  IInv'
<1>1. timers' \in SUBSET Conns /\ \A c \in timers' : conn[c].open
  BY DEF EndEvents, Open
<1>2. Current(conn, timers', posted)
  BY <1>1 DEF Current, IInv, Steady
<1>3. Steady'
  BY <1>1, <1>2 DEF Steady, IInv, EndEvents
<1> QED BY <1>3 DEF IInv, EndEvents

LEMMA ExpireTimerStep ==
  ASSUME IInv, NEW c \in Conns, ExpireTimer(c)
  PROVE  IInv'
<1>0. PICK l \in BOOLEAN :
        \E w \in TimedOut([World(l) EXCEPT !.timers = @ \ {c}], c) : Commit(w)
  BY DEF ExpireTimer
<1> PICK ti : ti = timers \ {c}
  OBVIOUS
<1> PICK v : v = Entering(batch, ti, posted, l)
  OBVIOUS
<1>1. v = [World(l) EXCEPT !.timers = @ \ {c}]
  BY DEF World, Entering
<1>2. conn[c].open /\ ti \in SUBSET Conns /\ Current(conn, ti, posted)
  BY DEF IInv, Steady, Current, ExpireTimer
<1>3. Sound(v) /\ v.conn = conn
  <2>1. /\ Steady /\ posted \in Seq(EventType)
        /\ batch \in Seq(EventType) /\ Reported(conn, batch)
    BY DEF IInv, Steady
  <2> QED BY <1>2, <2>1, EnteringSound
<1>4. PICK w \in TimedOut(v, c) : Commit(w)
  BY <1>0, <1>1, Zenon
<1>5. Sound(w)
  BY <1>2, <1>3, TimedOutResult
<1>6. Steady' /\ conf' = conf
  BY <1>4, <1>5, CommitSteady
<1> QED BY <1>6 DEF IInv, ExpireTimer

(* ngx_event_process_posted *)
LEMMA ProcessPostedStep ==
  ASSUME IInv, ProcessPosted
  PROVE  IInv'
<1> PICK e : e = Head(posted)
  OBVIOUS
<1> PICK po : po = Tail(posted)
  OBVIOUS
<1>1. /\ e.c \in Conns /\ conn[e.c].open
      /\ po \in Seq(EventType) /\ Current(conn, timers, po)
  <2>1. posted \in Seq(EventType) /\ posted # <<>> /\ Current(conn, timers, posted)
    BY DEF IInv, Steady, ProcessPosted
  <2>2. /\ e = posted[1] /\ 1 \in 1 .. Len(posted)
        /\ po \in Seq(EventType) /\ Current(conn, timers, po)
    BY <2>1, RestOfEvents
  <2> QED BY <2>1, <2>2 DEF Current
<1>2. PICK l \in BOOLEAN :
        \E w \in Handled([World(l) EXCEPT !.posted = Tail(posted)], e.c, e.dir) : Commit(w)
  BY DEF ProcessPosted
<1>3. PICK v : v = [World(l) EXCEPT !.posted = Tail(posted)]
  OBVIOUS
<1>4. v = Entering(batch, timers, po, l)
  BY <1>3 DEF World, Entering
<1>5. Sound(v) /\ v.conn = conn
  <2>1. /\ Steady /\ timers \in SUBSET Conns
        /\ batch \in Seq(EventType) /\ Reported(conn, batch)
    BY DEF IInv, Steady
  <2> QED BY <1>1, <1>4, <2>1, EnteringSound
<1>6. PICK w \in Handled(v, e.c, e.dir) : Commit(w)
  BY <1>2, <1>3, Zenon
<1>7. Sound(w)
  BY <1>1, <1>5, HandledResult
<1>8. Steady' /\ conf' = conf
  BY <1>6, <1>7, CommitSteady
<1> QED BY <1>8 DEF IInv, ProcessPosted

-----------------------------------------------------------------------------
(* The free list holds all connections at first. *)
LEMMA IInvInit ==
  ASSUME ConnInit
  PROVE  IInv
<1> USE DEF ConnInit
<1> PICK no \in BOOLEAN : no = FALSE
  OBVIOUS
<1> PICK r : r = Closed(no)
  OBVIOUS
<1>1. /\ r \in ConnType /\ Role(r) /\ ~r.open /\ r.client = None /\ ~r.reusable
  BY ClosedType
<1>2. conn \in [Conns -> ConnType] /\ \A c \in Conns : conn[c] = r
  BY <1>1
<1>3. Holds(free_connections, Conns)
  BY ConnsAssumption, OrdersHold
<1>4. Unused(conn) = Conns /\ Marked(conn) = {}
  BY <1>1, <1>2 DEF Unused, Marked
<1>5. Roles(conn)
  BY <1>1, <1>2, ConnsAssumption DEF Roles
<1>6. /\ reusable \in Seq(Conns) /\ batch \in Seq(EventType) /\ posted \in Seq(EventType)
      /\ Len(batch) = 0 /\ Len(posted) = 0
  OBVIOUS
<1>7. Current(conn, timers, posted) /\ Reported(conn, batch)
  BY <1>6 DEF Current, Reported
<1>8. free_connections \in Seq(Conns)
  BY <1>3 DEF Holds
<1>9. Holds(reusable, {})
  BY HoldsEmpty
<1>10. Steady
  BY <1>2, <1>3, <1>4, <1>5, <1>6, <1>7, <1>8, <1>9 DEF Steady
<1> QED BY <1>10, BatchAssumption DEF IInv

(* Every step keeps the lists, the roles and the events right. *)
LEMMA IInvNext ==
  ASSUME IInv, [ConnNext]_connVars
  PROVE  IInv'
<1>1. CASE PollDirect
  BY <1>1, PollDirectStep
<1>2. CASE PollPosting
  BY <1>2, PollPostingStep
<1>3. CASE ProcessEvent
  BY <1>3, ProcessEventStep
<1>4. CASE Accept
  BY <1>4, AcceptStep
<1>5. CASE EndEvents
  BY <1>5, EndEventsStep
<1>6. CASE \E c \in Conns : ExpireTimer(c)
  BY <1>6, ExpireTimerStep
<1>7. CASE EndTimers
  BY <1>7 DEF IInv, Steady, EndTimers
<1>8. CASE ProcessPosted
  BY <1>8, ProcessPostedStep
<1>9. CASE EndPosted
  BY <1>9 DEF IInv, Steady, EndPosted
<1>10. CASE UNCHANGED connVars
  BY <1>10 DEF IInv, Steady, connVars
<1> QED BY <1>1, <1>2, <1>3, <1>4, <1>5, <1>6, <1>7, <1>8, <1>9, <1>10 DEF ConnNext

LEMMA IInvCorrect == ConnSpec => []IInv
<1> QED BY IInvInit, IInvNext, PTL DEF ConnSpec

(* ListsExact: the free list and the reusable queue agree with the         *)
(* connections, an upstream connection has a client that is there, and     *)
(* timers and posted events belong to open connections.                    *)
THEOREM ListsCorrect == ConnSpec => []ListsExact
<1>1. IInv => ListsExact
  <2> SUFFICES ASSUME IInv PROVE ListsExact
    OBVIOUS
  <2>1. /\ conn \in [Conns -> ConnType] /\ Roles(conn) /\ timers \in SUBSET Conns
        /\ Holds(free_connections, Unused(conn)) /\ Holds(reusable, Marked(conn))
        /\ Current(conn, timers, posted) /\ posted \in Seq(EventType)
    BY DEF IInv, Steady
  <2>2. ConnTypeOK
    BY <2>1 DEF IInv, ConnTypeOK, ConnType
  <2>3. /\ Range(free_connections) = Conns \ Open
        /\ Len(free_connections) = Cardinality(Range(free_connections))
    <3>1. Unused(conn) = Conns \ Open
      BY DEF Unused, Open
    <3> QED BY <2>1, <3>1, HoldsLen
  <2>4. /\ Range(reusable) = {c \in Conns : conn[c].reusable}
        /\ Len(reusable) = Cardinality(Range(reusable))
    <3>1. Marked(conn) = {c \in Conns : conn[c].reusable}
      BY DEF Marked
    <3> QED BY <2>1, <3>1, HoldsLen
  <2>5. /\ \A c \in Conns : conn[c].handler = "keepalive" => conn[c].reusable
        /\ \A c \in Conns : conn[c].reusable => conn[c].handler \in {"keepalive", "shutdown"}
        /\ \A c \in Open : conn[c].client # None => conn[conn[c].client].handler = "request"
    BY <2>1 DEF Roles, Role, Serves, Open
  <2>6. /\ timers \subseteq Open
        /\ \A i \in DOMAIN posted : posted[i].c \in Open /\ posted[i].reused = 0
    <3>1. DOMAIN posted = 1 .. Len(posted)
      BY <2>1
    <3> QED BY <2>1, <3>1 DEF Current, Open
  <2> QED BY <2>2, <2>3, <2>4, <2>5, <2>6 DEF ListsExact
<1> QED BY <1>1, IInvCorrect, PTL

(* OwnEvents: for any number of connections and events in a batch, the     *)
(* instance bit tells the events of an object's present use from those of  *)
(* the use before.                                                         *)
THEOREM EventsCorrect == ConnSpec => []OwnEvents
<1>1. IInv => OwnEvents
  <2> SUFFICES ASSUME IInv, NEW i \in DOMAIN batch,
                      batch[i].c # Listen, batch[i].reused < 2
               PROVE  Stale(batch[i]) <=> ~conn[batch[i].c].open \/ batch[i].reused = 1
    BY DEF OwnEvents
  <2> PICK e : e = batch[i]
    OBVIOUS
  <2>1. batch \in Seq(EventType) /\ Reported(conn, batch)
    BY DEF IInv, Steady
  <2>2. i \in 1 .. Len(batch) /\ e \in EventType
    BY <2>1, ElementOfSeq
  <2>3. e.c \in Conns /\ e.reused \in Nat
    BY <2>2 DEF EventType
  <2>4. conn[e.c].instance = e.instance <=> e.reused % 2 = 0
    BY <2>1, <2>2, <2>3 DEF Reported
  <2>5. e.reused % 2 = 0 <=> e.reused # 1
    <3>1. e.reused = 0 \/ e.reused = 1
      BY <2>3
    <3> QED BY <3>1
  <2> QED BY <2>4, <2>5 DEF Stale
<1> QED BY <1>1, IInvCorrect, PTL

(* DrainedBeforeRefused: ngx_get_connection gives up only when no idle     *)
(* connection is left, or one that is ending TLS is in the way.            *)
THEOREM DrainedCorrect == ConnSpec => []DrainedBeforeRefused
<1>1. IInv => DrainedBeforeRefused
  BY DEF IInv, Steady, DrainedBeforeRefused
<1> QED BY <1>1, IInvCorrect, PTL

=============================================================================
