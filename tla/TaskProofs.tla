----------------------------- MODULE TaskProofs -----------------------------
(***************************************************************************)
(* Proofs about the worker thread of utils/task.cpp for every set of works *)
(* and any number of spurious wake-ups.                                    *)
(*                                                                         *)
(* NoLostWakeup is not inductive: that the one signal of an event reaches  *)
(* the right sleeper depends on the two threads never sleeping on the      *)
(* condition variable together, on who holds the mutex in which part of    *)
(* the worker's loop, and on the exit request being made only by a client  *)
(* that then joins.  Protocol states these facts.                          *)
(***************************************************************************)
EXTENDS Task, TLAPS

Protocol ==
    /\ mutex = "worker" <=> wpc \in {"test", "work"}
    /\ "worker" \in waiting => wpc = "asleep"
    /\ "client" \in waiting => cpc = "asleep"
    /\ isThreadRunning <=> wpc # "absent" /\ (wpc = "exited" => cpc = "join")
    /\ cpc = "join" => isThreadRunning
    /\ cpc = "asleep" => isThreadRunning
    /\ isThreadRunning => (exitThread <=> cpc = "join")
    /\ wpc = "exited" => exitThread
    /\ exitThread => workFunc = None
    /\ wpc = "work" => workFunc # None \/ exitThread
    /\ wpc = "absent" => ~isThreadRunning

IInv == TypeOK /\ NoLostWakeup /\ Protocol

(* The worker and a finishing client never sleep together, so the one      *)
(* signal of an event finds its only sleeper, or nobody has to be woken.   *)
LEMMA OneSleeper ==
    ASSUME IInv
    PROVE  /\ ~({"worker", "client"} \subseteq waiting)
           /\ scond_signal => waiting' = {}
<1>1. waiting \subseteq {"client", "worker"}
    BY DEF IInv, TypeOK, Threads
<1>2. ~("worker" \in waiting /\ "client" \in waiting)
    BY DEF IInv, NoLostWakeup
<1>3. scond_signal => waiting' = {}
    BY <1>1, <1>2 DEF scond_signal
<1>4. QED
    BY <1>2, <1>3

(* A new Task has no thread, no work and no sleeper.                       *)
LEMMA InitIInv == Init => IInv
<1> SUFFICES ASSUME Init PROVE IInv
    OBVIOUS
<1>1. TypeOK
    <2>1. spurious \in 0 .. MaxSpurious
        BY MaxSpuriousAssumption DEF Init
    <2>2. workFunc \in Work \cup {None} /\ ret \in Work \cup {None} /\ mutex \in {None, "worker"}
        BY DEF Init
    <2>3. arg \in Work \cup {None} /\ answer \in Work \cup {None} /\ waiting \subseteq Threads
        BY DEF Init
    <2>4. exitThread \in BOOLEAN /\ isThreadRunning \in BOOLEAN
        BY DEF Init
    <2>5. QED
        BY <2>1, <2>2, <2>3, <2>4 DEF Init, TypeOK
<1>2. NoLostWakeup
    BY DEF Init, NoLostWakeup
<1>3. Protocol
    BY NoneAssumption DEF Init, Protocol
<1>4. QED
    BY <1>1, <1>2, <1>3 DEF IInv

(* The worker enters its loop body or returns from scond_wait.             *)
LEMMA WorkerLockIInv == IInv /\ WorkerLock => IInv'
<1> SUFFICES ASSUME IInv, WorkerLock PROVE IInv'
    OBVIOUS
<1>1. TypeOK'
    BY NoneAssumption DEF IInv, TypeOK, WorkerLock, shared, Free
<1>2. NoLostWakeup'
    BY NoneAssumption DEF IInv, TypeOK, NoLostWakeup, Protocol, WorkerLock, shared, Free
<1>3. Protocol'
    BY NoneAssumption DEF IInv, TypeOK, NoLostWakeup, Protocol, WorkerLock, shared, Free
<1>4. QED
    BY <1>1, <1>2, <1>3 DEF IInv

(* The worker goes to sleep only when it has nothing to do.                *)
LEMMA WorkerSleepIInv == IInv /\ WorkerSleep => IInv'
<1> SUFFICES ASSUME IInv, WorkerSleep PROVE IInv'
    OBVIOUS
<1>1. TypeOK'
    BY NoneAssumption DEF IInv, TypeOK, WorkerSleep, shared, Threads
<1>2. NoLostWakeup'
    BY NoneAssumption DEF IInv, TypeOK, NoLostWakeup, Protocol, WorkerSleep, shared, Threads
<1>3. Protocol'
    BY NoneAssumption DEF IInv, TypeOK, NoLostWakeup, Protocol, WorkerSleep, shared, Threads
<1>4. QED
    BY <1>1, <1>2, <1>3 DEF IInv

(* The worker finds work or the exit request.                              *)
LEMMA WorkerTakeIInv == IInv /\ WorkerTake => IInv'
<1> SUFFICES ASSUME IInv, WorkerTake PROVE IInv'
    OBVIOUS
<1>1. TypeOK'
    BY NoneAssumption DEF IInv, TypeOK, WorkerTake, shared
<1>2. NoLostWakeup'
    BY NoneAssumption DEF IInv, TypeOK, NoLostWakeup, Protocol, WorkerTake, shared
<1>3. Protocol'
    BY NoneAssumption DEF IInv, TypeOK, NoLostWakeup, Protocol, WorkerTake, shared
<1>4. QED
    BY <1>1, <1>2, <1>3 DEF IInv

(* The worker empties the slot, and its signal wakes the finishing client  *)
(* if there is one.                                                        *)
LEMMA WorkerDoneIInv == IInv /\ WorkerDone => IInv'
<1> SUFFICES ASSUME IInv, WorkerDone PROVE IInv'
    OBVIOUS
<1>1. TypeOK'
    BY OneSleeper, NoneAssumption DEF IInv, TypeOK, WorkerDone
<1>2. NoLostWakeup'
    BY OneSleeper, NoneAssumption DEF IInv, TypeOK, NoLostWakeup, Protocol, WorkerDone
<1>3. Protocol'
    BY OneSleeper, NoneAssumption DEF IInv, TypeOK, NoLostWakeup, Protocol, WorkerDone
<1>4. QED
    BY <1>1, <1>2, <1>3 DEF IInv

(* The worker tests the exit flag outside the mutex.                       *)
LEMMA WorkerLoopIInv == IInv /\ WorkerLoop => IInv'
<1> SUFFICES ASSUME IInv, WorkerLoop PROVE IInv'
    OBVIOUS
<1>1. TypeOK'
    BY NoneAssumption DEF IInv, TypeOK, WorkerLoop, shared
<1>2. NoLostWakeup'
    BY NoneAssumption DEF IInv, TypeOK, NoLostWakeup, Protocol, WorkerLoop, shared
<1>3. Protocol'
    BY NoneAssumption DEF IInv, TypeOK, NoLostWakeup, Protocol, WorkerLoop, shared
<1>4. QED
    BY <1>1, <1>2, <1>3 DEF IInv

(* start creates a worker only when none is running.                       *)
LEMMA startIInv == IInv /\ start => IInv'
<1> SUFFICES ASSUME IInv, start PROVE IInv'
    OBVIOUS
<1>1. TypeOK'
    BY NoneAssumption DEF IInv, TypeOK, start, shared, Return, Free
<1>2. NoLostWakeup'
    BY NoneAssumption DEF IInv, TypeOK, NoLostWakeup, Protocol, start, shared, Return, Free
<1>3. Protocol'
    BY NoneAssumption DEF IInv, TypeOK, NoLostWakeup, Protocol, start, shared, Return, Free
<1>4. QED
    BY <1>1, <1>2, <1>3 DEF IInv

(* execute fills the slot, and its signal wakes a sleeping worker.         *)
LEMMA executeIInv == IInv /\ execute => IInv'
<1> SUFFICES ASSUME IInv, execute PROVE IInv'
    OBVIOUS
<1>1. TypeOK'
    BY OneSleeper, NoneAssumption DEF IInv, TypeOK, execute, Return, Free
<1>2. NoLostWakeup'
    BY OneSleeper, NoneAssumption DEF IInv, TypeOK, NoLostWakeup, Protocol, execute, Return, Free
<1>3. Protocol'
    BY OneSleeper, NoneAssumption DEF IInv, TypeOK, NoLostWakeup, Protocol, execute, Return, Free
<1>4. QED
    BY <1>1, <1>2, <1>3 DEF IInv

(* finish sleeps only while work is pending.                               *)
LEMMA finishIInv == IInv /\ finish => IInv'
<1> SUFFICES ASSUME IInv, finish PROVE IInv'
    OBVIOUS
<1>1. TypeOK'
    BY NoneAssumption DEF IInv, TypeOK, finish, shared, Return, Free, Threads
<1>2. NoLostWakeup'
    BY NoneAssumption DEF IInv, TypeOK, NoLostWakeup, Protocol, finish, shared, Return, Free, Threads
<1>3. Protocol'
    BY NoneAssumption DEF IInv, TypeOK, NoLostWakeup, Protocol, finish, shared, Return, Free, Threads
<1>4. QED
    BY <1>1, <1>2, <1>3 DEF IInv

(* shutdown raises the exit flag, and its signal wakes a sleeping worker.  *)
LEMMA shutdownIInv == IInv /\ shutdown => IInv'
<1> SUFFICES ASSUME IInv, shutdown PROVE IInv'
    OBVIOUS
<1>1. TypeOK'
    BY OneSleeper, NoneAssumption DEF IInv, TypeOK, shutdown, Return, Free
<1>2. NoLostWakeup'
    BY OneSleeper, NoneAssumption DEF IInv, TypeOK, NoLostWakeup, Protocol, shutdown, Return, Free
<1>3. Protocol'
    BY OneSleeper, NoneAssumption DEF IInv, TypeOK, NoLostWakeup, Protocol, shutdown, Return, Free
<1>4. QED
    BY <1>1, <1>2, <1>3 DEF IInv

(* After the join the worker is gone.                                      *)
LEMMA ShutdownJoinedIInv == IInv /\ ShutdownJoined => IInv'
<1> SUFFICES ASSUME IInv, ShutdownJoined PROVE IInv'
    OBVIOUS
<1>1. TypeOK'
    BY NoneAssumption DEF IInv, TypeOK, ShutdownJoined, Return, Free
<1>2. NoLostWakeup'
    BY NoneAssumption DEF IInv, TypeOK, NoLostWakeup, Protocol, ShutdownJoined, Return, Free
<1>3. Protocol'
    BY NoneAssumption DEF IInv, TypeOK, NoLostWakeup, Protocol, ShutdownJoined, Return, Free
<1>4. QED
    BY <1>1, <1>2, <1>3 DEF IInv

(* A new call of the client changes nothing shared.                        *)
LEMMA NewCallIInv == IInv /\ NewCall => IInv'
<1> SUFFICES ASSUME IInv, NewCall PROVE IInv'
    OBVIOUS
<1>1. TypeOK'
    BY NoneAssumption DEF IInv, TypeOK, NewCall, Call, shared
<1>2. NoLostWakeup'
    BY NoneAssumption DEF IInv, TypeOK, NoLostWakeup, Protocol, NewCall, Call, shared
<1>3. Protocol'
    BY NoneAssumption DEF IInv, TypeOK, NoLostWakeup, Protocol, NewCall, Call, shared
<1>4. QED
    BY <1>1, <1>2, <1>3 DEF IInv

(* A spurious wake-up only makes a thread test its condition again.        *)
LEMMA SpuriousIInv == ASSUME NEW t \in Threads PROVE IInv /\ SpuriousWakeup(t) => IInv'
<1> SUFFICES ASSUME IInv, SpuriousWakeup(t) PROVE IInv'
    OBVIOUS
<1>1. TypeOK'
    BY MaxSpuriousAssumption DEF IInv, TypeOK, SpuriousWakeup, shared
<1>2. NoLostWakeup'
    BY DEF IInv, NoLostWakeup, SpuriousWakeup, shared
<1>3. Protocol'
    BY DEF IInv, Protocol, SpuriousWakeup, shared
<1>4. QED
    BY <1>1, <1>2, <1>3 DEF IInv

(* The invariant is inductive: every step of either thread keeps it.       *)
LEMMA NextIInv == IInv /\ [Next]_vars => IInv'
<1> SUFFICES ASSUME IInv, [Next]_vars PROVE IInv'
    OBVIOUS
<1>1. CASE UNCHANGED vars
    BY <1>1 DEF vars, IInv, TypeOK, NoLostWakeup, Protocol
<1>2. CASE Worker
    BY <1>2, WorkerLockIInv, WorkerSleepIInv, WorkerTakeIInv, WorkerDoneIInv, WorkerLoopIInv
       DEF Worker
<1>3. CASE Client
    BY <1>3, startIInv, executeIInv, finishIInv, shutdownIInv, ShutdownJoinedIInv DEF Client
<1>4. CASE NewCall
    BY <1>4, NewCallIInv
<1>5. CASE \E t \in Threads : SpuriousWakeup(t)
    BY <1>5, SpuriousIInv
<1>6. QED
    BY <1>1, <1>2, <1>3, <1>4, <1>5 DEF Next

(* The joint invariant holds in every reachable state.                     *)
THEOREM Invariance == Spec => []IInv
BY InitIInv, NextIInv, PTL DEF Spec

(* The fields of Task::Impl keep their types.                              *)
THEOREM TypeCorrect == Spec => []TypeOK
<1>1. IInv => TypeOK
    BY DEF IInv
<1>2. QED
    BY <1>1, Invariance, PTL

(* One condition variable, signalled and never broadcast, is enough for    *)
(* one worker and one client: no wake-up is lost, whatever the number of   *)
(* works and of spurious wake-ups.                                         *)
THEOREM WakeupsNeverLost == Spec => []NoLostWakeup
<1>1. IInv => NoLostWakeup
    BY DEF IInv
<1>2. QED
    BY <1>1, Invariance, PTL

(* When shutdown has returned, the worker thread has exited and holds no   *)
(* mutex: the destructor may free what it used.                            *)
THEOREM WorkerDeadAfterShutdown == Spec => []DeadAfterShutdown
<1>1. IInv => DeadAfterShutdown
    BY NoneAssumption DEF IInv, TypeOK, Protocol, DeadAfterShutdown, Free
<1>2. QED
    BY <1>1, Invariance, PTL

-----------------------------------------------------------------------------
(* Every critical section is one step of the mailbox, or none.             *)
LEMMA RefineNext == IInv /\ [Next]_vars => [Box!MailNext]_(Box!mailVars)
<1> DEFINE Same == UNCHANGED <<workFunc, ret, isThreadRunning, answer>>
<1> SUFFICES ASSUME IInv, [Next]_vars PROVE Box!MailNext \/ Same
    BY DEF Box!mailVars
<1>1. CASE UNCHANGED vars
    BY <1>1 DEF vars
<1>2. CASE WorkerLock \/ WorkerSleep \/ WorkerTake \/ WorkerLoop
    BY <1>2 DEF WorkerLock, WorkerSleep, WorkerTake, WorkerLoop, shared
<1>3. CASE WorkerDone
    <2>1. CASE workFunc # None
        BY <1>3, <2>1 DEF WorkerDone, Box!MailNext, Box!Complete
    <2>2. CASE workFunc = None
        BY <1>3, <2>2 DEF WorkerDone, Box!MailNext, Box!Forget
    <2>3. QED
        BY <2>1, <2>2
<1>4. CASE start
    <2>1. CASE isThreadRunning
        BY <1>4, <2>1 DEF start, shared
    <2>2. CASE ~isThreadRunning
        BY <1>4, <2>2 DEF start, Box!MailNext, Box!Open
    <2>3. QED
        BY <2>1, <2>2
<1>5. CASE execute
    <2>1. CASE arg = None \/ ~isThreadRunning
        BY <1>5, <2>1 DEF execute
    <2>2. CASE arg # None /\ isThreadRunning
        <3>1. arg \in Work
            BY <2>2 DEF IInv, TypeOK
        <3>2. Box!Put(arg)
            BY <1>5, <2>2 DEF execute, Box!Put
        <3>3. QED
            BY <3>1, <3>2 DEF Box!MailNext
    <2>3. QED
        BY <2>1, <2>2
<1>6. CASE finish
    <2>1. CASE isThreadRunning /\ workFunc # None
        BY <1>6, <2>1 DEF finish, shared
    <2>2. CASE ~isThreadRunning \/ workFunc = None
        BY <1>6, <2>2 DEF finish, shared, Box!MailNext, Box!Answer
    <2>3. QED
        BY <2>1, <2>2
<1>7. CASE shutdown
    <2>1. CASE ~isThreadRunning
        BY <1>7, <2>1 DEF shutdown
    <2>2. CASE isThreadRunning
        BY <1>7, <2>2 DEF shutdown, Box!MailNext, Box!Cancel
    <2>3. QED
        BY <2>1, <2>2
<1>8. CASE ShutdownJoined
    <2>1. isThreadRunning /\ workFunc = None
        BY <1>8 DEF ShutdownJoined, IInv, Protocol
    <2>2. Box!Close
        BY <1>8, <2>1 DEF ShutdownJoined, Box!Close
    <2>3. QED
        BY <2>2 DEF Box!MailNext
<1>9. CASE NewCall \/ \E t \in Threads : SpuriousWakeup(t)
    BY <1>9 DEF NewCall, Call, SpuriousWakeup, shared
<1>10. QED
    BY <1>1, <1>2, <1>3, <1>4, <1>5, <1>6, <1>7, <1>8, <1>9 DEF Next, Worker, Client

(* Lock, condition variable and exit flag implement the one-slot mailbox,  *)
(* for every set of works.                                                 *)
THEOREM ImplementsMailbox == Spec => MailboxSpec
<1>1. Init => Box!MailInit
    BY DEF Init, Box!MailInit
<1>2. QED
    BY <1>1, Invariance, RefineNext, PTL DEF Spec, MailboxSpec, Box!MailSpec
=============================================================================
