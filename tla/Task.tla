-------------------------------- MODULE Task --------------------------------
(***************************************************************************)
(* The worker thread of utils/task.cpp: a client thread hands work to a    *)
(* worker through one mutex and ONE condition variable that both sides     *)
(* wait on and that is only ever signalled, never broadcast.               *)
(*                                                                         *)
(* The client is one thread that makes any sequence of start, execute,     *)
(* finish and shutdown calls.  A critical section is one step, taken when  *)
(* the mutex is free; the worker holds the mutex while it runs the work.   *)
(* The result of a work is modelled by the work itself.                    *)
(***************************************************************************)
EXTENDS Naturals, FiniteSets

CONSTANTS Work,   \* the work functions a client hands over
          None,   \* NULL
          MaxSpurious  \* bound: wake-ups without a signal in a behaviour

ASSUME NoneAssumption == None \notin Work \cup {"worker"}
ASSUME MaxSpuriousAssumption == MaxSpurious \in Nat

Threads == {"client", "worker"}

VARIABLES workFunc,         \* Impl::workFunc
          ret,              \* Impl::ret
          exitThread,       \* Impl::exitThread
          isThreadRunning,  \* Impl::_isThreadRunning
          mutex,            \* the thread that holds Impl::mutex, or None
          waiting,          \* the threads asleep on Impl::condWork
          wpc,              \* where taskProc is
          cpc,              \* the call the client is in
          arg,              \* the work a pending execute() carries
          answer,           \* what the last finish() returned
          spurious          \* spurious wake-ups so far

vars == <<workFunc, ret, exitThread, isThreadRunning, mutex, waiting, wpc, cpc, arg, answer,
          spurious>>
shared == <<workFunc, ret, exitThread, isThreadRunning>>

Free == mutex = None

(* A constructor that leaves ret uninitialised.                            *)
InitForgetsRet ==
    /\ workFunc = None /\ ret = "garbage"
    /\ exitThread = FALSE /\ isThreadRunning = FALSE
    /\ mutex = None /\ waiting = {}
    /\ wpc = "absent"
    /\ cpc = "idle" /\ arg = None /\ answer = None
    /\ spurious = 0

Init ==
    /\ workFunc = None /\ ret = None
    /\ exitThread = FALSE /\ isThreadRunning = FALSE
    /\ mutex = None /\ waiting = {}
    /\ wpc = "absent"
    /\ cpc = "idle" /\ arg = None /\ answer = None
    /\ spurious = 0

-----------------------------------------------------------------------------
(* scond_signal wakes one of the threads asleep on the variable, if any.   *)
scond_signal ==
    \/ waiting = {} /\ UNCHANGED waiting
    \/ \E t \in waiting : waiting' = waiting \ {t}

(* A wait may also end without a signal, though not for ever.              *)
SpuriousWakeup(t) ==
    /\ t \in waiting /\ spurious < MaxSpurious
    /\ spurious' = spurious + 1
    /\ waiting' = waiting \ {t}
    /\ UNCHANGED <<shared, mutex, wpc, cpc, arg, answer>>

-----------------------------------------------------------------------------
(* taskProc                                                                *)

(* Entry of the loop body, and the return of scond_wait.                   *)
WorkerLock ==
    /\ wpc = "lock" \/ (wpc = "asleep" /\ "worker" \notin waiting)
    /\ Free
    /\ mutex' = "worker"
    /\ wpc' = "test"
    /\ UNCHANGED <<shared, waiting, cpc, arg, answer, spurious>>

WorkerSleep ==
    /\ wpc = "test"
    /\ workFunc = None /\ ~exitThread
    /\ mutex' = None
    /\ waiting' = waiting \cup {"worker"}
    /\ wpc' = "asleep"
    /\ UNCHANGED <<shared, cpc, arg, answer, spurious>>

(* The work itself runs between WorkerTake and WorkerDone.                 *)
WorkerTake ==
    /\ wpc = "test"
    /\ workFunc # None \/ exitThread
    /\ wpc' = "work"
    /\ UNCHANGED <<shared, mutex, waiting, cpc, arg, answer, spurious>>

(* The end of the work, the reset of the slot and the unlock, with the     *)
(* wake-up left out.                                                       *)
WorkerDoneSilent ==
    /\ wpc = "work"
    /\ ret' = workFunc
    /\ workFunc' = None
    /\ UNCHANGED waiting
    /\ mutex' = None
    /\ wpc' = "loop"
    /\ UNCHANGED <<exitThread, isThreadRunning, cpc, arg, answer, spurious>>

WorkerDone ==
    /\ wpc = "work"
    /\ ret' = workFunc
    /\ workFunc' = None
    /\ scond_signal
    /\ mutex' = None
    /\ wpc' = "loop"
    /\ UNCHANGED <<exitThread, isThreadRunning, cpc, arg, answer, spurious>>

(* The loop condition reads exitThread without the mutex.                  *)
WorkerLoop ==
    /\ wpc = "loop"
    /\ wpc' = IF exitThread THEN "exited" ELSE "lock"
    /\ UNCHANGED <<shared, mutex, waiting, cpc, arg, answer, spurious>>

Worker == WorkerLock \/ WorkerSleep \/ WorkerTake \/ WorkerDone \/ WorkerLoop

-----------------------------------------------------------------------------
(* The client                                                              *)

Call(op, w) ==
    /\ cpc = "idle"
    /\ cpc' = op
    /\ arg' = w
    /\ UNCHANGED <<shared, mutex, waiting, wpc, answer, spurious>>

Return == cpc' = "idle" /\ arg' = None

start ==
    /\ cpc = "start" /\ Free
    /\ \/ isThreadRunning /\ UNCHANGED <<shared, wpc>>
       \/ /\ ~isThreadRunning
          /\ workFunc' = None /\ ret' = None
          /\ exitThread' = FALSE /\ isThreadRunning' = TRUE
          /\ wpc' = "lock"
    /\ Return
    /\ UNCHANGED <<mutex, waiting, answer, spurious>>

execute ==
    /\ cpc = "execute" /\ Free
    /\ \/ (arg = None \/ ~isThreadRunning) /\ UNCHANGED <<workFunc, waiting>>
       \/ arg # None /\ isThreadRunning /\ workFunc' = arg /\ scond_signal
    /\ Return
    /\ UNCHANGED <<ret, exitThread, isThreadRunning, mutex, wpc, answer, spurious>>

(* finish, whose while has become an if: woken, it does not test again.    *)
FinishTestsOnce ==
    /\ cpc = "finish" \/ (cpc = "asleep" /\ "client" \notin waiting)
    /\ Free
    /\ \/ /\ cpc = "finish" /\ isThreadRunning /\ workFunc # None
          /\ waiting' = waiting \cup {"client"}
          /\ cpc' = "asleep"
          /\ UNCHANGED <<arg, answer>>
       \/ /\ cpc = "asleep" \/ ~isThreadRunning \/ workFunc = None
          /\ answer' = IF isThreadRunning THEN ret ELSE None
          /\ Return
          /\ UNCHANGED waiting
    /\ UNCHANGED <<shared, mutex, wpc, spurious>>

finish ==
    /\ cpc = "finish" \/ (cpc = "asleep" /\ "client" \notin waiting)
    /\ Free
    /\ \/ /\ isThreadRunning /\ workFunc # None
          /\ waiting' = waiting \cup {"client"}
          /\ cpc' = "asleep"
          /\ UNCHANGED <<arg, answer>>
       \/ /\ ~isThreadRunning \/ workFunc = None
          /\ answer' = IF isThreadRunning THEN ret ELSE None
          /\ Return
          /\ UNCHANGED waiting
    /\ UNCHANGED <<shared, mutex, wpc, spurious>>

(* shutdown without the join.                                              *)
ShutdownDetached ==
    /\ cpc = "shutdown" /\ Free
    /\ workFunc' = None /\ exitThread' = TRUE /\ scond_signal
    /\ isThreadRunning' = FALSE
    /\ Return
    /\ UNCHANGED <<ret, mutex, wpc, answer, spurious>>

shutdown ==
    /\ cpc = "shutdown" /\ Free
    /\ \/ ~isThreadRunning /\ UNCHANGED <<workFunc, exitThread, waiting>> /\ Return
       \/ /\ isThreadRunning
          /\ workFunc' = None /\ exitThread' = TRUE /\ scond_signal
          /\ cpc' = "join" /\ UNCHANGED arg
    /\ UNCHANGED <<ret, isThreadRunning, mutex, wpc, answer, spurious>>

(* The second critical section of shutdown, after sthread_join.            *)
ShutdownJoined ==
    /\ cpc = "join" /\ wpc = "exited" /\ Free
    /\ isThreadRunning' = FALSE
    /\ Return
    /\ UNCHANGED <<workFunc, ret, exitThread, mutex, waiting, wpc, answer, spurious>>

Client == start \/ execute \/ finish \/ shutdown \/ ShutdownJoined

NewCall ==
    \/ \E op \in {"start", "finish", "shutdown"} : Call(op, None)
    \/ \E w \in Work \cup {None} : Call("execute", w)

Next == Worker \/ Client \/ NewCall \/ \E t \in Threads : SpuriousWakeup(t)

(* The operating system runs both threads: neither is stopped for ever     *)
(* where it can proceed.  A work function returns (WorkerDone).  The       *)
(* client need not make another call.                                      *)
Spec == Init /\ [][Next]_vars /\ WF_vars(Worker) /\ WF_vars(Client)

-----------------------------------------------------------------------------
TypeOK ==
    /\ workFunc \in Work \cup {None}
    /\ ret \in Work \cup {None}
    /\ exitThread \in BOOLEAN /\ isThreadRunning \in BOOLEAN
    /\ mutex \in {None, "worker"}
    /\ waiting \subseteq Threads
    /\ wpc \in {"absent", "lock", "test", "asleep", "work", "loop", "exited"}
    /\ cpc \in {"idle", "start", "execute", "finish", "asleep", "shutdown", "join"}
    /\ arg \in Work \cup {None}
    /\ answer \in Work \cup {None}
    /\ spurious \in 0 .. MaxSpurious

(* No lost wake-up: condWork is shared by both sides and signalled once    *)
(* per event, so a signal could go to the wrong sleeper or to nobody.  A   *)
(* thread that is asleep and not yet signalled has nothing to do: the      *)
(* worker sleeps only with no work and no exit request, a finishing client *)
(* only while its work is pending.                                         *)
NoLostWakeup ==
    /\ "worker" \in waiting => workFunc = None /\ ~exitThread
    /\ "client" \in waiting => workFunc # None

(* After shutdown (and before start) no worker exists that could still     *)
(* lock the mutex the destructor frees, or run work on freed state.        *)
DeadAfterShutdown ==
    cpc \notin {"join"} /\ ~isThreadRunning => wpc \in {"absent", "exited"} /\ Free

(* Every call of the client returns: start, execute (which waits for a     *)
(* running work, as the worker holds the mutex), finish and shutdown.      *)
CallsReturn == cpc # "idle" ~> cpc = "idle"

Box == INSTANCE Mailbox WITH slot <- workFunc, result <- ret, alive <- isThreadRunning

(* Lock, condition variable and exit flag implement the one-slot mailbox.  *)
MailboxSpec == Box!MailSpec
=============================================================================
