------------------------------ MODULE Mailbox ------------------------------
(***************************************************************************)
(* What utils/task.h promises its client, without threads, lock or         *)
(* condition variable: a one-slot mailbox served by a worker.  Accepted    *)
(* work is run once, unless newer work or the end of the worker displaces  *)
(* it before it starts; finish gives the result of the last work run.      *)
(***************************************************************************)
CONSTANTS Work, None

VARIABLES slot,      \* the work accepted and not yet completed, or None
          result,    \* the result of the last completed work, or None
          alive,     \* the worker accepts work
          answer     \* what the last finish returned

mailVars == <<slot, result, alive, answer>>

MailInit == slot = None /\ result = None /\ alive = FALSE /\ answer = None

Open ==
    /\ ~alive
    /\ alive' = TRUE /\ slot' = None /\ result' = None
    /\ UNCHANGED answer

Put(w) == alive /\ slot' = w /\ UNCHANGED <<result, alive, answer>>

Complete ==
    /\ slot # None
    /\ result' = slot /\ slot' = None
    /\ UNCHANGED <<alive, answer>>

Answer ==
    /\ slot = None \/ ~alive
    /\ answer' = IF alive THEN result ELSE None
    /\ UNCHANGED <<slot, result, alive>>

Cancel == alive /\ slot' = None /\ UNCHANGED <<result, alive, answer>>

(* A worker told to stop leaves no result behind.                          *)
Forget == slot = None /\ result' = None /\ UNCHANGED <<slot, alive, answer>>

Close == alive /\ slot = None /\ alive' = FALSE /\ UNCHANGED <<slot, result, answer>>

MailNext ==
    \/ Open \/ Complete \/ Answer \/ Cancel \/ Forget \/ Close
    \/ \E w \in Work : Put(w)

MailSpec == MailInit /\ [][MailNext]_mailVars
=============================================================================
