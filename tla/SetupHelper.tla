------------------------------ MODULE SetupHelper ------------------------------
(***************************************************************************)
(* The helper process that serves port 9192: setup assistant, direct pull  *)
(* and readiness. Every worker may start it (_start_setup) or stop it      *)
(* (_stop_setup of failovarr/__init__.py); the lock file decides which of  *)
(* the candidates of failovarr/setup_process.py serves, and the PID file   *)
(* lets a worker stop a helper that another one started. A save in the     *)
(* assistant can make the helper the owner of the replication service,     *)
(* which a graceful stop then flushes.                                     *)
(*                                                                         *)
(* A process number is not reused; a lock ends with its process.           *)
(***************************************************************************)
EXTENDS Integers

CONSTANTS
    Worker,   \* processes that run plugin actions
    Helper,   \* helper processes, each started at most once
    NoHelper,
    MaxOps    \* starts and stops

ASSUME HelperAssumption ==
    /\ NoHelper \notin Helper
    /\ MaxOps \in Nat

VARIABLES
    state,    \* per helper: where its main is
    signal,   \* per helper: SIGTERM has been sent
    owner,    \* per helper: it owns the replication service
    flushed,  \* per helper: the final export has been attempted
    lock, pidFile,
    duty,     \* per worker: the step of its start or stop
    child,    \* per worker: _setup_process
    ready,    \* history: a worker has answered that the assistant is ready
    ops

setupVars == <<state, signal, owner, flushed, lock, pidFile, duty, child, ready, ops>>
helperVars == <<state, flushed, owner, lock, pidFile>>

HelperInit ==
    /\ state = [h \in Helper |-> "none"]
    /\ signal = [h \in Helper |-> FALSE]
    /\ owner = [h \in Helper |-> FALSE]
    /\ flushed = [h \in Helper |-> FALSE]
    /\ lock = NoHelper /\ pidFile = NoHelper
    /\ duty = [w \in Worker |-> "idle"]
    /\ child = [w \in Worker |-> NoHelper]
    /\ ready = FALSE /\ ops = 0

Alive(h) == h # NoHelper /\ state[h] \notin {"none", "done"}

\* The HTTP server is bound until server.stop.
Serving(h) == state[h] \in {"serving", "leaving"}

\* _setup_is_healthy
Healthy == \E h \in Helper : Serving(h)

-----------------------------------------------------------------------------
(* The helper process. *)

\* The process is gone, and its lock with it.
Gone(h) ==
    /\ state' = [state EXCEPT ![h] = "done"]
    /\ lock' = IF lock = h THEN NoHelper ELSE lock

\* Mutant: a candidate waits behind the lock it could not take.
MutantTakeLock(h) ==
    /\ state[h] = "new"
    /\ lock' = h /\ state' = [state EXCEPT ![h] = "locked"]
    /\ UNCHANGED <<signal, owner, flushed, pidFile, duty, child, ready, ops>>

TakeLock(h) ==
    /\ state[h] = "new"
    /\ IF lock = NoHelper
         THEN lock' = h /\ state' = [state EXCEPT ![h] = "locked"]
         ELSE Gone(h)
    /\ UNCHANGED <<signal, owner, flushed, pidFile, duty, child, ready, ops>>

\* Before the handlers are installed the signal ends the process.
DieEarly(h) ==
    /\ state[h] \in {"new", "locked"} /\ signal[h]
    /\ Gone(h)
    /\ UNCHANGED <<signal, owner, flushed, pidFile, duty, child, ready, ops>>

Serve(h) ==
    /\ state[h] = "locked" /\ ~signal[h]
    /\ pidFile' = h
    /\ state' = [state EXCEPT ![h] = "serving"]
    /\ UNCHANGED <<signal, owner, flushed, lock, duty, child, ready, ops>>

\* A save in the assistant starts the service in this process.
OwnService(h) ==
    /\ state[h] = "serving" /\ ~owner[h]
    /\ owner' = [owner EXCEPT ![h] = TRUE]
    /\ UNCHANGED <<state, signal, flushed, lock, pidFile, duty, child, ready, ops>>

\* The loop of main ends on the signal, or when the HTTP thread has died.
Leave(h) ==
    /\ state[h] = "serving"
    /\ state' = [state EXCEPT ![h] = IF signal[h] THEN "leaving" ELSE "crashed"]
    /\ ready' = (ready /\ signal[h])
    /\ UNCHANGED <<signal, owner, flushed, lock, pidFile, duty, child, ops>>

\* Mutant: the service is stopped as after a crash.
MutantStopService(h) ==
    /\ state[h] \in {"leaving", "crashed"}
    /\ state' = [state EXCEPT ![h] = "closed"]
    /\ UNCHANGED <<signal, owner, flushed, lock, pidFile, duty, child, ready, ops>>

\* Mutant: the lock is given up before the PID file is removed.
MutantUnlock(h) ==
    /\ state[h] \in {"leaving", "crashed"}
    /\ flushed' = [flushed EXCEPT ![h] = owner[h] /\ signal[h]]
    /\ state' = [state EXCEPT ![h] = "closed"]
    /\ lock' = NoHelper
    /\ UNCHANGED <<signal, owner, pidFile, duty, child, ready, ops>>

\* The service is stopped, after a signal with the flush; then the server.
StopService(h) ==
    /\ state[h] \in {"leaving", "crashed"}
    /\ flushed' = [flushed EXCEPT ![h] = owner[h] /\ signal[h]]
    /\ state' = [state EXCEPT ![h] = "closed"]
    /\ UNCHANGED <<signal, owner, lock, pidFile, duty, child, ready, ops>>

\* An exception of the final export skips the rest of the clean-up.
StopServiceFails(h) ==
    /\ state[h] \in {"leaving", "crashed"} /\ owner[h]
    /\ flushed' = [flushed EXCEPT ![h] = signal[h]]
    /\ Gone(h)
    /\ UNCHANGED <<signal, owner, pidFile, duty, child, ready, ops>>

Unlink(h) ==
    /\ state[h] = "closed"
    /\ pidFile' = NoHelper
    /\ state' = [state EXCEPT ![h] = "unlinked"]
    /\ UNCHANGED <<signal, owner, flushed, lock, duty, child, ready, ops>>

Exit(h) ==
    /\ state[h] = "unlinked"
    /\ Gone(h)
    /\ UNCHANGED <<signal, owner, flushed, pidFile, duty, child, ready, ops>>

-----------------------------------------------------------------------------
(* The workers; each runs one start or stop at a time (_setup_lock). *)

Goto(w, step) == duty' = [duty EXCEPT ![w] = step]
Terminate(h) == signal' = [signal EXCEPT ![h] = TRUE]

Start(w) ==
    /\ duty[w] = "idle" /\ ops < MaxOps
    /\ ops' = ops + 1
    /\ IF Healthy THEN ready' = TRUE /\ UNCHANGED duty ELSE Goto(w, "poll") /\ UNCHANGED ready
    /\ UNCHANGED <<helperVars, signal, child>>

\* No helper has answered: a former candidate is ended first.
Poll(w) ==
    /\ duty[w] = "poll"
    /\ IF Alive(child[w])
         THEN Terminate(child[w]) /\ Goto(w, "replace")
         ELSE Goto(w, "spawn") /\ UNCHANGED signal
    /\ UNCHANGED <<helperVars, child, ready, ops>>

\* The former candidate ends, or is given up after three seconds.
Replace(w) ==
    /\ duty[w] = "replace"
    /\ IF Alive(child[w]) THEN Goto(w, "idle") ELSE Goto(w, "spawn")
    /\ UNCHANGED <<helperVars, signal, child, ready, ops>>

Spawn(w) ==
    /\ duty[w] = "spawn"
    /\ \E h \in Helper :
        /\ state[h] = "none"
        /\ state' = [state EXCEPT ![h] = "new"]
        /\ child' = [child EXCEPT ![w] = h]
    /\ Goto(w, "wait")
    /\ UNCHANGED <<signal, owner, flushed, lock, pidFile, ready, ops>>

\* _wait_for_setup_health: any helper that answers will do.
Started(w) ==
    /\ duty[w] = "wait" /\ Healthy
    /\ ready' = TRUE
    /\ Goto(w, "idle")
    /\ UNCHANGED <<helperVars, signal, child, ops>>

\* None answered within eight seconds; the candidate is ended.
TimeOut(w) ==
    /\ duty[w] = "wait" /\ ~Healthy
    /\ Goto(w, "failed")
    /\ UNCHANGED <<helperVars, signal, child, ready, ops>>

StartFails(w) ==
    /\ duty[w] = "failed"
    /\ IF Alive(child[w]) THEN Terminate(child[w]) ELSE UNCHANGED signal
    /\ child' = [child EXCEPT ![w] = NoHelper]
    /\ Goto(w, "idle")
    /\ UNCHANGED <<helperVars, ready, ops>>

\* _stop_setup: the own child, or the process the PID file names.
Stop(w) ==
    /\ duty[w] = "idle" /\ ops < MaxOps
    /\ ops' = ops + 1
    /\ ready' = FALSE
    /\ IF Alive(child[w])
         THEN Terminate(child[w]) /\ Goto(w, "ending") /\ UNCHANGED child
         ELSE /\ IF Alive(pidFile) THEN Terminate(pidFile) ELSE UNCHANGED signal
              /\ child' = [child EXCEPT ![w] = NoHelper]
              /\ UNCHANGED duty
    /\ UNCHANGED helperVars

Ended(w) ==
    /\ duty[w] = "ending" /\ ~Alive(child[w])
    /\ child' = [child EXCEPT ![w] = NoHelper]
    /\ Goto(w, "idle")
    /\ UNCHANGED <<helperVars, signal, ready, ops>>

\* After five seconds the process is killed.
Kill(w) ==
    /\ duty[w] = "ending" /\ Alive(child[w])
    /\ Gone(child[w])
    /\ child' = [child EXCEPT ![w] = NoHelper]
    /\ Goto(w, "idle")
    /\ UNCHANGED <<signal, owner, flushed, pidFile, ready, ops>>

HelperStep(h) ==
    \/ TakeLock(h) \/ DieEarly(h) \/ Serve(h) \/ OwnService(h) \/ Leave(h)
    \/ StopService(h) \/ StopServiceFails(h) \/ Unlink(h) \/ Exit(h)

WorkerStep(w) ==
    \/ Start(w) \/ Poll(w) \/ Replace(w) \/ Spawn(w) \/ Started(w)
    \/ TimeOut(w) \/ StartFails(w)
    \/ Stop(w) \/ Ended(w) \/ Kill(w)

HelperNext == (\E h \in Helper : HelperStep(h)) \/ (\E w \in Worker : WorkerStep(w))

HelperSpec == HelperInit /\ [][HelperNext]_setupVars

-----------------------------------------------------------------------------
(* Properties. *)

HelperTypeOK ==
    /\ \A h \in Helper : state[h] = "none" => ~signal[h] /\ ~owner[h] /\ ~flushed[h]
    /\ lock \in Helper \cup {NoHelper} /\ pidFile \in Helper \cup {NoHelper}
    /\ \A w \in Worker : duty[w] \in {"idle", "poll", "replace", "spawn", "wait", "failed", "ending"}
    /\ \A w \in Worker : duty[w] \in {"replace", "wait", "ending"} => child[w] \in Helper
    /\ ops \in 0..MaxOps

\* Two helpers never serve the port, and never own the service, at a time,
\* whoever starts and stops them ("single container-owned process").
OneServer ==
    \A g, h \in Helper :
        (Serving(g) \/ state[g] = "crashed") /\ (Serving(h) \/ state[h] = "crashed") => g = h

\* While a helper serves, the PID file names it: a worker that did not start it
\* can stop it, and no helper removes the file of its successor.
PidNamesServer == \A h \in Helper : Serving(h) => pidFile = h

\* A serving helper that owns the service and is asked to stop ends with the
\* final export ("the same graceful Cold-Standby final-export contract"), unless
\* the worker that waits for it kills it.
GracefulStopFlushes ==
    [][\A h \in Helper :
        Serving(h) /\ signal[h] /\ owner[h] =>
            Serving(h)' \/ flushed'[h] \/ \E w \in Worker : child[w] = h /\ Kill(w)]_setupVars

\* After the answer that the assistant is ready some helper serves, until one is
\* told to stop or crashes of itself.
ReadyIsServed == ready => Healthy

=============================================================================
