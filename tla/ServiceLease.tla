----------------------------- MODULE ServiceLease -----------------------------
(***************************************************************************)
(* Which process of a container runs the background service: the Redis     *)
(* lease and the stop signals of failovarr/autostart.py, the start, stop   *)
(* and reload of failovarr/__init__.py, and the two threads of             *)
(* BackgroundService in failovarr/engine.py.                               *)
(*                                                                         *)
(* A worker is a process (a uWSGI worker or the setup helper) and carries  *)
(* out one start or stop at a time (_service_lock). A service is one       *)
(* BackgroundService with its lease token; its threads live on when the    *)
(* worker has let go of it. What a cycle does is in PlannedHandoff; here   *)
(* it only takes time, as the final export does.                           *)
(***************************************************************************)
EXTENDS Naturals, FiniteSets

CONSTANTS
    Worker, NoWorker,
    Service, NoService, \* the services that may be created, named by their tokens
    Requests,           \* what the operator and Dispatcharr ask for: a subset of Reason
    Stale,              \* TRUE: signals of an earlier life may be in Redis at the start
    MaxRequests, MaxCrashes, MaxStalls, MaxFaults  \* bounds

Reason == {"start", "stop", "reconcile", "shutdown"}

ASSUME LeaseAssumption ==
    /\ Requests \subseteq Reason
    /\ NoWorker \notin Worker /\ NoService \notin Service
    /\ Stale \in BOOLEAN
    /\ {MaxRequests, MaxCrashes, MaxStalls, MaxFaults} \subseteq Nat

VARIABLES
    leader,     \* LEADER_KEY: the token that holds the lease, or NoService
    stopKey,    \* STOP_KEY: NoService, or the service its requester saw as the leader
    flushKey,   \* FLUSH_KEY
    pc,         \* worker: where its start or stop is
    why,        \* worker: the request it carries out
    mine,       \* worker: _service
    seen,       \* worker: the service it is starting or asking to stop
    owner,      \* service: the worker that created it, or NoWorker
    lease,      \* service: _lease_loop is "none", "waiting", "flushing" or "ended"
    loop,       \* service: _run is "none", "idle", "working" or "ended"
    stop,       \* service: the event _stop
    flushed,    \* service: _flushed
    finals,     \* service: final bundles it has published
    count       \* the bounds: [requests, crashes, stalls, faults]

redis == <<leader, stopKey, flushKey>>
control == <<pc, why, mine, seen>>
threads == <<owner, lease, loop, stop, flushed, finals>>
vars == <<redis, control, threads, count>>

Init ==
    /\ leader = NoService
    /\ stopKey \in (IF Stale THEN Service ELSE {NoService})
    /\ flushKey = Stale
    /\ pc = [p \in Worker |-> "start"] /\ why = [p \in Worker |-> "start"]
    /\ mine = [p \in Worker |-> NoService] /\ seen = mine
    /\ owner = [s \in Service |-> NoWorker]
    /\ lease = [s \in Service |-> "none"] /\ loop = lease
    /\ stop = [s \in Service |-> FALSE] /\ flushed = stop
    /\ finals = [s \in Service |-> 0]
    /\ count = [requests |-> 0, crashes |-> 0, stalls |-> 0, faults |-> 0]

LoopRuns(s) == loop[s] \in {"idle", "working"}

\* It takes itself for the elected service.
Active(s) == lease[s] = "waiting" /\ ~stop[s]

Goto(p, label) == pc' = [pc EXCEPT ![p] = label]

\* Mutant: the key is deleted whoever holds it.
MutantReleased(s) == NoService

\* release_service_lease: only the own token is deleted.
Released(s) == IF leader = s THEN NoService ELSE leader

-----------------------------------------------------------------------------
(* _start_service. A new worker starts with it (attempt_autostart). *)

\* A request reaches a worker that is not busy: a plugin action, a saved
\* configuration (reconcile_service) or Plugin.stop.
Ask(p, reason) ==
    /\ pc[p] = "idle" /\ reason \in Requests
    /\ count.requests < MaxRequests
    /\ count' = [count EXCEPT !.requests = @ + 1]
    /\ why' = [why EXCEPT ![p] = reason]
    /\ Goto(p, IF reason = "start" THEN "start" ELSE "stop")
    /\ UNCHANGED <<redis, mine, seen, threads>>

FreshToken == CHOOSE s \in Service : owner[s] = NoWorker

\* SET NX
Acquire(p) ==
    /\ pc[p] = "start"
    /\ mine[p] # NoService => ~LoopRuns(mine[p])
    /\ leader = NoService
    /\ \E s \in Service : owner[s] = NoWorker
    /\ leader' = FreshToken
    /\ seen' = [seen EXCEPT ![p] = FreshToken]
    /\ owner' = [owner EXCEPT ![FreshToken] = p]
    /\ Goto(p, "acquired")
    /\ UNCHANGED <<stopKey, flushKey, why, mine, lease, loop, stop, flushed, finals, count>>

\* The service runs here, or ServiceAlreadyRunning. Autostart does not try again.
Refused(p) ==
    /\ pc[p] = "start"
    /\ \/ mine[p] # NoService /\ LoopRuns(mine[p])
       \/ leader # NoService
    /\ Goto(p, "idle")
    /\ UNCHANGED <<redis, why, mine, seen, threads, count>>

\* Mutant: an earlier stop request is inherited.
MutantBegin(p) ==
    /\ pc[p] = "acquired"
    /\ lease' = [lease EXCEPT ![seen[p]] = "waiting"]
    /\ Goto(p, "recovering")
    /\ UNCHANGED <<redis, why, mine, seen, owner, loop, stop, flushed, finals, count>>

\* The signals are deleted and the lease thread starts, before the import of the start.
Begin(p) ==
    /\ pc[p] = "acquired"
    /\ stopKey' = NoService /\ flushKey' = FALSE
    /\ lease' = [lease EXCEPT ![seen[p]] = "waiting"]
    /\ Goto(p, "recovering")
    /\ UNCHANGED <<leader, why, mine, seen, owner, loop, stop, flushed, finals, count>>

\* The import of the start is over and the loop thread starts.
StartLoop(p) ==
    /\ pc[p] = "recovering"
    /\ loop' = [loop EXCEPT ![seen[p]] = "idle"]
    /\ mine' = [mine EXCEPT ![p] = seen[p]]
    /\ Goto(p, "idle")
    /\ UNCHANGED <<redis, why, seen, owner, lease, stop, flushed, finals, count>>

-----------------------------------------------------------------------------
(* _stop_service, reconcile_service and Plugin.stop. *)

\* Where a worker goes when its stop has been made (or asked for).
Stopped(p, found) ==
    CASE why[p] = "reconcile" -> IF found THEN "waiting" ELSE "start"
      [] why[p] = "shutdown" -> "again"
      [] OTHER -> "idle"

\* request_service_stop reads the leader.
AskLeader(p) ==
    /\ pc[p] = "stop" /\ mine[p] = NoService
    /\ seen' = [seen EXCEPT ![p] = leader]
    /\ Goto(p, IF leader = NoService THEN Stopped(p, FALSE) ELSE "signal")
    /\ UNCHANGED <<redis, why, mine, threads, count>>

\* request_service_stop writes the signals for whoever is the leader by now.
Signal(p) ==
    /\ pc[p] \in {"signal", "signal_again"}
    /\ stopKey' = seen[p]
    /\ flushKey' = (flushKey \/ why[p] = "shutdown")
    /\ Goto(p, IF pc[p] = "signal" THEN Stopped(p, TRUE) ELSE "stopped")
    /\ UNCHANGED <<leader, why, mine, seen, threads, count>>

\* Mutant: Plugin.stop asks only once.
MutantAskAgain(p) ==
    /\ pc[p] = "again"
    /\ Goto(p, "stopped")
    /\ UNCHANGED <<redis, why, mine, seen, threads, count>>

\* Plugin.stop asks a second time at its end.
AskAgain(p) ==
    /\ pc[p] = "again"
    /\ seen' = [seen EXCEPT ![p] = leader]
    /\ Goto(p, IF leader = NoService THEN "stopped" ELSE "signal_again")
    /\ UNCHANGED <<redis, why, mine, threads, count>>

\* Mutant: the export is made again each time.
MutantFlush(s) ==
    /\ finals' = [finals EXCEPT ![s] = @ + 1]
    /\ UNCHANGED <<flushed, count>>

\* flush_on_shutdown, under _flush_lock: the export is tried once.
Flush(s) ==
    \/ /\ flushed[s]
       /\ UNCHANGED <<flushed, finals, count>>
    \/ /\ ~flushed[s]
       /\ flushed' = [flushed EXCEPT ![s] = TRUE]
       /\ finals' = [finals EXCEPT ![s] = @ + 1]
       /\ UNCHANGED count

FlushFails(s) ==
    /\ ~flushed[s] /\ count.faults < MaxFaults
    /\ flushed' = [flushed EXCEPT ![s] = TRUE]
    /\ count' = [count EXCEPT !.faults = @ + 1]
    /\ UNCHANGED finals

\* The service is this worker's: with a final export on Plugin.stop.
FlushOwn(p) ==
    /\ pc[p] = "stop" /\ mine[p] # NoService
    /\ IF why[p] = "shutdown" THEN Flush(mine[p]) ELSE UNCHANGED <<flushed, finals, count>>
    /\ Goto(p, "stop_own")
    /\ UNCHANGED <<redis, why, mine, seen, owner, lease, loop, stop>>

\* The export raises: the service stays, and Plugin.stop goes on.
FlushOwnFails(p) ==
    /\ pc[p] = "stop" /\ mine[p] # NoService /\ why[p] = "shutdown"
    /\ FlushFails(mine[p])
    /\ Goto(p, "again")
    /\ UNCHANGED <<redis, why, mine, seen, owner, lease, loop, stop>>

StopOwn(p) ==
    /\ pc[p] = "stop_own"
    /\ stop' = [stop EXCEPT ![mine[p]] = TRUE]
    /\ Goto(p, "join")
    /\ UNCHANGED <<redis, why, mine, seen, owner, lease, loop, flushed, finals, count>>

\* The threads have ended, or the joins have timed out.
ReleaseOwn(p) ==
    /\ pc[p] = "join"
    /\ leader' = Released(mine[p])
    /\ mine' = [mine EXCEPT ![p] = NoService]
    /\ Goto(p, Stopped(p, TRUE))
    /\ UNCHANGED <<stopKey, flushKey, why, seen, threads, count>>

\* wait_for_service_stop, then the start with the saved configuration.
WaitEnds(p) ==
    /\ pc[p] = "waiting" /\ leader = NoService
    /\ Goto(p, "start")
    /\ UNCHANGED <<redis, why, mine, seen, threads, count>>

WaitTimesOut(p) ==
    /\ pc[p] = "waiting" /\ leader # NoService
    /\ Goto(p, "idle")
    /\ UNCHANGED <<redis, why, mine, seen, threads, count>>

-----------------------------------------------------------------------------
(* The threads of a service. *)

\* Mutant: the answer of the refresh is not looked at.
MutantCheckLease(s) ==
    /\ Active(s)
    /\ stopKey # NoService
    /\ IF flushKey
       THEN lease' = [lease EXCEPT ![s] = "flushing"] /\ UNCHANGED stop
       ELSE stop' = [stop EXCEPT ![s] = TRUE] /\ UNCHANGED lease
    /\ UNCHANGED <<redis, control, owner, loop, flushed, finals, count>>

\* A round of _lease_loop that finds a signal, or that its token has been replaced.
CheckLease(s) ==
    /\ Active(s)
    /\ stopKey # NoService \/ leader # s
    /\ IF stopKey # NoService /\ flushKey
       THEN lease' = [lease EXCEPT ![s] = "flushing"] /\ UNCHANGED stop
       ELSE stop' = [stop EXCEPT ![s] = TRUE] /\ UNCHANGED lease
    /\ UNCHANGED <<redis, control, owner, loop, flushed, finals, count>>

\* The flush of _lease_loop. Whether it raises or not, the signal is deleted and the loop ends.
FlushOnSignal(s) ==
    /\ lease[s] = "flushing"
    /\ Flush(s) \/ FlushFails(s)
    /\ flushKey' = FALSE
    /\ stop' = [stop EXCEPT ![s] = TRUE]
    /\ lease' = [lease EXCEPT ![s] = "waiting"]
    /\ UNCHANGED <<leader, stopKey, control, owner, loop>>

EndLease(s) ==
    /\ lease[s] = "waiting" /\ stop[s]
    /\ lease' = [lease EXCEPT ![s] = "ended"]
    /\ leader' = Released(s)
    /\ UNCHANGED <<stopKey, flushKey, control, owner, loop, stop, flushed, finals, count>>

\* _run: a cycle, its end, and the end of the loop.
BeginCycle(s) ==
    /\ loop[s] = "idle" /\ ~stop[s]
    /\ loop' = [loop EXCEPT ![s] = "working"]
    /\ UNCHANGED <<redis, control, owner, lease, stop, flushed, finals, count>>

EndCycle(s) ==
    /\ loop[s] = "working"
    /\ loop' = [loop EXCEPT ![s] = "idle"]
    /\ UNCHANGED <<redis, control, owner, lease, stop, flushed, finals, count>>

EndLoop(s) ==
    /\ loop[s] = "idle" /\ stop[s]
    /\ loop' = [loop EXCEPT ![s] = "ended"]
    /\ UNCHANGED <<redis, control, owner, lease, stop, flushed, finals, count>>

-----------------------------------------------------------------------------
(* Redis and the processes. *)

\* Nobody refreshes the lease: no lease thread, or one that is busy or has ended.
ExpireLease ==
    /\ leader # NoService
    /\ lease[leader] \in {"flushing", "ended"}
    /\ leader' = NoService
    /\ UNCHANGED <<stopKey, flushKey, control, threads, count>>

\* A process is held up for longer than the lease lasts.
Stall ==
    /\ leader # NoService /\ count.stalls < MaxStalls
    /\ leader' = NoService
    /\ count' = [count EXCEPT !.stalls = @ + 1]
    /\ UNCHANGED <<stopKey, flushKey, control, threads>>

\* The signals last 60 s, long enough for a lease thread that looks every 2 s.
ExpireSignals ==
    /\ stopKey # NoService \/ flushKey
    /\ leader = NoService
    /\ stopKey' = NoService /\ flushKey' = FALSE
    /\ UNCHANGED <<leader, control, threads, count>>

\* A worker is killed, and uWSGI starts another in its place.
Crash(p) ==
    /\ pc[p] # "stopped" /\ count.crashes < MaxCrashes
    /\ count' = [count EXCEPT !.crashes = @ + 1]
    /\ lease' = [s \in Service |-> IF owner[s] = p THEN "ended" ELSE lease[s]]
    /\ loop' = [s \in Service |-> IF owner[s] = p THEN "ended" ELSE loop[s]]
    /\ mine' = [mine EXCEPT ![p] = NoService] /\ seen' = [seen EXCEPT ![p] = NoService]
    /\ why' = [why EXCEPT ![p] = "start"]
    /\ Goto(p, "start")
    /\ UNCHANGED <<redis, owner, stop, flushed, finals>>

Worked(p) ==
    \/ Acquire(p) \/ Refused(p) \/ Begin(p) \/ StartLoop(p)
    \/ AskLeader(p) \/ Signal(p) \/ AskAgain(p)
    \/ FlushOwn(p) \/ FlushOwnFails(p) \/ StopOwn(p) \/ ReleaseOwn(p)
    \/ WaitEnds(p)

LeaseThread(s) == CheckLease(s) \/ FlushOnSignal(s) \/ EndLease(s)
LoopThread(s) == BeginCycle(s) \/ EndCycle(s) \/ EndLoop(s)

Next ==
    \/ \E p \in Worker :
        Worked(p) \/ WaitTimesOut(p) \/ Crash(p) \/ \E reason \in Reason : Ask(p, reason)
    \/ \E s \in Service : LeaseThread(s) \/ LoopThread(s)
    \/ ExpireLease \/ Stall \/ ExpireSignals

Spec == Init /\ [][Next]_vars

\* Threads are scheduled, a cycle ends (every call in it has a timeout), and
\* Redis deletes what has expired.
Fairness ==
    /\ \A p \in Worker : WF_vars(Worked(p))
    /\ \A s \in Service :
        WF_vars(LeaseThread(s)) /\ WF_vars(EndCycle(s)) /\ WF_vars(EndLoop(s))
    /\ WF_vars(ExpireLease)

FairSpec == Spec /\ Fairness

-----------------------------------------------------------------------------
(* Properties. *)

\* Types, and whose service a worker has in hand.
TypeOK ==
    /\ leader \in Service \cup {NoService}
    /\ stopKey \in Service \cup {NoService}
    /\ flushKey \in BOOLEAN
    /\ pc \in [Worker -> {"start", "acquired", "recovering", "idle", "stop", "signal", "again",
                          "signal_again", "stop_own", "join", "waiting", "stopped"}]
    /\ why \in [Worker -> Reason]
    /\ mine \in [Worker -> Service \cup {NoService}]
    /\ seen \in [Worker -> Service \cup {NoService}]
    /\ owner \in [Service -> Worker \cup {NoWorker}]
    /\ lease \in [Service -> {"none", "waiting", "flushing", "ended"}]
    /\ loop \in [Service -> {"none", "idle", "working", "ended"}]
    /\ stop \in [Service -> BOOLEAN] /\ flushed \in [Service -> BOOLEAN]
    /\ finals \in [Service -> Nat]
    /\ count \in [requests : Nat, crashes : Nat, stalls : Nat, faults : Nat]
    /\ \A p \in Worker :
        /\ mine[p] # NoService => owner[mine[p]] = p
        /\ pc[p] \in {"acquired", "recovering"} => seen[p] # NoService /\ owner[seen[p]] = p
        /\ pc[p] \in {"stop_own", "join"} => mine[p] # NoService

\* As long as no process is held up for the life of a lease, at most one service
\* takes itself for the elected one, through reloads, stops and crashes.
OneOwner ==
    count.stalls = 0 => \A s, t \in Service : Active(s) /\ Active(t) => s = t

\* A service makes at most one final export, however many workers are told to
\* stop (flush_on_shutdown: "the one final cold-standby export").
OneFinalExport == \A s \in Service : finals[s] <= 1

\* A stop request that the owner's lease thread can see ends its lease,
\* also when its final export raises.
OwnerHonoursStop ==
    \A s \in Service : (stopKey # NoService /\ leader = s /\ lease[s] = "waiting") ~> leader # s

\* Once Plugin.stop has returned in every worker, every service ends; if none
\* of the final exports raised, each has published its final bundle.
ShutdownCompletes ==
    (\A p \in Worker : pc[p] = "stopped") ~>
        \A s \in Service : owner[s] # NoWorker =>
            ~LoopRuns(s) /\ lease[s] = "ended" /\ (count.faults = 0 => finals[s] = 1)

\* Without stops and crashes one service is elected and stays, although
\* signals of an earlier life are in Redis (acquire_service_lease).
ElectedStays == <>[](\E s \in Service : Active(s) /\ LoopRuns(s))

\* After a lease has lapsed under a running service, only one loop goes on in the end
\* ("The loop still stops safely if another owner replaces this token").
OneLoopInTheEnd == <>[](Cardinality({s \in Service : LoopRuns(s)}) <= 1)

\* One service works in a container.
LoopsExclusive == Cardinality({s \in Service : loop[s] = "working"}) <= 1

\* A stop request that found an owner ends that owner's service.
SignalReachesOwner ==
    \A p \in Worker : \A s \in Service :
        (pc[p] = "signal" /\ seen[p] = s) ~> (stop[s] \/ lease[s] = "ended")

\* A service is stopped by the requests that were made of it.
StopsOnlyTarget ==
    [][\A s \in Service : Active(s) /\ ~Active(s)' /\ leader = s /\ leader' = s =>
            (mine[owner[s]] = s /\ pc[owner[s]] = "stop_own") \/ stopKey = s]_vars

\* With automatic replication enabled, the container has a service.
AutostartRuns == []<>(\E s \in Service : Active(s))

=============================================================================
