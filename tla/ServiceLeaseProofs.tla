-------------------------- MODULE ServiceLeaseProofs --------------------------
(***************************************************************************)
(* Proofs about ServiceLease, for any number of workers and services: type *)
(* correctness, and that one service at most takes itself for the elected  *)
(* one as long as no process is held up for longer than a lease lasts.     *)
(***************************************************************************)
EXTENDS ServiceLease, TLAPS

\* A token belongs to the worker that took it, a lease is let go of only when
\* its service has been stopped, and without stalls who acts for a service
\* still holds its lease.
LeaseInv ==
    /\ \A s \in Service : owner[s] = NoWorker => lease[s] = "none"
    /\ \A p \in Worker : pc[p] = "acquired" => lease[seen[p]] = "none"
    /\ \A p \in Worker : pc[p] = "join" => stop[mine[p]]
    /\ count.stalls = 0 =>
        /\ \A s \in Service : Active(s) => leader = s
        /\ \A p \in Worker : pc[p] = "acquired" => leader = seen[p]

\* A token that has not been used is in the set of services.
LEMMA FreshTokenType ==
    ASSUME \E s \in Service : owner[s] = NoWorker
    PROVE  FreshToken \in Service /\ owner[FreshToken] = NoWorker
BY DEF FreshToken

\* A final export, tried or not, keeps the types of what it writes.
LEMMA FlushTypes ==
    ASSUME TypeOK, NEW s \in Service, Flush(s) \/ FlushFails(s)
    PROVE  /\ flushed' \in [Service -> BOOLEAN] /\ finals' \in [Service -> Nat]
           /\ count' \in [requests : Nat, crashes : Nat, stalls : Nat, faults : Nat]
<1>1. CASE Flush(s)
  <2>1. CASE flushed[s]
    BY <1>1, <2>1 DEF TypeOK, Flush
  <2>2. CASE ~flushed[s]
    <3>1. /\ flushed' = [flushed EXCEPT ![s] = TRUE]
          /\ finals' = [finals EXCEPT ![s] = @ + 1] /\ count' = count
      BY <1>1, <2>2 DEF Flush
    <3> QED
      BY <3>1 DEF TypeOK
  <2> QED
    BY <2>1, <2>2
<1>2. CASE FlushFails(s)
  BY <1>2 DEF TypeOK, FlushFails
<1> QED
  BY <1>1, <1>2

LEMMA InitTypeCorrect == Init => TypeOK
BY LeaseAssumption DEF Init, TypeOK, Reason

\* Each step of a worker keeps the types.
LEMMA WorkerKeepsTypes ==
    ASSUME TypeOK, NEW p \in Worker,
           Worked(p) \/ WaitTimesOut(p) \/ Crash(p) \/ (\E reason \in Reason : Ask(p, reason))
    PROVE  TypeOK'
<1>t. /\ leader \in Service \cup {NoService} /\ stopKey \in Service \cup {NoService}
      /\ flushKey \in BOOLEAN /\ mine[p] \in Service \cup {NoService}
      /\ seen[p] \in Service \cup {NoService} /\ why[p] \in Reason
  BY DEF TypeOK
<1>1. CASE Acquire(p)
  <2>1. FreshToken \in Service /\ owner[FreshToken] = NoWorker
    BY <1>1, FreshTokenType DEF Acquire
  <2> QED
    BY <1>1, <2>1, LeaseAssumption DEF TypeOK, Acquire, Goto, redis
<1>2. CASE Refused(p) \/ WaitEnds(p) \/ WaitTimesOut(p)
  BY <1>2 DEF TypeOK, Refused, WaitEnds, WaitTimesOut, Goto, redis, threads
<1>3. CASE Begin(p)
  BY <1>3, LeaseAssumption DEF TypeOK, Begin, Goto
<1>4. CASE StartLoop(p)
  BY <1>4, LeaseAssumption DEF TypeOK, StartLoop, Goto, redis
<1>5. CASE AskLeader(p) \/ AskAgain(p)
  BY <1>5 DEF TypeOK, AskLeader, AskAgain, Stopped, Goto, redis, threads
<1>6. CASE Signal(p)
  BY <1>6, <1>t DEF TypeOK, Signal, Stopped, Goto, threads
<1>7. CASE FlushOwn(p)
  <2>1. /\ flushed' \in [Service -> BOOLEAN] /\ finals' \in [Service -> Nat]
        /\ count' \in [requests : Nat, crashes : Nat, stalls : Nat, faults : Nat]
    BY <1>7, <1>t, FlushTypes DEF FlushOwn, TypeOK
  <2> QED
    BY <1>7, <1>t, <2>1 DEF TypeOK, FlushOwn, Goto, redis
<1>8. CASE FlushOwnFails(p)
  BY <1>8, <1>t DEF TypeOK, FlushOwnFails, FlushFails, Goto, redis
<1>9. CASE StopOwn(p)
  BY <1>9, <1>t DEF TypeOK, StopOwn, Goto, redis
<1>10. CASE ReleaseOwn(p)
  BY <1>10, <1>t DEF TypeOK, ReleaseOwn, Released, Stopped, Goto, threads
<1>11. CASE Crash(p)
  BY <1>11, LeaseAssumption DEF TypeOK, Crash, Goto, redis, Reason
<1>12. CASE \E reason \in Reason : Ask(p, reason)
  BY <1>12 DEF TypeOK, Ask, Goto, redis, threads
<1> QED
  BY <1>1, <1>2, <1>3, <1>4, <1>5, <1>6, <1>7, <1>8, <1>9, <1>10, <1>11, <1>12 DEF Worked

\* Each step of a service's threads keeps the types.
LEMMA ThreadKeepsTypes ==
    ASSUME TypeOK, NEW s \in Service, LeaseThread(s) \/ LoopThread(s)
    PROVE  TypeOK'
<1>1. CASE CheckLease(s)
  BY <1>1 DEF TypeOK, CheckLease, redis, control
<1>2. CASE FlushOnSignal(s)
  <2>1. /\ flushed' \in [Service -> BOOLEAN] /\ finals' \in [Service -> Nat]
        /\ count' \in [requests : Nat, crashes : Nat, stalls : Nat, faults : Nat]
    BY <1>2, FlushTypes DEF FlushOnSignal
  <2> QED
    BY <1>2, <2>1 DEF TypeOK, FlushOnSignal, control
<1>3. CASE EndLease(s)
  BY <1>3 DEF TypeOK, EndLease, Released, control
<1>4. CASE LoopThread(s)
  BY <1>4 DEF TypeOK, LoopThread, BeginCycle, EndCycle, EndLoop, redis, control
<1> QED
  BY <1>1, <1>2, <1>3, <1>4 DEF LeaseThread

LEMMA NextKeepsTypes == TypeOK /\ [Next]_vars => TypeOK'
<1> SUFFICES ASSUME TypeOK, [Next]_vars PROVE TypeOK'
  OBVIOUS
<1>1. CASE ExpireLease
  BY <1>1 DEF TypeOK, ExpireLease, control, threads
<1>2. CASE Stall
  BY <1>2 DEF TypeOK, Stall, control, threads
<1>3. CASE ExpireSignals
  BY <1>3 DEF TypeOK, ExpireSignals, control, threads
<1>4. CASE UNCHANGED vars
  BY <1>4 DEF TypeOK, vars, redis, control, threads
<1> QED
  BY <1>1, <1>2, <1>3, <1>4, WorkerKeepsTypes, ThreadKeepsTypes DEF Next

\* Every reachable state is well typed, and a worker has only services in hand
\* that it has created (_start_service, _stop_service).
THEOREM LeaseTypeCorrect == Spec => []TypeOK
<1> QED
  BY InitTypeCorrect, NextKeepsTypes, PTL DEF Spec

-----------------------------------------------------------------------------

LEMMA InitLease == Init => LeaseInv
BY LeaseAssumption DEF Init, LeaseInv, Active

\* Each step of a worker keeps LeaseInv.
LEMMA WorkerKeepsLease ==
    ASSUME TypeOK, LeaseInv, NEW p \in Worker,
           Worked(p) \/ WaitTimesOut(p) \/ Crash(p) \/ (\E reason \in Reason : Ask(p, reason))
    PROVE  LeaseInv'
<1>t. /\ mine[p] \in Service \cup {NoService}
      /\ seen[p] \in Service \cup {NoService}
  BY DEF TypeOK
<1>1. CASE Acquire(p)
  <2>1. FreshToken \in Service /\ owner[FreshToken] = NoWorker
    BY <1>1, FreshTokenType DEF Acquire
  <2>2. \A q \in Worker : q # p => pc'[q] = pc[q] /\ seen'[q] = seen[q] /\ mine'[q] = mine[q]
    BY <1>1 DEF Acquire, Goto, TypeOK
  <2>3. pc'[p] = "acquired" /\ seen'[p] = FreshToken /\ leader' = FreshToken
    BY <1>1 DEF Acquire, Goto, TypeOK
  <2>4. count.stalls = 0 =>
            (\A s \in Service : ~Active(s)) /\ (\A q \in Worker : pc[q] # "acquired")
    BY <1>1, LeaseAssumption DEF Acquire, LeaseInv, TypeOK
  <2>5. UNCHANGED <<lease, stop, mine, count>>
    BY <1>1 DEF Acquire
  <2>6. \A s \in Service : owner'[s] = NoWorker => owner[s] = NoWorker
    BY <1>1, LeaseAssumption DEF Acquire, TypeOK
  <2> QED
    BY <2>1, <2>2, <2>3, <2>4, <2>5, <2>6 DEF LeaseInv, Active, TypeOK
<1>2. CASE Refused(p) \/ WaitEnds(p) \/ WaitTimesOut(p) \/ AskLeader(p) \/ AskAgain(p) \/ Signal(p)
  <2>1. /\ \A q \in Worker : pc'[q] \in {"acquired", "join"} =>
                pc'[q] = pc[q] /\ seen'[q] = seen[q]
        /\ UNCHANGED <<leader, mine, threads, count>>
    BY <1>2 DEF Refused, WaitEnds, WaitTimesOut, AskLeader, AskAgain, Signal, Stopped, Goto,
                redis, threads, TypeOK
  <2> QED
    BY <2>1 DEF LeaseInv, Active, threads
<1>3. CASE Begin(p)
  <2>1. /\ seen[p] \in Service /\ owner[seen[p]] = p
        /\ count.stalls = 0 => leader = seen[p]
    BY <1>3, <1>t DEF Begin, TypeOK, LeaseInv
  <2>2. \A q \in Worker : pc'[q] \in {"acquired", "join"} => q # p /\ pc'[q] = pc[q]
    BY <1>3 DEF Begin, Goto, TypeOK
  <2>3. \A q \in Worker : pc[q] = "acquired" /\ q # p => seen[q] # seen[p]
    BY <2>1 DEF TypeOK
  <2>4. UNCHANGED <<leader, mine, seen, owner, stop, count>>
        /\ lease' = [lease EXCEPT ![seen[p]] = "waiting"]
    BY <1>3 DEF Begin
  <2> QED
    BY <2>1, <2>2, <2>3, <2>4, LeaseAssumption DEF LeaseInv, Active, TypeOK
<1>4. CASE StartLoop(p)
  <2>1. \A q \in Worker : pc'[q] \in {"acquired", "join"} =>
            pc'[q] = pc[q] /\ mine'[q] = mine[q]
    BY <1>4 DEF StartLoop, Goto, TypeOK
  <2> QED
    BY <1>4, <2>1 DEF LeaseInv, Active, StartLoop, redis
<1>5. CASE FlushOwn(p) \/ FlushOwnFails(p)
  <2>1. \A q \in Worker : pc'[q] \in {"acquired", "join"} => pc'[q] = pc[q]
    BY <1>5 DEF FlushOwn, FlushOwnFails, Goto, TypeOK
  <2>2. UNCHANGED <<leader, mine, seen, owner, lease, stop>> /\ count'.stalls = count.stalls
    BY <1>5 DEF FlushOwn, FlushOwnFails, Flush, FlushFails, redis, TypeOK
  <2> QED
    BY <2>1, <2>2 DEF LeaseInv, Active
<1>6. CASE StopOwn(p)
  <2>1. \A q \in Worker : q # p => pc'[q] = pc[q]
    BY <1>6 DEF StopOwn, Goto, TypeOK
  <2>2. \A s \in Service : (stop[s] => stop'[s]) /\ (Active(s)' => Active(s))
    BY <1>6 DEF StopOwn, Active, TypeOK
  <2>3. pc'[p] = "join" /\ mine[p] \in Service /\ stop'[mine[p]]
    BY <1>6, <1>t DEF StopOwn, Goto, TypeOK
  <2>4. \A q \in Worker : pc[q] = "join" => mine[q] \in Service
    BY DEF TypeOK
  <2> QED
    BY <1>6, <2>1, <2>2, <2>3, <2>4 DEF LeaseInv, StopOwn, redis
<1>7. CASE ReleaseOwn(p)
  <2>1. mine[p] \in Service /\ owner[mine[p]] = p /\ ~Active(mine[p])
    BY <1>7, <1>t DEF ReleaseOwn, TypeOK, LeaseInv, Active
  <2>2. \A q \in Worker : pc'[q] \in {"acquired", "join"} =>
            q # p /\ pc'[q] = pc[q] /\ mine'[q] = mine[q] /\ seen'[q] = seen[q]
    BY <1>7 DEF ReleaseOwn, Stopped, Goto, TypeOK
  <2>3. \A q \in Worker : pc[q] = "acquired" /\ q # p => seen[q] # mine[p]
    BY <2>1 DEF TypeOK
  <2>4. leader' = leader \/ leader = mine[p]
    BY <1>7 DEF ReleaseOwn, Released
  <2> QED
    BY <1>7, <2>1, <2>2, <2>3, <2>4 DEF LeaseInv, Active, ReleaseOwn, threads
<1>8. CASE Crash(p)
  <2>1. \A q \in Worker : pc'[q] \in {"acquired", "join"} =>
            q # p /\ pc'[q] = pc[q] /\ mine'[q] = mine[q] /\ seen'[q] = seen[q]
    BY <1>8 DEF Crash, Goto, TypeOK
  <2>2. \A q \in Worker : pc[q] = "acquired" => seen[q] \in Service /\ owner[seen[q]] = q
    BY DEF TypeOK
  <2>3. \A s \in Service : (Active(s)' => Active(s)) /\ (owner[s] # p => lease'[s] = lease[s])
    BY <1>8 DEF Crash, Active
  <2>4. UNCHANGED <<leader, owner, stop>> /\ count'.stalls = count.stalls
    BY <1>8 DEF Crash, redis, TypeOK
  <2> QED
    BY <2>1, <2>2, <2>3, <2>4, LeaseAssumption DEF LeaseInv
<1>9. CASE \E reason \in Reason : Ask(p, reason)
  <2>1. \A q \in Worker : pc'[q] \in {"acquired", "join"} => pc'[q] = pc[q]
    BY <1>9 DEF Ask, Goto, TypeOK
  <2>2. UNCHANGED <<leader, mine, seen, owner, lease, stop>> /\ count'.stalls = count.stalls
    BY <1>9 DEF Ask, redis, threads, TypeOK
  <2> QED
    BY <2>1, <2>2 DEF LeaseInv, Active
<1> QED
  BY <1>1, <1>2, <1>3, <1>4, <1>5, <1>6, <1>7, <1>8, <1>9 DEF Worked

\* Each step of a service's threads keeps LeaseInv.
LEMMA ThreadKeepsLease ==
    ASSUME TypeOK, LeaseInv, NEW s \in Service, LeaseThread(s) \/ LoopThread(s)
    PROVE  LeaseInv'
<1>1. \A q \in Worker : pc[q] = "acquired" => seen[q] \in Service /\ lease[seen[q]] = "none"
  BY DEF TypeOK, LeaseInv
<1>2. \A q \in Worker : pc[q] = "join" => mine[q] \in Service
  BY DEF TypeOK
<1>3. CASE CheckLease(s) \/ FlushOnSignal(s)
  <2>1. lease[s] \in {"waiting", "flushing"} /\ \A t \in Service : t # s => lease'[t] = lease[t]
    BY <1>3 DEF CheckLease, FlushOnSignal, Active, TypeOK
  <2>2. \A t \in Service : (stop[t] => stop'[t]) /\ (Active(t)' => Active(t))
    BY <1>3 DEF CheckLease, FlushOnSignal, Active, TypeOK
  <2>3. UNCHANGED <<leader, control, owner>> /\ count'.stalls = count.stalls
    BY <1>3 DEF CheckLease, FlushOnSignal, Flush, FlushFails, redis, TypeOK
  <2> QED
    BY <1>1, <1>2, <2>1, <2>2, <2>3 DEF LeaseInv, control
<1>4. CASE EndLease(s)
  <2>1. lease[s] = "waiting" /\ ~Active(s) /\ (leader' = leader \/ leader = s)
    BY <1>4 DEF EndLease, Active, Released
  <2>2. \A t \in Service : (t # s => lease'[t] = lease[t]) /\ (Active(t)' => Active(t) /\ t # s)
    BY <1>4 DEF EndLease, Active, TypeOK
  <2> QED
    BY <1>1, <1>4, <2>1, <2>2 DEF LeaseInv, EndLease, control
<1>5. CASE LoopThread(s)
  BY <1>5 DEF LeaseInv, Active, LoopThread, BeginCycle, EndCycle, EndLoop, redis, control
<1> QED
  BY <1>3, <1>4, <1>5 DEF LeaseThread

LEMMA NextKeepsLease == TypeOK /\ LeaseInv /\ [Next]_vars => LeaseInv'
<1> SUFFICES ASSUME TypeOK, LeaseInv, [Next]_vars PROVE LeaseInv'
  OBVIOUS
<1>1. CASE ExpireLease
  <2>1. lease[leader] \in {"flushing", "ended"} /\ leader' = NoService
    BY <1>1 DEF ExpireLease
  <2> QED
    BY <1>1, <2>1 DEF LeaseInv, Active, ExpireLease, control, threads
<1>2. CASE Stall
  <2>1. count'.stalls # 0
    BY <1>2, LeaseAssumption DEF Stall, TypeOK
  <2> QED
    BY <1>2, <2>1 DEF LeaseInv, Active, Stall, control, threads
<1>3. CASE ExpireSignals
  BY <1>3 DEF LeaseInv, Active, ExpireSignals, control, threads
<1>4. CASE UNCHANGED vars
  BY <1>4 DEF LeaseInv, Active, vars, redis, control, threads
<1> QED
  BY <1>1, <1>2, <1>3, <1>4, WorkerKeepsLease, ThreadKeepsLease DEF Next

\* As long as no process is held up for the life of a lease, at most one service
\* takes itself for the elected one, whatever is started, stopped, reloaded or killed.
THEOREM ElectedServiceIsOne == Spec => []OneOwner
<1>1. TypeOK /\ LeaseInv => OneOwner
  BY DEF LeaseInv, OneOwner
<1>2. Init => TypeOK /\ LeaseInv
  BY InitTypeCorrect, InitLease
<1>3. (TypeOK /\ LeaseInv) /\ [Next]_vars => (TypeOK /\ LeaseInv)'
  BY NextKeepsTypes, NextKeepsLease
<1> QED
  BY <1>1, <1>2, <1>3, PTL DEF Spec

-----------------------------------------------------------------------------

\* A final bundle is published only by the one attempt that _flushed allows.
FlushInv == \A s \in Service : finals[s] = 0 \/ (finals[s] = 1 /\ flushed[s])

LEMMA FlushKeepsInv ==
    ASSUME TypeOK, FlushInv, NEW t \in Service, Flush(t) \/ FlushFails(t)
    PROVE  FlushInv'
<1>1. CASE flushed[t]
  BY <1>1 DEF FlushInv, Flush, FlushFails
<1>2. CASE ~flushed[t]
  <2>1. finals[t] = 0 /\ flushed' = [flushed EXCEPT ![t] = TRUE]
    BY <1>2 DEF FlushInv, Flush, FlushFails
  <2>2. finals' = finals \/ finals' = [finals EXCEPT ![t] = @ + 1]
    BY <1>2 DEF Flush, FlushFails
  <2> QED
    BY <2>1, <2>2 DEF FlushInv, TypeOK
<1> QED
  BY <1>1, <1>2

LEMMA NextKeepsFlush == TypeOK /\ FlushInv /\ [Next]_vars => FlushInv'
<1> SUFFICES ASSUME TypeOK, FlushInv, [Next]_vars PROVE FlushInv'
  OBVIOUS
<1>1. CASE UNCHANGED <<flushed, finals>>
  BY <1>1 DEF FlushInv
<1>2. ASSUME NEW p \in Worker, FlushOwn(p) \/ FlushOwnFails(p) PROVE FlushInv'
  <2>1. mine[p] \in Service
    BY <1>2 DEF FlushOwn, FlushOwnFails, TypeOK
  <2>2. UNCHANGED <<flushed, finals>> \/ Flush(mine[p]) \/ FlushFails(mine[p])
    BY <1>2 DEF FlushOwn, FlushOwnFails
  <2> QED
    BY <1>1, <2>1, <2>2, FlushKeepsInv
<1>3. ASSUME NEW s \in Service, FlushOnSignal(s) PROVE FlushInv'
  BY <1>3, FlushKeepsInv DEF FlushOnSignal
<1>4. ASSUME NEW p \in Worker, Worked(p) \/ WaitTimesOut(p) \/ Crash(p)
                                  \/ (\E reason \in Reason : Ask(p, reason))
      PROVE  FlushInv'
  BY <1>1, <1>2, <1>4 DEF Worked, WaitTimesOut, Crash, Ask, Acquire, Refused, Begin, StartLoop,
        AskLeader, Signal, AskAgain, StopOwn, ReleaseOwn, WaitEnds, threads
<1>5. ASSUME NEW s \in Service, LeaseThread(s) \/ LoopThread(s) PROVE FlushInv'
  BY <1>1, <1>3, <1>5 DEF LeaseThread, LoopThread, CheckLease, EndLease, BeginCycle, EndCycle, EndLoop
<1>6. CASE ExpireLease \/ Stall \/ ExpireSignals \/ UNCHANGED vars
  BY <1>1, <1>6 DEF ExpireLease, Stall, ExpireSignals, vars, threads
<1> QED
  BY <1>4, <1>5, <1>6 DEF Next

\* A service publishes at most one final bundle, whichever of its worker and its
\* lease thread makes it and however often it is asked to (flush_on_shutdown).
THEOREM FinalExportOnce == Spec => []OneFinalExport
<1>1. FlushInv => OneFinalExport
  BY DEF FlushInv, OneFinalExport
<1>2. Init => TypeOK /\ FlushInv
  BY InitTypeCorrect DEF Init, FlushInv
<1>3. (TypeOK /\ FlushInv) /\ [Next]_vars => (TypeOK /\ FlushInv)'
  BY NextKeepsTypes, NextKeepsFlush
<1> QED
  BY <1>1, <1>2, <1>3, PTL DEF Spec

=============================================================================
