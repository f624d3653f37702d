------------------------- MODULE PlannedHandoffProofs -------------------------
(***************************************************************************)
(* What is proved of PlannedHandoff, for every cluster and bound.          *)
(*                                                                         *)
(* 1. The local invariants: the types, the per-node file lock, what a      *)
(*    worker carries at each step, and the sequence that is on disk before *)
(*    it is published. TypeOK, LockInv, StepInv and SequenceInv are        *)
(*    preserved by one case per action, numbered alike in the four lemmas; *)
(*    the theorem on sequences follows, as only PublishOutbound replaces   *)
(*    what is served.                                                      *)
(* 2. Authority is never duplicated, until an import ends in a conflict.   *)
(*    Most steps move one worker between steps that claim nothing          *)
(*    (QuietMove); the proof looks at the others one by one.               *)
(* 3. The authority knows the newest bundle, until an operator exports:    *)
(*    only the node that holds, or will hold, the token numbers a bundle.  *)
(* 4. The handoff implements AuthorityToken: the claims and the grants in  *)
(*    flight are the places of one token, and the four kinds of step that  *)
(*    touch them are its actions.                                          *)
(* 5. A node that serves a grant is fenced, until an operator acquires the *)
(*    VIP by hand: whoever brings clients online does so while the node is *)
(*    authoritative and no handoff of it is under way.                     *)
(*                                                                         *)
(* "Until" is the history variable disturbed: the theorems bind every step *)
(* up to the first one it notes, whatever the constants allow.             *)
(***************************************************************************)
EXTENDS PlannedHandoff, TLAPS

-----------------------------------------------------------------------------
(* 1. The local invariants.                                                  *)

\* A draft is a bundle with the fields it was given.
LEMMA DraftType ==
    ASSUME NEW n \in Node, NEW phase \in {"plain", "prepare", "grant"},
           NEW prepare \in BundleId \cup {None}
    PROVE  /\ Draft(n, phase, prepare) \in Bundle
           /\ Draft(n, phase, prepare) # None
           /\ Draft(n, phase, prepare).source = n
           /\ Draft(n, phase, prepare).phase = phase
           /\ Draft(n, phase, prepare).prepare = prepare
BY NoneAssumption DEF Draft, Bundle

\* Filling in the sequence keeps a bundle a bundle and its other fields as they were.
LEMMA NumberedType ==
    ASSUME NEW b \in Bundle, NEW sequence \in Nat
    PROVE  /\ Numbered(b, sequence) \in Bundle
           /\ Numbered(b, sequence) # None
           /\ Numbered(b, sequence).source = b.source
           /\ Numbered(b, sequence).phase = b.phase
           /\ Numbered(b, sequence).prepare = b.prepare
           /\ Numbered(b, sequence).sequence = sequence
BY NoneAssumption DEF Numbered, Bundle

\* The fields of a bundle, and the identity (payload_sha256) it is known by.
LEMMA BundleFields ==
    ASSUME NEW b \in Bundle
    PROVE  /\ b.source \in Node
           /\ b.sequence \in Nat
           /\ b.phase \in {"plain", "prepare", "grant"}
           /\ b.prepare \in BundleId \cup {None}
           /\ Id(b) \in BundleId
           /\ Id(b) # None
           /\ Id(b).source = b.source
           /\ Id(b).sequence = b.sequence
BY NoneAssumption DEF Bundle, BundleId, Id

\* The handoff record of the state file is well typed.
LEMMA HandoffAtType ==
    ASSUME NEW phase \in HandoffPhase, NEW prepare \in BundleId \cup {None}
    PROVE  HandoffAt(phase, prepare) \in Handoff
BY DEF HandoffAt, Handoff

\* The fields of a handoff record.
LEMMA HandoffFields ==
    ASSUME NEW h \in Handoff
    PROVE  h.phase \in HandoffPhase /\ h.prepare \in BundleId \cup {None}
BY DEF Handoff

\* max(exported_sequence, applied_sequence) is a number no smaller than either.
LEMMA KnownType ==
    ASSUME NEW n \in Node, TypeOK
    PROVE  /\ AppliedSequence(n) \in Nat
           /\ KnownSequence(n) \in Nat
           /\ KnownSequence(n) >= exported[n]
           /\ KnownSequence(n) >= AppliedSequence(n)
<1>1. AppliedSequence(n) \in Nat
  BY DEF TypeOK, AppliedSequence, BundleId
<1>2. exported[n] \in Nat
  BY DEF TypeOK
<1> QED
  BY <1>1, <1>2 DEF KnownSequence

\* What an export publishes: the draft its worker carried, numbered with the
\* sequence it reserved.
LEMMA ReservedWork ==
    ASSUME TypeOK, StepInv, NEW n \in Node, NEW w \in Worker,
           pc[n][w] \in {"export", "export_grant"}
    PROVE  LET b == Numbered(work[n][w], KnownSequence(n) + 1)
           IN  /\ b \in Bundle /\ b # None
               /\ b.source = n
               /\ b.phase = work[n][w].phase /\ b.prepare = work[n][w].prepare
               /\ b.sequence = KnownSequence(n) + 1
<1>1. work[n][w] \in Bundle /\ work[n][w].source = n
  BY DEF TypeOK, StepInv
<1>2. KnownSequence(n) + 1 \in Nat
  BY KnownType
<1> QED
  BY <1>1, <1>2, NumberedType

\* What happened stays in the history, which holds nothing but what it may note.
LEMMA HistoryGrows ==
    ASSUME [Next]_<<vars, disturbed>>
    PROVE  /\ disturbed \subseteq disturbed'
           /\ disturbed \subseteq Disturbance => disturbed' \subseteq Disturbance
<1>1. CASE disturbed' = disturbed
  BY <1>1
<1>2. ASSUME NEW d, Note(d)
      PROVE  /\ disturbed \subseteq disturbed'
             /\ disturbed \subseteq Disturbance => disturbed' \subseteq Disturbance
  BY <1>2 DEF Note
<1> QED
  BY <1>1, <1>2 DEF Next

\* Every step keeps the state well typed.
LEMMA TypeStep == TypeOK /\ StepInv /\ [Next]_<<vars, disturbed>> => TypeOK'
<1> SUFFICES ASSUME TypeOK, StepInv, [Next]_<<vars, disturbed>> PROVE TypeOK'
  OBVIOUS
<1>a. \A n \in Node : KnownSequence(n) + 1 \in Nat
  BY KnownType
<1>b. disturbed' \in SUBSET Disturbance
  BY HistoryGrows DEF TypeOK
<1> USE <1>b DEF TypeOK, Waiting, Locked, stateFile, Goto, Abandon
<1>1. ASSUME NEW n \in Node, LoopPrepare(n) PROVE TypeOK'
  <2>1. Draft(n, "prepare", None) \in Bundle
    BY DraftType
  <2> QED
    BY <1>1, <2>1 DEF LoopPrepare, BeginExport, Worker
<1>2. ASSUME NEW n \in Node, LoopPollPeer(n) PROVE TypeOK'
  <2>1. handoff[n].prepare \in BundleId \cup {None}
    BY HandoffFields
  <2>2. Draft(n, "grant", handoff[n].prepare) \in Bundle
    BY <2>1, DraftType
  <2> QED
    BY <1>2, <2>2 DEF LoopPollPeer, Worker
<1>3. ASSUME NEW n \in Node, LoopExport(n) PROVE TypeOK'
  <2>1. Draft(n, "plain", None) \in Bundle
    BY DraftType
  <2> QED
    BY <1>3, <2>1 DEF LoopExport, BeginExport, Worker
<1>4. ASSUME NEW n \in Node, LoopImport(n) PROVE TypeOK'
  BY <1>4 DEF LoopImport, Worker
<1>5. ASSUME NEW n \in Node, NEW w \in Operator, OperatorExport(n, w) PROVE TypeOK'
  <2>1. Draft(n, "plain", None) \in Bundle
    BY DraftType
  <2> QED
    BY <1>5, <2>1 DEF OperatorExport, BeginExport, Worker
<1>6. ASSUME NEW n \in Node, NEW w \in Operator, OperatorStart(n, w) PROVE TypeOK'
  <2>1. PICK step \in Waiting : Goto(n, w, step)
    BY <1>6 DEF OperatorStart
  <2> QED
    BY <1>6, <2>1 DEF OperatorStart, Worker
<1>7. ASSUME NEW n \in Node, NEW w \in Worker, ExportReserve(n, w) PROVE TypeOK'
  <2>1. KnownSequence(n) + 1 \in Nat
    BY <1>a
  <2>2. work[n][w] \in Bundle
    BY <1>7 DEF ExportReserve, StepInv
  <2>3. Numbered(work[n][w], KnownSequence(n) + 1) \in Bundle
    BY <2>1, <2>2, NumberedType
  <2> QED
    BY <1>7, <2>1, <2>3 DEF ExportReserve, ReserveSequence
<1>8. ASSUME NEW n \in Node, NEW w \in Worker, GrantReserve(n, w) PROVE TypeOK'
  <2>1. KnownSequence(n) + 1 \in Nat
    BY <1>a
  <2>2. work[n][w] \in Bundle
    BY <1>8 DEF GrantReserve, StepInv
  <2>3. Numbered(work[n][w], KnownSequence(n) + 1) \in Bundle
    BY <2>1, <2>2, NumberedType
  <2> QED
    BY <1>8, <2>1, <2>3 DEF GrantReserve, ReserveSequence
<1>9. ASSUME NEW n \in Node, NEW w \in Worker, GrantLost(n, w) PROVE TypeOK'
  BY <1>9 DEF GrantLost
<1>10. ASSUME NEW n \in Node, NEW w \in Worker, PublishOutbound(n, w) PROVE TypeOK'
  <2>1. work[n][w] \in Bundle
    BY <1>10 DEF PublishOutbound, StepInv
  <2> QED
    BY <1>10, <2>1 DEF PublishOutbound
<1>11. ASSUME NEW n \in Node, NEW w \in Worker, PublishShared(n, w) PROVE TypeOK'
  <2>1. work[n][w] \in Bundle
    BY <1>11 DEF PublishShared, StepInv
  <2> QED
    BY <1>11, <2>1 DEF PublishShared
<1>12. ASSUME NEW n \in Node, NEW w \in Worker, PublishFails(n, w) PROVE TypeOK'
  BY <1>12 DEF PublishFails
<1>37. ASSUME NEW n \in Node, NEW w \in Worker, ShareFails(n, w) PROVE TypeOK'
  <2>1. work[n][w] \in Bundle
    BY <1>37 DEF ShareFails, StepInv
  <2> QED
    BY <1>37, <2>1 DEF ShareFails
<1>13. ASSUME NEW n \in Node, NEW w \in Worker, FinishExport(n, w) PROVE TypeOK'
  BY <1>13 DEF FinishExport
<1>14. ASSUME NEW n \in Node, NEW w \in Worker, RecordRequest(n, w) PROVE TypeOK'
  <2>2. HandoffAt("requested", None) \in Handoff
    BY HandoffAtType DEF HandoffPhase
  <2> QED
    BY <1>14, <2>2 DEF RecordRequest
<1>15. ASSUME NEW n \in Node, NEW w \in Worker, RecordPrepare(n, w) PROVE TypeOK'
  <2>1. work[n][w] \in Bundle
    BY <1>15 DEF RecordPrepare, StepInv
  <2>2. HandoffAt("waiting_for_apply", Id(work[n][w])) \in Handoff
    BY HandoffAtType, BundleFields, <2>1 DEF HandoffPhase
  <2> QED
    BY <1>15, <2>2 DEF RecordPrepare
<1>16. ASSUME NEW n \in Node, NEW w \in Worker, Fence(n, w) PROVE TypeOK'
  BY <1>16 DEF Fence
<1>17. ASSUME NEW n \in Node, NEW w \in Worker, FenceFails(n, w) PROVE TypeOK'
  BY <1>17 DEF FenceFails
<1>18. ASSUME NEW n \in Node, NEW w \in Worker, Surrender(n, w) PROVE TypeOK'
  <2>1. work[n][w] \in Bundle
    BY <1>18 DEF Surrender, StepInv
  <2>2. HandoffAt("granting", work[n][w].prepare) \in Handoff
    BY HandoffAtType, BundleFields, <2>1 DEF HandoffPhase
  <2> QED
    BY <1>18, <2>2 DEF Surrender
<1>19. ASSUME NEW n \in Node, NEW w \in Worker, RecordGrant(n, w) PROVE TypeOK'
  <2>1. work[n][w] \in Bundle
    BY <1>19 DEF RecordGrant, StepInv
  <2>2. HandoffAt("complete", work[n][w].prepare) \in Handoff
    BY HandoffAtType, BundleFields, <2>1 DEF HandoffPhase
  <2> QED
    BY <1>19, <2>2 DEF RecordGrant
<1>20. ASSUME NEW n \in Node, NEW w \in Worker, FetchBundle(n, w) PROVE TypeOK'
  <2>1. Candidates(n) \subseteq Bundle
    BY PeerAssumption DEF Candidates
  <2>2. PICK b \in Candidates(n) : work' = [work EXCEPT ![n][w] = b]
    BY <1>20 DEF FetchBundle
  <2> QED
    BY <1>20, <2>1, <2>2 DEF FetchBundle
<1>21. ASSUME NEW n \in Node, NEW w \in Worker, FetchNothing(n, w) PROVE TypeOK'
  BY <1>21 DEF FetchNothing
<1>22. ASSUME NEW n \in Node, NEW w \in Worker, ImportApplied(n, w) PROVE TypeOK'
  <2>1. Id(work[n][w]) \in BundleId
    BY <1>22, BundleFields DEF ImportApplied, StepInv
  <2> QED
    BY <1>22, <2>1 DEF ImportApplied, EndImport
<1>23. ASSUME NEW n \in Node, NEW w \in Worker, ImportConflict(n, w) PROVE TypeOK'
  BY <1>23 DEF ImportConflict, EndImport
<1>24. ASSUME NEW n \in Node, NEW w \in Worker, ImportFails(n, w) PROVE TypeOK'
  BY <1>24 DEF ImportFails
<1>25. ASSUME NEW n \in Node, NEW w \in Worker, AcceptGrant(n, w) PROVE TypeOK'
  <2>2. HandoffAt("complete", None) \in Handoff
    BY HandoffAtType DEF HandoffPhase
  <2> QED
    BY <1>25, <2>2 DEF AcceptGrant
<1>26. ASSUME NEW n \in Node, NEW w \in Worker, EnableServing(n, w) PROVE TypeOK'
  BY <1>26 DEF EnableServing
<1>27. ASSUME NEW n \in Node, NEW w \in Worker, EnableVip(n, w) PROVE TypeOK'
  BY <1>27 DEF EnableVip
<1>28. ASSUME NEW n \in Node, NEW w \in Worker, KeepVip(n, w) PROVE TypeOK'
  BY <1>28 DEF KeepVip
<1>29. ASSUME NEW n \in Node, NEW w \in Worker, AcquireRefused(n, w) PROVE TypeOK'
  BY <1>29 DEF AcquireRefused
<1>30. ASSUME NEW n \in Node, NEW w \in Worker, ProbeVip(n, w) PROVE TypeOK'
  BY <1>30 DEF ProbeVip
<1>31. ASSUME NEW n \in Node, NEW w \in Worker, AddVip(n, w) PROVE TypeOK'
  BY <1>31 DEF AddVip
<1>32. ASSUME NEW n \in Node, NEW w \in Worker, AddVipFails(n, w) PROVE TypeOK'
  BY <1>32 DEF AddVipFails
<1>33. ASSUME NEW n \in Node, NEW w \in Worker, ReleaseVip(n, w) PROVE TypeOK'
  BY <1>33 DEF ReleaseVip
<1>34. ASSUME NEW n \in Node, NEW w \in Worker, SetProxyReadiness(n, w) PROVE TypeOK'
  BY <1>34 DEF SetProxyReadiness
<1>35. ASSUME NEW n \in Node, Crash(n) PROVE TypeOK'
  BY <1>35, BoundAssumption DEF Crash
<1>36. CASE UNCHANGED <<vars, disturbed>>
  BY <1>36 DEF vars
<1> QED
  BY <1>1, <1>2, <1>3, <1>4, <1>5, <1>6, <1>7, <1>8, <1>9, <1>10, <1>11, <1>12, <1>13, <1>14, <1>15, <1>16, <1>17, <1>18, <1>19, <1>20, <1>21, <1>22, <1>23, <1>24, <1>25, <1>26, <1>27, <1>28, <1>29, <1>30, <1>31, <1>32, <1>33, <1>34, <1>35, <1>36, <1>37
     DEF Next, LoopCycle, Proceed

\* Every step keeps what a worker carries fit for the step it stands at.
LEMMA StepInvStep == TypeOK /\ StepInv /\ [Next]_<<vars, disturbed>> => StepInv'
<1> SUFFICES ASSUME TypeOK, StepInv, [Next]_<<vars, disturbed>> PROVE StepInv'
  OBVIOUS
<1>a. \A n \in Node : KnownSequence(n) + 1 \in Nat
  BY KnownType
<1> USE DEF TypeOK, StepInv, stateFile, Goto, Abandon
<1>1. ASSUME NEW n \in Node, LoopPrepare(n) PROVE StepInv'
  <2>1. Draft(n, "prepare", None) # None
    BY DraftType
  <2>2. Draft(n, "prepare", None).source = n
    BY DraftType
  <2>3. Draft(n, "prepare", None).phase = "prepare"
    BY DraftType
  <2> QED
    BY <1>1, <2>1, <2>2, <2>3 DEF LoopPrepare, BeginExport
<1>2. ASSUME NEW n \in Node, LoopPollPeer(n) PROVE StepInv'
  <2>1. handoff[n].prepare \in BundleId \cup {None}
    BY HandoffFields DEF TypeOK
  <2>2. LET d == Draft(n, "grant", handoff[n].prepare)
        IN  d # None /\ d.source = n /\ d.phase = "grant"
    BY <2>1, DraftType
  <2> QED
    BY <1>2, <2>2 DEF LoopPollPeer
<1>3. ASSUME NEW n \in Node, LoopExport(n) PROVE StepInv'
  <2>1. LET d == Draft(n, "plain", None) IN d # None /\ d.source = n /\ d.phase = "plain"
    BY DraftType
  <2> QED
    BY <1>3, <2>1, ConfigAssumption DEF LoopExport, BeginExport, Worker
<1>4. ASSUME NEW n \in Node, LoopImport(n) PROVE StepInv'
  BY <1>4 DEF LoopImport
<1>5. ASSUME NEW n \in Node, NEW w \in Operator, OperatorExport(n, w) PROVE StepInv'
  <2>1. LET d == Draft(n, "plain", None) IN d # None /\ d.source = n /\ d.phase = "plain"
    BY DraftType
  <2> QED
    BY <1>5, <2>1, ConfigAssumption DEF OperatorExport, BeginExport, Worker
<1>6. ASSUME NEW n \in Node, NEW w \in Operator, OperatorStart(n, w) PROVE StepInv'
  <2>1. PICK step \in {"request_handoff", "apply", "initialize", "acquire_vip",
                        "release_vip", "proxy_ready", "proxy_not_ready"} : Goto(n, w, step)
    BY <1>6 DEF OperatorStart
  <2> QED
    BY <1>6, <2>1 DEF OperatorStart
<1>7. ASSUME NEW n \in Node, NEW w \in Worker, ExportReserve(n, w) PROVE StepInv'
  <2>1. LET b == Numbered(work[n][w], KnownSequence(n) + 1)
        IN  b # None /\ b.source = n /\ b.phase = work[n][w].phase
    BY <1>7, ReservedWork DEF ExportReserve
  <2> QED
    BY <1>7, <2>1 DEF ExportReserve, ReserveSequence
<1>8. ASSUME NEW n \in Node, NEW w \in Worker, GrantReserve(n, w) PROVE StepInv'
  <2>1. LET b == Numbered(work[n][w], KnownSequence(n) + 1)
        IN  b # None /\ b.source = n /\ b.phase = work[n][w].phase
    BY <1>8, ReservedWork DEF GrantReserve
  <2> QED
    BY <1>8, <2>1 DEF GrantReserve, ReserveSequence
<1>9. ASSUME NEW n \in Node, NEW w \in Worker, GrantLost(n, w) PROVE StepInv'
  BY <1>9 DEF GrantLost
<1>10. ASSUME NEW n \in Node, NEW w \in Worker, PublishOutbound(n, w) PROVE StepInv'
  BY <1>10 DEF PublishOutbound
<1>11. ASSUME NEW n \in Node, NEW w \in Worker, PublishShared(n, w) PROVE StepInv'
  BY <1>11 DEF PublishShared
<1>12. ASSUME NEW n \in Node, NEW w \in Worker, PublishFails(n, w) PROVE StepInv'
  BY <1>12 DEF PublishFails
<1>37. ASSUME NEW n \in Node, NEW w \in Worker, ShareFails(n, w) PROVE StepInv'
  BY <1>37 DEF ShareFails
<1>13. ASSUME NEW n \in Node, NEW w \in Worker, FinishExport(n, w) PROVE StepInv'
  <2>1. work[n][w] \in Bundle
    BY <1>13 DEF FinishExport
  <2>2. work[n][w].phase # "plain" => w = "loop"
    BY <1>13 DEF FinishExport
  <2> QED
    BY <1>13, <2>1, <2>2 DEF FinishExport
<1>14. ASSUME NEW n \in Node, NEW w \in Worker, RecordRequest(n, w) PROVE StepInv'
  BY <1>14 DEF RecordRequest
<1>15. ASSUME NEW n \in Node, NEW w \in Worker, RecordPrepare(n, w) PROVE StepInv'
  BY <1>15 DEF RecordPrepare
<1>16. ASSUME NEW n \in Node, NEW w \in Worker, Fence(n, w) PROVE StepInv'
  BY <1>16 DEF Fence
<1>17. ASSUME NEW n \in Node, NEW w \in Worker, FenceFails(n, w) PROVE StepInv'
  BY <1>17 DEF FenceFails
<1>18. ASSUME NEW n \in Node, NEW w \in Worker, Surrender(n, w) PROVE StepInv'
  BY <1>18 DEF Surrender
<1>19. ASSUME NEW n \in Node, NEW w \in Worker, RecordGrant(n, w) PROVE StepInv'
  BY <1>19 DEF RecordGrant
<1>20. ASSUME NEW n \in Node, NEW w \in Worker, FetchBundle(n, w) PROVE StepInv'
  <2>1. Candidates(n) \subseteq Bundle
    BY PeerAssumption DEF Candidates, TypeOK
  <2>2. PICK b \in Candidates(n) : work' = [work EXCEPT ![n][w] = b]
    BY <1>20 DEF FetchBundle
  <2>3. b # None
    BY <2>1, NoneAssumption
  <2> QED
    BY <1>20, <2>2, <2>3 DEF FetchBundle
<1>21. ASSUME NEW n \in Node, NEW w \in Worker, FetchNothing(n, w) PROVE StepInv'
  BY <1>21 DEF FetchNothing
<1>22. ASSUME NEW n \in Node, NEW w \in Worker, ImportApplied(n, w) PROVE StepInv'
  BY <1>22 DEF ImportApplied, EndImport
<1>23. ASSUME NEW n \in Node, NEW w \in Worker, ImportConflict(n, w) PROVE StepInv'
  BY <1>23 DEF ImportConflict, EndImport
<1>24. ASSUME NEW n \in Node, NEW w \in Worker, ImportFails(n, w) PROVE StepInv'
  BY <1>24 DEF ImportFails
<1>25. ASSUME NEW n \in Node, NEW w \in Worker, AcceptGrant(n, w) PROVE StepInv'
  BY <1>25 DEF AcceptGrant
<1>26. ASSUME NEW n \in Node, NEW w \in Worker, EnableServing(n, w) PROVE StepInv'
  BY <1>26 DEF EnableServing
<1>27. ASSUME NEW n \in Node, NEW w \in Worker, EnableVip(n, w) PROVE StepInv'
  BY <1>27 DEF EnableVip
<1>28. ASSUME NEW n \in Node, NEW w \in Worker, KeepVip(n, w) PROVE StepInv'
  BY <1>28 DEF KeepVip
<1>29. ASSUME NEW n \in Node, NEW w \in Worker, AcquireRefused(n, w) PROVE StepInv'
  BY <1>29 DEF AcquireRefused
<1>30. ASSUME NEW n \in Node, NEW w \in Worker, ProbeVip(n, w) PROVE StepInv'
  BY <1>30 DEF ProbeVip
<1>31. ASSUME NEW n \in Node, NEW w \in Worker, AddVip(n, w) PROVE StepInv'
  BY <1>31 DEF AddVip
<1>32. ASSUME NEW n \in Node, NEW w \in Worker, AddVipFails(n, w) PROVE StepInv'
  BY <1>32 DEF AddVipFails
<1>33. ASSUME NEW n \in Node, NEW w \in Worker, ReleaseVip(n, w) PROVE StepInv'
  BY <1>33 DEF ReleaseVip
<1>34. ASSUME NEW n \in Node, NEW w \in Worker, SetProxyReadiness(n, w) PROVE StepInv'
  BY <1>34 DEF SetProxyReadiness
<1>35. ASSUME NEW n \in Node, Crash(n) PROVE StepInv'
  BY <1>35 DEF Crash
<1>36. CASE UNCHANGED <<vars, disturbed>>
  BY <1>36 DEF vars
<1> QED
  BY <1>1, <1>2, <1>3, <1>4, <1>5, <1>6, <1>7, <1>8, <1>9, <1>10, <1>11, <1>12, <1>13, <1>14, <1>15, <1>16, <1>17, <1>18, <1>19, <1>20, <1>21, <1>22, <1>23, <1>24, <1>25, <1>26, <1>27, <1>28, <1>29, <1>30, <1>31, <1>32, <1>33, <1>34, <1>35, <1>36, <1>37
     DEF Next, LoopCycle, Proceed

\* Every step keeps the lock with exactly the worker inside a locked step.
LEMMA LockStep == TypeOK /\ LockInv /\ [Next]_<<vars, disturbed>> => LockInv'
<1> SUFFICES ASSUME TypeOK, LockInv, [Next]_<<vars, disturbed>> PROVE LockInv'
  OBVIOUS
<1>w. \A w \in Worker : w # None
  BY NoneAssumption
<1> USE <1>w DEF TypeOK, LockInv, Locked, Unlocked, stateFile, Goto, Abandon
<1>1. ASSUME NEW n \in Node, LoopPrepare(n) PROVE LockInv'
  BY <1>1 DEF LoopPrepare, BeginExport
<1>2. ASSUME NEW n \in Node, LoopPollPeer(n) PROVE LockInv'
  BY <1>2 DEF LoopPollPeer
<1>3. ASSUME NEW n \in Node, LoopExport(n) PROVE LockInv'
  BY <1>3 DEF LoopExport, BeginExport
<1>4. ASSUME NEW n \in Node, LoopImport(n) PROVE LockInv'
  BY <1>4 DEF LoopImport
<1>5. ASSUME NEW n \in Node, NEW w \in Operator, OperatorExport(n, w) PROVE LockInv'
  BY <1>5 DEF OperatorExport, BeginExport
<1>6. ASSUME NEW n \in Node, NEW w \in Operator, OperatorStart(n, w) PROVE LockInv'
  <2>1. PICK step \in {"request_handoff", "apply", "initialize", "acquire_vip",
                        "release_vip", "proxy_ready", "proxy_not_ready"} : Goto(n, w, step)
    BY <1>6 DEF OperatorStart
  <2> QED
    BY <1>6, <2>1 DEF OperatorStart
<1>7. ASSUME NEW n \in Node, NEW w \in Worker, ExportReserve(n, w) PROVE LockInv'
  BY <1>7 DEF ExportReserve, ReserveSequence
<1>8. ASSUME NEW n \in Node, NEW w \in Worker, GrantReserve(n, w) PROVE LockInv'
  BY <1>8 DEF GrantReserve, ReserveSequence
<1>9. ASSUME NEW n \in Node, NEW w \in Worker, GrantLost(n, w) PROVE LockInv'
  BY <1>9 DEF GrantLost
<1>10. ASSUME NEW n \in Node, NEW w \in Worker, PublishOutbound(n, w) PROVE LockInv'
  BY <1>10 DEF PublishOutbound
<1>11. ASSUME NEW n \in Node, NEW w \in Worker, PublishShared(n, w) PROVE LockInv'
  BY <1>11 DEF PublishShared
<1>12. ASSUME NEW n \in Node, NEW w \in Worker, PublishFails(n, w) PROVE LockInv'
  BY <1>12 DEF PublishFails
<1>37. ASSUME NEW n \in Node, NEW w \in Worker, ShareFails(n, w) PROVE LockInv'
  BY <1>37 DEF ShareFails
<1>13. ASSUME NEW n \in Node, NEW w \in Worker, FinishExport(n, w) PROVE LockInv'
  BY <1>13 DEF FinishExport
<1>14. ASSUME NEW n \in Node, NEW w \in Worker, RecordRequest(n, w) PROVE LockInv'
  BY <1>14 DEF RecordRequest
<1>15. ASSUME NEW n \in Node, NEW w \in Worker, RecordPrepare(n, w) PROVE LockInv'
  BY <1>15 DEF RecordPrepare
<1>16. ASSUME NEW n \in Node, NEW w \in Worker, Fence(n, w) PROVE LockInv'
  BY <1>16 DEF Fence
<1>17. ASSUME NEW n \in Node, NEW w \in Worker, FenceFails(n, w) PROVE LockInv'
  BY <1>17 DEF FenceFails
<1>18. ASSUME NEW n \in Node, NEW w \in Worker, Surrender(n, w) PROVE LockInv'
  BY <1>18 DEF Surrender
<1>19. ASSUME NEW n \in Node, NEW w \in Worker, RecordGrant(n, w) PROVE LockInv'
  BY <1>19 DEF RecordGrant
<1>20. ASSUME NEW n \in Node, NEW w \in Worker, FetchBundle(n, w) PROVE LockInv'
  BY <1>20 DEF FetchBundle
<1>21. ASSUME NEW n \in Node, NEW w \in Worker, FetchNothing(n, w) PROVE LockInv'
  BY <1>21 DEF FetchNothing
<1>22. ASSUME NEW n \in Node, NEW w \in Worker, ImportApplied(n, w) PROVE LockInv'
  BY <1>22 DEF ImportApplied, EndImport
<1>23. ASSUME NEW n \in Node, NEW w \in Worker, ImportConflict(n, w) PROVE LockInv'
  BY <1>23 DEF ImportConflict, EndImport
<1>24. ASSUME NEW n \in Node, NEW w \in Worker, ImportFails(n, w) PROVE LockInv'
  BY <1>24 DEF ImportFails
<1>25. ASSUME NEW n \in Node, NEW w \in Worker, AcceptGrant(n, w) PROVE LockInv'
  BY <1>25 DEF AcceptGrant
<1>26. ASSUME NEW n \in Node, NEW w \in Worker, EnableServing(n, w) PROVE LockInv'
  BY <1>26 DEF EnableServing
<1>27. ASSUME NEW n \in Node, NEW w \in Worker, EnableVip(n, w) PROVE LockInv'
  BY <1>27 DEF EnableVip
<1>28. ASSUME NEW n \in Node, NEW w \in Worker, KeepVip(n, w) PROVE LockInv'
  BY <1>28 DEF KeepVip
<1>29. ASSUME NEW n \in Node, NEW w \in Worker, AcquireRefused(n, w) PROVE LockInv'
  BY <1>29 DEF AcquireRefused
<1>30. ASSUME NEW n \in Node, NEW w \in Worker, ProbeVip(n, w) PROVE LockInv'
  BY <1>30 DEF ProbeVip
<1>31. ASSUME NEW n \in Node, NEW w \in Worker, AddVip(n, w) PROVE LockInv'
  BY <1>31 DEF AddVip
<1>32. ASSUME NEW n \in Node, NEW w \in Worker, AddVipFails(n, w) PROVE LockInv'
  BY <1>32 DEF AddVipFails
<1>33. ASSUME NEW n \in Node, NEW w \in Worker, ReleaseVip(n, w) PROVE LockInv'
  BY <1>33 DEF ReleaseVip
<1>34. ASSUME NEW n \in Node, NEW w \in Worker, SetProxyReadiness(n, w) PROVE LockInv'
  BY <1>34 DEF SetProxyReadiness
<1>35. ASSUME NEW n \in Node, Crash(n) PROVE LockInv'
  BY <1>35 DEF Crash
<1>36. CASE UNCHANGED <<vars, disturbed>>
  BY <1>36 DEF vars
<1> QED
  BY <1>1, <1>2, <1>3, <1>4, <1>5, <1>6, <1>7, <1>8, <1>9, <1>10, <1>11, <1>12, <1>13, <1>14, <1>15, <1>16, <1>17, <1>18, <1>19, <1>20, <1>21, <1>22, <1>23, <1>24, <1>25, <1>26, <1>27, <1>28, <1>29, <1>30, <1>31, <1>32, <1>33, <1>34, <1>35, <1>36, <1>37
     DEF Next, LoopCycle, Proceed

\* Every step keeps the reserved sequence at or above the published one, and
\* strictly above it while a reserved bundle is not yet published.
LEMMA SequenceStep ==
    TypeOK /\ LockInv /\ StepInv /\ SequenceInv /\ [Next]_<<vars, disturbed>> => SequenceInv'
<1> SUFFICES ASSUME TypeOK, LockInv, StepInv, SequenceInv, [Next]_<<vars, disturbed>>
             PROVE  SequenceInv'
  OBVIOUS
<1>w. \A w \in Worker : w # None
  BY NoneAssumption
<1>a. \A n \in Node : KnownSequence(n) + 1 \in Nat /\ KnownSequence(n) + 1 > exported[n]
  <2> SUFFICES ASSUME NEW n \in Node
               PROVE  KnownSequence(n) + 1 \in Nat /\ KnownSequence(n) + 1 > exported[n]
    OBVIOUS
  <2>1. KnownSequence(n) \in Nat /\ KnownSequence(n) >= exported[n]
    BY KnownType
  <2>2. exported[n] \in Nat
    BY DEF TypeOK
  <2> QED
    BY <2>1, <2>2
<1>b. \A n \in Node : outbound[n] # None => outbound[n].sequence \in Nat
  BY BundleFields DEF TypeOK
<1> USE DEF TypeOK, SequenceInv, stateFile, Goto, Abandon
<1>1. ASSUME NEW n \in Node, LoopPrepare(n) PROVE SequenceInv'
  BY <1>1, <1>b DEF LoopPrepare, BeginExport
<1>2. ASSUME NEW n \in Node, LoopPollPeer(n) PROVE SequenceInv'
  BY <1>2, <1>b DEF LoopPollPeer
<1>3. ASSUME NEW n \in Node, LoopExport(n) PROVE SequenceInv'
  BY <1>3, <1>b DEF LoopExport, BeginExport
<1>4. ASSUME NEW n \in Node, LoopImport(n) PROVE SequenceInv'
  BY <1>4, <1>b DEF LoopImport
<1>5. ASSUME NEW n \in Node, NEW w \in Operator, OperatorExport(n, w) PROVE SequenceInv'
  BY <1>5, <1>b DEF OperatorExport, BeginExport
<1>6. ASSUME NEW n \in Node, NEW w \in Operator, OperatorStart(n, w) PROVE SequenceInv'
  <2>1. PICK step \in {"request_handoff", "apply", "initialize", "acquire_vip",
                        "release_vip", "proxy_ready", "proxy_not_ready"} : Goto(n, w, step)
    BY <1>6 DEF OperatorStart
  <2> QED
    BY <1>6, <2>1 DEF OperatorStart
<1>7. ASSUME NEW n \in Node, NEW w \in Worker, ExportReserve(n, w) PROVE SequenceInv'
  <2>1. KnownSequence(n) + 1 \in Nat /\ KnownSequence(n) + 1 > exported[n]
    BY <1>a
  <2>2. Numbered(work[n][w], KnownSequence(n) + 1).sequence = KnownSequence(n) + 1
    BY <1>7, ReservedWork DEF ExportReserve
  <2>3. \A v \in Worker : pc[n][v] # "publish"
    BY <1>7, <1>w DEF ExportReserve, ReserveSequence, LockInv, Locked, Unlocked
  <2> QED
    BY <1>7, <1>b, <2>1, <2>2, <2>3 DEF ExportReserve, ReserveSequence
<1>8. ASSUME NEW n \in Node, NEW w \in Worker, GrantReserve(n, w) PROVE SequenceInv'
  <2>1. KnownSequence(n) + 1 \in Nat /\ KnownSequence(n) + 1 > exported[n]
    BY <1>a
  <2>2. Numbered(work[n][w], KnownSequence(n) + 1).sequence = KnownSequence(n) + 1
    BY <1>8, ReservedWork DEF GrantReserve
  <2>3. \A v \in Worker : pc[n][v] # "publish"
    BY <1>8, <1>w DEF GrantReserve, ReserveSequence, LockInv, Locked, Unlocked
  <2> QED
    BY <1>8, <1>b, <2>1, <2>2, <2>3 DEF GrantReserve, ReserveSequence
<1>9. ASSUME NEW n \in Node, NEW w \in Worker, GrantLost(n, w) PROVE SequenceInv'
  BY <1>9, <1>b DEF GrantLost
<1>10. ASSUME NEW n \in Node, NEW w \in Worker, PublishOutbound(n, w) PROVE SequenceInv'
  <2>1. \A v \in Worker : pc[n][v] = "publish" => v = w
    BY <1>10 DEF PublishOutbound, LockInv, Locked
  <2> QED
    BY <1>10, <2>1 DEF PublishOutbound
<1>11. ASSUME NEW n \in Node, NEW w \in Worker, PublishShared(n, w) PROVE SequenceInv'
  BY <1>11, <1>b DEF PublishShared
<1>12. ASSUME NEW n \in Node, NEW w \in Worker, PublishFails(n, w) PROVE SequenceInv'
  BY <1>12, <1>b DEF PublishFails
<1>37. ASSUME NEW n \in Node, NEW w \in Worker, ShareFails(n, w) PROVE SequenceInv'
  BY <1>37, <1>b DEF ShareFails
<1>13. ASSUME NEW n \in Node, NEW w \in Worker, FinishExport(n, w) PROVE SequenceInv'
  BY <1>13, <1>b DEF FinishExport
<1>14. ASSUME NEW n \in Node, NEW w \in Worker, RecordRequest(n, w) PROVE SequenceInv'
  BY <1>14, <1>b DEF RecordRequest
<1>15. ASSUME NEW n \in Node, NEW w \in Worker, RecordPrepare(n, w) PROVE SequenceInv'
  BY <1>15, <1>b DEF RecordPrepare
<1>16. ASSUME NEW n \in Node, NEW w \in Worker, Fence(n, w) PROVE SequenceInv'
  BY <1>16, <1>b DEF Fence
<1>17. ASSUME NEW n \in Node, NEW w \in Worker, FenceFails(n, w) PROVE SequenceInv'
  BY <1>17, <1>b DEF FenceFails
<1>18. ASSUME NEW n \in Node, NEW w \in Worker, Surrender(n, w) PROVE SequenceInv'
  BY <1>18, <1>b DEF Surrender
<1>19. ASSUME NEW n \in Node, NEW w \in Worker, RecordGrant(n, w) PROVE SequenceInv'
  BY <1>19, <1>b DEF RecordGrant
<1>20. ASSUME NEW n \in Node, NEW w \in Worker, FetchBundle(n, w) PROVE SequenceInv'
  BY <1>20, <1>b DEF FetchBundle
<1>21. ASSUME NEW n \in Node, NEW w \in Worker, FetchNothing(n, w) PROVE SequenceInv'
  BY <1>21, <1>b DEF FetchNothing
<1>22. ASSUME NEW n \in Node, NEW w \in Worker, ImportApplied(n, w) PROVE SequenceInv'
  BY <1>22, <1>b DEF ImportApplied, EndImport
<1>23. ASSUME NEW n \in Node, NEW w \in Worker, ImportConflict(n, w) PROVE SequenceInv'
  BY <1>23, <1>b DEF ImportConflict, EndImport
<1>24. ASSUME NEW n \in Node, NEW w \in Worker, ImportFails(n, w) PROVE SequenceInv'
  BY <1>24, <1>b DEF ImportFails
<1>25. ASSUME NEW n \in Node, NEW w \in Worker, AcceptGrant(n, w) PROVE SequenceInv'
  BY <1>25, <1>b DEF AcceptGrant
<1>26. ASSUME NEW n \in Node, NEW w \in Worker, EnableServing(n, w) PROVE SequenceInv'
  BY <1>26, <1>b DEF EnableServing
<1>27. ASSUME NEW n \in Node, NEW w \in Worker, EnableVip(n, w) PROVE SequenceInv'
  BY <1>27, <1>b DEF EnableVip
<1>28. ASSUME NEW n \in Node, NEW w \in Worker, KeepVip(n, w) PROVE SequenceInv'
  BY <1>28, <1>b DEF KeepVip
<1>29. ASSUME NEW n \in Node, NEW w \in Worker, AcquireRefused(n, w) PROVE SequenceInv'
  BY <1>29, <1>b DEF AcquireRefused
<1>30. ASSUME NEW n \in Node, NEW w \in Worker, ProbeVip(n, w) PROVE SequenceInv'
  BY <1>30, <1>b DEF ProbeVip
<1>31. ASSUME NEW n \in Node, NEW w \in Worker, AddVip(n, w) PROVE SequenceInv'
  BY <1>31, <1>b DEF AddVip
<1>32. ASSUME NEW n \in Node, NEW w \in Worker, AddVipFails(n, w) PROVE SequenceInv'
  BY <1>32, <1>b DEF AddVipFails
<1>33. ASSUME NEW n \in Node, NEW w \in Worker, ReleaseVip(n, w) PROVE SequenceInv'
  BY <1>33, <1>b DEF ReleaseVip
<1>34. ASSUME NEW n \in Node, NEW w \in Worker, SetProxyReadiness(n, w) PROVE SequenceInv'
  BY <1>34, <1>b DEF SetProxyReadiness
<1>35. ASSUME NEW n \in Node, Crash(n) PROVE SequenceInv'
  BY <1>35, <1>b DEF Crash
<1>36. CASE UNCHANGED <<vars, disturbed>>
  BY <1>36 DEF vars
<1> QED
  BY <1>1, <1>2, <1>3, <1>4, <1>5, <1>6, <1>7, <1>8, <1>9, <1>10, <1>11, <1>12, <1>13, <1>14, <1>15, <1>16, <1>17, <1>18, <1>19, <1>20, <1>21, <1>22, <1>23, <1>24, <1>25, <1>26, <1>27, <1>28, <1>29, <1>30, <1>31, <1>32, <1>33, <1>34, <1>35, <1>36, <1>37
     DEF Next, LoopCycle, Proceed

\* The initial state satisfies the local invariants.
LEMMA PlannedInit == Init => TypeOK /\ LockInv /\ StepInv /\ SequenceInv
<1> SUFFICES ASSUME Init PROVE TypeOK /\ LockInv /\ StepInv /\ SequenceInv
  OBVIOUS
<1>1. HandoffAt("none", None) \in Handoff
  BY HandoffAtType DEF HandoffPhase
<1>2. TypeOK
  BY <1>1, BoundAssumption DEF Init, TypeOK, Waiting, Locked
<1>3. LockInv /\ StepInv /\ SequenceInv
  BY NoneAssumption DEF Init, LockInv, StepInv, SequenceInv, Locked
<1> QED
  BY <1>2, <1>3

\* The local invariants: the types, the lock held by exactly the worker inside it,
\* what each step carries, and the sequence reserved before it is published.
THEOREM LocalInvariants == Spec => [](TypeOK /\ LockInv /\ StepInv /\ SequenceInv)
<1> DEFINE Local == TypeOK /\ LockInv /\ StepInv /\ SequenceInv
<1>1. Local /\ [Next]_<<vars, disturbed>> => Local'
  BY TypeStep, LockStep, StepInvStep, SequenceStep
<1> QED
  BY <1>1, PlannedInit, PTL DEF Spec

\* Every reachable state is well typed, whatever the cluster and the bounds.
THEOREM TypeCorrect == Spec => []TypeOK
BY LocalInvariants, PTL

\* "A failed publish may skip a sequence but can never reuse one": what a node
\* serves is only ever replaced by a bundle of a higher sequence, for any number of
\* exporting workers, crashes and failing writes.
THEOREM SequenceNeverReused == Spec => OwnSequenceAdvances
<1> DEFINE Local == TypeOK /\ LockInv /\ StepInv /\ SequenceInv
           Advances == \A n \in Node : outbound'[n] # outbound[n] /\ outbound[n] # None =>
                          outbound'[n].sequence > outbound[n].sequence
<1>1. Local /\ [Next]_<<vars, disturbed>> => [Advances]_vars
  <2> SUFFICES ASSUME Local, Next PROVE Advances
    OBVIOUS
  <2>1. ASSUME NEW n \in Node, NEW w \in Worker, PublishOutbound(n, w) PROVE Advances
    BY <2>1 DEF PublishOutbound, TypeOK, SequenceInv
  <2>2. CASE outbound' = outbound
    BY <2>2
  <2>3. ASSUME NEW n \in Node, LoopCycle(n) PROVE outbound' = outbound
    BY <2>3 DEF LoopCycle, LoopPrepare, LoopPollPeer, LoopExport, LoopImport, BeginExport
  <2>4. ASSUME NEW n \in Node, NEW w \in Operator, OperatorExport(n, w) \/ OperatorStart(n, w)
        PROVE  outbound' = outbound
    BY <2>4 DEF OperatorExport, OperatorStart, BeginExport
  <2>5. ASSUME NEW n \in Node, NEW w \in Worker, Continue(n, w), ~PublishOutbound(n, w)
        PROVE  outbound' = outbound
    BY <2>5 DEF Continue, Proceed, ExportReserve, GrantReserve, ReserveSequence, GrantLost,
       PublishShared, PublishFails, ShareFails, FinishExport, RecordRequest,
       RecordPrepare, Fence, FenceFails, Surrender, RecordGrant, FetchBundle, FetchNothing, ImportApplied,
       ImportConflict, ImportFails, AcceptGrant, EnableServing, EnableVip, KeepVip,
       AcquireRefused, ProbeVip, AddVip, AddVipFails, ReleaseVip, SetProxyReadiness
  <2>6. ASSUME NEW n \in Node, Crash(n) PROVE outbound' = outbound
    BY <2>6 DEF Crash
  <2> QED
    BY <2>1, <2>2, <2>3, <2>4, <2>5, <2>6 DEF Next, Continue
<1> QED
  BY <1>1, LocalInvariants, PTL DEF Spec, OwnSequenceAdvances

-----------------------------------------------------------------------------
(* 2. Authority is never duplicated.                                         *)

\* Worker w of node n is the only one that moves.
OnlyMoves(n, w) ==
    \A m \in Node : \A v \in Worker :
       (m = n /\ v = w) \/ (pc'[m][v] = pc[m][v] /\ work'[m][v] = work[m][v])

\* Worker w of node n moves to a step that neither carries a bundle for others
\* to read nor claims authority; nothing the claims depend on changes.
QuietMove(n, w) ==
    /\ UNCHANGED <<authoritative, applied, outbound, shared>>
    /\ OnlyMoves(n, w)
    /\ pc'[n][w] \notin {"fence", "surrender", "export_grant", "publish", "share",
                         "import", "replace", "accept"}
    /\ \A m \in Node :
          handoff'[m].phase = "waiting_for_apply" =>
              handoff'[m] = handoff[m] \/ handoff'[m].prepare # None

\* The steps that are not quiet moves.
LoudStep(n, w) ==
    \/ w = "loop" /\ LoopPollPeer(n)
    \/ ExportReserve(n, w) \/ GrantReserve(n, w)
    \/ PublishOutbound(n, w) \/ PublishShared(n, w) \/ ShareFails(n, w)
    \/ Fence(n, w) \/ Surrender(n, w)
    \/ FetchBundle(n, w) \/ ImportApplied(n, w)
    \/ (ImportConflict(n, w) /\ "conflict" \in disturbed')
    \/ AcceptGrant(n, w)

\* Every step is a quiet move, a loud step or a crash.
LEMMA StepKinds ==
    ASSUME TypeOK, StepInv, Next
    PROVE  \E n \in Node : \/ \E w \in Worker : QuietMove(n, w) \/ LoudStep(n, w)
                          \/ Crash(n)
<1> DEFINE Goal == \E n \in Node : \/ \E w \in Worker : QuietMove(n, w) \/ LoudStep(n, w)
                                   \/ Crash(n)
<1>w. "loop" \in Worker /\ Operator \subseteq Worker
  BY DEF Worker
<1>q. \A n \in Node : \A w \in Worker : QuietMove(n, w) => Goal
  OBVIOUS
<1> USE DEF TypeOK, stateFile, Goto, Abandon, OnlyMoves
<1>1. ASSUME NEW n \in Node, LoopPrepare(n) PROVE Goal
  <2>2. QuietMove(n, "loop")
    BY <1>1, <1>w DEF LoopPrepare, BeginExport, QuietMove
  <2> QED
    BY <2>2, <1>w, <1>q
<1>2. ASSUME NEW n \in Node, LoopExport(n) PROVE Goal
  <2>2. QuietMove(n, "loop")
    BY <1>2, <1>w DEF LoopExport, BeginExport, QuietMove
  <2> QED
    BY <2>2, <1>w, <1>q
<1>3. ASSUME NEW n \in Node, LoopImport(n) PROVE Goal
  <2>2. QuietMove(n, "loop")
    BY <1>3, <1>w DEF LoopImport, QuietMove
  <2> QED
    BY <2>2, <1>w, <1>q
<1>4. ASSUME NEW n \in Node, NEW w \in Operator, OperatorExport(n, w) PROVE Goal
  <2>2. QuietMove(n, w)
    BY <1>4, <1>w DEF OperatorExport, BeginExport, QuietMove
  <2> QED
    BY <2>2, <1>w, <1>q
<1>5. ASSUME NEW n \in Node, NEW w \in Operator, OperatorStart(n, w) PROVE Goal
  <2>1. PICK step \in {"request_handoff", "apply", "initialize", "acquire_vip",
                        "release_vip", "proxy_ready", "proxy_not_ready"} : Goto(n, w, step)
    BY <1>5 DEF OperatorStart
  <2>2. QuietMove(n, w)
    BY <1>5, <2>1, <1>w DEF OperatorStart, QuietMove
  <2> QED
    BY <2>2, <1>w, <1>q
<1>6. ASSUME NEW n \in Node, NEW w \in Worker, GrantLost(n, w) PROVE Goal
  <2>2. QuietMove(n, w)
    BY <1>6, <1>w DEF GrantLost, QuietMove
  <2> QED
    BY <2>2, <1>w, <1>q
<1>7. ASSUME NEW n \in Node, NEW w \in Worker, PublishFails(n, w) PROVE Goal
  <2>2. QuietMove(n, w)
    BY <1>7, <1>w DEF PublishFails, QuietMove
  <2> QED
    BY <2>2, <1>w, <1>q
<1>8. ASSUME NEW n \in Node, NEW w \in Worker, FinishExport(n, w) PROVE Goal
  <2>2. QuietMove(n, w)
    BY <1>8, <1>w DEF FinishExport, QuietMove
  <2> QED
    BY <2>2, <1>w, <1>q
<1>9. ASSUME NEW n \in Node, NEW w \in Worker, RecordRequest(n, w) PROVE Goal
  <2>1. work[n][w] # None => Id(work[n][w]) # None
    BY BundleFields
  <2>2. QuietMove(n, w)
    BY <1>9, <2>1, <1>w DEF RecordRequest, QuietMove, HandoffAt, Handoff, StepInv
  <2> QED
    BY <2>2, <1>w, <1>q
<1>10. ASSUME NEW n \in Node, NEW w \in Worker, RecordPrepare(n, w) PROVE Goal
  <2>1. work[n][w] # None => Id(work[n][w]) # None
    BY BundleFields
  <2>2. QuietMove(n, w)
    BY <1>10, <2>1, <1>w DEF RecordPrepare, QuietMove, HandoffAt, Handoff, StepInv
  <2> QED
    BY <2>2, <1>w, <1>q
<1>11. ASSUME NEW n \in Node, NEW w \in Worker, FenceFails(n, w) PROVE Goal
  <2>2. QuietMove(n, w)
    BY <1>11, <1>w DEF FenceFails, QuietMove
  <2> QED
    BY <2>2, <1>w, <1>q
<1>12. ASSUME NEW n \in Node, NEW w \in Worker, RecordGrant(n, w) PROVE Goal
  <2>1. work[n][w] # None => Id(work[n][w]) # None
    BY BundleFields
  <2>2. QuietMove(n, w)
    BY <1>12, <2>1, <1>w DEF RecordGrant, QuietMove, HandoffAt, Handoff, StepInv
  <2> QED
    BY <2>2, <1>w, <1>q
<1>13. ASSUME NEW n \in Node, NEW w \in Worker, FetchNothing(n, w) PROVE Goal
  <2>2. QuietMove(n, w)
    BY <1>13, <1>w DEF FetchNothing, QuietMove
  <2> QED
    BY <2>2, <1>w, <1>q
<1>14. ASSUME NEW n \in Node, NEW w \in Worker, ImportFails(n, w) PROVE Goal
  <2>2. QuietMove(n, w)
    BY <1>14, <1>w DEF ImportFails, QuietMove
  <2> QED
    BY <2>2, <1>w, <1>q
<1>15. ASSUME NEW n \in Node, NEW w \in Worker, EnableServing(n, w) PROVE Goal
  <2>2. QuietMove(n, w)
    BY <1>15, <1>w DEF EnableServing, QuietMove
  <2> QED
    BY <2>2, <1>w, <1>q
<1>16. ASSUME NEW n \in Node, NEW w \in Worker, EnableVip(n, w) PROVE Goal
  <2>2. QuietMove(n, w)
    BY <1>16, <1>w DEF EnableVip, QuietMove
  <2> QED
    BY <2>2, <1>w, <1>q
<1>17. ASSUME NEW n \in Node, NEW w \in Worker, KeepVip(n, w) PROVE Goal
  <2>2. QuietMove(n, w)
    BY <1>17, <1>w DEF KeepVip, QuietMove
  <2> QED
    BY <2>2, <1>w, <1>q
<1>18. ASSUME NEW n \in Node, NEW w \in Worker, AcquireRefused(n, w) PROVE Goal
  <2>2. QuietMove(n, w)
    BY <1>18, <1>w DEF AcquireRefused, QuietMove
  <2> QED
    BY <2>2, <1>w, <1>q
<1>19. ASSUME NEW n \in Node, NEW w \in Worker, ProbeVip(n, w) PROVE Goal
  <2>2. QuietMove(n, w)
    BY <1>19, <1>w DEF ProbeVip, QuietMove
  <2> QED
    BY <2>2, <1>w, <1>q
<1>20. ASSUME NEW n \in Node, NEW w \in Worker, AddVip(n, w) PROVE Goal
  <2>2. QuietMove(n, w)
    BY <1>20, <1>w DEF AddVip, QuietMove
  <2> QED
    BY <2>2, <1>w, <1>q
<1>21. ASSUME NEW n \in Node, NEW w \in Worker, AddVipFails(n, w) PROVE Goal
  <2>2. QuietMove(n, w)
    BY <1>21, <1>w DEF AddVipFails, QuietMove
  <2> QED
    BY <2>2, <1>w, <1>q
<1>22. ASSUME NEW n \in Node, NEW w \in Worker, ReleaseVip(n, w) PROVE Goal
  <2>2. QuietMove(n, w)
    BY <1>22, <1>w DEF ReleaseVip, QuietMove
  <2> QED
    BY <2>2, <1>w, <1>q
<1>23. ASSUME NEW n \in Node, NEW w \in Worker, SetProxyReadiness(n, w) PROVE Goal
  <2>2. QuietMove(n, w)
    BY <1>23, <1>w DEF SetProxyReadiness, QuietMove
  <2> QED
    BY <2>2, <1>w, <1>q
<1>l. \A n \in Node : \A w \in Worker : LoudStep(n, w) => Goal
  OBVIOUS
<1>c. \A n \in Node : Crash(n) => Goal
  OBVIOUS
<1> QED
  BY <1>1, <1>2, <1>3, <1>4, <1>5, <1>6, <1>7, <1>8, <1>9, <1>10, <1>11, <1>12, <1>13, <1>14, <1>15, <1>16, <1>17, <1>18, <1>19, <1>20, <1>21, <1>22, <1>23, <1>l, <1>c, <1>w
     DEF Next, LoopCycle, Proceed, LoudStep, Note, Disturbance

\* A bundle is visible when a node serves it, the shared store holds it, or a
\* worker is about to share or to import it: now, and after any step.
LEMMA VisibleCases ==
    /\ \A b : b \in VisibleBundles <=>
          /\ b # None
          /\ \/ b = shared
             \/ \E n \in Node : b = outbound[n]
             \/ \E n \in Node : \E w \in Worker :
                   pc[n][w] \in {"share", "import"} /\ b = work[n][w]
    /\ \A b : b \in VisibleBundles' <=>
          /\ b # None
          /\ \/ b = shared'
             \/ \E n \in Node : b = outbound'[n]
             \/ \E n \in Node : \E w \in Worker :
                   pc'[n][w] \in {"share", "import"} /\ b = work'[n][w]
BY DEF VisibleBundles

\* Visible bundles are bundles, and their target is a node.
LEMMA VisibleType ==
    ASSUME TypeOK, NEW b \in VisibleBundles
    PROVE  /\ b \in Bundle
           /\ Peer[b.source] \in Node
<1>1. b \in Bundle
  BY VisibleCases DEF TypeOK
<1> QED
  BY <1>1, BundleFields, PeerAssumption

\* A step that publishes nothing makes nothing visible but what its worker
\* carries to a step at which it shares or imports.
LEMMA NothingPublished ==
    ASSUME NEW n \in Node, NEW w \in Worker, OnlyMoves(n, w),
           outbound' = outbound, shared' = shared \/ shared' \in VisibleBundles,
           pc'[n][w] \in {"share", "import"} => work'[n][w] \in VisibleBundles
    PROVE  VisibleBundles' \subseteq VisibleBundles
BY VisibleCases DEF OnlyMoves

\* Neither a quiet move nor a crash makes a bundle visible.
LEMMA QuietVisible ==
    ASSUME TypeOK, NEW n \in Node,
           \/ \E w \in Worker : QuietMove(n, w)
           \/ Crash(n)
           \/ UNCHANGED vars
    PROVE  VisibleBundles' \subseteq VisibleBundles
<1>1. ASSUME NEW w \in Worker, QuietMove(n, w) PROVE VisibleBundles' \subseteq VisibleBundles
  BY <1>1, NothingPublished DEF QuietMove
<1>2. CASE Crash(n)
  <2>1. \A w \in Worker : pc'[n][w] = "idle"
    BY <1>2 DEF Crash, TypeOK
  <2>2. \A m \in Node \ {n} : pc'[m] = pc[m] /\ work'[m] = work[m]
    BY <1>2 DEF Crash, TypeOK
  <2>3. UNCHANGED <<outbound, shared>>
    BY <1>2 DEF Crash
  <2> QED
    BY <2>1, <2>2, <2>3, VisibleCases
<1>3. CASE UNCHANGED vars
  BY <1>3, VisibleCases DEF vars
<1> QED
  BY <1>1, <1>2, <1>3

\* The loud steps but the publication of a bundle make nothing visible either.
LEMMA LoudVisible ==
    ASSUME TypeOK, StepInv, NEW n \in Node, NEW w \in Worker, LoudStep(n, w)
    PROVE  /\ OnlyMoves(n, w)
           /\ ~PublishOutbound(n, w) => VisibleBundles' \subseteq VisibleBundles
<1> DEFINE Goal == /\ OnlyMoves(n, w)
                   /\ outbound' = outbound
                   /\ shared' = shared \/ shared' \in VisibleBundles
                   /\ pc'[n][w] \in {"share", "import"} => work'[n][w] \in VisibleBundles
<1> USE DEF OnlyMoves, TypeOK, stateFile, Goto, Abandon
<1>1. ASSUME w = "loop", LoopPollPeer(n) PROVE Goal
  BY <1>1 DEF LoopPollPeer
<1>2. ASSUME ExportReserve(n, w) PROVE Goal
  BY <1>2 DEF ExportReserve, ReserveSequence
<1>3. ASSUME GrantReserve(n, w) PROVE Goal
  BY <1>3 DEF GrantReserve, ReserveSequence
<1>4. ASSUME PublishOutbound(n, w) PROVE OnlyMoves(n, w)
  BY <1>4 DEF PublishOutbound
<1>5. ASSUME PublishShared(n, w) PROVE Goal
  <2>1. work[n][w] \in VisibleBundles
    BY <1>5, VisibleCases DEF PublishShared, StepInv
  <2> QED
    BY <1>5, <2>1 DEF PublishShared
<1>12. ASSUME ShareFails(n, w) PROVE Goal
  <2>1. work[n][w] \in VisibleBundles
    BY <1>12, VisibleCases DEF ShareFails, StepInv
  <2> QED
    BY <1>12, <2>1 DEF ShareFails
<1>6. ASSUME Fence(n, w) PROVE Goal
  BY <1>6 DEF Fence
<1>7. ASSUME Surrender(n, w) PROVE Goal
  BY <1>7 DEF Surrender
<1>8. ASSUME FetchBundle(n, w) PROVE Goal
  <2>1. \A b \in Candidates(n) : b \in VisibleBundles
    BY VisibleCases, PeerAssumption DEF Candidates
  <2>2. work'[n][w] \in VisibleBundles
    BY <1>8, <2>1 DEF FetchBundle
  <2> QED
    BY <1>8, <2>2 DEF FetchBundle
<1>9. ASSUME ImportApplied(n, w) PROVE Goal
  BY <1>9 DEF ImportApplied, EndImport
<1>10. ASSUME ImportConflict(n, w) PROVE Goal
  BY <1>10 DEF ImportConflict, EndImport
<1>11. ASSUME AcceptGrant(n, w) PROVE Goal
  BY <1>11 DEF AcceptGrant
<1> QED
  BY <1>1, <1>2, <1>3, <1>4, <1>5, <1>6, <1>7, <1>8, <1>9, <1>10, <1>11, <1>12,
     NothingPublished DEF LoudStep

\* Publishing makes visible the bundle it publishes and nothing else.
LEMMA PublishVisible ==
    ASSUME TypeOK, NEW n \in Node, NEW w \in Worker, PublishOutbound(n, w)
    PROVE  \A b \in VisibleBundles' : b \in VisibleBundles \/ b = work[n][w]
<1>1. \A m \in Node : outbound'[m] = outbound[m] \/ outbound'[m] = work[n][w]
  BY DEF PublishOutbound, TypeOK
<1>2. shared' = shared
  BY DEF PublishOutbound
<1>3. \A m \in Node : \A v \in Worker :
         (m = n /\ v = w) \/ pc'[m][v] = pc[m][v]
  BY DEF PublishOutbound, Goto, TypeOK
<1>4. work' = work
  BY DEF PublishOutbound
<1> QED
  BY <1>1, <1>2, <1>3, <1>4, VisibleCases

\* The applied bundle of a node changes in one step only, the end of a
\* successful import, which is the only worker inside the lock.
LEMMA AppliedChanges ==
    ASSUME TypeOK, LockInv, StepInv, NEW n \in Node, NEW w \in Worker,
           QuietMove(n, w) \/ LoudStep(n, w)
    PROVE  \/ applied' = applied
           \/ /\ ImportApplied(n, w)
              /\ \A m \in Node \ {n} : applied'[m] = applied[m]
              /\ applied'[n] = Id(work[n][w])
              /\ work[n][w] \in Bundle
              /\ \A v \in Worker : pc[n][v] \in {"import", "replace"} => v = w
<1>1. CASE ImportApplied(n, w)
  BY <1>1 DEF ImportApplied, TypeOK, LockInv, Locked, StepInv
<1>2. CASE ~ImportApplied(n, w)
  BY <1>2 DEF QuietMove, LoudStep, LoopPollPeer, ExportReserve, GrantReserve,
     ReserveSequence, PublishOutbound, PublishShared, ShareFails, Fence, Surrender,
     FetchBundle, ImportConflict, AcceptGrant, stateFile
<1> QED
  BY <1>1, <1>2

\* What a worker imports was acceptable when it took the lock, and only its own
\* import changes what the node has applied.
LEMMA ImportStep ==
    ASSUME TypeOK, LockInv, StepInv, ImportInv, Next
    PROVE  ImportInv'
<1>1. ASSUME NEW n \in Node, NEW w \in Worker, QuietMove(n, w) \/ LoudStep(n, w)
      PROVE  ImportInv'
  <2>1. OnlyMoves(n, w)
    BY <1>1, LoudVisible DEF QuietMove
  <2>2. ASSUME NEW m \in Node, NEW v \in Worker, ~(m = n /\ v = w),
               pc'[m][v] \in {"import", "replace"}
        PROVE  applied'[m] = applied[m]
    BY <1>1, <2>1, <2>2, AppliedChanges DEF OnlyMoves
  <2>3. ASSUME NEW m \in Node, NEW v \in Worker, ~(m = n /\ v = w),
               pc'[m][v] \in {"import", "replace"}
        PROVE  /\ work'[m][v].sequence > AppliedSequence(m)'
               /\ pc'[m][v] = "import" /\ work'[m][v].phase = "grant" =>
                     Peer[work'[m][v].source] = m /\ applied'[m] = work'[m][v].prepare
    BY <2>1, <2>2, <2>3 DEF OnlyMoves, ImportInv, AppliedSequence
  <2>4. ASSUME pc'[n][w] \in {"import", "replace"}
        PROVE  /\ work'[n][w].sequence > AppliedSequence(n)'
               /\ pc'[n][w] = "import" /\ work'[n][w].phase = "grant" =>
                     Peer[work'[n][w].source] = n /\ applied'[n] = work'[n][w].prepare
    <3>1. FetchBundle(n, w)
      BY <1>1, <2>4 DEF QuietMove, LoudStep, LoopPollPeer, ExportReserve, GrantReserve,
         ReserveSequence, PublishOutbound, PublishShared, ShareFails, Fence, Surrender,
         ImportApplied, ImportConflict, EndImport, AcceptGrant, Abandon, Goto, TypeOK
    <3>2. PICK b \in Candidates(n) :
             Acceptable(n, w, b) /\ work' = [work EXCEPT ![n][w] = b]
      BY <3>1 DEF FetchBundle
    <3>3. work'[n][w] = b /\ applied' = applied
      BY <3>1, <3>2 DEF FetchBundle, TypeOK, stateFile
    <3>4. pc'[n][w] = "import" => pc[n][w] = "apply"
      BY <3>1 DEF FetchBundle, Goto, TypeOK
    <3>5. b \in Bundle
      BY PeerAssumption DEF Candidates, TypeOK
    <3>6. b.sequence > AppliedSequence(n)
      <4>1. b.sequence > KnownSequence(n)
        BY <3>2 DEF Acceptable, Newer
      <4> QED
        BY <4>1, <3>5, BundleFields, KnownType
    <3>7. AppliedSequence(n)' = AppliedSequence(n)
      BY <3>3 DEF AppliedSequence
    <3> QED
      BY <3>2, <3>3, <3>4, <3>6, <3>7 DEF Acceptable, HandoffMatches
  <2> QED
    BY <2>3, <2>4 DEF ImportInv
<1>2. ASSUME NEW n \in Node, Crash(n) PROVE ImportInv'
  BY <1>2 DEF Crash, ImportInv, TypeOK, stateFile, AppliedSequence
<1> QED
  BY <1>1, <1>2, StepKinds

\* What a node has applied only grows, so a target that has caught up with the
\* preparation of a grant stays caught up.
LEMMA PreparedStays ==
    ASSUME TypeOK, LockInv, StepInv, ImportInv, Next,
           NEW b \in Bundle, PreparedAtTarget(b)
    PROVE  LET target == Peer[b.source]
           IN  /\ b.prepare # None
               /\ applied'[target] # None
               /\ applied'[target].sequence >= b.prepare.sequence
<1> DEFINE target == Peer[b.source]
<1>0. target \in Node /\ b.prepare \in BundleId
  BY BundleFields, PeerAssumption DEF PreparedAtTarget
<1>1. /\ applied[target] # None
      /\ applied[target] \in BundleId
      /\ applied[target].sequence >= b.prepare.sequence
      /\ b.prepare # None
  BY <1>0 DEF PreparedAtTarget, TypeOK
<1>2. ASSUME NEW n \in Node, NEW w \in Worker, QuietMove(n, w) \/ LoudStep(n, w)
      PROVE  applied'[target] # None /\ applied'[target].sequence >= b.prepare.sequence
  <2>1. CASE applied'[target] = applied[target]
    BY <2>1, <1>1
  <2>2. CASE ImportApplied(n, w) /\ target = n /\ applied'[n] = Id(work[n][w])
             /\ work[n][w] \in Bundle
    <3>1. work[n][w].sequence > AppliedSequence(n)
      BY <2>2 DEF ImportApplied, ImportInv
    <3>2. AppliedSequence(n) = applied[n].sequence
      BY <1>1, <2>2 DEF AppliedSequence
    <3>3. /\ applied'[n] # None
          /\ applied'[n].sequence = work[n][w].sequence
          /\ work[n][w].sequence \in Nat
      BY <2>2, BundleFields
    <3>4. applied[n].sequence \in Nat /\ b.prepare.sequence \in Nat
      BY <1>0, <1>1, <2>2 DEF BundleId
    <3> QED
      BY <1>1, <2>2, <3>1, <3>2, <3>3, <3>4
  <2> QED
    BY <1>2, <1>0, <2>1, <2>2, AppliedChanges
<1>3. ASSUME NEW n \in Node, Crash(n) PROVE applied' = applied
  BY <1>3 DEF Crash, stateFile
<1> QED
  BY <1>1, <1>2, <1>3, StepKinds

\* The loop carries a grant past the poll only if its target has applied the
\* preparation.
LEMMA GrantStep ==
    ASSUME TypeOK, LockInv, StepInv, ImportInv, GrantInv, Next
    PROVE  GrantInv'
<1> DEFINE Prepared(b) == LET target == Peer[b.source]
                          IN  /\ b.prepare # None
                              /\ applied'[target] # None
                              /\ applied'[target].sequence >= b.prepare.sequence
<1>0. \A b \in Bundle : PreparedAtTarget(b) => Prepared(b)
  BY PreparedStays
<1>1. ASSUME NEW n \in Node, NEW w \in Worker, QuietMove(n, w) \/ LoudStep(n, w)
      PROVE  \A b \in VisibleBundles' : b.phase = "grant" => Prepared(b)
  <2> SUFFICES ASSUME NEW b \in VisibleBundles', b.phase = "grant" PROVE Prepared(b)
    OBVIOUS
  <2>1. CASE b \in VisibleBundles
    BY <1>0, <2>1, VisibleType DEF GrantInv
  <2>2. CASE PublishOutbound(n, w) /\ b = work[n][w]
    <3>1. w = "loop" /\ b \in Bundle
      BY <2>2 DEF PublishOutbound, StepInv, TypeOK
    <3>2. PreparedAtTarget(b)
      BY <2>2, <3>1 DEF PublishOutbound, GrantInv
    <3> QED
      BY <1>0, <3>1, <3>2
  <2>3. b \in VisibleBundles \/ (PublishOutbound(n, w) /\ b = work[n][w])
    <3>1. CASE ~PublishOutbound(n, w)
      BY <1>1, <3>1, QuietVisible, LoudVisible
    <3>2. CASE PublishOutbound(n, w)
      BY <3>2, PublishVisible
    <3> QED
      BY <3>1, <3>2
  <2> QED
    BY <2>1, <2>2, <2>3
<1>2. ASSUME NEW n \in Node, NEW w \in Worker, QuietMove(n, w) \/ LoudStep(n, w),
             NEW m \in Node,
             pc'[m]["loop"] \in {"fence", "surrender", "export_grant", "publish"},
             work'[m]["loop"].phase = "grant"
      PROVE  Prepared(work'[m]["loop"])
  <2>1. "loop" \in Worker
    BY DEF Worker
  <2>2. CASE ~(m = n /\ w = "loop")
    <3>1. pc'[m]["loop"] = pc[m]["loop"] /\ work'[m]["loop"] = work[m]["loop"]
      BY <1>2, <2>1, <2>2, LoudVisible DEF QuietMove, OnlyMoves
    <3>2. work[m]["loop"] \in Bundle
      BY <1>2, <2>1, <3>1 DEF StepInv, TypeOK
    <3> QED
      BY <1>0, <1>2, <3>1, <3>2 DEF GrantInv
  <2>3. CASE m = n /\ w = "loop"
    <3>1. CASE LoopPollPeer(n)
      <4>1. handoff[n].prepare \in BundleId \cup {None}
        BY HandoffFields DEF TypeOK
      <4>2. work'[n]["loop"] = Draft(n, "grant", handoff[n].prepare) /\ applied' = applied
        BY <2>1, <3>1 DEF LoopPollPeer, TypeOK, stateFile
      <4>3. /\ handoff[n].prepare # None
            /\ applied[Peer[n]] = handoff[n].prepare
        BY <3>1 DEF LoopPollPeer, GrantInv
      <4>4. handoff[n].prepare.sequence >= handoff[n].prepare.sequence
        BY <4>1, <4>3 DEF BundleId
      <4> QED
        BY <2>3, <4>1, <4>2, <4>3, <4>4, DraftType
    <3>2. ASSUME GrantReserve(n, w) \/ Fence(n, w) \/ Surrender(n, w)
          PROVE  /\ work'[n][w].source = work[n][w].source
                 /\ work'[n][w].prepare = work[n][w].prepare
                 /\ work[n][w] \in Bundle
                 /\ PreparedAtTarget(work[n][w])
      <4>1. work[n][w] \in Bundle /\ work[n][w].source = n
        BY <3>2 DEF GrantReserve, Fence, Surrender, StepInv, TypeOK
      <4>2. PreparedAtTarget(work[n][w])
        BY <3>2, <2>3 DEF GrantReserve, Fence, Surrender, StepInv, GrantInv
      <4>3. CASE GrantReserve(n, w)
        BY <4>1, <4>2, <4>3, ReservedWork DEF GrantReserve, ReserveSequence, TypeOK
      <4>4. CASE Fence(n, w) \/ Surrender(n, w)
        BY <4>1, <4>2, <4>4 DEF Fence, Surrender
      <4> QED
        BY <3>2, <4>3, <4>4
    <3>3. CASE GrantReserve(n, w) \/ Fence(n, w) \/ Surrender(n, w)
      BY <1>0, <2>3, <3>2, <3>3
    <3>4. LoopPollPeer(n) \/ GrantReserve(n, w) \/ Fence(n, w) \/ Surrender(n, w)
      <4>1. ~QuietMove(n, w)
        BY <1>2, <2>3 DEF QuietMove
      <4>2. ~ExportReserve(n, w)
        <5>1. SUFFICES ASSUME ExportReserve(n, w) PROVE FALSE
          OBVIOUS
        <5>2. work'[n][w].phase = work[n][w].phase
          BY <5>1, ReservedWork DEF ExportReserve, ReserveSequence, TypeOK
        <5> QED
          BY <1>2, <2>3, <5>1, <5>2 DEF ExportReserve, StepInv
      <4>3. ~(PublishOutbound(n, w) \/ PublishShared(n, w) \/ ShareFails(n, w)
              \/ FetchBundle(n, w) \/ ImportApplied(n, w) \/ ImportConflict(n, w) \/ AcceptGrant(n, w))
        BY <1>2, <2>3 DEF PublishOutbound, PublishShared, ShareFails, FetchBundle, ImportApplied,
           ImportConflict, EndImport, AcceptGrant, Abandon, Goto, TypeOK
      <4> QED
        BY <1>2, <4>1, <4>2, <4>3 DEF LoudStep
    <3> QED
      BY <3>1, <3>3, <3>4
  <2> QED
    BY <2>2, <2>3
<1>3. ASSUME NEW n \in Node, NEW w \in Worker, QuietMove(n, w) \/ LoudStep(n, w),
             NEW m \in Node, handoff'[m].phase = "waiting_for_apply"
      PROVE  handoff'[m].prepare # None
  <2>1. CASE QuietMove(n, w)
    BY <1>3, <2>1 DEF QuietMove, GrantInv
  <2>2. CASE Surrender(n, w) \/ AcceptGrant(n, w)
    <3>1. m # n
      BY <1>3, <2>2 DEF Surrender, AcceptGrant, HandoffAt, TypeOK
    <3>2. handoff'[m] = handoff[m]
      BY <2>2, <3>1 DEF Surrender, AcceptGrant, TypeOK
    <3> QED
      BY <1>3, <3>2 DEF GrantInv
  <2>3. CASE handoff' = handoff
    BY <1>3, <2>3 DEF GrantInv
  <2> QED
    BY <1>3, <2>1, <2>2, <2>3 DEF LoudStep, LoopPollPeer, ExportReserve, GrantReserve,
       ReserveSequence, PublishOutbound, PublishShared, ShareFails, Fence, FetchBundle,
       ImportApplied, ImportConflict, stateFile
<1>4. ASSUME NEW n \in Node, NEW w \in Worker, QuietMove(n, w) \/ LoudStep(n, w)
      PROVE  GrantInv'
  BY <1>1, <1>2, <1>3, <1>4 DEF GrantInv, PreparedAtTarget
<1>5. ASSUME NEW n \in Node, Crash(n) PROVE GrantInv'
  <2>1. VisibleBundles' \subseteq VisibleBundles
    BY <1>5, QuietVisible
  <2>2. applied' = applied /\ handoff' = handoff
    BY <1>5 DEF Crash, stateFile
  <2>3. \A m \in Node : \/ pc'[m]["loop"] = "idle"
                        \/ pc'[m]["loop"] = pc[m]["loop"] /\ work'[m]["loop"] = work[m]["loop"]
    BY <1>5 DEF Crash, TypeOK, Worker
  <2> QED
    BY <2>1, <2>2, <2>3 DEF GrantInv, PreparedAtTarget
<1> QED
  BY <1>4, <1>5, StepKinds

\* A step that adds no claim and no grant in flight leaves at most one token.
LEMMA NoNewToken ==
    ASSUME AuthorityIsOneToken,
           \A n \in Node : \A k \in ClaimKind : Claim(n, k)' => Claim(n, k),
           GrantsInFlight' \subseteq GrantsInFlight
    PROVE  AuthorityIsOneToken'
BY DEF AuthorityIsOneToken

\* A worker that reaches none of the steps that claim authority adds no claim.
LEMMA NoNewClaim ==
    ASSUME NEW n \in Node, NEW w \in Worker, OnlyMoves(n, w),
           authoritative' = authoritative,
           pc'[n][w] # "accept",
           w = "loop" => (Granting(n)' => Granting(n))
    PROVE  \A m \in Node : \A k \in ClaimKind : Claim(m, k)' => Claim(m, k)
<1> SUFFICES ASSUME NEW m \in Node, NEW k \in ClaimKind, Claim(m, k)' PROVE Claim(m, k)
  OBVIOUS
<1>0. "loop" \in Worker
  BY DEF Worker
<1>1. ASSUME k = "granting", Granting(m)' PROVE Granting(m)
  <2>1. CASE m = n /\ w = "loop"
    BY <1>1, <2>1
  <2>2. CASE ~(m = n /\ w = "loop")
    BY <1>0, <1>1, <2>2 DEF OnlyMoves, Granting
  <2> QED
    BY <2>1, <2>2
<1>2. ASSUME k \in Worker, pc'[m][k] = "accept" PROVE pc[m][k] = "accept"
  BY <1>2 DEF OnlyMoves
<1> QED
  BY <1>1, <1>2 DEF Claim

\* A grant that was visible and is in flight after a step was in flight before:
\* its target cannot come back to the preparation it has left behind.
LEMMA FlightKept ==
    ASSUME TypeOK, LockInv, StepInv, ImportInv, GrantInv, NEW n \in Node, NEW w \in Worker,
           QuietMove(n, w) \/ LoudStep(n, w),
           NEW b \in VisibleBundles, b \in GrantsInFlight'
    PROVE  /\ b \in GrantsInFlight
           /\ ImportApplied(n, w) => Peer[b.source] # n \/ applied' = applied
<1> DEFINE target == Peer[b.source]
<1>1. /\ b \in Bundle /\ target \in Node
      /\ b.phase = "grant" /\ applied'[target] = b.prepare
  BY VisibleType DEF GrantsInFlight
<1>2. /\ b.prepare \in BundleId
      /\ applied[target] \in BundleId
      /\ applied[target] # None
      /\ applied[target].sequence >= b.prepare.sequence
  BY <1>1, BundleFields DEF GrantInv, PreparedAtTarget, TypeOK
<1>3. CASE applied'[target] = applied[target] /\ (applied' = applied \/ target # n)
  BY <1>1, <1>3 DEF GrantsInFlight
<1>4. CASE ImportApplied(n, w) /\ target = n /\ applied'[n] = Id(work[n][w])
           /\ work[n][w] \in Bundle
  <2>1. work[n][w].sequence > AppliedSequence(n)
    BY <1>4 DEF ImportApplied, ImportInv
  <2>2. AppliedSequence(n) = applied[n].sequence
    BY <1>2, <1>4 DEF AppliedSequence
  <2>3. b.prepare.sequence = work[n][w].sequence /\ work[n][w].sequence \in Nat
    BY <1>1, <1>4, BundleFields
  <2>4. applied[n].sequence \in Nat
    BY <1>2, <1>4 DEF BundleId
  <2> QED
    BY <1>2, <1>4, <2>1, <2>2, <2>3, <2>4
<1> QED
  BY <1>1, <1>3, <1>4, AppliedChanges

\* The steps that publish nothing and claim nothing.
LEMMA QuietToken ==
    ASSUME TypeOK, LockInv, StepInv, ImportInv, GrantInv, AuthorityIsOneToken,
           NEW n \in Node, NEW w \in Worker, QuietMove(n, w) \/ LoudStep(n, w),
           VisibleBundles' \subseteq VisibleBundles,
           authoritative' = authoritative,
           pc'[n][w] # "accept",
           w = "loop" => (Granting(n)' => Granting(n))
    PROVE  AuthorityIsOneToken'
<1>1. OnlyMoves(n, w)
  BY LoudVisible DEF QuietMove
<1>2. \A m \in Node : \A k \in ClaimKind : Claim(m, k)' => Claim(m, k)
  BY <1>1, NoNewClaim
<1>3. GrantsInFlight' \subseteq GrantsInFlight
  <2> SUFFICES ASSUME NEW b \in GrantsInFlight' PROVE b \in GrantsInFlight
    OBVIOUS
  <2>1. b \in VisibleBundles'
    BY DEF GrantsInFlight
  <2> QED
    BY <2>1, FlightKept
<1> QED
  BY <1>2, <1>3, NoNewToken

\* The step at which a node gives its authority away for the right to grant it.
LEMMA SurrenderToken ==
    ASSUME TypeOK, LockInv, StepInv, ImportInv, GrantInv, AuthorityIsOneToken,
           NEW n \in Node, NEW w \in Worker, Surrender(n, w)
    PROVE  AuthorityIsOneToken'
<1>1. w = "loop" /\ authoritative[n]
  BY DEF Surrender, StepInv
<1>2. LoudStep(n, w) /\ VisibleBundles' \subseteq VisibleBundles /\ OnlyMoves(n, w)
  <2>1. LoudStep(n, w) /\ ~PublishOutbound(n, w)
    BY DEF LoudStep, Surrender, PublishOutbound
  <2> QED
    BY <2>1, LoudVisible
<1>3. Claim(n, "authority") /\ GrantsInFlight = {}
  BY <1>1 DEF Claim, AuthorityIsOneToken, ClaimKind
<1>4. ASSUME NEW m \in Node, NEW k \in ClaimKind, Claim(m, k)'
      PROVE  m = n /\ k = "granting"
  <2>1. ~authoritative'[n] /\ pc'[n]["loop"] = "export_grant"
    BY <1>1 DEF Surrender, Goto, TypeOK
  <2>2. \A j \in ClaimKind : ~(m = n /\ j = "authority") => ~Claim(m, j)
    BY <1>3 DEF AuthorityIsOneToken, ClaimKind
  <2>3. CASE k = "authority" /\ authoritative'[m]
    <3>1. authoritative[m] /\ m # n
      BY <2>1, <2>3 DEF Surrender, TypeOK
    <3> QED
      BY <2>2, <2>3, <3>1 DEF Claim
  <2>4. CASE k = "granting" /\ Granting(m)'
    <3>1. m # n => Granting(m)
      BY <1>1, <1>2, <2>4 DEF OnlyMoves, Granting, Worker
    <3> QED
      BY <2>2, <2>4, <3>1 DEF Claim
  <2>5. CASE k \in Worker /\ pc'[m][k] = "accept"
    <3>1. pc[m][k] = "accept"
      BY <1>1, <1>2, <2>1, <2>5 DEF OnlyMoves
    <3>2. k # "authority"
      BY <2>5, ConfigAssumption DEF Worker
    <3> QED
      BY <2>2, <2>5, <3>1, <3>2 DEF Claim
  <2> QED
    BY <1>4, <2>3, <2>4, <2>5 DEF Claim
<1>5. GrantsInFlight' = {}
  <2> SUFFICES ASSUME NEW b \in GrantsInFlight' PROVE FALSE
    OBVIOUS
  <2>1. b \in VisibleBundles'
    BY DEF GrantsInFlight
  <2> QED
    BY <1>2, <1>3, <2>1, FlightKept
<1> QED
  BY <1>4, <1>5 DEF AuthorityIsOneToken

\* The step at which a node takes up the authority whose grant it imported.
LEMMA AcceptToken ==
    ASSUME TypeOK, LockInv, StepInv, ImportInv, GrantInv, AuthorityIsOneToken,
           NEW n \in Node, NEW w \in Worker, AcceptGrant(n, w)
    PROVE  AuthorityIsOneToken'
<1>1. Claim(n, w) /\ w \in ClaimKind /\ w \notin {"authority", "granting"}
  BY ConfigAssumption DEF AcceptGrant, Claim, ClaimKind, Worker
<1>2. LoudStep(n, w) /\ VisibleBundles' \subseteq VisibleBundles /\ OnlyMoves(n, w)
  <2>1. LoudStep(n, w) /\ ~PublishOutbound(n, w)
    BY DEF LoudStep, AcceptGrant, PublishOutbound
  <2> QED
    BY <2>1, LoudVisible
<1>3. /\ \A m \in Node : \A k \in ClaimKind : Claim(m, k) => m = n /\ k = w
      /\ GrantsInFlight = {}
  BY <1>1 DEF AuthorityIsOneToken
<1>4. ASSUME NEW m \in Node, NEW k \in ClaimKind, Claim(m, k)'
      PROVE  m = n /\ k = "authority"
  <2>1. pc'[n][w] = "enable"
    BY DEF AcceptGrant, Goto, TypeOK
  <2>2. CASE k = "authority" /\ authoritative'[m]
    <3>1. m # n => authoritative[m]
      BY <2>2 DEF AcceptGrant, TypeOK
    <3> QED
      BY <1>1, <1>3, <2>2, <3>1 DEF Claim
  <2>3. CASE k = "granting" /\ Granting(m)'
    <3>1. Granting(m)
      BY <1>2, <2>1, <2>3 DEF OnlyMoves, Granting, Worker
    <3> QED
      BY <1>1, <1>3, <2>3, <3>1 DEF Claim
  <2>4. CASE k \in Worker /\ pc'[m][k] = "accept"
    <3>1. pc[m][k] = "accept" /\ ~(m = n /\ k = w)
      BY <1>2, <2>1, <2>4 DEF OnlyMoves
    <3> QED
      BY <1>3, <2>4, <3>1 DEF Claim
  <2> QED
    BY <1>4, <2>2, <2>3, <2>4 DEF Claim
<1>5. GrantsInFlight' = {}
  <2> SUFFICES ASSUME NEW b \in GrantsInFlight' PROVE FALSE
    OBVIOUS
  <2>1. b \in VisibleBundles'
    BY DEF GrantsInFlight
  <2> QED
    BY <1>2, <1>3, <2>1, FlightKept
<1> QED
  BY <1>4, <1>5 DEF AuthorityIsOneToken

\* The step that turns the right to grant into the visible grant.
LEMMA PublishToken ==
    ASSUME TypeOK, LockInv, StepInv, ImportInv, GrantInv, AuthorityIsOneToken,
           NEW n \in Node, NEW w \in Worker, PublishOutbound(n, w)
    PROVE  AuthorityIsOneToken'
<1>1. LoudStep(n, w) /\ OnlyMoves(n, w)
  BY LoudVisible DEF LoudStep
<1>2. /\ authoritative' = authoritative
      /\ pc'[n][w] \in {"share", "published"}
      /\ work[n][w] \in Bundle /\ work[n][w].source = n
  BY DEF PublishOutbound, Goto, TypeOK, StepInv, stateFile
<1>3. \A m \in Node : \A k \in ClaimKind : Claim(m, k)' => Claim(m, k)
  BY <1>1, <1>2, NoNewClaim DEF Granting
<1>4. \A b \in GrantsInFlight' : b \in GrantsInFlight \/ b = work[n][w]
  <2> SUFFICES ASSUME NEW b \in GrantsInFlight', b # work[n][w] PROVE b \in GrantsInFlight
    OBVIOUS
  <2>1. b \in VisibleBundles
    BY PublishVisible DEF GrantsInFlight
  <2> QED
    BY <1>1, <2>1, FlightKept
<1>5. CASE work[n][w].phase # "grant"
  <2>1. GrantsInFlight' \subseteq GrantsInFlight
    BY <1>4, <1>5 DEF GrantsInFlight
  <2> QED
    BY <1>3, <2>1, NoNewToken
<1>6. CASE work[n][w].phase = "grant"
  <2>1. w = "loop" /\ Claim(n, "granting")
    BY <1>6 DEF PublishOutbound, StepInv, Claim, Granting
  <2>2. /\ \A m \in Node : \A k \in ClaimKind : Claim(m, k) => m = n /\ k = "granting"
        /\ GrantsInFlight = {}
    BY <2>1 DEF AuthorityIsOneToken, ClaimKind
  <2>3. ~Granting(n)'
    BY <1>2, <2>1 DEF Granting
  <2>4. ~Claim(n, "granting")'
    BY <2>3, ConfigAssumption DEF Claim, Worker
  <2>5. \A m \in Node : \A k \in ClaimKind : ~Claim(m, k)'
    BY <1>3, <2>2, <2>4
  <2> QED
    BY <1>4, <2>2, <2>5 DEF AuthorityIsOneToken
<1> QED
  BY <1>5, <1>6

\* The step that ends the import of a grant: the grant is used up, and with it
\* every other grant of its source.
LEMMA ImportToken ==
    ASSUME TypeOK, LockInv, StepInv, ImportInv, GrantInv, AuthorityIsOneToken,
           NEW n \in Node, NEW w \in Worker, ImportApplied(n, w)
    PROVE  AuthorityIsOneToken'
<1>1. LoudStep(n, w) /\ VisibleBundles' \subseteq VisibleBundles /\ OnlyMoves(n, w)
  <2>1. LoudStep(n, w) /\ ~PublishOutbound(n, w)
    BY DEF LoudStep, ImportApplied, PublishOutbound
  <2> QED
    BY <2>1, LoudVisible
<1>2. authoritative' = authoritative /\ ~(w = "loop" /\ Granting(n)')
  BY DEF ImportApplied, EndImport, Goto, TypeOK, Granting
<1>3. CASE pc'[n][w] # "accept"
  BY <1>1, <1>2, <1>3, QuietToken
<1>4. CASE pc'[n][w] = "accept"
  <2>1. /\ pc[n][w] = "import"
        /\ work[n][w] \in Bundle /\ work[n][w].phase = "grant"
    BY <1>4 DEF ImportApplied, EndImport, Goto, TypeOK, StepInv
  <2>2. Peer[work[n][w].source] = n /\ applied[n] = work[n][w].prepare
    BY <2>1 DEF ImportInv
  <2>3. work[n][w] \in GrantsInFlight
    <3>1. work[n][w] \in VisibleBundles
      BY <2>1, VisibleCases, NoneAssumption
    <3> QED
      BY <2>1, <2>2, <3>1 DEF GrantsInFlight
  <2>4. /\ \A m \in Node : \A k \in ClaimKind : ~Claim(m, k)
        /\ \A b \in GrantsInFlight : b.source = work[n][w].source
    BY <2>3 DEF AuthorityIsOneToken
  <2>5. ASSUME NEW m \in Node, NEW k \in ClaimKind, Claim(m, k)'
        PROVE  m = n /\ k = w
    <3>1. ~(k = "authority" /\ authoritative'[m])
      BY <1>2, <2>4, <2>5 DEF Claim, ClaimKind
    <3>2. ~(k = "granting" /\ Granting(m)')
      <4>1. ASSUME k = "granting", Granting(m)' PROVE Granting(m)
        BY <1>1, <1>4, <1>2, <4>1 DEF OnlyMoves, Granting, Worker
      <4> QED
        BY <2>4, <2>5, <4>1 DEF Claim
    <3>3. CASE k \in Worker /\ pc'[m][k] = "accept"
      BY <1>1, <2>4, <3>3 DEF OnlyMoves, Claim
    <3> QED
      BY <2>5, <3>1, <3>2, <3>3 DEF Claim
  <2>6. GrantsInFlight' = {}
    <3> SUFFICES ASSUME NEW b \in GrantsInFlight' PROVE FALSE
      OBVIOUS
    <3>1. b \in VisibleBundles
      BY <1>1 DEF GrantsInFlight
    <3>2. b \in GrantsInFlight /\ (Peer[b.source] # n \/ applied' = applied)
      BY <1>1, <3>1, FlightKept
    <3>3. Peer[b.source] = n
      BY <2>2, <2>4, <3>2
    <3>4. applied' # applied
      <4>1. /\ work[n][w].sequence > AppliedSequence(n)
            /\ work[n][w].sequence \in Nat
        BY <2>1, BundleFields DEF ImportInv
      <4>2. applied'[n] = Id(work[n][w])
        BY DEF ImportApplied, TypeOK
      <4>3. AppliedSequence(n) \in Nat
        BY KnownType
      <4>4. applied[n] # Id(work[n][w])
        BY <2>1, <4>1, <4>3, BundleFields DEF AppliedSequence
      <4> QED
        BY <4>2, <4>4
    <3> QED
      BY <3>2, <3>3, <3>4
  <2> QED
    BY <2>5, <2>6 DEF AuthorityIsOneToken
<1> QED
  BY <1>3, <1>4

\* Authority stays one token across every step, until an import ends in a conflict.
LEMMA TokenStep ==
    ASSUME "conflict" \notin disturbed',
           TypeOK, LockInv, StepInv, ImportInv, GrantInv, AuthorityIsOneToken, Next
    PROVE  AuthorityIsOneToken'
<1>1. ASSUME NEW n \in Node, NEW w \in Worker, QuietMove(n, w) PROVE AuthorityIsOneToken'
  <2>1. /\ VisibleBundles' \subseteq VisibleBundles /\ authoritative' = authoritative
        /\ pc'[n][w] # "accept" /\ (w = "loop" => ~Granting(n)')
    BY <1>1, QuietVisible DEF QuietMove, Granting
  <2> QED
    BY <1>1, <2>1, QuietToken
<1>2. ASSUME NEW n \in Node, NEW w \in Worker, LoudStep(n, w) PROVE AuthorityIsOneToken'
  <2>1. CASE PublishOutbound(n, w) \/ Surrender(n, w) \/ ImportApplied(n, w)
             \/ AcceptGrant(n, w)
    BY <2>1, PublishToken, SurrenderToken, ImportToken, AcceptToken
  <2>3. ASSUME \/ w = "loop" /\ LoopPollPeer(n)
               \/ PublishShared(n, w) \/ ShareFails(n, w) \/ Fence(n, w) \/ FetchBundle(n, w)
        PROVE  /\ authoritative' = authoritative /\ ~PublishOutbound(n, w)
               /\ pc'[n][w] \notin {"accept", "export_grant", "publish"}
    BY <2>3 DEF LoopPollPeer, PublishShared, ShareFails, Fence, FetchBundle, PublishOutbound,
       Abandon, Goto, TypeOK, stateFile, Worker
  <2>4. ASSUME ExportReserve(n, w) \/ GrantReserve(n, w)
        PROVE  /\ authoritative' = authoritative /\ ~PublishOutbound(n, w)
               /\ pc'[n][w] # "accept"
               /\ w = "loop" => (Granting(n)' => Granting(n))
    <3>1. pc[n][w] \in {"export", "export_grant"} /\ pc'[n][w] = "publish"
          /\ authoritative' = authoritative
      BY <2>4 DEF ExportReserve, GrantReserve, ReserveSequence, Goto, TypeOK
    <3>2. work'[n][w].phase = work[n][w].phase
      BY <2>4, <3>1, ReservedWork DEF ExportReserve, GrantReserve, ReserveSequence, TypeOK
    <3>3. pc[n][w] = "export" => work[n][w].phase # "grant"
      BY DEF StepInv
    <3> QED
      BY <3>1, <3>2, <3>3 DEF Granting, PublishOutbound
  <2>5. ASSUME \/ w = "loop" /\ LoopPollPeer(n)
               \/ PublishShared(n, w) \/ ShareFails(n, w) \/ Fence(n, w) \/ FetchBundle(n, w)
               \/ ExportReserve(n, w) \/ GrantReserve(n, w)
        PROVE  AuthorityIsOneToken'
    <3>1. /\ authoritative' = authoritative /\ ~PublishOutbound(n, w)
          /\ pc'[n][w] # "accept"
          /\ w = "loop" => (Granting(n)' => Granting(n))
      BY <2>3, <2>4, <2>5 DEF Granting
    <3>2. VisibleBundles' \subseteq VisibleBundles
      BY <1>2, <3>1, LoudVisible
    <3> QED
      BY <1>2, <3>1, <3>2, QuietToken
  <2> QED
    BY <1>2, <2>1, <2>5 DEF LoudStep
<1>3. ASSUME NEW n \in Node, Crash(n) PROVE AuthorityIsOneToken'
  <2>1. VisibleBundles' \subseteq VisibleBundles
    BY <1>3, QuietVisible
  <2>2. authoritative' = authoritative /\ applied' = applied
    BY <1>3 DEF Crash, stateFile
  <2>3. \A m \in Node : \A v \in Worker :
           pc'[m][v] = "idle" \/ (pc'[m][v] = pc[m][v] /\ work'[m][v] = work[m][v])
    BY <1>3 DEF Crash, TypeOK
  <2>4. \A m \in Node : \A k \in ClaimKind : Claim(m, k)' => Claim(m, k)
    BY <2>2, <2>3 DEF Claim, Granting, Worker
  <2>5. GrantsInFlight' \subseteq GrantsInFlight
    BY <2>1, <2>2 DEF GrantsInFlight
  <2> QED
    BY <2>4, <2>5, NoNewToken
<1> QED
  BY <1>1, <1>2, <1>3, StepKinds

\* The initial state: one authority, nothing published.
LEMMA HandoffInit == Init => HandoffInv
<1> SUFFICES ASSUME Init PROVE HandoffInv
  OBVIOUS
<1>1. TypeOK /\ LockInv /\ StepInv /\ SequenceInv
  BY PlannedInit
<1>2. VisibleBundles = {}
  <2> SUFFICES ASSUME NEW b \in VisibleBundles PROVE FALSE
    OBVIOUS
  <2> QED
    BY VisibleCases DEF Init
<1>3. GrantInv
  BY <1>2 DEF GrantInv, Init, HandoffAt, Worker
<1>4. ImportInv
  BY DEF ImportInv, Init
<1>5. AuthorityIsOneToken
  <2>1. \A n \in Node : \A k \in ClaimKind : Claim(n, k) => n = Main /\ k = "authority"
    BY ConfigAssumption DEF Claim, Granting, Init, Worker, ClaimKind
  <2>2. GrantsInFlight = {}
    BY <1>2 DEF GrantsInFlight
  <2> QED
    BY <2>1, <2>2 DEF AuthorityIsOneToken
<1> QED
  BY <1>1, <1>3, <1>4, <1>5 DEF HandoffInv

\* A step that changes nothing changes no part of the invariant.
LEMMA HandoffStutter == HandoffInv /\ UNCHANGED <<vars, disturbed>> => HandoffInv'
<1> SUFFICES ASSUME HandoffInv, UNCHANGED <<vars, disturbed>> PROVE HandoffInv'
  OBVIOUS
<1>1. TypeOK' /\ LockInv' /\ StepInv' /\ SequenceInv'
  BY TypeStep, LockStep, StepInvStep, SequenceStep DEF HandoffInv
<1>2. UNCHANGED <<VisibleBundles, GrantsInFlight>>
  BY DEF vars, VisibleBundles, GrantsInFlight
<1>3. GrantInv' /\ ImportInv'
  BY <1>2 DEF HandoffInv, GrantInv, PreparedAtTarget, ImportInv, AppliedSequence, vars
<1>4. \A n \in Node : \A k \in ClaimKind : Claim(n, k)' = Claim(n, k)
  BY DEF Claim, Granting, vars
<1>5. AuthorityIsOneToken'
  BY <1>2, <1>4, NoNewToken DEF HandoffInv
<1> QED
  BY <1>1, <1>3, <1>5 DEF HandoffInv

\* The invariant of the handoff is inductive until an import ends in a conflict:
\* locks, sequences, imports, grants and the one token of authority, through
\* loops, operators and crashes.
THEOREM HandoffInvariant == Spec => []("conflict" \notin disturbed => HandoffInv)
<1> DEFINE I == "conflict" \notin disturbed => HandoffInv
<1>1. I /\ [Next]_<<vars, disturbed>> => I'
  <2> SUFFICES ASSUME HandoffInv, [Next]_<<vars, disturbed>>, "conflict" \notin disturbed'
               PROVE  HandoffInv'
    BY HistoryGrows
  <2>1. CASE UNCHANGED <<vars, disturbed>>
    BY <2>1, HandoffStutter
  <2>2. CASE Next
    <3>1. TypeOK' /\ LockInv' /\ StepInv' /\ SequenceInv'
      BY <2>2, TypeStep, LockStep, StepInvStep, SequenceStep DEF HandoffInv
    <3>2. GrantInv' /\ ImportInv' /\ AuthorityIsOneToken'
      BY <2>2, GrantStep, ImportStep, TokenStep DEF HandoffInv
    <3> QED
      BY <3>1, <3>2 DEF HandoffInv
  <2> QED
    BY <2>1, <2>2
<1> QED
  BY <1>1, HandoffInit, PTL DEF Spec

\* Where no import can end in a conflict, none is noted.
LEMMA NoConflict ==
    ASSUME "conflict" \notin ApplyOutcomes
    PROVE  Spec => []("conflict" \notin disturbed)
<1>1. Init => "conflict" \notin disturbed
  BY DEF Init
<1>2. TypeOK /\ "conflict" \notin disturbed /\ [Next]_<<vars, disturbed>>
        => ("conflict" \notin disturbed)'
  <2> SUFFICES ASSUME TypeOK, "conflict" \notin disturbed, Next
               PROVE  "conflict" \notin disturbed'
    OBVIOUS
  <2>1. CASE disturbed' = disturbed
    BY <2>1
  <2>2. ASSUME NEW n \in Node, NEW w \in Operator, OperatorStart(n, w), Note(OperationOf(pc'[n][w]))
        PROVE  "conflict" \notin disturbed'
    <3>1. OperationOf(pc'[n][w]) \in Operations
      BY <2>2 DEF OperatorStart, Goto, TypeOK, Worker
    <3> QED
      BY <2>2, <3>1, ConfigAssumption DEF Note, OperatorActions
  <2>3. Note("export_now") => "conflict" \notin disturbed'
    BY DEF Note
  <2>4. \A n \in Node, w \in Worker : ~ImportConflict(n, w)
    BY DEF ImportConflict
  <2> QED
    BY <2>1, <2>2, <2>3, <2>4 DEF Next
<1> QED
  BY <1>1, <1>2, TypeCorrect, PTL DEF Spec

\* "Never allow two nodes to become authoritative writers at once", for every
\* cluster, peer graph, transport, set of faults and number of crashes: two state
\* files never both claim the authority, until an import ends in a conflict.
THEOREM SingleAuthority == Spec => []("conflict" \notin disturbed => AtMostOneAuthority)
<1>1. HandoffInv => AtMostOneAuthority
  BY DEF HandoffInv, AtMostOneAuthority, AuthorityIsOneToken, Claim, ClaimKind
<1> QED
  BY <1>1, HandoffInvariant, PTL

-----------------------------------------------------------------------------
(* 3. The authority knows the newest bundle.                                 *)

\* Only a reservation numbers a bundle, only the loop and an operator's export
\* start one, and only a surrender takes authority from a node.
LEMMA OtherMoves ==
    ASSUME TypeOK, NEW n \in Node, NEW w \in Worker, Continue(n, w),
           ~ExportReserve(n, w), ~GrantReserve(n, w)
    PROVE  /\ OnlyMoves(n, w)
           /\ exported' = exported
           /\ pc'[n][w] \notin {"export", "publish"}
           /\ ~Surrender(n, w) => \A m \in Node : authoritative[m] => authoritative'[m]
           /\ ~ImportApplied(n, w) => applied' = applied
<1> USE DEF TypeOK, OnlyMoves, Goto, Abandon, stateFile
<1> DEFINE Goal == /\ OnlyMoves(n, w)
                   /\ exported' = exported
                   /\ pc'[n][w] \notin {"export", "publish"}
                   /\ ~Surrender(n, w) => \A m \in Node : authoritative[m] => authoritative'[m]
                   /\ ~ImportApplied(n, w) => applied' = applied
<1>1. CASE PublishOutbound(n, w) \/ PublishShared(n, w) \/ PublishFails(n, w)
           \/ ShareFails(n, w) \/ FinishExport(n, w)
  BY <1>1 DEF PublishOutbound, PublishShared, PublishFails, ShareFails, FinishExport
<1>2. CASE RecordRequest(n, w) \/ RecordPrepare(n, w) \/ RecordGrant(n, w) \/ GrantLost(n, w)
  BY <1>2 DEF RecordRequest, RecordPrepare, RecordGrant, GrantLost
<1>3. CASE Fence(n, w) \/ FenceFails(n, w) \/ Surrender(n, w)
  BY <1>3 DEF Fence, FenceFails, Surrender
<1>4. CASE FetchBundle(n, w) \/ FetchNothing(n, w)
  BY <1>4 DEF FetchBundle, FetchNothing
<1>5. CASE ImportApplied(n, w) \/ ImportConflict(n, w) \/ ImportFails(n, w)
  BY <1>5 DEF ImportApplied, ImportConflict, ImportFails, EndImport
<1>6. CASE EnableServing(n, w) \/ EnableVip(n, w)
  BY <1>6 DEF EnableServing, EnableVip
<1>9. CASE AcceptGrant(n, w)
  <2>1. /\ OnlyMoves(n, w) /\ exported' = exported /\ applied' = applied
        /\ pc'[n][w] \notin {"export", "publish"}
        /\ authoritative' = [authoritative EXCEPT ![n] = TRUE]
    BY <1>9 DEF AcceptGrant
  <2>2. \A m \in Node : authoritative[m] => authoritative'[m]
    BY <2>1
  <2> QED
    BY <2>1, <2>2
<1>7. CASE KeepVip(n, w) \/ AcquireRefused(n, w) \/ ProbeVip(n, w) \/ AddVip(n, w)
           \/ AddVipFails(n, w)
  BY <1>7 DEF KeepVip, AcquireRefused, ProbeVip, AddVip, AddVipFails
<1>8. CASE ReleaseVip(n, w) \/ SetProxyReadiness(n, w)
  BY <1>8 DEF ReleaseVip, SetProxyReadiness
<1> QED
  BY <1>1, <1>2, <1>3, <1>4, <1>5, <1>6, <1>7, <1>8, <1>9 DEF Continue, Proceed

\* A reservation numbers the bundle above all that its node knows.
LEMMA ReserveMoves ==
    ASSUME TypeOK, StepInv, NEW n \in Node, NEW w \in Worker,
           ExportReserve(n, w) \/ GrantReserve(n, w)
    PROVE  /\ OnlyMoves(n, w)
           /\ UNCHANGED <<authoritative, applied>>
           /\ exported' = [exported EXCEPT ![n] = KnownSequence(n) + 1]
           /\ pc[n][w] \in {"export", "export_grant"} /\ pc'[n][w] = "publish"
           /\ work'[n][w].phase = work[n][w].phase
           /\ lock[n] = None
<1>1. /\ pc[n][w] \in {"export", "export_grant"} /\ pc'[n][w] = "publish"
      /\ UNCHANGED <<authoritative, applied>>
      /\ exported' = [exported EXCEPT ![n] = KnownSequence(n) + 1]
      /\ OnlyMoves(n, w) /\ lock[n] = None
  BY DEF ExportReserve, GrantReserve, ReserveSequence, Goto, TypeOK, OnlyMoves, Unlocked
<1>2. work'[n][w].phase = work[n][w].phase
  BY <1>1, ReservedWork DEF ExportReserve, GrantReserve, ReserveSequence, TypeOK
<1> QED
  BY <1>1, <1>2

\* Until an operator exports, the exporting loop keeps the authority it exports by.
LEMMA ExporterStep ==
    ASSUME "export_now" \notin disturbed', TypeOK, LockInv, StepInv, ExporterInv, Next
    PROVE  ExporterInv'
<1>0. "loop" \in Worker
  BY DEF Worker
<1>1. ASSUME NEW n \in Node, NEW w \in Worker, w = "loop", LoopCycle(n) PROVE ExporterInv'
  <2>1. UNCHANGED <<applied, exported>> /\ OnlyMoves(n, w)
        /\ authoritative' = authoritative /\ pc'[n][w] # "publish"
    BY <1>1 DEF LoopCycle, LoopPrepare, LoopPollPeer, LoopExport, LoopImport, BeginExport,
                Goto, TypeOK, OnlyMoves, stateFile
  <2>2. pc'[n][w] = "export" => authoritative[n]
    BY <1>1 DEF LoopCycle, LoopPrepare, LoopPollPeer, LoopExport, LoopImport, BeginExport,
                Goto, TypeOK
  <2>3. \A m \in Node : AppliedSequence(m)' = AppliedSequence(m)
    BY <2>1 DEF AppliedSequence
  <2>4. ASSUME NEW m \in Node, NEW v \in Worker, pc'[m][v] \in {"export", "publish"}
        PROVE  /\ v = "loop" /\ (work'[m][v].phase # "grant" => authoritative[m])
               /\ pc'[m][v] = "publish" => AppliedSequence(m) < exported[m]
    <3>1. CASE m = n /\ v = w
      BY <1>1, <2>1, <2>2, <2>4, <3>1
    <3>2. CASE ~(m = n /\ v = w)
      BY <2>1, <2>4, <3>2 DEF ExporterInv, OnlyMoves
    <3> QED
      BY <3>1, <3>2
  <2> QED
    BY <2>1, <2>3, <2>4 DEF ExporterInv
<1>2. ASSUME NEW n \in Node, NEW w \in Operator, OperatorStart(n, w) PROVE ExporterInv'
  <2>1. UNCHANGED <<authoritative, applied, exported>> /\ OnlyMoves(n, w) /\ w \in Worker
        /\ pc'[n][w] \notin {"export", "publish"}
    BY <1>2 DEF OperatorStart, Goto, TypeOK, OnlyMoves, Worker, stateFile
  <2> QED
    BY <2>1 DEF ExporterInv, OnlyMoves, AppliedSequence
<1>3. ASSUME NEW n \in Node, NEW w \in Worker, ExportReserve(n, w) \/ GrantReserve(n, w)
      PROVE  ExporterInv'
  <2>1. /\ OnlyMoves(n, w) /\ UNCHANGED <<authoritative, applied>>
        /\ exported' = [exported EXCEPT ![n] = KnownSequence(n) + 1]
        /\ pc[n][w] \in {"export", "export_grant"} /\ pc'[n][w] = "publish"
        /\ work'[n][w].phase = work[n][w].phase
    BY <1>3, ReserveMoves
  <2>2. w = "loop" /\ (work[n][w].phase # "grant" => authoritative[n])
    BY <2>1 DEF ExporterInv, StepInv
  <2>3. AppliedSequence(n) < exported'[n] /\ exported'[n] \in Nat
    <3>1. exported'[n] = KnownSequence(n) + 1
      BY <2>1 DEF TypeOK
    <3> QED
      BY <3>1, KnownType
  <2>4. \A m \in Node \ {n} : exported'[m] = exported[m]
    BY <2>1 DEF TypeOK
  <2>5. AppliedSequence(n)' = AppliedSequence(n)
    BY <2>1 DEF AppliedSequence
  <2>6. \A m \in Node : \A v \in Worker : ~(m = n /\ v = w) =>
           pc'[m][v] = pc[m][v] /\ work'[m][v] = work[m][v]
    BY <2>1 DEF OnlyMoves
  <2>7. \A m \in Node : AppliedSequence(m)' = AppliedSequence(m)
    BY <2>1 DEF AppliedSequence
  <2>8. ASSUME NEW m \in Node, NEW v \in Worker, pc'[m][v] \in {"export", "publish"}
        PROVE  /\ v = "loop" /\ (work'[m][v].phase # "grant" => authoritative[m])
               /\ pc'[m][v] = "publish" => AppliedSequence(m) < exported'[m]
    <3>1. CASE m = n /\ v = w
      BY <2>1, <2>2, <2>3, <3>1
    <3>2. CASE m = n /\ v # w
      BY <2>3, <2>6, <2>8, <3>2 DEF ExporterInv
    <3>3. CASE m # n
      BY <2>4, <2>6, <2>8, <3>3 DEF ExporterInv
    <3> QED
      BY <3>1, <3>2, <3>3
  <2> QED
    BY <2>1, <2>7, <2>8 DEF ExporterInv
<1>4. ASSUME NEW n \in Node, NEW w \in Worker, Continue(n, w),
             ~ExportReserve(n, w), ~GrantReserve(n, w)
      PROVE  ExporterInv'
  <2>1. /\ OnlyMoves(n, w) /\ exported' = exported
        /\ pc'[n][w] \notin {"export", "publish"}
        /\ ~Surrender(n, w) => \A m \in Node : authoritative[m] => authoritative'[m]
        /\ ~ImportApplied(n, w) => applied' = applied
    BY <1>4, OtherMoves
  <2>2. CASE Surrender(n, w)
    <3>1. w = "loop" /\ \A m \in Node \ {n} : authoritative'[m] = authoritative[m]
      BY <2>2 DEF Surrender, StepInv, TypeOK
    <3>2. ~ImportApplied(n, w)
      BY <2>2 DEF Surrender, ImportApplied
    <3> QED
      BY <2>1, <3>1, <3>2 DEF ExporterInv, OnlyMoves, AppliedSequence
  <2>3. CASE ImportApplied(n, w)
    <3>1. /\ \A m \in Node \ {n} : applied'[m] = applied[m]
          /\ \A v \in Worker : pc[n][v] # "publish"
          /\ ~Surrender(n, w)
      BY <2>3 DEF ImportApplied, TypeOK, LockInv, Locked, Surrender
    <3> QED
      BY <2>1, <3>1 DEF ExporterInv, OnlyMoves, AppliedSequence
  <2>4. CASE ~Surrender(n, w) /\ ~ImportApplied(n, w)
    BY <2>1, <2>4 DEF ExporterInv, OnlyMoves, AppliedSequence
  <2> QED
    BY <2>2, <2>3, <2>4
<1>5. ASSUME NEW n \in Node, Crash(n) PROVE ExporterInv'
  <2>1. /\ UNCHANGED <<authoritative, applied, exported>>
        /\ \A m \in Node : \A v \in Worker :
              pc'[m][v] = "idle" \/ (pc'[m][v] = pc[m][v] /\ work'[m][v] = work[m][v])
    BY <1>5 DEF Crash, TypeOK, stateFile
  <2> QED
    BY <2>1 DEF ExporterInv, AppliedSequence
<1> QED
  BY <1>0, <1>1, <1>2, <1>3, <1>4, <1>5 DEF Next, Continue, Note, Disturbance

\* The sequences on disk only grow.
LEMMA ExportedGrows ==
    ASSUME TypeOK, StepInv, Next PROVE \A m \in Node : exported[m] <= exported'[m]
<1>1. CASE exported' = exported
  BY <1>1 DEF TypeOK
<1>2. ASSUME NEW n \in Node, LoopCycle(n) \/ Crash(n) PROVE exported' = exported
  BY <1>2 DEF LoopCycle, LoopPrepare, LoopPollPeer, LoopExport, LoopImport, BeginExport,
              Crash, stateFile
<1>3. ASSUME NEW n \in Node, NEW w \in Operator, OperatorExport(n, w) \/ OperatorStart(n, w)
      PROVE  exported' = exported
  BY <1>3 DEF OperatorExport, OperatorStart, BeginExport, stateFile
<1>4. ASSUME NEW n \in Node, NEW w \in Worker, Continue(n, w) PROVE
        \A m \in Node : exported[m] <= exported'[m]
  <2>1. CASE ExportReserve(n, w) \/ GrantReserve(n, w)
    <3>1. exported' = [exported EXCEPT ![n] = KnownSequence(n) + 1]
      BY <2>1, ReserveMoves
    <3>2. KnownSequence(n) \in Nat /\ exported[n] <= KnownSequence(n)
      BY KnownType
    <3>3. exported \in [Node -> Nat]
      BY DEF TypeOK
    <3> QED
      BY <3>1, <3>2, <3>3
  <2>2. CASE ~(ExportReserve(n, w) \/ GrantReserve(n, w))
    BY <1>1, <1>4, <2>2, OtherMoves
  <2> QED
    BY <2>1, <2>2
<1> QED
  BY <1>1, <1>2, <1>3, <1>4 DEF Next, Continue

\* What a node knows only grows: by a reservation or by an import of something newer.
LEMMA KnownGrows ==
    ASSUME TypeOK, TypeOK', LockInv, StepInv, ImportInv,
           NEW n \in Node, NEW w \in Worker, QuietMove(n, w) \/ LoudStep(n, w),
           \A m \in Node : exported[m] <= exported'[m]
    PROVE  \A m \in Node : KnownSequence(m) <= KnownSequence(m)'
<1> SUFFICES ASSUME NEW m \in Node PROVE KnownSequence(m) <= KnownSequence(m)'
  OBVIOUS
<1>1. /\ exported[m] \in Nat /\ exported'[m] \in Nat
      /\ AppliedSequence(m) \in Nat /\ AppliedSequence(m)' \in Nat
  BY KnownType DEF TypeOK, AppliedSequence, BundleId
<1>2. exported[m] <= exported'[m]
  OBVIOUS
<1>3. AppliedSequence(m) <= AppliedSequence(m)'
  <2>1. CASE applied'[m] = applied[m]
    BY <1>1, <2>1 DEF AppliedSequence
  <2>2. CASE m = n /\ ImportApplied(n, w) /\ applied'[n] = Id(work[n][w]) /\ work[n][w] \in Bundle
    <3>1. work[n][w].sequence > AppliedSequence(n) /\ work[n][w].sequence \in Nat
      BY <2>2, BundleFields DEF ImportApplied, ImportInv
    <3>2. AppliedSequence(n)' = work[n][w].sequence
      BY <2>2, BundleFields DEF AppliedSequence
    <3> QED
      BY <1>1, <2>2, <3>1, <3>2
  <2> QED
    BY <2>1, <2>2, AppliedChanges
<1> QED
  BY <1>1, <1>2, <1>3 DEF KnownSequence
\* What is served is what nodes serve, what the shared store holds, and what a
\* worker is about to put there: now, and after any step.
LEMMA ServedCases ==
    /\ \A b : b \in ServedBundles <=>
          /\ b # None
          /\ \/ b = shared
             \/ \E n \in Node : b = outbound[n]
             \/ \E n \in Node : \E w \in Worker : pc[n][w] = "share" /\ b = work[n][w]
    /\ \A b : b \in ServedBundles' <=>
          /\ b # None
          /\ \/ b = shared'
             \/ \E n \in Node : b = outbound'[n]
             \/ \E n \in Node : \E w \in Worker : pc'[n][w] = "share" /\ b = work'[n][w]
BY DEF ServedBundles

\* Served bundles are bundles.
LEMMA ServedType == ASSUME TypeOK, NEW b \in ServedBundles PROVE b \in Bundle
BY ServedCases DEF TypeOK

\* Only a publication adds to what is served.
LEMMA ServedKept ==
    ASSUME TypeOK, StepInv, NEW n \in Node, NEW w \in Worker, QuietMove(n, w) \/ LoudStep(n, w)
    PROVE  IF PublishOutbound(n, w)
           THEN \A b \in ServedBundles' : b \in ServedBundles \/ b = work[n][w]
           ELSE ServedBundles' \subseteq ServedBundles
<1>0. OnlyMoves(n, w)
  BY LoudVisible DEF QuietMove
<1>1. CASE QuietMove(n, w) /\ ~PublishOutbound(n, w)
  BY <1>0, <1>1, ServedCases DEF QuietMove, OnlyMoves
<1>2. CASE PublishOutbound(n, w)
  <2>1. /\ \A m \in Node : outbound'[m] = outbound[m] \/ outbound'[m] = work[n][w]
        /\ shared' = shared /\ work' = work
    BY <1>2 DEF PublishOutbound, TypeOK
  <2> QED
    BY <1>0, <1>2, <2>1, ServedCases DEF OnlyMoves
<1>3. CASE LoudStep(n, w) /\ ~PublishOutbound(n, w)
  <2>1. CASE PublishShared(n, w) \/ ShareFails(n, w)
    <3>1. /\ outbound' = outbound /\ pc'[n][w] # "share"
          /\ shared' = shared \/ shared' = work[n][w]
          /\ pc[n][w] = "share" /\ work[n][w] # None
      BY <2>1 DEF PublishShared, ShareFails, Abandon, Goto, TypeOK, StepInv
    <3>2. work[n][w] \in ServedBundles
      BY <3>1, ServedCases
    <3> QED
      BY <1>0, <1>3, <3>1, <3>2, ServedCases DEF OnlyMoves
  <2>2. CASE ~(PublishShared(n, w) \/ ShareFails(n, w))
    <3>1. UNCHANGED <<outbound, shared>> /\ pc'[n][w] # "share"
      BY <1>3, <2>2 DEF LoudStep, LoopPollPeer, ExportReserve, GrantReserve, ReserveSequence,
         Fence, Surrender, FetchBundle, ImportApplied, ImportConflict, EndImport, AcceptGrant,
         Goto, TypeOK, stateFile
    <3> QED
      BY <1>0, <1>3, <3>1, ServedCases DEF OnlyMoves
  <2> QED
    BY <2>1, <2>2
<1> QED
  BY <1>1, <1>2, <1>3

\* A step that serves nothing new, and passes every claim on within its node.
LEMMA NewestKept ==
    ASSUME TypeOK, TypeOK', NewestInv,
           ServedBundles' \subseteq ServedBundles,
           GrantsInFlight' \subseteq GrantsInFlight,
           \A m \in Node : KnownSequence(m) <= KnownSequence(m)',
           \A m \in Node : \A k \in ClaimKind : Claim(m, k)' => \E j \in ClaimKind : Claim(m, j)
    PROVE  NewestInv'
<1>1. ASSUME NEW m \in Node, NEW k \in ClaimKind, Claim(m, k)', NEW b \in ServedBundles'
      PROVE  b.sequence <= KnownSequence(m)'
  <2>1. b \in ServedBundles /\ b.sequence <= KnownSequence(m)
    BY <1>1 DEF NewestInv
  <2>2. b.sequence \in Nat /\ KnownSequence(m) \in Nat
    BY <2>1, ServedType, BundleFields, KnownType
  <2>3. KnownSequence(m)' \in Nat
    BY DEF TypeOK, KnownSequence, AppliedSequence, BundleId
  <2> QED
    BY <2>1, <2>2, <2>3
<1>2. ASSUME NEW g \in GrantsInFlight', NEW b \in ServedBundles'
      PROVE  b.sequence <= g.sequence
  BY <1>2 DEF NewestInv
<1> QED
  BY <1>1, <1>2 DEF NewestInv

\* The steps that publish nothing and end no import of a grant.
LEMMA QuietNewest ==
    ASSUME TypeOK, TypeOK', LockInv, StepInv, ImportInv, GrantInv, NewestInv,
           NEW n \in Node, NEW w \in Worker, QuietMove(n, w) \/ LoudStep(n, w),
           ~PublishOutbound(n, w),
           \A m \in Node : exported[m] <= exported'[m],
           \A m \in Node : \A k \in ClaimKind : Claim(m, k)' => \E j \in ClaimKind : Claim(m, j)
    PROVE  NewestInv'
<1>1. VisibleBundles' \subseteq VisibleBundles
  BY QuietVisible, LoudVisible
<1>2. GrantsInFlight' \subseteq GrantsInFlight
  <2> SUFFICES ASSUME NEW b \in GrantsInFlight' PROVE b \in GrantsInFlight
    OBVIOUS
  <2>1. b \in VisibleBundles
    BY <1>1 DEF GrantsInFlight
  <2> QED
    BY <2>1, FlightKept
<1>3. ServedBundles' \subseteq ServedBundles
  BY ServedKept
<1>4. \A m \in Node : KnownSequence(m) <= KnownSequence(m)'
  BY KnownGrows
<1> QED
  BY <1>2, <1>3, <1>4, NewestKept
\* A surrender and an acceptance pass a claim on within their node.
LEMMA ClaimPassed ==
    ASSUME TypeOK, StepInv, NEW n \in Node, NEW w \in Worker,
           Surrender(n, w) \/ AcceptGrant(n, w)
    PROVE  \A m \in Node : \A k \in ClaimKind : Claim(m, k)' => \E j \in ClaimKind : Claim(m, j)
<1> SUFFICES ASSUME NEW m \in Node, NEW k \in ClaimKind, Claim(m, k)'
             PROVE  \E j \in ClaimKind : Claim(m, j)
  OBVIOUS
<1>0. "loop" \in Worker /\ OnlyMoves(n, w)
  BY LoudVisible DEF LoudStep, Worker
<1>1. CASE m = n
  <2>1. CASE Surrender(n, w)
    BY <1>1, <2>1 DEF Surrender, StepInv, Claim, ClaimKind
  <2>2. CASE AcceptGrant(n, w)
    BY <1>1, <2>2 DEF AcceptGrant, Claim, ClaimKind
  <2> QED
    BY <2>1, <2>2
<1>2. CASE m # n
  <2>1. authoritative'[m] = authoritative[m]
    BY <1>2 DEF Surrender, AcceptGrant, TypeOK
  <2>2. \A v \in Worker : pc'[m][v] = pc[m][v] /\ work'[m][v] = work[m][v]
    BY <1>0, <1>2 DEF OnlyMoves
  <2>3. Claim(m, k)
    BY <1>0, <2>1, <2>2 DEF Claim, Granting
  <2> QED
    BY <2>3
<1> QED
  BY <1>1, <1>2

\* What a node publishes is the newest of all: it holds the token of authority,
\* and what it reserved is above everything it knows.
LEMMA PublishNewest ==
    ASSUME TypeOK, TypeOK', LockInv, StepInv, SequenceInv, ImportInv, GrantInv,
           AuthorityIsOneToken, ExporterInv, NewestInv,
           NEW n \in Node, NEW w \in Worker, PublishOutbound(n, w)
    PROVE  NewestInv'
<1>1. LoudStep(n, w) /\ OnlyMoves(n, w)
  BY LoudVisible DEF LoudStep
<1>2. /\ UNCHANGED <<authoritative, exported, applied>> /\ pc[n][w] = "publish" /\ w = "loop"
      /\ pc'[n][w] \in {"share", "published"}
      /\ work[n][w] \in Bundle /\ work[n][w].sequence = exported[n]
      /\ KnownSequence(n) = exported[n] /\ exported[n] \in Nat
  <2>1. /\ UNCHANGED <<authoritative, exported, applied>> /\ pc[n][w] = "publish" /\ w = "loop"
        /\ pc'[n][w] \in {"share", "published"}
        /\ work[n][w] \in Bundle
        /\ exported[n] \in Nat
    BY DEF PublishOutbound, Goto, TypeOK, StepInv, ExporterInv, stateFile
  <2>2. work[n][w].sequence = exported[n] /\ AppliedSequence(n) < exported[n]
    BY <2>1 DEF SequenceInv, ExporterInv
  <2>3. KnownSequence(n) = exported[n]
    BY <2>1, <2>2, KnownType DEF KnownSequence
  <2> QED
    BY <2>1, <2>2, <2>3
<1>3. \E j \in ClaimKind : Claim(n, j)
  <2>1. CASE work[n][w].phase = "grant"
    BY <1>2, <2>1 DEF Claim, ClaimKind, Granting
  <2>2. CASE work[n][w].phase # "grant"
    BY <1>2, <2>2 DEF Claim, ClaimKind, ExporterInv
  <2> QED
    BY <2>1, <2>2
<1>4. \A b \in ServedBundles' : b.sequence <= exported[n]
  BY <1>2, <1>3, ServedKept, <1>1 DEF NewestInv
<1>5. ASSUME NEW m \in Node, NEW k \in ClaimKind, Claim(m, k)'
      PROVE  m = n
  <2>1. Claim(m, k)
    BY <1>1, <1>2, <1>5, NoNewClaim DEF Granting
  <2> QED
    BY <1>3, <2>1 DEF AuthorityIsOneToken
<1>6. ASSUME NEW g \in GrantsInFlight' PROVE g = work[n][w]
  <2>1. g \in VisibleBundles \/ g = work[n][w]
    BY PublishVisible DEF GrantsInFlight
  <2>2. GrantsInFlight = {}
    BY <1>3 DEF AuthorityIsOneToken
  <2> QED
    BY <1>1, <2>1, <2>2, FlightKept
<1>7. KnownSequence(n)' = exported[n]
  BY <1>2 DEF KnownSequence, AppliedSequence
<1> QED
  BY <1>2, <1>4, <1>5, <1>6, <1>7 DEF NewestInv

\* Who imports a grant then knows the sequence of the grant, the newest of all.
LEMMA ImportNewest ==
    ASSUME TypeOK, TypeOK', LockInv, StepInv, ImportInv, GrantInv, AuthorityIsOneToken, NewestInv,
           NEW n \in Node, NEW w \in Worker, ImportApplied(n, w),
           \A m \in Node : exported[m] <= exported'[m]
    PROVE  NewestInv'
<1>1. LoudStep(n, w) /\ ~PublishOutbound(n, w) /\ OnlyMoves(n, w)
  <2>1. LoudStep(n, w) /\ ~PublishOutbound(n, w)
    BY DEF LoudStep, ImportApplied, PublishOutbound
  <2> QED
    BY <2>1, LoudVisible
<1>2. authoritative' = authoritative /\ ~(w = "loop" /\ Granting(n)')
  BY DEF ImportApplied, EndImport, Goto, TypeOK, Granting
<1>3. CASE pc'[n][w] # "accept"
  <2>1. \A m \in Node : \A k \in ClaimKind : Claim(m, k)' => Claim(m, k)
    BY <1>1, <1>2, <1>3, NoNewClaim
  <2> QED
    BY <1>1, <2>1, QuietNewest
<1>4. CASE pc'[n][w] = "accept"
  <2>1. /\ pc[n][w] = "import"
        /\ work[n][w] \in Bundle /\ work[n][w].phase = "grant"
    BY <1>4 DEF ImportApplied, EndImport, Goto, TypeOK, StepInv
  <2>2. Peer[work[n][w].source] = n /\ applied[n] = work[n][w].prepare
    BY <2>1 DEF ImportInv
  <2>3. work[n][w] \in GrantsInFlight
    <3>1. work[n][w] \in VisibleBundles
      BY <2>1, VisibleCases, NoneAssumption
    <3> QED
      BY <2>1, <2>2, <3>1 DEF GrantsInFlight
  <2>4. \A m \in Node : \A k \in ClaimKind : ~Claim(m, k)
    BY <2>3 DEF AuthorityIsOneToken
  <2>5. ASSUME NEW m \in Node, m # n, NEW k \in ClaimKind PROVE ~Claim(m, k)'
    <3>1. \A v \in Worker : pc'[m][v] = pc[m][v] /\ work'[m][v] = work[m][v]
      BY <1>1, <2>5 DEF OnlyMoves
    <3>2. Claim(m, k)' => Claim(m, k)
      BY <1>2, <3>1 DEF Claim, Granting, Worker
    <3> QED
      BY <2>4, <3>2
  <2>6. KnownSequence(n)' >= work[n][w].sequence
    <3>1. applied'[n] = Id(work[n][w])
      BY DEF ImportApplied, TypeOK
    <3>2. AppliedSequence(n)' = work[n][w].sequence /\ work[n][w].sequence \in Nat
      BY <2>1, <3>1, BundleFields DEF AppliedSequence
    <3>3. exported'[n] \in Nat
      BY DEF TypeOK
    <3> QED
      BY <3>2, <3>3 DEF KnownSequence
  <2>7. ServedBundles' \subseteq ServedBundles
    BY <1>1, ServedKept
  <2>8. ASSUME NEW k \in ClaimKind, NEW b \in ServedBundles' PROVE b.sequence <= KnownSequence(n)'
    <3>1. b.sequence <= work[n][w].sequence
      BY <2>3, <2>7 DEF NewestInv
    <3>2. b.sequence \in Nat /\ work[n][w].sequence \in Nat
      BY <2>1, <2>7, ServedType, BundleFields
    <3>3. KnownSequence(n)' \in Nat
      BY DEF TypeOK, KnownSequence, AppliedSequence, BundleId
    <3> QED
      BY <2>6, <3>1, <3>2, <3>3
  <2>9. GrantsInFlight' \subseteq GrantsInFlight
    <3> SUFFICES ASSUME NEW b \in GrantsInFlight' PROVE b \in GrantsInFlight
      OBVIOUS
    <3>1. b \in VisibleBundles
      BY <1>1, LoudVisible DEF GrantsInFlight
    <3> QED
      BY <1>1, <3>1, FlightKept
  <2> QED
    BY <2>5, <2>7, <2>8, <2>9 DEF NewestInv
<1> QED
  BY <1>3, <1>4
\* The claims and the knowledge behind them, across every step.
LEMMA NewestStep ==
    ASSUME "conflict" \notin disturbed', HandoffInv, TypeOK', ExporterInv, NewestInv, Next
    PROVE  NewestInv'
<1> USE DEF HandoffInv
<1>0. \A m \in Node : exported[m] <= exported'[m]
  BY ExportedGrows
<1>1. ASSUME NEW n \in Node, NEW w \in Worker, QuietMove(n, w) PROVE NewestInv'
  <2>1. OnlyMoves(n, w) /\ authoritative' = authoritative
        /\ pc'[n][w] # "accept" /\ (w = "loop" => ~Granting(n)')
    BY <1>1 DEF QuietMove, Granting
  <2>2. \A m \in Node : \A k \in ClaimKind : Claim(m, k)' => Claim(m, k)
    BY <2>1, NoNewClaim
  <2>3. CASE ~PublishOutbound(n, w)
    BY <1>0, <1>1, <2>2, <2>3, QuietNewest
  <2> QED
    BY <2>3, PublishNewest
<1>2. ASSUME NEW n \in Node, NEW w \in Worker, LoudStep(n, w) PROVE NewestInv'
  <2>0. OnlyMoves(n, w)
    BY <1>2, LoudVisible
  <2>1. CASE PublishOutbound(n, w)
    BY <2>1, PublishNewest
  <2>2. CASE ImportApplied(n, w)
    BY <1>0, <2>2, ImportNewest
  <2>3. CASE Surrender(n, w) \/ AcceptGrant(n, w)
    <3>1. \A m \in Node : \A k \in ClaimKind :
             Claim(m, k)' => \E j \in ClaimKind : Claim(m, j)
      BY <2>3, ClaimPassed
    <3>2. ~PublishOutbound(n, w)
      BY <2>3 DEF Surrender, AcceptGrant, PublishOutbound
    <3> QED
      BY <1>0, <1>2, <3>1, <3>2, QuietNewest
  <2>4. ASSUME \/ w = "loop" /\ LoopPollPeer(n)
               \/ PublishShared(n, w) \/ ShareFails(n, w) \/ Fence(n, w) \/ FetchBundle(n, w)
        PROVE  /\ authoritative' = authoritative /\ ~PublishOutbound(n, w)
               /\ pc'[n][w] \notin {"accept", "export_grant", "publish"}
    BY <2>4 DEF LoopPollPeer, PublishShared, ShareFails, Fence, FetchBundle, PublishOutbound,
       Abandon, Goto, TypeOK, stateFile, Worker
  <2>5. ASSUME ExportReserve(n, w) \/ GrantReserve(n, w)
        PROVE  /\ authoritative' = authoritative /\ ~PublishOutbound(n, w)
               /\ pc'[n][w] # "accept"
               /\ w = "loop" => (Granting(n)' => Granting(n))
    <3>1. /\ authoritative' = authoritative
          /\ pc[n][w] \in {"export", "export_grant"} /\ pc'[n][w] = "publish"
          /\ work'[n][w].phase = work[n][w].phase
      BY <2>5, ReserveMoves
    <3>2. pc[n][w] = "export" => work[n][w].phase # "grant"
      BY DEF StepInv
    <3> QED
      BY <3>1, <3>2 DEF Granting, PublishOutbound
  <2>6. ASSUME \/ w = "loop" /\ LoopPollPeer(n)
               \/ PublishShared(n, w) \/ ShareFails(n, w) \/ Fence(n, w) \/ FetchBundle(n, w)
               \/ ExportReserve(n, w) \/ GrantReserve(n, w)
        PROVE  NewestInv'
    <3>1. /\ authoritative' = authoritative /\ ~PublishOutbound(n, w)
          /\ pc'[n][w] # "accept"
          /\ w = "loop" => (Granting(n)' => Granting(n))
      BY <2>4, <2>5, <2>6 DEF Granting
    <3>2. \A m \in Node : \A k \in ClaimKind : Claim(m, k)' => Claim(m, k)
      BY <2>0, <3>1, NoNewClaim
    <3> QED
      BY <1>0, <1>2, <3>1, <3>2, QuietNewest
  <2> QED
    BY <1>2, <2>1, <2>2, <2>3, <2>6 DEF LoudStep
<1>3. ASSUME NEW n \in Node, Crash(n) PROVE NewestInv'
  <2>1. UNCHANGED <<authoritative, exported, applied, outbound, shared>>
    BY <1>3 DEF Crash, stateFile
  <2>2. \A m \in Node : \A v \in Worker :
           pc'[m][v] = "idle" \/ (pc'[m][v] = pc[m][v] /\ work'[m][v] = work[m][v])
    BY <1>3 DEF Crash, TypeOK
  <2>3. \A m \in Node : \A k \in ClaimKind : Claim(m, k)' => Claim(m, k)
    BY <2>1, <2>2 DEF Claim, Granting, Worker
  <2>4. GrantsInFlight' \subseteq GrantsInFlight
    BY <1>3, <2>1, QuietVisible DEF GrantsInFlight
  <2>5. ServedBundles' \subseteq ServedBundles
    BY <2>1, <2>2, ServedCases
  <2>6. \A m \in Node : KnownSequence(m)' = KnownSequence(m) /\ KnownSequence(m) \in Nat
    BY <2>1, KnownType DEF KnownSequence, AppliedSequence
  <2>7. \A m \in Node : KnownSequence(m) <= KnownSequence(m)'
    BY <2>6
  <2> QED
    BY <2>3, <2>4, <2>5, <2>7, NewestKept
<1> QED
  BY <1>1, <1>2, <1>3, StepKinds

\* The sequence an authority will use next is above every bundle any node serves
\* or the store holds: for every cluster, transport, set of faults and number of
\* crashes, until an operator exports by hand or an import ends in a conflict.
THEOREM KnowsNewest == Spec => []KnowsNewestUnlessExported
<1> DEFINE Quiet == "conflict" \notin disturbed /\ "export_now" \notin disturbed
           Known == "conflict" \notin disturbed => HandoffInv
           I == Quiet => ExporterInv /\ NewestInv
<1>1. Init => I
  <2> SUFFICES ASSUME Init PROVE ExporterInv /\ NewestInv
    OBVIOUS
  <2>1. ServedBundles = {}
    <3>1. ASSUME NEW b \in ServedBundles PROVE FALSE
      BY <3>1, ServedCases DEF Init
    <3> QED
      BY <3>1
  <2> QED
    BY <2>1 DEF Init, ExporterInv, NewestInv
<1>2. Known /\ Known' /\ I /\ [Next]_<<vars, disturbed>> => I'
  <2> SUFFICES ASSUME HandoffInv, HandoffInv', ExporterInv, NewestInv,
                      [Next]_<<vars, disturbed>>, Quiet'
               PROVE  ExporterInv' /\ NewestInv'
    BY HistoryGrows
  <2>1. CASE Next
    BY <2>1, ExporterStep, NewestStep DEF HandoffInv
  <2>2. CASE UNCHANGED <<vars, disturbed>>
    <3>1. ServedBundles' = ServedBundles
      BY <2>2 DEF ServedBundles, vars
    <3>2. GrantsInFlight' = GrantsInFlight
      BY <2>2 DEF GrantsInFlight, VisibleBundles, vars
    <3>3. \A n \in Node : /\ KnownSequence(n)' = KnownSequence(n)
                          /\ \A k \in ClaimKind : Claim(n, k)' => Claim(n, k)
      BY <2>2 DEF vars, KnownSequence, AppliedSequence, Claim, Granting
    <3>4. ExporterInv'
      BY <2>2 DEF vars, ExporterInv, AppliedSequence
    <3> QED
      BY <3>1, <3>2, <3>3, <3>4 DEF NewestInv
  <2> QED
    BY <2>1, <2>2
<1>3. NewestInv => AuthorityKnowsNewest
  <2> SUFFICES ASSUME NewestInv, NEW n \in Node, authoritative[n],
                      NEW b \in ({outbound[m] : m \in Node} \cup {shared}) \ {None}
               PROVE  b.sequence <= KnownSequence(n)
    BY DEF AuthorityKnowsNewest
  <2>1. Claim(n, "authority") /\ "authority" \in ClaimKind /\ b \in ServedBundles
    BY DEF Claim, ClaimKind, ServedBundles
  <2> QED
    BY <2>1 DEF NewestInv
<1>4. I => KnowsNewestUnlessExported
  BY <1>3 DEF KnowsNewestUnlessExported
<1>5. Spec => []Known
  BY HandoffInvariant
<1> QED
  BY <1>1, <1>2, <1>4, <1>5, PTL DEF Spec

-----------------------------------------------------------------------------
(* 4. The handoff implements the token of authority.                         *)

\* The token is at one place: one node's state file, one node's grant or one
\* node's acceptance.
LEMMA TokenIsSingle == AuthorityIsOneToken => \A x \in TokenPlaces : TokenPlaces = {x}
<1> SUFFICES ASSUME AuthorityIsOneToken, NEW x \in TokenPlaces PROVE TokenPlaces = {x}
  OBVIOUS
<1>1. ASSUME NEW m \in Node, authoritative[m]
      PROVE  /\ \A n \in Node : authoritative[n] => n = m
             /\ \A n \in Node : ~GivesAuthority(n) /\ ~TakesAuthority(n)
  <2>1. Claim(m, "authority") /\ {"authority", "granting"} \subseteq ClaimKind
    BY <1>1 DEF Claim, ClaimKind
  <2>2. /\ \A n \in Node : \A k \in ClaimKind : Claim(n, k) => m = n /\ k = "authority"
        /\ GrantsInFlight = {}
    BY <2>1 DEF AuthorityIsOneToken
  <2>3. ASSUME NEW n \in Node, Granting(n) PROVE FALSE
    <3>1. Claim(n, "granting")
      BY <2>3 DEF Claim
    <3> QED
      BY <2>1, <2>2, <3>1
  <2>4. ASSUME NEW n \in Node, TakesAuthority(n) PROVE FALSE
    <3>1. PICK w \in Worker : pc[n][w] = "accept"
      BY <2>4 DEF TakesAuthority
    <3>2. w \in ClaimKind /\ Claim(n, w) /\ w # "authority"
      BY <3>1, ConfigAssumption DEF Claim, ClaimKind, Worker
    <3> QED
      BY <2>2, <3>2
  <2>5. \A n \in Node : authoritative[n] => Claim(n, "authority")
    BY DEF Claim
  <2> QED
    BY <2>1, <2>2, <2>3, <2>4, <2>5 DEF GivesAuthority
<1>2. ASSUME NEW m \in Node, TakesAuthority(m)
      PROVE  \A n \in Node : (TakesAuthority(n) => n = m) /\ ~GivesAuthority(n)
  <2>1. PICK w \in Worker : pc[m][w] = "accept"
    BY <1>2 DEF TakesAuthority
  <2>2. w \in ClaimKind /\ "granting" \in ClaimKind /\ w # "granting" /\ Claim(m, w)
    BY <2>1, ConfigAssumption DEF Claim, ClaimKind, Worker
  <2>3. /\ \A n \in Node : \A k \in ClaimKind : Claim(n, k) => m = n /\ k = w
        /\ GrantsInFlight = {}
    BY <2>2 DEF AuthorityIsOneToken
  <2>4. \A n \in Node : TakesAuthority(n) => \E k \in ClaimKind : Claim(n, k)
    BY DEF TakesAuthority, Claim, ClaimKind
  <2>5. \A n \in Node : Granting(n) => Claim(n, "granting")
    BY DEF Claim
  <2> QED
    BY <2>2, <2>3, <2>4, <2>5 DEF GivesAuthority
<1>3. ASSUME NEW m \in Node, NEW n \in Node, GivesAuthority(m), GivesAuthority(n) PROVE n = m
  <2>1. "granting" \in ClaimKind /\ \A l \in Node : Granting(l) => Claim(l, "granting")
    BY DEF Claim, ClaimKind
  <2> QED
    BY <1>3, <2>1 DEF GivesAuthority, AuthorityIsOneToken
<1> QED
  BY <1>1, <1>2, <1>3 DEF TokenPlaces

\* It is so after a step too.
LEMMA TokenStaysSingle ==
    AuthorityIsOneToken' => \A x \in TokenPlaces' : TokenPlaces' = {x}
<1>1. (AuthorityIsOneToken => \A x \in TokenPlaces : TokenPlaces = {x})'
  BY TokenIsSingle, PTL
<1> QED
  BY <1>1

\* A step that adds no place keeps the token where it is or loses it on its way.
LEMMA TokenKeptOrLost ==
    ASSUME AuthorityIsOneToken,
           \A n \in Node : /\ authoritative'[n] = authoritative[n]
                           /\ GivesAuthority(n)' => GivesAuthority(n)
                           /\ TakesAuthority(n)' => TakesAuthority(n)
    PROVE  Token!Next \/ TokenPlaces' = TokenPlaces
<1>1. TokenPlaces' \subseteq TokenPlaces
  BY DEF TokenPlaces
<1>2. \A n \in Node : authoritative[n] => <<"held", n>> \in TokenPlaces'
  BY DEF TokenPlaces
<1>3. CASE TokenPlaces = {}
  BY <1>1, <1>3
<1>4. ASSUME NEW x \in TokenPlaces PROVE Token!Next \/ TokenPlaces' = TokenPlaces
  <2>1. TokenPlaces = {x}
    BY TokenIsSingle
  <2>2. CASE x \in TokenPlaces'
    BY <1>1, <2>1, <2>2
  <2>3. CASE x \notin TokenPlaces'
    <3>1. TokenPlaces' = {}
      BY <1>1, <2>1, <2>3
    <3>2. PICK n \in Node : x \in {<<"given", n>>, <<"taken", n>>}
      BY <1>2, <2>3 DEF TokenPlaces
    <3>3. Token!Lose(n)
      BY <2>1, <3>1, <3>2 DEF Token!Lose
    <3> QED
      BY <3>3 DEF Token!Next
  <2> QED
    BY <2>2, <2>3
<1> QED
  BY <1>3, <1>4

\* The grants in flight are not seen to grow by a step that publishes nothing, and
\* the claims not by one that reaches none of their steps.
LEMMA QuietPlaces ==
    ASSUME HandoffInv, NEW n \in Node, NEW w \in Worker, QuietMove(n, w) \/ LoudStep(n, w),
           ~PublishOutbound(n, w), authoritative' = authoritative, pc'[n][w] # "accept",
           w = "loop" => (Granting(n)' => Granting(n))
    PROVE  Token!Next \/ TokenPlaces' = TokenPlaces
<1> USE DEF HandoffInv
<1>1. OnlyMoves(n, w) /\ VisibleBundles' \subseteq VisibleBundles
  BY LoudVisible, QuietVisible DEF QuietMove
<1>2. GrantsInFlight' \subseteq GrantsInFlight
  <2> SUFFICES ASSUME NEW b \in GrantsInFlight' PROVE b \in GrantsInFlight
    OBVIOUS
  <2>1. b \in VisibleBundles
    BY <1>1 DEF GrantsInFlight
  <2> QED
    BY <2>1, FlightKept
<1>3. \A m \in Node : /\ Granting(m)' => Granting(m)
                      /\ TakesAuthority(m)' => TakesAuthority(m)
  BY <1>1 DEF OnlyMoves, Granting, TakesAuthority, Worker
<1>4. \A m \in Node : GivesAuthority(m)' => GivesAuthority(m)
  BY <1>2, <1>3 DEF GivesAuthority
<1> QED
  BY <1>3, <1>4, TokenKeptOrLost

\* A surrender gives the token, an acceptance makes it the node's own.
LEMMA GiveAndAccept ==
    ASSUME HandoffInv, HandoffInv', NEW n \in Node, NEW w \in Worker,
           Surrender(n, w) \/ AcceptGrant(n, w)
    PROVE  Token!Next
<1> USE DEF HandoffInv
<1>1. CASE Surrender(n, w)
  <2>1. authoritative[n] /\ w = "loop" /\ pc'[n]["loop"] = "export_grant"
    BY <1>1 DEF Surrender, StepInv, Goto, TypeOK
  <2>2. <<"held", n>> \in TokenPlaces /\ <<"given", n>> \in TokenPlaces'
    BY <2>1 DEF TokenPlaces, GivesAuthority, Granting
  <2>3. TokenPlaces = {<<"held", n>>} /\ TokenPlaces' = {<<"given", n>>}
    BY <2>2, TokenIsSingle, TokenStaysSingle
  <2> QED
    BY <2>3 DEF Token!Next, Token!Give
<1>2. CASE AcceptGrant(n, w)
  <2>1. pc[n][w] = "accept" /\ authoritative'[n]
    BY <1>2 DEF AcceptGrant, TypeOK
  <2>2. <<"taken", n>> \in TokenPlaces /\ <<"held", n>> \in TokenPlaces'
    BY <2>1 DEF TokenPlaces, TakesAuthority
  <2>3. TokenPlaces = {<<"taken", n>>} /\ TokenPlaces' = {<<"held", n>>}
    BY <2>2, TokenIsSingle, TokenStaysSingle
  <2> QED
    BY <2>3 DEF Token!Next, Token!Accept
<1> QED
  BY <1>1, <1>2

\* What a node publishes is the grant it held back, or takes none along.
LEMMA PublishPlaces ==
    ASSUME HandoffInv, NEW n \in Node, NEW w \in Worker, PublishOutbound(n, w)
    PROVE  Token!Next \/ TokenPlaces' = TokenPlaces
<1> USE DEF HandoffInv
<1>1. LoudStep(n, w) /\ OnlyMoves(n, w)
  BY LoudVisible DEF LoudStep
<1>2. /\ authoritative' = authoritative
      /\ pc[n][w] = "publish" /\ pc'[n][w] \in {"share", "published"}
      /\ work[n][w] \in Bundle /\ work[n][w].source = n
  BY DEF PublishOutbound, Goto, TypeOK, StepInv, stateFile
<1>3. \A m \in Node : /\ Granting(m)' => Granting(m)
                      /\ TakesAuthority(m)' => TakesAuthority(m)
  BY <1>1, <1>2 DEF OnlyMoves, Granting, TakesAuthority, Worker
<1>4. ASSUME NEW b \in GrantsInFlight' PROVE GivesAuthority(b.source)
  <2>1. CASE b = work[n][w]
    <3>1. b.phase = "grant"
      BY DEF GrantsInFlight
    <3>2. w = "loop"
      BY <1>2, <2>1, <3>1 DEF StepInv
    <3> QED
      BY <1>2, <2>1, <3>1, <3>2 DEF GivesAuthority, Granting
  <2>2. CASE b # work[n][w]
    <3>1. b \in VisibleBundles
      BY <2>2, PublishVisible DEF GrantsInFlight
    <3>2. b \in GrantsInFlight
      BY <1>1, <3>1, FlightKept
    <3> QED
      BY <3>2 DEF GivesAuthority
  <2> QED
    BY <2>1, <2>2
<1>5. \A m \in Node : GivesAuthority(m)' => GivesAuthority(m)
  BY <1>3, <1>4 DEF GivesAuthority
<1> QED
  BY <1>2, <1>3, <1>5, TokenKeptOrLost

\* The import of a grant takes the token from the node that gave it.
LEMMA ImportPlaces ==
    ASSUME HandoffInv, HandoffInv', NEW n \in Node, NEW w \in Worker, ImportApplied(n, w)
    PROVE  Token!Next \/ TokenPlaces' = TokenPlaces
<1> USE DEF HandoffInv
<1>1. LoudStep(n, w) /\ ~PublishOutbound(n, w)
  BY DEF LoudStep, ImportApplied, PublishOutbound
<1>2. authoritative' = authoritative /\ ~(w = "loop" /\ Granting(n)')
  BY DEF ImportApplied, EndImport, Goto, TypeOK, Granting
<1>3. CASE pc'[n][w] # "accept"
  BY <1>1, <1>2, <1>3, QuietPlaces
<1>4. CASE pc'[n][w] = "accept"
  <2> DEFINE b == work[n][w]
  <2>1. pc[n][w] = "import" /\ b \in Bundle /\ b.phase = "grant" /\ b.source \in Node
    BY <1>4, BundleFields DEF ImportApplied, EndImport, Goto, TypeOK, StepInv
  <2>2. Peer[b.source] = n /\ applied[n] = b.prepare
    BY <2>1 DEF ImportInv
  <2>3. b \in GrantsInFlight
    <3>1. b \in VisibleBundles
      BY <2>1, VisibleCases, NoneAssumption
    <3> QED
      BY <2>1, <2>2, <3>1 DEF GrantsInFlight
  <2>4. <<"given", b.source>> \in TokenPlaces
    BY <2>1, <2>3 DEF TokenPlaces, GivesAuthority
  <2>5. <<"taken", n>> \in TokenPlaces'
    BY <1>4 DEF TokenPlaces, TakesAuthority
  <2>6. TokenPlaces = {<<"given", b.source>>} /\ TokenPlaces' = {<<"taken", n>>}
    BY <2>4, <2>5, TokenIsSingle, TokenStaysSingle
  <2>7. Token!Take(b.source)
    BY <2>2, <2>6 DEF Token!Take
  <2> QED
    BY <2>1, <2>7 DEF Token!Next
<1> QED
  BY <1>3, <1>4

\* Every step but a conflict passes the token on, loses it or leaves it.
LEMMA TokenMoves ==
    ASSUME "conflict" \notin disturbed', HandoffInv, HandoffInv', Next
    PROVE  Token!Next \/ TokenPlaces' = TokenPlaces
<1> USE DEF HandoffInv
<1>1. ASSUME NEW n \in Node, NEW w \in Worker, QuietMove(n, w)
      PROVE  Token!Next \/ TokenPlaces' = TokenPlaces
  <2>1. authoritative' = authoritative /\ pc'[n][w] # "accept" /\ (w = "loop" => ~Granting(n)')
    BY <1>1 DEF QuietMove, Granting
  <2>2. CASE PublishOutbound(n, w)
    BY <2>2, PublishPlaces
  <2>3. CASE ~PublishOutbound(n, w)
    BY <1>1, <2>1, <2>3, QuietPlaces
  <2> QED
    BY <2>2, <2>3
<1>2. ASSUME NEW n \in Node, NEW w \in Worker, LoudStep(n, w)
      PROVE  Token!Next \/ TokenPlaces' = TokenPlaces
  <2>1. CASE PublishOutbound(n, w) \/ Surrender(n, w) \/ ImportApplied(n, w)
             \/ AcceptGrant(n, w)
    BY <2>1, PublishPlaces, GiveAndAccept, ImportPlaces
  <2>2. ASSUME \/ w = "loop" /\ LoopPollPeer(n)
               \/ PublishShared(n, w) \/ ShareFails(n, w) \/ Fence(n, w) \/ FetchBundle(n, w)
        PROVE  Token!Next \/ TokenPlaces' = TokenPlaces
    <3>1. /\ authoritative' = authoritative /\ ~PublishOutbound(n, w)
          /\ pc'[n][w] \notin {"accept", "export_grant", "publish"}
      BY <2>2 DEF LoopPollPeer, PublishShared, ShareFails, Fence, FetchBundle, PublishOutbound,
         Abandon, Goto, TypeOK, stateFile, Worker
    <3> QED
      BY <1>2, <3>1, QuietPlaces DEF Granting
  <2>3. ASSUME ExportReserve(n, w) \/ GrantReserve(n, w)
        PROVE  Token!Next \/ TokenPlaces' = TokenPlaces
    <3>1. /\ authoritative' = authoritative
          /\ pc[n][w] \in {"export", "export_grant"} /\ pc'[n][w] = "publish"
          /\ work'[n][w].phase = work[n][w].phase
      BY <2>3, ReserveMoves
    <3>2. pc[n][w] = "export" => work[n][w].phase # "grant"
      BY DEF StepInv
    <3>3. ~PublishOutbound(n, w) /\ (w = "loop" => (Granting(n)' => Granting(n)))
      BY <3>1, <3>2 DEF Granting, PublishOutbound
    <3> QED
      BY <1>2, <3>1, <3>3, QuietPlaces
  <2> QED
    BY <1>2, <2>1, <2>2, <2>3 DEF LoudStep
<1>3. ASSUME NEW n \in Node, Crash(n) PROVE Token!Next \/ TokenPlaces' = TokenPlaces
  <2>1. VisibleBundles' \subseteq VisibleBundles
    BY <1>3, QuietVisible
  <2>2. authoritative' = authoritative /\ applied' = applied
    BY <1>3 DEF Crash, stateFile
  <2>3. \A m \in Node : \A v \in Worker :
           pc'[m][v] = "idle" \/ (pc'[m][v] = pc[m][v] /\ work'[m][v] = work[m][v])
    BY <1>3 DEF Crash, TypeOK
  <2>4. \A m \in Node : /\ Granting(m)' => Granting(m)
                        /\ TakesAuthority(m)' => TakesAuthority(m)
    BY <2>3 DEF Granting, TakesAuthority, Worker
  <2>5. GrantsInFlight' \subseteq GrantsInFlight
    BY <2>1, <2>2 DEF GrantsInFlight
  <2>6. \A m \in Node : GivesAuthority(m)' => GivesAuthority(m)
    BY <2>4, <2>5 DEF GivesAuthority
  <2> QED
    BY <2>2, <2>4, <2>6, TokenKeptOrLost
<1> QED
  BY <1>1, <1>2, <1>3, StepKinds

\* The handoff implements the token of authority: for every cluster, peer graph,
\* transport, set of faults and number of crashes, every behaviour in which no
\* import ends in a conflict is one of AuthorityToken, seen through TokenPlaces.
THEOREM AuthorityIsPassedOn ==
    Spec => ([]("conflict" \notin disturbed) => AuthorityPassesOn)
<1>1. Init => Token!Init
  <2> SUFFICES ASSUME Init PROVE Token!Init
    OBVIOUS
  <2>1. <<"held", Main>> \in TokenPlaces
    BY PeerAssumption DEF Init, TokenPlaces
  <2>2. AuthorityIsOneToken
    BY HandoffInit DEF HandoffInv
  <2> QED
    BY <2>1, <2>2, TokenIsSingle DEF Token!Init
<1>2. ("conflict" \notin disturbed)' /\ HandoffInv /\ HandoffInv' /\ [Next]_<<vars, disturbed>>
        => [Token!Next]_TokenPlaces
  <2> SUFFICES ASSUME "conflict" \notin disturbed', HandoffInv, HandoffInv',
                      [Next]_<<vars, disturbed>>
               PROVE  Token!Next \/ TokenPlaces' = TokenPlaces
    OBVIOUS
  <2>1. CASE UNCHANGED <<vars, disturbed>>
    BY <2>1 DEF vars, TokenPlaces, GivesAuthority, TakesAuthority, Granting, GrantsInFlight,
       VisibleBundles
  <2> QED
    BY <2>1, TokenMoves
<1> QED
  BY <1>1, <1>2, HandoffInvariant, PTL DEF Spec, AuthorityPassesOn, Token!Spec

\* Where no import can end in a conflict, none is noted: the premise of the theorems
\* above holds of every behaviour, and authority is one token, passed on or lost.
THEOREM OneToken ==
    ASSUME "conflict" \notin ApplyOutcomes
    PROVE  Spec => []("conflict" \notin disturbed) /\ AuthorityPassesOn
BY NoConflict, AuthorityIsPassedOn, PTL

-----------------------------------------------------------------------------
(* 5. A granting node is fenced.                                             *)

\* The steps from which a worker brings a node's clients online.
Serves(n, w) == pc[n][w] \in {"enable", "acquire_vip", "add_vip"}

\* The loop has fenced the node and has not yet published its grant.
Fenced(n) ==
    \/ pc[n]["loop"] \in {"surrender", "export_grant"}
    \/ pc[n]["loop"] = "publish" /\ work[n]["loop"].phase = "grant"

\* The loop is about to record a preparation, with which a handoff goes on.
Prepares(n) ==
    /\ pc[n]["loop"] \in {"export", "publish", "share", "published", "record"}
    /\ work[n]["loop"].phase = "prepare"

\* A fenced node stays off the VIP: whoever brings clients online does so while the
\* node is authoritative, and when it is an operator, no handoff is under way.
FenceInvOf(n) ==
    /\ ~authoritative[n] /\ outbound[n] # None /\ outbound[n].phase = "grant" => n \notin vip
    /\ Fenced(n) => n \notin vip
    /\ Prepares(n) => authoritative[n]
    /\ pc[n]["loop"] # "request_handoff"
    /\ \A w \in Worker : Serves(n, w) => authoritative[n]
    /\ \A w \in Operator : Serves(n, w) =>
          handoff[n].phase = "complete" /\ ~Prepares(n) /\ ~Fenced(n) /\ pc[n]["loop"] # "fence"

FenceInv == \A n \in Node : FenceInvOf(n)

\* The loop alone imports, and with it brings clients online.
LoopImports ==
    \A n \in Node : \A w \in Operator :
        ~Serves(n, w) /\ pc[n][w] \notin {"apply", "import", "accept"}

\* A worker's step moves that worker alone and touches its own node alone.
LEMMA WorkerMoves ==
    ASSUME TypeOK, NEW n \in Node, NEW w \in Worker, Continue(n, w)
    PROVE  /\ OnlyMoves(n, w)
           /\ \A m \in Node \ {n} :
                 /\ UNCHANGED <<authoritative[m], handoff[m], outbound[m]>>
                 /\ m \in vip' => m \in vip
<1> USE DEF TypeOK, OnlyMoves, Goto, Abandon, stateFile
<1> DEFINE Goal == /\ OnlyMoves(n, w)
                   /\ \A m \in Node \ {n} :
                         /\ UNCHANGED <<authoritative[m], handoff[m], outbound[m]>>
                         /\ m \in vip' => m \in vip
<1>1. CASE ExportReserve(n, w) \/ GrantReserve(n, w) \/ GrantLost(n, w)
  BY <1>1 DEF ExportReserve, GrantReserve, ReserveSequence, GrantLost
<1>2. CASE PublishOutbound(n, w) \/ PublishShared(n, w) \/ PublishFails(n, w)
           \/ ShareFails(n, w) \/ FinishExport(n, w)
  BY <1>2 DEF PublishOutbound, PublishShared, PublishFails, ShareFails, FinishExport
<1>3. CASE RecordRequest(n, w) \/ RecordPrepare(n, w) \/ RecordGrant(n, w)
  BY <1>3 DEF RecordRequest, RecordPrepare, RecordGrant
<1>4. CASE Fence(n, w) \/ FenceFails(n, w) \/ Surrender(n, w)
  BY <1>4 DEF Fence, FenceFails, Surrender
<1>5. CASE FetchBundle(n, w) \/ FetchNothing(n, w)
  BY <1>5 DEF FetchBundle, FetchNothing
<1>6. CASE ImportApplied(n, w) \/ ImportConflict(n, w) \/ ImportFails(n, w)
  BY <1>6 DEF ImportApplied, ImportConflict, ImportFails, EndImport
<1>7. CASE AcceptGrant(n, w) \/ EnableServing(n, w) \/ EnableVip(n, w)
  BY <1>7 DEF AcceptGrant, EnableServing, EnableVip
<1>8. CASE KeepVip(n, w) \/ AcquireRefused(n, w) \/ ProbeVip(n, w) \/ AddVip(n, w)
           \/ AddVipFails(n, w)
  BY <1>8 DEF KeepVip, AcquireRefused, ProbeVip, AddVip, AddVipFails
<1>9. CASE ReleaseVip(n, w) \/ SetProxyReadiness(n, w)
  BY <1>9 DEF ReleaseVip, SetProxyReadiness
<1> QED
  BY <1>1, <1>2, <1>3, <1>4, <1>5, <1>6, <1>7, <1>8, <1>9 DEF Continue, Proceed

\* Only the operator's own import puts an operator where it could accept a grant.
LEMMA LoopImportsStep ==
    ASSUME TypeOK, LoopImports, Next,
           "import_latest" \notin disturbed', "acquire_vip" \notin disturbed'
    PROVE  LoopImports'
<1> DEFINE Out(m, v) == pc'[m][v] \notin {"enable", "acquire_vip", "add_vip", "apply", "import",
                                         "accept"}
<1>0. "loop" \notin Operator /\ Operator \subseteq Worker
  BY ConfigAssumption DEF Worker
<1>1. SUFFICES ASSUME NEW m \in Node, NEW v \in Operator PROVE Out(m, v)
  BY DEF LoopImports, Serves
<1>2. Out(m, v) \/ pc'[m][v] # pc[m][v]
  BY DEF LoopImports, Serves
<1>3. ASSUME NEW n \in Node, LoopCycle(n) PROVE Out(m, v)
  <2>1. PICK step : pc' = [pc EXCEPT ![n]["loop"] = step]
    BY <1>3 DEF LoopCycle, LoopPrepare, LoopPollPeer, LoopExport, LoopImport, BeginExport, Goto
  <2>2. v \in Worker /\ v # "loop"
    BY <1>0
  <2> QED
    BY <1>2, <2>1, <2>2 DEF TypeOK
<1>4. ASSUME NEW n \in Node, NEW w \in Operator, OperatorExport(n, w) PROVE Out(m, v)
  BY <1>0, <1>2, <1>4 DEF OperatorExport, BeginExport, Goto, TypeOK
<1>5. ASSUME NEW n \in Node, NEW w \in Operator, OperatorStart(n, w),
             Note(OperationOf(pc'[n][w]))
      PROVE  Out(m, v)
  <2>1. PICK step \in {"request_handoff", "apply", "initialize", "acquire_vip", "release_vip",
                       "proxy_ready", "proxy_not_ready"} : Goto(n, w, step)
    BY <1>5 DEF OperatorStart
  <2>2. pc'[n][w] = step /\ ((m = n /\ v = w) \/ pc'[m][v] = pc[m][v])
    BY <1>0, <2>1 DEF Goto, TypeOK
  <2>3. step # "apply" /\ step # "acquire_vip"
    BY <1>5, <2>2 DEF Note, OperationOf, Disturbance
  <2> QED
    BY <1>2, <2>2, <2>3
<1>6. ASSUME NEW n \in Node, NEW w \in Worker, Continue(n, w) PROVE Out(m, v)
  <2>1. (m = n /\ v = w) \/ pc'[m][v] = pc[m][v]
    BY <1>0, <1>6, WorkerMoves DEF OnlyMoves
  <2>2. CASE m = n /\ v = w
    <3>1. pc[n][w] \notin {"enable", "acquire_vip", "add_vip", "apply", "import", "accept"}
      BY <2>2 DEF LoopImports, Serves
    <3> QED
      BY <1>0, <1>6, <2>2, <3>1 DEF Continue, Proceed, ExportReserve, GrantReserve, ReserveSequence,
         GrantLost, PublishOutbound, PublishShared, PublishFails, ShareFails, FinishExport,
         RecordRequest, RecordPrepare, Fence, FenceFails, Surrender, RecordGrant, FetchBundle,
         FetchNothing, ImportApplied, ImportConflict, ImportFails, EndImport, AcceptGrant,
         EnableServing, EnableVip, KeepVip, AcquireRefused, ProbeVip, AddVip, AddVipFails,
         ReleaseVip, SetProxyReadiness, Goto, Abandon, TypeOK
  <2> QED
    BY <1>2, <2>1, <2>2
<1>7. ASSUME NEW n \in Node, Crash(n) PROVE Out(m, v)
  BY <1>0, <1>2, <1>7 DEF Crash, TypeOK
<1> QED
  BY <1>2, <1>3, <1>4, <1>5, <1>6, <1>7 DEF Next, Continue

\* A step of one node leaves the fence of the others as it was.
LEMMA FenceElsewhere ==
    ASSUME FenceInv, NEW m \in Node, pc'[m] = pc[m], work'[m] = work[m],
           UNCHANGED <<authoritative[m], handoff[m], outbound[m]>>, m \in vip' => m \in vip
    PROVE  FenceInvOf(m)'
BY DEF FenceInv, FenceInvOf, Fenced, Prepares, Serves

\* A worker that neither brings clients online, nor takes a step of a handoff, nor
\* publishes, keeps the fence of its node.
LEMMA FenceKept ==
    ASSUME FenceInv, NEW n \in Node, NEW w \in Worker, OnlyMoves(n, w),
           UNCHANGED <<authoritative[n], outbound[n]>>,
           handoff'[n].phase \in {handoff[n].phase, "complete"},
           n \in vip' => n \in vip,
           Serves(n, w)' => Serves(n, w),
           w = "loop" => /\ Fenced(n)' => Fenced(n)
                         /\ Prepares(n)' => Prepares(n)
                         /\ pc'[n][w] \notin {"fence", "request_handoff"}
    PROVE  FenceInvOf(n)'
<1>0. "loop" \in Worker /\ Operator \subseteq Worker
  BY DEF Worker
<1>1. \A v \in Worker : Serves(n, v)' => Serves(n, v)
  BY DEF OnlyMoves, Serves
<1>2. /\ Fenced(n)' => Fenced(n)
      /\ Prepares(n)' => Prepares(n)
      /\ pc'[n]["loop"] = "fence" => pc[n]["loop"] = "fence"
      /\ pc'[n]["loop"] = "request_handoff" => pc[n]["loop"] = "request_handoff"
  BY <1>0 DEF OnlyMoves, Fenced, Prepares
<1> QED
  BY <1>0, <1>1, <1>2 DEF FenceInv, FenceInvOf

\* The steps of a worker but those of FenceNode.
LEMMA FencePlain ==
    ASSUME TypeOK, StepInv, FenceInv, NEW n \in Node, NEW w \in Worker, Continue(n, w),
           ~PublishOutbound(n, w), ~RecordRequest(n, w), ~RecordPrepare(n, w), ~Fence(n, w),
           ~Surrender(n, w), ~AcceptGrant(n, w), ~AddVip(n, w)
    PROVE  FenceInvOf(n)'
<1> USE DEF TypeOK, Goto, Abandon, stateFile, Fenced, Prepares, Serves
<1>0. OnlyMoves(n, w)
  BY WorkerMoves
<1> DEFINE Goal == /\ UNCHANGED <<authoritative[n], outbound[n]>>
                   /\ handoff'[n].phase \in {handoff[n].phase, "complete"}
                   /\ n \in vip' => n \in vip
                   /\ Serves(n, w)' => Serves(n, w)
                   /\ w = "loop" => /\ Fenced(n)' => Fenced(n)
                                    /\ Prepares(n)' => Prepares(n)
                                    /\ pc'[n][w] \notin {"fence", "request_handoff"}
<1>1. ASSUME ExportReserve(n, w) \/ GrantReserve(n, w) PROVE Goal
  <2>1. /\ pc[n][w] \in {"export", "export_grant"} /\ pc'[n][w] = "publish"
        /\ work'[n][w].phase = work[n][w].phase
    BY <1>1, ReserveMoves
  <2>2. /\ pc[n][w] = "export" => work[n][w].phase # "grant"
        /\ pc[n][w] = "export_grant" => work[n][w].phase = "grant"
    BY DEF StepInv
  <2>3. UNCHANGED <<authoritative, handoff, outbound, vip>>
    BY <1>1 DEF ExportReserve, GrantReserve, ReserveSequence
  <2> QED
    BY <2>1, <2>2, <2>3
<1>2. ASSUME PublishShared(n, w) \/ PublishFails(n, w) \/ ShareFails(n, w) \/ FinishExport(n, w)
      PROVE  Goal
  BY <1>2 DEF PublishShared, PublishFails, ShareFails, FinishExport
<1>3. ASSUME GrantLost(n, w) \/ FenceFails(n, w) PROVE Goal
  BY <1>3 DEF GrantLost, FenceFails
<1>4. ASSUME RecordGrant(n, w) PROVE Goal
  BY <1>4 DEF RecordGrant, HandoffAt
<1>5. ASSUME FetchBundle(n, w) \/ FetchNothing(n, w) PROVE Goal
  BY <1>5 DEF FetchBundle, FetchNothing
<1>6. ASSUME ImportApplied(n, w) \/ ImportConflict(n, w) \/ ImportFails(n, w) PROVE Goal
  BY <1>6 DEF ImportApplied, ImportConflict, ImportFails, EndImport
<1>7. ASSUME EnableServing(n, w) \/ EnableVip(n, w) PROVE Goal
  BY <1>7 DEF EnableServing, EnableVip
<1>8. ASSUME KeepVip(n, w) \/ AcquireRefused(n, w) \/ ProbeVip(n, w) \/ AddVipFails(n, w)
      PROVE  Goal
  BY <1>8 DEF KeepVip, AcquireRefused, ProbeVip, AddVipFails
<1>9. ASSUME ReleaseVip(n, w) \/ SetProxyReadiness(n, w) PROVE Goal
  BY <1>9 DEF ReleaseVip, SetProxyReadiness
<1>10. Goal
  BY <1>1, <1>2, <1>3, <1>4, <1>5, <1>6, <1>7, <1>8, <1>9 DEF Continue, Proceed
<1> HIDE DEF TypeOK, Goto, Abandon, stateFile, Fenced, Prepares, Serves
<1> QED
  BY <1>0, <1>10, FenceKept

\* What keeps an operator away while a handoff goes on: either the loop alone
\* imports, or authority is a token and a node has one operator.
Apart == LoopImports \/ (HandoffInv /\ \A v, w \in Operator : v = w)

\* The steps the fence is there for: a handoff and the way back to the VIP.
LEMMA FenceNode ==
    ASSUME TypeOK, StepInv, FenceInv, Apart, NEW n \in Node, NEW w \in Worker, Continue(n, w)
    PROVE  FenceInvOf(n)'
<1> USE DEF Fenced, Prepares, Serves
<1>0. OnlyMoves(n, w) /\ "loop" \in Worker /\ "loop" \notin Operator /\ Operator \subseteq Worker
  BY WorkerMoves, ConfigAssumption DEF Worker
<1>1. w = "loop" \/ \A v \in Worker \ {w} : pc'[n][v] = pc[n][v] /\ work'[n][v] = work[n][v]
  BY <1>0 DEF OnlyMoves
<1>n. FenceInvOf(n)
  BY DEF FenceInv
<1>2. CASE PublishOutbound(n, w)
  <2>1. /\ UNCHANGED <<authoritative, handoff, vip, work>>
        /\ outbound'[n] = work[n][w]
        /\ pc[n][w] = "publish" /\ pc'[n][w] \in {"share", "published"}
    BY <1>2 DEF PublishOutbound, Goto, TypeOK, stateFile
  <2>2. work[n][w].phase = "grant" => w = "loop"
    BY <2>1 DEF StepInv
  <2>3. work[n][w].phase = "grant" => n \notin vip
    BY <1>n, <2>1, <2>2 DEF FenceInvOf
  <2> QED
    BY <1>0, <1>n, <2>1, <2>3 DEF FenceInvOf, OnlyMoves
<1>3. CASE RecordRequest(n, w)
  <2>1. /\ UNCHANGED <<authoritative, outbound, vip, work>>
        /\ pc[n][w] = "request_handoff" /\ pc'[n][w] = "idle"
    BY <1>3 DEF RecordRequest, Goto, TypeOK
  <2>2. w # "loop"
    BY <1>n, <2>1 DEF FenceInvOf
  <2>3. \A v \in Operator : ~Serves(n, v)
    BY <2>1, <2>2 DEF Apart, LoopImports, Worker
  <2> QED
    BY <1>0, <1>n, <2>1, <2>2, <2>3 DEF FenceInvOf, OnlyMoves
<1>4. CASE RecordPrepare(n, w)
  <2>1. /\ UNCHANGED <<authoritative, outbound, vip>>
        /\ pc[n][w] = "record" /\ pc'[n][w] = "idle" /\ w = "loop" /\ Prepares(n)
    BY <1>4 DEF RecordPrepare, Goto, Abandon, TypeOK, StepInv
  <2>2. \A v \in Operator : ~Serves(n, v)
    BY <1>n, <2>1 DEF FenceInvOf
  <2> QED
    BY <1>0, <1>n, <2>1, <2>2 DEF FenceInvOf, OnlyMoves
<1>5. CASE Fence(n, w)
  <2>1. /\ UNCHANGED <<authoritative, outbound, work>> /\ n \notin vip'
        /\ pc[n][w] = "fence" /\ pc'[n][w] = "surrender" /\ w = "loop"
    BY <1>5 DEF Fence, Goto, TypeOK, StepInv
  <2>2. \A v \in Operator : ~Serves(n, v)
    BY <1>n, <2>1 DEF FenceInvOf
  <2> QED
    BY <1>0, <1>n, <2>1, <2>2 DEF FenceInvOf, OnlyMoves
<1>6. CASE Surrender(n, w)
  <2>1. /\ UNCHANGED <<outbound, vip, work>>
        /\ pc[n][w] = "surrender" /\ pc'[n][w] = "export_grant" /\ w = "loop" /\ Fenced(n)
    BY <1>6 DEF Surrender, Goto, TypeOK, StepInv
  <2>2. n \notin vip /\ \A v \in Operator : ~Serves(n, v)
    BY <1>n, <2>1 DEF FenceInvOf
  <2>3. \A v \in Worker : ~Serves(n, v)'
    BY <1>0, <2>1, <2>2 DEF OnlyMoves, Worker
  <2> QED
    BY <1>0, <2>1, <2>2, <2>3 DEF FenceInvOf, OnlyMoves
<1>7. CASE AcceptGrant(n, w)
  <2>1. /\ UNCHANGED <<outbound, vip>> /\ authoritative'[n] /\ handoff'[n].phase = "complete"
        /\ pc[n][w] = "accept" /\ pc'[n][w] = "enable"
    BY <1>7 DEF AcceptGrant, Goto, TypeOK, HandoffAt
  <2>2. CASE w = "loop"
    BY <1>0, <1>n, <2>1, <2>2 DEF FenceInvOf, OnlyMoves
  <2>3. CASE w # "loop"
    <3>1. w \in Operator /\ HandoffInv
      BY <2>1, <2>3 DEF Apart, LoopImports, Worker
    <3>2. Claim(n, w) /\ w \in ClaimKind /\ {"authority", "granting"} \subseteq ClaimKind
          /\ w \notin {"authority", "granting"}
      BY <2>1, <3>1, ConfigAssumption DEF Claim, ClaimKind
    <3>3. ~Claim(n, "authority") /\ ~Claim(n, "granting")
      BY <3>1, <3>2 DEF HandoffInv, AuthorityIsOneToken
    <3>4. ~authoritative[n] /\ ~Granting(n)
      BY <3>3 DEF Claim
    <3>5. ~Prepares(n) /\ ~Fenced(n) /\ pc[n]["loop"] # "fence"
      BY <1>0, <1>n, <3>4 DEF FenceInvOf, Granting, StepInv
    <3> QED
      BY <1>0, <1>n, <2>1, <2>3, <3>5 DEF FenceInvOf, OnlyMoves
  <2> QED
    BY <2>2, <2>3
<1>8. CASE AddVip(n, w)
  <2>1. /\ UNCHANGED <<authoritative, handoff, outbound, work>> /\ Serves(n, w)
        /\ pc'[n][w] = "idle"
    BY <1>8 DEF AddVip, Goto, TypeOK
  <2>2. authoritative[n] /\ ~Fenced(n)'
    BY <1>0, <1>n, <2>1 DEF FenceInvOf, OnlyMoves, Worker
  <2> QED
    BY <1>0, <1>n, <2>1, <2>2 DEF FenceInvOf, OnlyMoves
<1> QED
  BY <1>2, <1>3, <1>4, <1>5, <1>6, <1>7, <1>8, FencePlain

\* Every step keeps the fence, as long as no operator acquires the VIP by hand.
LEMMA FenceStep ==
    ASSUME TypeOK, StepInv, FenceInv, Apart, Next, "acquire_vip" \notin disturbed'
    PROVE  FenceInv'
<1>0. "loop" \in Worker /\ "loop" \notin Operator /\ Operator \subseteq Worker
  BY ConfigAssumption DEF Worker
<1>1. ASSUME NEW n \in Node, LoopCycle(n) PROVE FenceInv'
  <2>1. UNCHANGED <<outbound, vip, authoritative, handoff>>
    BY <1>1 DEF LoopCycle, LoopPrepare, LoopPollPeer, LoopExport, LoopImport, BeginExport,
                stateFile
  <2>2. /\ \A m \in Node \ {n} : pc'[m] = pc[m] /\ work'[m] = work[m]
        /\ \A v \in Operator : pc'[n][v] = pc[n][v]
    BY <1>0, <1>1 DEF LoopCycle, LoopPrepare, LoopPollPeer, LoopExport, LoopImport, BeginExport,
       Goto, TypeOK
  <2>3. CASE LoopPrepare(n)
    <3>1. /\ pc'[n]["loop"] = "export" /\ work'[n]["loop"].phase = "prepare"
          /\ authoritative[n] /\ handoff[n].phase = "requested"
      BY <1>0, <2>3 DEF LoopPrepare, BeginExport, Draft, Goto, TypeOK
    <3>2. FenceInvOf(n)'
      BY <1>0, <2>1, <2>2, <3>1 DEF FenceInv, FenceInvOf, Fenced, Prepares, Serves, Worker
    <3> QED
      BY <2>1, <2>2, <3>2, FenceElsewhere DEF FenceInv
  <2>4. CASE LoopPollPeer(n)
    <3>1. pc'[n]["loop"] = "fence" /\ handoff[n].phase = "waiting_for_apply"
      BY <1>0, <2>4 DEF LoopPollPeer, Goto, TypeOK
    <3>2. FenceInvOf(n)'
      BY <1>0, <2>1, <2>2, <3>1 DEF FenceInv, FenceInvOf, Fenced, Prepares, Serves, Worker
    <3> QED
      BY <2>1, <2>2, <3>2, FenceElsewhere DEF FenceInv
  <2>5. CASE LoopExport(n)
    <3>1. pc'[n]["loop"] = "export" /\ work'[n]["loop"].phase = "plain"
      BY <1>0, <2>5 DEF LoopExport, BeginExport, Draft, Goto, TypeOK
    <3>2. FenceInvOf(n)'
      BY <1>0, <2>1, <2>2, <3>1 DEF FenceInv, FenceInvOf, Fenced, Prepares, Serves, Worker
    <3> QED
      BY <2>1, <2>2, <3>2, FenceElsewhere DEF FenceInv
  <2>6. CASE LoopImport(n)
    <3>1. pc'[n]["loop"] = "apply"
      BY <1>0, <2>6 DEF LoopImport, Goto, TypeOK
    <3>2. FenceInvOf(n)'
      BY <1>0, <2>1, <2>2, <3>1 DEF FenceInv, FenceInvOf, Fenced, Prepares, Serves, Worker
    <3> QED
      BY <2>1, <2>2, <3>2, FenceElsewhere DEF FenceInv
  <2> QED
    BY <1>1, <2>3, <2>4, <2>5, <2>6 DEF LoopCycle
<1>2. ASSUME NEW n \in Node, NEW w \in Operator,
             \/ OperatorExport(n, w)
             \/ OperatorStart(n, w) /\ Note(OperationOf(pc'[n][w]))
      PROVE  FenceInv'
  <2>1. UNCHANGED <<outbound, vip, authoritative, handoff>> /\ OnlyMoves(n, w)
    BY <1>0, <1>2 DEF OperatorExport, OperatorStart, BeginExport, Goto, OnlyMoves, TypeOK,
       stateFile
  <2>2. ~Serves(n, w)'
    <3>1. CASE OperatorExport(n, w)
      BY <1>0, <3>1 DEF OperatorExport, BeginExport, Goto, TypeOK, Serves
    <3>2. CASE OperatorStart(n, w) /\ Note(OperationOf(pc'[n][w]))
      <4>1. PICK step \in {"request_handoff", "apply", "initialize", "acquire_vip",
                           "release_vip", "proxy_ready", "proxy_not_ready"} : Goto(n, w, step)
        BY <3>2 DEF OperatorStart
      <4>2. pc'[n][w] = step
        BY <1>0, <4>1 DEF Goto, TypeOK
      <4>3. step # "acquire_vip"
        BY <3>2, <4>2 DEF Note, OperationOf, Disturbance
      <4> QED
        BY <4>2, <4>3 DEF Serves
    <3> QED
      BY <1>2, <3>1, <3>2
  <2>3. FenceInvOf(n)'
    BY <1>0, <2>1, <2>2, FenceKept
  <2>4. \A m \in Node \ {n} : pc'[m] = pc[m] /\ work'[m] = work[m]
    BY <1>0, <1>2 DEF OperatorExport, OperatorStart, BeginExport, Goto, TypeOK
  <2> QED
    BY <2>1, <2>3, <2>4, FenceElsewhere DEF FenceInv
<1>3. ASSUME NEW n \in Node, NEW w \in Worker, Continue(n, w) PROVE FenceInv'
  <2>1. FenceInvOf(n)'
    BY <1>3, FenceNode
  <2>2. ASSUME NEW m \in Node, m # n PROVE FenceInvOf(m)'
    <3>1. /\ UNCHANGED <<authoritative[m], handoff[m], outbound[m]>> /\ (m \in vip' => m \in vip)
          /\ \A v \in Worker : pc'[m][v] = pc[m][v] /\ work'[m][v] = work[m][v]
      BY <1>3, <2>2, WorkerMoves DEF OnlyMoves
    <3> QED
      BY <1>0, <3>1 DEF FenceInv, FenceInvOf, Fenced, Prepares, Serves
  <2> QED
    BY <2>1, <2>2 DEF FenceInv
<1>4. ASSUME NEW n \in Node, Crash(n) PROVE FenceInv'
  <2>1. /\ UNCHANGED <<authoritative, handoff, outbound>> /\ \A m \in Node : m \in vip' => m \in vip
        /\ \A v \in Worker : pc'[n][v] = "idle"
        /\ \A m \in Node \ {n} : pc'[m] = pc[m] /\ work'[m] = work[m]
    BY <1>4 DEF Crash, TypeOK, stateFile
  <2>2. FenceInvOf(n)'
    BY <1>0, <2>1 DEF FenceInv, FenceInvOf, Fenced, Prepares, Serves
  <2> QED
    BY <2>1, <2>2, FenceElsewhere DEF FenceInv
<1> QED
  BY <1>1, <1>2, <1>3, <1>4 DEF Next, Continue

\* "The old client endpoint is fenced before this signed grant becomes visible":
\* for every cluster, fault and crash, until an operator acquires the VIP by hand,
\* or imports by hand on a node with several operators or after a conflict.
THEOREM GrantsAreFenced == Spec => []FencedUnlessAcquired
<1> DEFINE Alone == "import_latest" \notin disturbed
           Single == "conflict" \notin disturbed /\ \A v, w \in Operator : v = w
           ByHand == "acquire_vip" \in disturbed
           Known == "conflict" \notin disturbed => HandoffInv
           I == /\ ~ByHand /\ Alone => LoopImports
                /\ ~ByHand /\ (Alone \/ Single) => FenceInv
<1>1. Init => I
  BY DEF Init, LoopImports, FenceInv, FenceInvOf, Fenced, Prepares, Serves, Worker
<1>2. TypeOK /\ StepInv /\ Known /\ I /\ [Next]_<<vars, disturbed>> => I'
  <2> SUFFICES ASSUME TypeOK, StepInv, Known, I, [Next]_<<vars, disturbed>>, ~ByHand'
               PROVE  /\ Alone' => LoopImports'
                      /\ Alone' \/ Single' => FenceInv'
    BY DEF LoopImports, FenceInv
  <2>1. /\ ~ByHand /\ (Alone' => Alone) /\ (Single' => Single)
    BY HistoryGrows
  <2>2. CASE UNCHANGED <<vars, disturbed>>
    BY <2>1, <2>2 DEF vars, LoopImports, FenceInv, FenceInvOf, Fenced, Prepares, Serves
  <2>3. CASE Next
    <3>1. Alone' => LoopImports'
      BY <2>1, <2>3, LoopImportsStep
    <3>2. ASSUME Alone' \/ Single' PROVE FenceInv'
      <4>1. FenceInv /\ Apart
        BY <2>1, <3>2 DEF Apart
      <4> QED
        BY <2>3, <4>1, FenceStep
    <3> QED
      BY <3>1, <3>2
  <2> QED
    BY <2>2, <2>3
<1>3. I => FencedUnlessAcquired
  BY DEF FencedUnlessAcquired, FencedBeforeGrant, FenceInv, FenceInvOf
<1>4. Spec => []Known
  BY HandoffInvariant
<1> QED
  BY <1>1, <1>2, <1>3, <1>4, LocalInvariants, PTL DEF Spec

=============================================================================
