--------------------------- MODULE ColdStandbyProofs ---------------------------
(***************************************************************************)
(* Proofs about ColdStandby, for any number of nodes, exports, kills and   *)
(* failing writes: the authority is never lost, unless an export met the   *)
(* demotion of its node; and if the operator runs one node at a time, the  *)
(* writer knows the whole shared store and only ever advances it, until a  *)
(* start cannot read it or an export begins before a start is over.        *)
(***************************************************************************)
EXTENDS ColdStandby, TLAPS

Label == {"down", "recovering", "demoting", "following", "importing", "accepting", "running"}
Exporting == {"idle", "manual", "final", "flushed"}
Fault == [kills : Nat, reads : Nat, writes : Nat, early : BOOLEAN, crossed : BOOLEAN]

\* Types without the bound of exports.
Types ==
    /\ store \in [seq : Nat, source : Node \cup {NoBundle}, final : BOOLEAN]
    /\ auth \in [Node -> BOOLEAN]
    /\ exported \in [Node -> Nat] /\ applied \in [Node -> Nat]
    /\ pc \in [Node -> Label]
    /\ exporting \in [Node -> Exporting]
    /\ online \in BOOLEAN
    /\ faults \in Fault

LEMMA KnownType ==
    ASSUME Types, NEW n \in Node
    PROVE  Known(n) \in Nat /\ exported[n] <= Known(n) /\ applied[n] <= Known(n)
BY DEF Types, Known

LEMMA InitTypes == Init => Types
<1> SUFFICES ASSUME Init PROVE Types
  OBVIOUS
<1>1. store \in [seq : Nat, source : Node \cup {NoBundle}, final : BOOLEAN]
  BY DEF Init
<1>2. faults \in Fault
  BY DEF Init, Fault
<1> QED
  BY <1>1, <1>2 DEF Init, Types, Label, Exporting

\* What the records of faults are after each kind of fault.
LEMMA FaultSteps ==
    ASSUME Types
    PROVE  /\ [faults EXCEPT !.reads = @ + 1] \in Fault
           /\ [faults EXCEPT !.reads = @ + 1].reads # 0
           /\ [faults EXCEPT !.reads = @ + 1].crossed = faults.crossed
           /\ [faults EXCEPT !.kills = @ + 1] \in Fault
           /\ [faults EXCEPT !.kills = @ + 1].reads = faults.reads
           /\ [faults EXCEPT !.kills = @ + 1].early = faults.early
           /\ [faults EXCEPT !.kills = @ + 1].crossed = faults.crossed
           /\ faults.reads \in Nat /\ faults.early \in BOOLEAN /\ faults.crossed \in BOOLEAN
BY DEF Types, Fault

\* What an export does, published or not.
LEMMA ExportSteps ==
    ASSUME Types, NEW n \in Node, NEW final \in BOOLEAN, Export(n, final)
    PROVE  /\ auth' = auth /\ applied' = applied /\ online' = online /\ pc' = pc
           /\ exported' = [exported EXCEPT ![n] = Known(n) + 1]
           /\ store' = store \/ store' = [seq |-> Known(n) + 1, source |-> n, final |-> final]
           /\ faults' \in Fault /\ faults'.reads = faults.reads /\ faults'.early = faults.early
           /\ faults'.crossed = (faults.crossed \/ ~auth[n] \/ pc[n] = "demoting")
<1> DEFINE x == ~auth[n] \/ pc[n] = "demoting"
           met == [faults EXCEPT !.crossed = @ \/ x]
<1>1. /\ met \in Fault /\ met.reads = faults.reads /\ met.early = faults.early
      /\ met.crossed = (faults.crossed \/ ~auth[n] \/ pc[n] = "demoting")
  BY DEF Types, Fault
<1>2. faults' = met \/ faults' = [met EXCEPT !.writes = @ + 1]
  BY DEF Export
<1> HIDE DEF met
<1>3. /\ faults' \in Fault /\ faults'.reads = met.reads /\ faults'.early = met.early
      /\ faults'.crossed = met.crossed
  BY <1>1, <1>2 DEF Fault
<1> QED
  BY <1>1, <1>3 DEF Export, Reserve, NextSequence, Types

\* The steps that export.
ExportStep(n) == Cycle(n) \/ EndExport(n)

LEMMA ExportStepIsExport ==
    ASSUME Types, NEW n \in Node, ExportStep(n)
    PROVE  /\ \E final \in BOOLEAN : Export(n, final)
           /\ exporting' \in [Node -> Exporting]
           /\ \/ pc[n] = "running" /\ auth[n] /\ exporting' = exporting
              \/ /\ exporting[n] \in {"manual", "final"}
                 /\ \E e \in {"idle", "flushed"} : exporting' = [exporting EXCEPT ![n] = e]
BY DEF ExportStep, Cycle, EndExport, Types, Exporting

\* The steps that begin an export, or find that there is none to make.
BeginStep(n) == ManualExport(n) \/ Flush(n)

LEMMA BeginSteps ==
    ASSUME Types, NEW n \in Node, BeginStep(n)
    PROVE  /\ UNCHANGED <<store, auth, exported, applied, phase, pc, online, answer>>
           /\ faults' \in Fault /\ faults'.reads = faults.reads /\ faults'.crossed = faults.crossed
           /\ \E e \in Exporting : exporting' = [exporting EXCEPT ![n] = e]
           /\ \/ exporting'[n] = "flushed" /\ ~auth[n] /\ faults' = faults
              \/ auth[n] /\ faults'.early = (faults.early \/ pc[n] # "running")
<1>1. CASE BeginExport(n, "manual") \/ BeginExport(n, "final")
  <2>1. faults' = [faults EXCEPT !.early = @ \/ pc[n] # "running"] /\ auth[n]
    BY <1>1 DEF BeginExport
  <2>2. /\ UNCHANGED <<store, auth, exported, applied, phase, pc, online, answer>>
        /\ \E e \in Exporting : exporting' = [exporting EXCEPT ![n] = e]
    BY <1>1 DEF BeginExport, Exporting
  <2>3. /\ faults' \in Fault /\ faults'.reads = faults.reads /\ faults'.crossed = faults.crossed
        /\ faults'.early = (faults.early \/ pc[n] # "running")
    BY <2>1 DEF Types, Fault
  <2> QED
    BY <2>1, <2>2, <2>3
<1>2. CASE /\ ~auth[n] /\ exporting' = [exporting EXCEPT ![n] = "flushed"]
           /\ UNCHANGED <<store, auth, exported, applied, phase, pc, online, answer, faults>>
  BY <1>2 DEF Types, Exporting
<1> QED
  BY <1>1, <1>2 DEF BeginStep, ManualExport, Flush

LEMMA NextKeepsColdTypes == Types /\ [Next]_vars => Types'
<1> SUFFICES ASSUME Types, [Next]_vars PROVE Types'
  OBVIOUS
<1>1. ASSUME NEW n \in Node, ExportStep(n) PROVE Types'
  <2>1. PICK final \in BOOLEAN : Export(n, final)
    BY <1>1, ExportStepIsExport
  <2>2. Known(n) + 1 \in Nat
    BY KnownType
  <2>3. exporting' \in [Node -> Exporting]
    BY <1>1, ExportStepIsExport
  <2> QED
    BY <2>1, <2>2, <2>3, ExportSteps DEF Types
<1>2. ASSUME NEW n \in Node, BeginStep(n) PROVE Types'
  BY <1>2, BeginSteps DEF Types
<1>3. ASSUME NEW n \in Node, Starting(n) PROVE Types'
  <2>1. CASE Recover(n) \/ Demote(n)
    BY <2>1 DEF Types, Recover, Demote, Goto, Label
  <2>2. CASE RecoverFails(n) \/ NoImport(n)
    BY <2>2, FaultSteps DEF Types, RecoverFails, NoImport, Goto, Label
  <2>3. CASE Import(n)
    BY <2>3 DEF Types, Import, Goto, Label
  <2>4. CASE Accept(n)
    BY <2>4 DEF Types, Accept, Goto, Label
  <2> QED
    BY <1>3, <2>1, <2>2, <2>3, <2>4 DEF Starting
<1>4. ASSUME NEW n \in Node, Start(n) \/ Stop(n) \/ Kill(n) \/ RequestHandoff(n) PROVE Types'
  <2>1. CASE Start(n) \/ Stop(n)
    BY <2>1 DEF Types, Start, Stop, Down, Goto, Label, Exporting
  <2>2. CASE Kill(n)
    BY <2>2, FaultSteps DEF Types, Kill, Down, Goto, Label, Exporting
  <2>3. CASE RequestHandoff(n)
    BY <2>3 DEF Types, RequestHandoff
  <2> QED
    BY <1>4, <2>1, <2>2, <2>3
<1>5. CASE SwitchOnline \/ UNCHANGED vars
  BY <1>5 DEF Types, SwitchOnline, vars
<1> QED
  BY <1>1, <1>2, <1>3, <1>4, <1>5 DEF Next, ExportStep, BeginStep

\* What Types leaves out: no sequence is above the bound, and a node has
\* reserved what it has published.
Bounded ==
    /\ phase \in [Node -> {"none", "requested", "cold_takeover_complete"}]
    /\ answer \in [Node -> {"none", "queued", "already in progress"}]
    /\ \A n \in Node : exported[n] <= MaxExports /\ applied[n] <= MaxExports
    /\ \A n \in Node : store.source = n => store.seq <= exported[n]

LEMMA NextKeepsBounded == Types /\ Bounded /\ [Next]_vars => Bounded'
<1> SUFFICES ASSUME Types, Bounded, [Next]_vars PROVE Bounded'
  OBVIOUS
<1>1. ASSUME NEW n \in Node, ExportStep(n) PROVE Bounded'
  <2>1. PICK final \in BOOLEAN : Export(n, final)
    BY <1>1, ExportStepIsExport
  <2>2. Known(n) \in Nat /\ Known(n) < MaxExports /\ exported[n] <= Known(n)
    BY <2>1, KnownType DEF Export
  <2>3. UNCHANGED <<phase, answer>>
    BY <2>1 DEF Export
  <2>4. exported' = [exported EXCEPT ![n] = Known(n) + 1] /\ applied' = applied
    BY <2>1, ExportSteps
  <2>5. \A m \in Node : /\ exported'[m] \in Nat /\ exported[m] <= exported'[m]
                        /\ exported'[m] <= MaxExports /\ applied'[m] <= MaxExports
    <3>1. MaxExports \in Nat
      BY ColdAssumption
    <3>2. exported'[n] = Known(n) + 1
      BY <2>4 DEF Types
    <3>3. \A m \in Node \ {n} : exported'[m] = exported[m]
      BY <2>4 DEF Types
    <3> SUFFICES ASSUME NEW m \in Node
                 PROVE  /\ exported'[m] \in Nat /\ exported[m] <= exported'[m]
                        /\ exported'[m] <= MaxExports /\ applied'[m] <= MaxExports
      OBVIOUS
    <3>4. exported[m] \in Nat /\ exported[m] <= MaxExports /\ applied'[m] <= MaxExports
      BY <2>4 DEF Types, Bounded
    <3>5. CASE m = n
      BY <2>2, <3>1, <3>2, <3>4, <3>5
    <3>6. CASE m # n
      BY <3>3, <3>4, <3>6
    <3> QED
      BY <3>5, <3>6
  <2>6. \A m \in Node : store'.source = m => store'.seq <= exported'[m]
    <3>1. CASE store' = store
      <4> SUFFICES ASSUME NEW m \in Node, store.source = m PROVE store.seq <= exported'[m]
        BY <3>1
      <4>1. store.seq \in Nat /\ exported[m] \in Nat /\ store.seq <= exported[m]
        BY DEF Types, Bounded
      <4> QED
        BY <2>5, <4>1
    <3>2. CASE store' = [seq |-> Known(n) + 1, source |-> n, final |-> final]
      BY <3>2, <2>2, <2>4 DEF Types
    <3> QED
      BY <3>1, <3>2, <2>1, ExportSteps
  <2> QED
    BY <2>3, <2>5, <2>6 DEF Bounded
<1>2. ASSUME NEW n \in Node, Import(n) PROVE Bounded'
  <2>1. store.source \in Node /\ store.seq \in Nat
    BY <1>2 DEF Import, Importable, Newer, Types
  <2>2. store.seq <= MaxExports
    <3>1. MaxExports \in Nat
      BY ColdAssumption
    <3>2. exported[store.source] \in Nat /\ exported[store.source] <= MaxExports
          /\ store.seq <= exported[store.source]
      BY <2>1 DEF Types, Bounded
    <3> QED
      BY <2>1, <3>1, <3>2
  <2> QED
    BY <1>2, <2>1, <2>2 DEF Import, Types, Bounded
<1>3. ASSUME NEW n \in Node, Accept(n) \/ RequestHandoff(n) PROVE Bounded'
  BY <1>3 DEF Accept, RequestHandoff, Bounded, Types
<1>4. CASE UNCHANGED <<store, exported, applied, phase, answer>>
  BY <1>4 DEF Bounded
<1>5. ASSUME NEW n \in Node, BeginStep(n) PROVE UNCHANGED <<store, exported, applied, phase, answer>>
  BY <1>5, BeginSteps
<1> QED
  BY <1>1, <1>2, <1>3, <1>4, <1>5 DEF Next, Starting, Recover, RecoverFails, Demote, NoImport, Start, Stop,
                                      Kill, SwitchOnline, vars, ExportStep, BeginStep

\* Every reachable state is well typed, within the bound, and no node has
\* published a sequence it has not reserved (export_now).
THEOREM ColdTypeCorrect == Spec => []TypeOK
<1>1. Types /\ Bounded => TypeOK
  BY DEF Types, Bounded, TypeOK, Label, Exporting, Fault
<1>2. Init => Types /\ Bounded
  <2>1. Init => Bounded
    BY ColdAssumption DEF Init, Bounded
  <2> QED
    BY <2>1, InitTypes
<1>3. (Types /\ Bounded) /\ [Next]_vars => (Types /\ Bounded)'
  BY NextKeepsColdTypes, NextKeepsBounded
<1> QED
  BY <1>1, <1>2, <1>3, PTL DEF Spec

-----------------------------------------------------------------------------

\* The node that published what is in the store has the authority, and is not
\* about to give it up: a node only does so for a bundle of another one.
SourceHasAuthority ==
    faults.crossed \/ IF store.source = NoBundle
                      THEN auth[Main] /\ \A n \in Node : pc[n] # "demoting"
                      ELSE auth[store.source] /\ pc[store.source] # "demoting"

LEMMA NextKeepsSource == Types /\ SourceHasAuthority /\ [Next]_vars => SourceHasAuthority'
<1> SUFFICES ASSUME Types, SourceHasAuthority, [Next]_vars PROVE SourceHasAuthority'
  OBVIOUS
<1>1. ASSUME NEW n \in Node, ExportStep(n) PROVE SourceHasAuthority'
  <2>1. PICK final \in BOOLEAN : Export(n, final)
    BY <1>1, ExportStepIsExport
  <2>2. CASE faults.crossed \/ ~auth[n] \/ pc[n] = "demoting"
    BY <2>1, <2>2, ExportSteps DEF SourceHasAuthority
  <2>3. CASE ~faults.crossed /\ auth[n] /\ pc[n] # "demoting"
    BY <2>1, <2>3, ExportSteps, ColdAssumption DEF SourceHasAuthority
  <2> QED
    BY <2>2, <2>3, FaultSteps
<1>2. ASSUME NEW n \in Node, Recover(n) PROVE SourceHasAuthority'
  <2>1. UNCHANGED <<store, auth, faults>> /\ pc' \in [Node -> Label]
    BY <1>2, NextKeepsColdTypes DEF Recover, Types
  <2>2. CASE Newer(n)
    <3>1. store.source \in Node /\ store.source # n /\ store.source # NoBundle
      BY <2>2 DEF Newer, Types
    <3>2. pc'[store.source] = pc[store.source]
      BY <1>2, <3>1 DEF Recover, Goto, Types
    <3> QED
      BY <2>1, <3>1, <3>2 DEF SourceHasAuthority
  <2>3. CASE ~Newer(n)
    <3>1. pc' = [pc EXCEPT ![n] = "importing"]
      BY <1>2, <2>3 DEF Recover, Goto
    <3>2. \A m \in Node : pc'[m] = "demoting" => pc[m] = "demoting"
      BY <3>1 DEF Types
    <3> QED
      BY <2>1, <3>2 DEF SourceHasAuthority, Types
  <2> QED
    BY <2>2, <2>3
<1>3. ASSUME NEW n \in Node, Demote(n) PROVE SourceHasAuthority'
  <2>1. /\ UNCHANGED <<store, faults>> /\ pc[n] = "demoting"
        /\ \A m \in Node : m # n => auth'[m] = auth[m] /\ pc'[m] = pc[m]
    BY <1>3 DEF Demote, Goto, Types
  <2>2. CASE ~faults.crossed
    <3>1. store.source \in Node /\ store.source # n /\ store.source # NoBundle
      BY <2>1, <2>2 DEF SourceHasAuthority, Types
    <3> QED
      BY <2>1, <3>1 DEF SourceHasAuthority
  <2> QED
    BY <2>1, <2>2 DEF SourceHasAuthority
<1>4. ASSUME NEW n \in Node,
             Start(n) \/ RecoverFails(n) \/ Import(n) \/ NoImport(n) \/ Accept(n) \/ Stop(n) \/ Kill(n)
      PROVE  SourceHasAuthority'
  <2>1. store' = store /\ faults'.crossed = faults.crossed
    BY <1>4, FaultSteps DEF Start, RecoverFails, Import, NoImport, Accept, Stop, Kill
  <2>2. \A m \in Node : (auth[m] => auth'[m]) /\ (pc'[m] = "demoting" => pc[m] = "demoting")
    <3>1. auth' = auth \/ auth' = [auth EXCEPT ![n] = TRUE]
      BY <1>4 DEF Start, RecoverFails, Import, NoImport, Accept, Stop, Kill
    <3>2. \E l \in Label \ {"demoting"} : pc' = [pc EXCEPT ![n] = l]
      BY <1>4 DEF Start, RecoverFails, Import, NoImport, Accept, Stop, Kill, Goto, Down, Label
    <3> QED
      BY <3>1, <3>2 DEF Types
  <2> QED
    BY <2>1, <2>2, ColdAssumption DEF SourceHasAuthority, Types
<1>5. ASSUME NEW n \in Node, BeginStep(n) PROVE SourceHasAuthority'
  BY <1>5, BeginSteps DEF SourceHasAuthority
<1>6. CASE UNCHANGED <<store, auth, pc, faults>>
  BY <1>6 DEF SourceHasAuthority
<1> QED
  BY <1>1, <1>2, <1>3, <1>4, <1>5, <1>6 DEF Next, Starting, RequestHandoff, SwitchOnline, vars,
                                            ExportStep, BeginStep

\* Whatever is killed, unreadable or not written, and whoever is started when,
\* some node keeps the authority (recover_cold_standby, _accept_cold_shutdown),
\* unless an export met the demotion of its node (export_now checks the authority
\* before it takes the lock).
THEOREM AuthorityStays == Spec => []AuthorityNotLost
<1>1. Types /\ SourceHasAuthority => AuthorityNotLost
  BY ColdAssumption DEF SourceHasAuthority, AuthorityNotLost, Types
<1>2. Init => Types /\ SourceHasAuthority
  <2>1. Init => store.source = NoBundle /\ \A n \in Node : pc[n] # "demoting"
    BY DEF Init
  <2>2. Init => auth[Main]
    BY ColdAssumption, Zenon DEF Init
  <2> QED
    BY <2>1, <2>2, InitTypes DEF SourceHasAuthority
<1>3. (Types /\ SourceHasAuthority) /\ [Next]_vars => (Types /\ SourceHasAuthority)'
  BY NextKeepsColdTypes, NextKeepsSource
<1> QED
  BY <1>1, <1>2, <1>3, PTL DEF Spec

-----------------------------------------------------------------------------

\* One node runs; it has reserved what it has published; and from the moment it
\* has looked at the store, a node with authority knows what is in it, because
\* no export is under way that began before.
ColdInv ==
    /\ \A m, n \in Node : pc[m] # "down" /\ pc[n] # "down" => m = n
    /\ \A n \in Node : pc[n] = "down" => exporting[n] = "idle"
    /\ store.source = NoBundle => store.seq = 0
    /\ \A n \in Node : store.source = n => store.seq <= Known(n)
    /\ \A n \in Node : pc[n] = "following" => ~auth[n]
    /\ \A n \in Node : pc[n] = "accepting" => store.seq <= Known(n)
    /\ ColdAndRead => \A n \in Node :
            /\ exporting[n] \in {"manual", "final"} => pc[n] = "running" /\ auth[n]
            /\ pc[n] \in {"importing", "running"} /\ auth[n] => store.seq <= Known(n)

LEMMA InitCold == Init => ColdInv
BY ColdAssumption DEF Init, ColdInv, Known, ColdAndRead

\* An export of the node that runs: it knows what it publishes.
LEMMA ExportKeepsCold ==
    ASSUME Types, ColdInv, NEW n \in Node, ExportStep(n)
    PROVE  ColdInv'
<1>0. PICK final \in BOOLEAN : Export(n, final)
  BY ExportStepIsExport
<1>1. Known(n) \in Nat /\ Known(n)' = Known(n) + 1
  BY <1>0, ExportSteps, KnownType DEF Known, Types
<1>2. pc' = pc /\ pc[n] # "down" /\ auth' = auth /\ ColdAndRead' = ColdAndRead
  BY <1>0, ExportSteps, ExportStepIsExport DEF ColdAndRead, ColdInv
<1>3. \A m \in Node : m # n => pc[m] = "down" /\ Known(m)' = Known(m) /\ exporting'[m] = exporting[m]
  BY <1>0, <1>2, ExportSteps, ExportStepIsExport DEF ColdInv, Types, Known
<1>4. store' = store \/ store' = [seq |-> Known(n) + 1, source |-> n, final |-> final]
  BY <1>0, ExportSteps
<1>5. exporting'[n] \in {"manual", "final"} => exporting[n] \in {"manual", "final"}
  BY ExportStepIsExport DEF Types
<1>6. store.seq \in Nat /\ n # NoBundle
  BY ColdAssumption DEF Types
<1>7. /\ store.source = NoBundle => store.seq = 0
      /\ \A m \in Node : store.source = m => store.seq <= Known(m)
      /\ \A m \in Node : pc[m] = "following" => ~auth[m]
      /\ \A m \in Node : pc[m] = "accepting" => store.seq <= Known(m)
      /\ \A m \in Node : pc[m] = "down" => exporting[m] = "idle"
  BY DEF ColdInv
<1>8. /\ \A m, k \in Node : pc'[m] # "down" /\ pc'[k] # "down" => m = k
      /\ \A m \in Node : pc'[m] = "down" => exporting'[m] = "idle"
      /\ \A m \in Node : pc'[m] = "following" => ~auth'[m]
  BY <1>2, <1>3, <1>7
<1>9. ColdAndRead' => \A m \in Node : exporting'[m] \in {"manual", "final"} => pc'[m] = "running" /\ auth'[m]
  BY <1>2, <1>3, <1>5, <1>7 DEF ColdInv
<1>10. /\ store'.source = NoBundle => store'.seq = 0
       /\ \A m \in Node : store'.source = m => store'.seq <= Known(m)'
       /\ \A m \in Node : pc'[m] = "accepting" => store'.seq <= Known(m)'
       /\ ColdAndRead' => \A m \in Node : pc'[m] \in {"importing", "running"} /\ auth'[m] => store'.seq <= Known(m)'
  <2>1. CASE store' = store
    <3>1. ColdAndRead => (pc[n] \in {"importing", "running"} /\ auth[n] => store.seq <= Known(n))
      BY DEF ColdInv
    <3> QED
      BY <1>1, <1>2, <1>3, <1>6, <1>7, <2>1, <3>1
  <2>2. CASE store' = [seq |-> Known(n) + 1, source |-> n, final |-> final]
    BY <1>1, <1>2, <1>3, <1>6, <2>2
  <2> QED
    BY <1>4, <2>1, <2>2
<1> QED
  BY <1>8, <1>9, <1>10 DEF ColdInv

\* Between a node's look at the store and the next look, only it acts.
LEMMA NextKeepsCold ==
    ASSUME OneAtATime, Types, ColdInv, [Next]_vars
    PROVE  ColdInv'
<1>t. \A m \in Node : Known(m) \in Nat
  BY KnownType
<1>1. ASSUME NEW n \in Node, BeginStep(n) PROVE ColdInv'
  <2>1. /\ UNCHANGED <<store, auth, pc>> /\ \A m \in Node : Known(m)' = Known(m)
        /\ \A m \in Node : m # n => exporting'[m] = exporting[m]
    BY <1>1, BeginSteps DEF Known, Types
  <2>2. ColdAndRead' => ColdAndRead
    BY <1>1, BeginSteps, FaultSteps DEF ColdAndRead
  <2>3. ColdAndRead' /\ exporting'[n] \in {"manual", "final"} => pc[n] = "running" /\ auth[n]
    BY <1>1, BeginSteps, FaultSteps DEF ColdAndRead
  <2>4. pc[n] # "down"
    BY <1>1 DEF BeginStep, ManualExport, Flush
  <2> QED
    BY <2>1, <2>2, <2>3, <2>4 DEF ColdInv
<1>2. ASSUME NEW n \in Node, Recover(n) PROVE ColdInv'
  <2>1. UNCHANGED <<store, auth, exporting, ColdAndRead>> /\ \A m \in Node : Known(m)' = Known(m)
    BY <1>2 DEF Recover, Known, ColdAndRead
  <2>2. pc[n] = "recovering" /\ \A m \in Node : m # n => pc[m] = "down" /\ pc'[m] = "down"
    BY <1>2 DEF Recover, ColdInv, Types, Goto
  <2>3. ~ColdAndRead \/ exporting[n] \notin {"manual", "final"}
    BY <2>2 DEF ColdInv
  <2>4. CASE Newer(n)
    <3>1. pc'[n] = "demoting"
      BY <1>2, <2>4 DEF Recover, Types, Goto
    <3> QED
      BY <2>1, <2>2, <2>3, <3>1 DEF ColdInv
  <2>5. CASE ~Newer(n)
    <3>1. pc'[n] = "importing" /\ store.seq <= Known(n)
      BY <1>t, <1>2, <2>5 DEF Recover, Types, Goto, Newer, ColdInv
    <3> QED
      BY <2>1, <2>2, <2>3, <3>1 DEF ColdInv
  <2> QED
    BY <2>4, <2>5
<1>3. ASSUME NEW n \in Node, Demote(n) PROVE ColdInv'
  <2>1. UNCHANGED <<store, exporting, ColdAndRead>> /\ \A m \in Node : Known(m)' = Known(m)
    BY <1>3 DEF Demote, Known, ColdAndRead
  <2>2. \A m \in Node : m # n => pc[m] = "down" /\ pc'[m] = "down" /\ auth'[m] = auth[m]
    BY <1>3 DEF Demote, ColdInv, Types, Goto
  <2>3. pc[n] = "demoting" /\ pc'[n] = "following" /\ ~auth'[n]
    BY <1>3 DEF Demote, Types, Goto
  <2> QED
    BY <2>1, <2>2, <2>3 DEF ColdInv
<1>4. ASSUME NEW n \in Node, Import(n) PROVE ColdInv'
  <2>1. UNCHANGED <<store, auth, exporting, ColdAndRead>> /\ ~auth[n]
    BY <1>4 DEF Import, ColdAndRead
  <2>2. \A m \in Node : m # n => pc[m] = "down" /\ pc'[m] = "down" /\ Known(m)' = Known(m)
    BY <1>4 DEF Import, ColdInv, Types, Goto, Known
  <2>3. store.seq <= Known(n)' /\ pc'[n] \in {"accepting", "running"}
    BY <1>4 DEF Import, Importable, Newer, Types, Goto, Known
  <2> QED
    BY <2>1, <2>2, <2>3 DEF ColdInv
<1>5. ASSUME NEW n \in Node,
             RecoverFails(n) \/ NoImport(n) \/ Accept(n) \/ Start(n) \/ Stop(n) \/ Kill(n) \/ RequestHandoff(n)
      PROVE  ColdInv'
  <2>s. UNCHANGED <<store, online>> /\ \A m \in Node : Known(m)' = Known(m)
    BY <1>5 DEF RecoverFails, NoImport, Accept, Start, Stop, Kill, RequestHandoff, Known
  <2>f. \/ faults' = faults
        \/ faults' = [faults EXCEPT !.reads = @ + 1]
        \/ faults' = [faults EXCEPT !.kills = @ + 1]
    BY <1>5 DEF RecoverFails, NoImport, Accept, Start, Stop, Kill, RequestHandoff
  <2>1. ColdAndRead' => ColdAndRead
    BY <2>s, <2>f, FaultSteps DEF ColdAndRead
  <2>2. \A m \in Node : m # n => pc'[m] = pc[m] /\ auth'[m] = auth[m] /\ exporting'[m] = exporting[m]
    BY <1>5 DEF RecoverFails, NoImport, Accept, Start, Stop, Kill, RequestHandoff, Types, Goto, Down
  <2>3. pc'[n] # "down" => \A m \in Node : m # n => pc[m] = "down"
    BY <1>5 DEF RecoverFails, NoImport, Accept, Start, Stop, Kill, RequestHandoff, Types, Goto, Down, ColdInv
  <2>4. exporting'[n] = exporting[n] \/ exporting'[n] = "idle"
    BY <1>5 DEF RecoverFails, NoImport, Accept, Start, Stop, Kill, RequestHandoff, Types, Down
  <2>5. \/ pc'[n] = "down" /\ exporting'[n] = "idle"
        \/ pc[n] = "down" /\ pc'[n] \in {"recovering", "importing"}
           /\ (pc'[n] = "importing" => ~ColdAndRead')
        \/ pc'[n] = "importing" /\ ~ColdAndRead'
        \/ pc'[n] = "running" /\ pc[n] # "running" /\ (auth'[n] /\ ColdAndRead' => store.seq <= Known(n))
        \/ pc'[n] = "running" /\ pc[n] = "running" /\ auth'[n] = auth[n]
    <3>1. CASE Start(n)
      BY <3>1 DEF Start, Types, Goto, ColdAndRead
    <3>2. CASE Stop(n) \/ Kill(n)
      BY <3>2 DEF Stop, Kill, Down, Goto, Types
    <3>3. CASE RecoverFails(n)
      BY <3>3, FaultSteps DEF RecoverFails, Types, Goto, ColdAndRead
    <3>4. CASE NoImport(n)
      <4>1. pc[n] \in {"following", "importing"} /\ pc'[n] = "running" /\ auth'[n] = auth[n]
        BY <3>4 DEF NoImport, Types, Goto
      <4> QED
        BY <4>1, <2>1 DEF ColdInv
    <3>5. CASE Accept(n)
      BY <3>5 DEF Accept, Types, Goto, ColdInv
    <3>6. CASE RequestHandoff(n)
      BY <3>6 DEF RequestHandoff
    <3> QED
      BY <1>5, <3>1, <3>2, <3>3, <3>4, <3>5, <3>6
  <2>6. ColdAndRead /\ exporting[n] \in {"manual", "final"} => pc[n] = "running" /\ auth[n]
    BY DEF ColdInv
  <2>7. pc[n] = "down" => exporting[n] = "idle"
    BY DEF ColdInv
  <2> QED
    BY <2>s, <2>1, <2>2, <2>3, <2>4, <2>5, <2>6, <2>7 DEF ColdInv
<1>6. CASE SwitchOnline
  BY <1>6 DEF SwitchOnline, ColdInv, Known, ColdAndRead
<1>7. CASE UNCHANGED vars
  BY <1>7 DEF vars, ColdInv, Known, ColdAndRead
<1> QED
  BY <1>1, <1>2, <1>3, <1>4, <1>5, <1>6, <1>7, ExportKeepsCold DEF Next, Starting, ExportStep, BeginStep

\* If the operator runs one node at a time, a node that writes has seen everything
\* in the store, until a start cannot read it or an export begins before a start
\* is over.
THEOREM WriterIsNewest ==
    ASSUME OneAtATime
    PROVE  Spec => []WriterKnowsStore
<1>1. ColdInv => WriterKnowsStore
  BY DEF ColdInv, WriterKnowsStore, ReturningFollows
<1>2. Init => Types /\ ColdInv
  BY InitTypes, InitCold
<1>3. (Types /\ ColdInv) /\ [Next]_vars => (Types /\ ColdInv)'
  BY NextKeepsColdTypes, NextKeepsCold
<1> QED
  BY <1>1, <1>2, <1>3, PTL DEF Spec

\* Under the same conditions no export, of the loop, the page or a stop, replaces
\* a bundle of its own or a higher sequence in the shared store.
THEOREM StoreOnlyAdvances ==
    ASSUME OneAtATime
    PROVE  Spec => StoreAdvances
<1>1. ASSUME Types, ColdInv, [Next]_vars
      PROVE  [ColdAndRead /\ store' # store => store'.seq > store.seq]_vars
  <2>1. ASSUME NEW n \in Node, ExportStep(n), ColdAndRead, store' # store
        PROVE  store'.seq > store.seq
    <3>1. PICK final \in BOOLEAN : Export(n, final)
      BY <1>1, <2>1, ExportStepIsExport
    <3>2. pc[n] = "running" /\ auth[n]
      BY <1>1, <2>1, ExportStepIsExport DEF ColdInv
    <3>3. store'.seq = Known(n) + 1
      BY <1>1, <2>1, <3>1, ExportSteps
    <3> QED
      BY <1>1, <2>1, <3>2, <3>3, KnownType DEF ColdInv, Types
  <2>2. (~\E n \in Node : ExportStep(n)) => store' = store
    BY <1>1, BeginSteps DEF Next, Starting, Recover, RecoverFails, Demote, Import, NoImport, Accept, Start,
                            Stop, Kill, RequestHandoff, SwitchOnline, vars, ExportStep, BeginStep
  <2> QED
    BY <2>1, <2>2
<1>2. Init => Types /\ ColdInv
  BY InitTypes, InitCold
<1>3. (Types /\ ColdInv) /\ [Next]_vars => (Types /\ ColdInv)'
  BY NextKeepsColdTypes, NextKeepsCold
<1> QED
  BY <1>1, <1>2, <1>3, PTL DEF Spec, StoreAdvances

=============================================================================
