--------------------------- MODULE BundleStoreProofs ---------------------------
(***************************************************************************)
(* Proofs about BundleStore, for every backend, set of nodes and readers,  *)
(* and bound. That an object disappears only when three newer ones are     *)
(* complete needs nothing of the writers; the rest is for writers that     *)
(* take turns and know the newest sequence, as one authority does.         *)
(***************************************************************************)
EXTENDS BundleStore, TLAPS

\* The order of the names is a strict total order.
LEMMA BeforeOrders ==
    /\ \A a \in Bundle : ~Before(a, a)
    /\ \A a, b \in Bundle : a = b \/ Before(a, b) \/ Before(b, a)
    /\ \A a, b, c \in Bundle : Before(a, b) /\ Before(b, c) => Before(a, c)
    /\ \A a, b \in Bundle : a.sequence < b.sequence => Before(a, b) /\ ~Before(b, a)
<1>1. \A a, b \in Bundle : a.source = b.source /\ a.sequence = b.sequence => a = b
  BY DEF Bundle
<1>2. \A a \in Bundle : a.sequence \in Nat /\ a.source \in Writer /\ HashRank[a.source] \in Nat
  BY StoreAssumption DEF Bundle
<1>3. \A a, b \in Bundle : HashRank[a.source] = HashRank[b.source] => a.source = b.source
  BY <1>2, StoreAssumption
<1> QED
  BY <1>1, <1>2, <1>3 DEF Before

\* More completed objects supersede no fewer.
LEMMA SupersededGrows ==
  ASSUME NEW S, NEW T, S \subseteq T, NEW b, Superseded(b, S)
  PROVE  Superseded(b, T)
BY DEF Superseded

\* What is newer than a superseded name is newer than two others at least.
LEMMA SupersededIsTransitive ==
  ASSUME NEW S \in SUBSET Bundle, NEW a \in Bundle, NEW b \in Bundle,
         Before(a, b), Superseded(b, S)
  PROVE  Superseded(a, S)
<1>1. PICK x, y, z \in S : Before(b, x) /\ Before(x, y) /\ Before(y, z)
  BY DEF Superseded
<1>2. Before(a, x)
  BY <1>1, BeforeOrders
<1> QED
  BY <1>1, <1>2 DEF Superseded

\* A newest bundle is not superseded.
LEMMA NewestIsKept ==
  ASSUME NEW S \in SUBSET Bundle, NEW b, NewestOf(b, S)
  PROVE  ~Superseded(b, S)
<1>1. SUFFICES ASSUME NEW x \in S, Before(b, x)
               PROVE  FALSE
  BY DEF Superseded
<1> QED
  BY <1>1, BeforeOrders DEF NewestOf

\* A newest bundle is the last of every set of names it is in, and no other is.
LEMMA NewestIsLast ==
  ASSUME NEW S \in SUBSET Bundle, NEW T \in SUBSET S, NEW b \in T, NewestOf(b, S)
  PROVE  /\ \A d \in T : IsLast(d, T) <=> d = b
         /\ (CHOOSE d \in T : IsLast(d, T)) = b
<1>1. IsLast(b, T)
  BY BeforeOrders DEF NewestOf, IsLast
<1>2. \A d \in T : IsLast(d, T) => d = b
  BY <1>1, BeforeOrders DEF IsLast
<1> QED
  BY <1>1, <1>2

-----------------------------------------------------------------------------
(* Type correctness *)

\* Every reachable state of the store is well typed.
THEOREM TypeCorrect == Spec => []TypeOK
<1>1. Init => TypeOK
  BY DEF Init, TypeOK
<1>2. TypeOK /\ [Next]_vars => TypeOK'
  <2> SUFFICES ASSUME TypeOK, [Next]_vars PROVE TypeOK'
    OBVIOUS
  <2>1. CASE UNCHANGED vars
    BY <2>1 DEF TypeOK, vars
  <2>2. ASSUME NEW w \in Writer, Write(w) PROVE TypeOK'
    <3> USE DEF TypeOK, WriterGoto, readerVars
    <3>1. CASE BeginWrite(w)
      BY <3>1 DEF BeginWrite
    <3>2. CASE PutObject(w)
      BY <3>2 DEF PutObject
    <3>3. CASE PutPointer(w)
      BY <3>3 DEF PutPointer
    <3>4. CASE TearPointer(w)
      BY <3>4 DEF TearPointer
    <3>5. CASE RewritePointer(w)
      BY <3>5 DEF RewritePointer
    <3>6. CASE Verify(w)
      BY <3>6 DEF Verify
    <3>7. CASE ListForPrune(w)
      BY <3>7 DEF ListForPrune, Prunable
    <3>8. CASE DeleteObject(w)
      BY <3>8 DEF DeleteObject
    <3>9. CASE EndWrite(w)
      BY <3>9 DEF EndWrite
    <3>10. CASE Return(w) \/ Interrupt(w)
      BY <3>10 DEF Return, Interrupt, Forget
    <3> QED
      BY <2>2, <3>1, <3>2, <3>3, <3>4, <3>5, <3>6, <3>7, <3>8, <3>9, <3>10 DEF Write
  <2>3. ASSUME NEW r \in Reader, Read(r) PROVE TypeOK'
    <3> USE DEF TypeOK, ReaderGoto, writerVars, EndRead
    <3>1. CASE ReadPointer(r)
      BY <3>1 DEF ReadPointer
    <3>2. CASE SkipPointer(r)
      BY <3>2 DEF SkipPointer
    <3>3. CASE NoPointer(r)
      BY <3>3 DEF NoPointer
    <3>4. CASE OpenObject(r)
      BY <3>4 DEF OpenObject
    <3>5. CASE ObjectGone(r)
      BY <3>5 DEF ObjectGone
    <3>6. CASE ObjectLost(r)
      BY <3>6 DEF ObjectLost
    <3>7. CASE ListForRead(r)
      BY <3>7 DEF ListForRead
    <3>8. CASE NothingListed(r)
      BY <3>8 DEF NothingListed
    <3>9. CASE OpenFallback(r)
      BY <3>9 DEF OpenFallback
    <3> QED
      BY <2>3, <3>1, <3>2, <3>3, <3>4, <3>5, <3>6, <3>7, <3>8, <3>9 DEF Read
  <2> QED
    BY <2>1, <2>2, <2>3 DEF Next
<1> QED
  BY <1>1, <1>2, PTL DEF Spec

-----------------------------------------------------------------------------
(* Retention *)

\* PruneInv survives a step that completes objects, deletes a doomed one or dooms
\* what is superseded; it does not read the rest of the state.
LEMMA PruneStep ==
  ASSUME TypeOK, PruneInv, [Next]_vars
  PROVE  PruneInv'
<1>1. ASSUME UNCHANGED <<objects, put, doomed>> PROVE PruneInv'
  BY <1>1 DEF PruneInv, PrunedAreSuperseded, Superseded
<1>2. ASSUME NEW w \in Writer, UNCHANGED <<objects, put>>, doomed' = [doomed EXCEPT ![w] = {}]
      PROVE  PruneInv'
  BY <1>2 DEF PruneInv, PrunedAreSuperseded, Superseded, TypeOK
<1>3. ASSUME NEW w \in Writer, PutObject(w) PROVE PruneInv'
  <2>1. put \subseteq put' /\ objects' \subseteq put' /\ doomed' = doomed
    BY <1>3 DEF PutObject, PruneInv
  <2>2. \A b : Superseded(b, put) => Superseded(b, put')
    BY <2>1, SupersededGrows
  <2>3. put' \ objects' \subseteq put \ objects
    BY <1>3 DEF PutObject
  <2> QED
    BY <2>1, <2>2, <2>3 DEF PruneInv, PrunedAreSuperseded
<1>4. ASSUME NEW w \in Writer, ListForPrune(w) PROVE PruneInv'
  <2>1. objects' = objects /\ put' = put /\ doomed' = [doomed EXCEPT ![w] = Prunable(objects)]
    BY <1>4 DEF ListForPrune
  <2>2. \A b \in Prunable(objects) : Superseded(b, put)
    BY SupersededGrows DEF Prunable, PruneInv
  <2> QED
    BY <2>1, <2>2 DEF PruneInv, PrunedAreSuperseded, Superseded, TypeOK
<1>5. ASSUME NEW w \in Writer, DeleteObject(w) PROVE PruneInv'
  <2>1. PICK b \in doomed[w] : /\ objects' = objects \ {b}
                               /\ doomed' = [doomed EXCEPT ![w] = @ \ {b}]
    BY <1>5 DEF DeleteObject
  <2>2. put' = put /\ Superseded(b, put)
    BY <1>5 DEF DeleteObject, PruneInv
  <2>3. \A v \in Writer : doomed'[v] \subseteq doomed[v]
    BY <2>1 DEF TypeOK
  <2> QED
    BY <2>1, <2>2, <2>3 DEF PruneInv, PrunedAreSuperseded, Superseded
<1>6. ASSUME NEW w \in Writer, Write(w) PROVE PruneInv'
  <2>1. CASE \/ BeginWrite(w) \/ PutPointer(w) \/ TearPointer(w) \/ RewritePointer(w)
             \/ Verify(w) \/ EndWrite(w)
    BY <1>1, <2>1 DEF BeginWrite, PutPointer, TearPointer, RewritePointer, Verify, EndWrite
  <2>2. CASE Return(w) \/ Interrupt(w)
    BY <1>2, <2>2 DEF Return, Interrupt, Forget
  <2> QED
    BY <1>3, <1>4, <1>5, <1>6, <2>1, <2>2 DEF Write
<1>7. ASSUME NEW r \in Reader, Read(r) PROVE PruneInv'
  BY <1>1, <1>7 DEF Read, ReadPointer, SkipPointer, NoPointer, OpenObject, ObjectGone,
     ObjectLost, ListForRead, NothingListed, OpenFallback, writerVars
<1>8. CASE UNCHANGED vars
  BY <1>1, <1>8 DEF vars
<1> QED
  BY <1>6, <1>7, <1>8 DEF Next

\* What is deleted, or waits to be deleted by a _prune, is superseded by complete objects.
THEOREM PruneInvariant == Spec => []PruneInv
<1>1. Init => PruneInv
  BY DEF Init, PruneInv, PrunedAreSuperseded
<1>2. TypeOK /\ PruneInv /\ [Next]_vars => PruneInv'
  BY PruneStep
<1> QED
  BY <1>1, <1>2, TypeCorrect, PTL DEF Spec

\* An object of the store is deleted only when three newer ones have been completed,
\* however writers overlap and whatever sequences they use (the _prune methods).
THEOREM RetentionIsKept == Spec => []PrunedAreSuperseded
<1>1. PruneInv => PrunedAreSuperseded
  BY DEF PruneInv
<1> QED
  BY <1>1, PruneInvariant, PTL

-----------------------------------------------------------------------------
(* One authority: writers take turns and know the newest sequence *)

\* A writer's step leaves the other writers idle, and the readers' state alone.
LEMMA WriterStep ==
  ASSUME TypeOK, StoreInv, OneAtATime, KnowsNewest, NEW w \in Writer, Write(w)
  PROVE  WriterInv' /\ ContentInv'
<1> USE DEF TypeOK, StoreInv, WriterInv, ContentInv, NewestOf, WriterGoto, readerVars
<1>1. CASE BeginWrite(w)
  <2>1. PICK b \in Bundle : /\ \A c \in put : c.sequence < b.sequence
                            /\ item' = [item EXCEPT ![w] = b]
    BY <1>1 DEF BeginWrite
  <2>2. /\ \A v \in Writer : wpc[v] = "idle"
        /\ wpc' = [wpc EXCEPT ![w] = "object"]
        /\ UNCHANGED <<objects, pointer, put, published>>
    BY <1>1 DEF BeginWrite
  <2> QED
    BY <2>1, <2>2
<1>2. CASE PutObject(w)
  <2>1. /\ wpc[w] = "object" /\ wpc' = [wpc EXCEPT ![w] = "pointer"]
        /\ objects' = objects \cup {item[w]} /\ put' = put \cup {item[w]}
        /\ UNCHANGED <<pointer, published, item>>
    BY <1>2 DEF PutObject
  <2>2. \A v \in Writer : v = w \/ wpc[v] = "idle"
    BY <2>1
  <2>3. item[w] \in Bundle /\ NewestOf(item[w], put')
    BY <2>1
  <2>4. published # item[w]
    <3>1. published # None => published \in put
      BY DEF PruneInv
    <3>2. \A c \in put : c.sequence < item[w].sequence /\ c.sequence \in Nat
      BY <2>1, StoreAssumption DEF Bundle
    <3> QED
      BY <2>3, <3>1, <3>2, StoreNoneAssumption
  <2>5. WriterInv'
    BY <2>1, <2>2, <2>3, <2>4
  <2>6. ContentInv'
    BY <2>1, <2>3
  <2> QED
    BY <2>5, <2>6
<1>3. CASE PutPointer(w) \/ RewritePointer(w)
  <2>1. /\ wpc[w] \in {"pointer", "rewrite"}
        /\ wpc' = [wpc EXCEPT ![w] = "verify"] \/ wpc' = [wpc EXCEPT ![w] = "list"]
        /\ pointer' = item[w] /\ published' = item[w]
        /\ UNCHANGED <<objects, put, item>>
    BY <1>3 DEF PutPointer, RewritePointer
  <2>2. \A v \in Writer : v = w \/ wpc[v] = "idle"
    BY <2>1
  <2> QED
    BY <2>1, <2>2
<1>4. CASE TearPointer(w)
  <2>1. /\ wpc[w] = "pointer" /\ Backend = "smb" /\ pointer' = Torn
        /\ wpc' = [wpc EXCEPT ![w] = "rewrite"]
        /\ UNCHANGED <<objects, put, item, published>>
    BY <1>4 DEF TearPointer
  <2> QED
    BY <2>1, StoreNoneAssumption
<1>5. CASE Verify(w) \/ ListForPrune(w) \/ EndWrite(w)
  <2>1. /\ wpc[w] \in {"verify", "list", "prune"}
        /\ \E step \in {"list", "prune", "written"} : wpc' = [wpc EXCEPT ![w] = step]
        /\ UNCHANGED <<objects, pointer, put, item, published>>
    BY <1>5 DEF Verify, ListForPrune, EndWrite
  <2> QED
    BY <2>1
<1>6. CASE DeleteObject(w)
  <2>1. PICK b \in doomed[w] : objects' = objects \ {b}
    BY <1>6 DEF DeleteObject
  <2>2. wpc[w] = "prune" /\ UNCHANGED <<pointer, wpc, put, item, published>>
    BY <1>6 DEF DeleteObject
  <2>3. Superseded(b, put)
    BY DEF PruneInv
  <2>4. \A m : NewestOf(m, put) => m # b
    BY <2>3, NewestIsKept
  <2>5. \A v \in Writer : v = w \/ wpc[v] = "idle"
    BY <2>2
  <2>6. item[w] \in objects'
    BY <2>1, <2>2, <2>4
  <2>7. WriterInv'
    BY <2>2, <2>5, <2>6
  <2>8. ContentInv'
    BY <2>1, <2>2, <2>4, <2>6
  <2> QED
    BY <2>7, <2>8
<1>7. CASE Return(w) \/ Interrupt(w)
  <2>1. /\ wpc' = [wpc EXCEPT ![w] = "idle"] /\ item' = [item EXCEPT ![w] = None]
        /\ UNCHANGED <<objects, pointer, put, published>>
    BY <1>7 DEF Return, Interrupt, Forget
  <2> QED
    BY <2>1
<1> QED
  BY <1>1, <1>2, <1>3, <1>4, <1>5, <1>6, <1>7 DEF Write

\* Completed objects stay completed, so a writer cannot disturb a reader.
LEMMA WriterLeavesReaders ==
  ASSUME TypeOK, ReaderInv, NEW w \in Writer, Write(w)
  PROVE  ReaderInv'
<1>1. put \subseteq put' /\ UNCHANGED readerVars
  BY DEF Write, BeginWrite, PutObject, PutPointer, TearPointer, RewritePointer, Verify,
     ListForPrune, DeleteObject, EndWrite, Return, Interrupt, Forget
<1> QED
  BY <1>1 DEF ReaderInv, readerVars

\* A read starts from what is published, and goes on to that or to something newer.
LEMMA ReaderStep ==
  ASSUME TypeOK, StoreInv, NEW r \in Reader, Read(r)
  PROVE  ReaderInv'
<1> USE DEF TypeOK, StoreInv, ReaderInv, ReaderGoto, EndRead, writerVars
<1>1. published # None => published \in put
  BY DEF ContentInv, PruneInv
<1>2. UNCHANGED <<objects, pointer, put, published>>
  BY DEF Read, ReadPointer, SkipPointer, NoPointer, OpenObject, ObjectGone, ObjectLost,
     ListForRead, NothingListed, OpenFallback
<1>3. CASE ReadPointer(r)
  <2>1. pointer \in put /\ ~Before(pointer, published)
    BY <1>1, <1>3, BeforeOrders, StoreNoneAssumption DEF ReadPointer, ContentInv
  <2> QED
    BY <1>1, <1>2, <1>3, <2>1 DEF ReadPointer
<1>4. CASE SkipPointer(r)
  BY <1>1, <1>2, <1>4 DEF SkipPointer
<1>5. CASE NoPointer(r)
  BY <1>1, <1>2, <1>5 DEF NoPointer
<1>6. CASE OpenObject(r) \/ ObjectGone(r) \/ ObjectLost(r) \/ NothingListed(r) \/ OpenFallback(r)
  <2>1. /\ want' = [want EXCEPT ![r] = None] /\ floor' = floor
        /\ rpc' = [rpc EXCEPT ![r] = "idle"] \/ rpc' = [rpc EXCEPT ![r] = "list"]
    BY <1>6 DEF OpenObject, ObjectGone, ObjectLost, NothingListed, OpenFallback
  <2> QED
    BY <1>2, <2>1
<1>7. CASE ListForRead(r)
  <2>1. PICK b \in objects : IsLast(b, objects) /\ want' = [want EXCEPT ![r] = b]
    BY <1>7 DEF ListForRead
  <2>2. b \in put
    BY DEF PruneInv
  <2>3. PICK m \in objects : NewestOf(m, put)
    BY <2>2 DEF ContentInv
  <2>4. b = m
    BY <2>1, <2>3, NewestIsLast DEF PruneInv
  <2>5. \A c \in put : ~Before(m, c)
    BY <2>2, <2>3, <2>4, BeforeOrders DEF NewestOf
  <2> QED
    BY <1>2, <1>7, <2>1, <2>2, <2>4, <2>5 DEF ListForRead
<1> QED
  BY <1>3, <1>4, <1>5, <1>6, <1>7 DEF Read

\* The inductive invariant of the store, for one authority.
THEOREM StoreInvariant ==
  ASSUME OneAtATime, KnowsNewest
  PROVE  Spec => []StoreInv
<1>1. Init => StoreInv
  BY DEF Init, StoreInv, PruneInv, PrunedAreSuperseded, WriterInv, ContentInv, ReaderInv
<1>2. TypeOK /\ StoreInv /\ [Next]_vars => StoreInv'
  <2> SUFFICES ASSUME TypeOK, StoreInv, [Next]_vars PROVE StoreInv'
    OBVIOUS
  <2>1. PruneInv'
    BY PruneStep DEF StoreInv
  <2>2. ASSUME NEW w \in Writer, Write(w) PROVE StoreInv'
    BY <2>1, <2>2, WriterStep, WriterLeavesReaders DEF StoreInv
  <2>3. ASSUME NEW r \in Reader, Read(r) PROVE StoreInv'
    <3>1. UNCHANGED <<objects, pointer, put, published, wpc, item>>
      BY <2>3 DEF Read, ReadPointer, SkipPointer, NoPointer, OpenObject, ObjectGone,
         ObjectLost, ListForRead, NothingListed, OpenFallback, writerVars
    <3>2. WriterInv' /\ ContentInv'
      BY <3>1 DEF StoreInv, WriterInv, ContentInv, NewestOf
    <3> QED
      BY <2>1, <2>3, <3>2, ReaderStep DEF StoreInv
  <2>4. CASE UNCHANGED vars
    BY <2>1, <2>4 DEF StoreInv, WriterInv, ContentInv, ReaderInv, NewestOf, vars
  <2> QED
    BY <2>2, <2>3, <2>4 DEF Next
<1> QED
  BY <1>1, <1>2, TypeCorrect, PTL DEF Spec

\* The pointer of a store with one authority always names a complete object.
THEOREM PointerAlwaysResolves ==
  ASSUME OneAtATime, KnowsNewest
  PROVE  Spec => []PointerResolves
<1>1. StoreInv => PointerResolves
  BY StoreNoneAssumption DEF StoreInv, ContentInv, PointerResolves
<1> QED
  BY <1>1, StoreInvariant, PTL

\* When a write has returned, the pointer names the bundle it wrote, and that
\* is complete (sftp_worker.py reads it back, then prunes).
THEOREM ReportedAlwaysResolves ==
  ASSUME OneAtATime, KnowsNewest
  PROVE  Spec => []ReportedResolves
<1>1. StoreInv => ReportedResolves
  BY DEF StoreInv, WriterInv, ReportedResolves
<1> QED
  BY <1>1, StoreInvariant, PTL

\* A read that opens what it wants answers with something fresh; one that fails has
\* been overtaken by three publications.
LEMMA AnswerStep ==
  ASSUME TypeOK, StoreInv, ReadsAreFresh, ReadFailsOnlyIfOvertaken, [Next]_vars
  PROVE  ReadsAreFresh' /\ ReadFailsOnlyIfOvertaken'
<1> USE DEF ReadsAreFresh, ReadFailsOnlyIfOvertaken
<1>1. ASSUME UNCHANGED <<answer, floor>>, put \subseteq put'
      PROVE  ReadsAreFresh' /\ ReadFailsOnlyIfOvertaken'
  BY <1>1, SupersededGrows
<1>2. ASSUME NEW w \in Writer, Write(w)
      PROVE  UNCHANGED <<answer, floor>> /\ put \subseteq put'
  BY <1>2 DEF Write, BeginWrite, PutObject, PutPointer, TearPointer, RewritePointer, Verify,
     ListForPrune, DeleteObject, EndWrite, Return, Interrupt, Forget, readerVars
<1>3. ASSUME NEW r \in Reader, Read(r)
      PROVE  ReadsAreFresh' /\ ReadFailsOnlyIfOvertaken'
  <2> USE <1>3 DEF TypeOK, EndRead, ReaderGoto, writerVars
  <2>1. put' = put /\ \A b : Superseded(b, put') = Superseded(b, put)
    BY DEF Read, ReadPointer, SkipPointer, NoPointer, OpenObject, ObjectGone, ObjectLost,
       ListForRead, NothingListed, OpenFallback
  <2>2. CASE ReadPointer(r) \/ SkipPointer(r)
    <3>1. answer' = [answer EXCEPT ![r] = None] /\ floor' = [floor EXCEPT ![r] = published]
      BY <2>2 DEF ReadPointer, SkipPointer
    <3> QED
      BY <2>1, <3>1, StoreNoneAssumption
  <2>3. CASE NoPointer(r)
    <3>1. published = None
      BY <2>3 DEF NoPointer, HasFallback, StoreInv, ContentInv
    <3>2. answer' = [answer EXCEPT ![r] = Failed] /\ floor' = [floor EXCEPT ![r] = None]
      BY <2>3, <3>1 DEF NoPointer
    <3> QED
      BY <2>1, <3>2, StoreNoneAssumption
  <2>4. CASE ObjectGone(r) \/ ListForRead(r)
    BY <1>1, <2>1, <2>4 DEF ObjectGone, ListForRead
  <2>5. CASE NothingListed(r)
    <3>1. floor[r] = None
      BY <2>5 DEF NothingListed, StoreInv, ContentInv, ReaderInv
    <3>2. answer' = [answer EXCEPT ![r] = Failed] /\ floor' = floor
      BY <2>5 DEF NothingListed
    <3> QED
      BY <2>1, <3>1, <3>2, StoreNoneAssumption
  <2>6. CASE OpenObject(r) \/ ObjectLost(r) \/ OpenFallback(r)
    <3>1. /\ rpc[r] \in {"open", "fallback"} /\ floor' = floor
          /\ \/ answer' = [answer EXCEPT ![r] = want[r]]
             \/ want[r] \notin objects /\ answer' = [answer EXCEPT ![r] = Failed]
      BY <2>6 DEF OpenObject, ObjectLost, OpenFallback
    <3>2. want[r] \in put /\ (floor[r] # None => floor[r] \in put /\ ~Before(want[r], floor[r]))
      BY <3>1 DEF StoreInv, ReaderInv
    <3>3. CASE answer' = [answer EXCEPT ![r] = want[r]]
      BY <2>1, <3>1, <3>2, <3>3, StoreNoneAssumption
    <3>4. CASE want[r] \notin objects /\ answer' = [answer EXCEPT ![r] = Failed]
      <4>1. Superseded(want[r], put)
        BY <3>2, <3>4 DEF StoreInv, PruneInv, PrunedAreSuperseded
      <4>2. floor[r] # None => floor[r] = want[r] \/ Before(floor[r], want[r])
        BY <3>2, BeforeOrders
      <4>3. floor[r] # None => Superseded(floor[r], put)
        BY <3>2, <4>1, <4>2, SupersededIsTransitive
      <4> QED
        BY <2>1, <3>1, <3>4, <4>3, StoreNoneAssumption
    <3> QED
      BY <3>1, <3>3, <3>4
  <2> QED
    BY <2>2, <2>3, <2>4, <2>5, <2>6 DEF Read
<1>4. CASE UNCHANGED vars
  BY <1>1, <1>4 DEF vars
<1> QED
  BY <1>1, <1>2, <1>3, <1>4 DEF Next

\* With one authority, a read answers with something no older than what was published
\* when it began, and fails only when what it was offered has been superseded by three
\* newer bundles meanwhile, for every backend and wherever the writer stops.
THEOREM FreshReads ==
  ASSUME OneAtATime, KnowsNewest
  PROVE  Spec => []ReadsAreFresh /\ []ReadFailsOnlyIfOvertaken
<1>1. Init => ReadsAreFresh /\ ReadFailsOnlyIfOvertaken
  BY DEF Init, ReadsAreFresh, ReadFailsOnlyIfOvertaken
<1>2. /\ TypeOK /\ StoreInv /\ ReadsAreFresh /\ ReadFailsOnlyIfOvertaken /\ [Next]_vars
      => ReadsAreFresh' /\ ReadFailsOnlyIfOvertaken'
  BY AnswerStep
<1> QED
  BY <1>1, <1>2, TypeCorrect, StoreInvariant, PTL DEF Spec

-----------------------------------------------------------------------------
(* Refinement *)

\* What a listing offers: the newest object, unless that is already published.
LEMMA UnnamedIs ==
  ASSUME NEW S \in SUBSET Bundle, NEW T \in SUBSET S, NEW named \in S \cup {None},
         NEW m \in T, NewestOf(m, S)
  PROVE  Unnamed(T, named) = IF named = m THEN None ELSE m
<1>1. CASE named = m
  <2>1. \A b \in T : ~Before(m, b)
    BY BeforeOrders DEF NewestOf
  <2> QED
    BY <1>1, <2>1, StoreNoneAssumption DEF Unnamed
<1>2. CASE named # m
  <2>1. named = None \/ Before(named, m)
    BY <1>2, BeforeOrders DEF NewestOf
  <2>2. (CHOOSE d \in T : IsLast(d, T)) = m
    BY NewestIsLast
  <2> QED
    BY <1>2, <2>1, <2>2 DEF Unnamed
<1> QED
  BY <1>1, <1>2

\* A step that moves neither the newest object nor what is published offers the same.
LEMMA OfferedStays ==
  ASSUME TypeOK, StoreInv, StoreInv', published' = published, put' = put
  PROVE  Offered' = Offered
<1> USE DEF StoreInv, PruneInv, ContentInv, TypeOK, Offered
<1>1. CASE put = {}
  <2>1. objects = {} /\ objects' = {}
    BY <1>1
  <2> QED
    BY <2>1 DEF Unnamed
<1>2. CASE put # {}
  <2>1. PICK m \in objects : NewestOf(m, put)
    BY <1>2
  <2>2. m \in objects'
    BY <1>2, <2>1, BeforeOrders DEF NewestOf
  <2>3. Offered = IF published = m THEN None ELSE m
    BY <2>1, UnnamedIs
  <2>4. Offered' = IF published = m THEN None ELSE m
    BY <2>1, <2>2, UnnamedIs
  <2> QED
    BY <2>3, <2>4
<1> QED
  BY <1>1, <1>2

\* Completing an object offers it; writing the pointer names what was offered; the
\* other steps of a writer change nothing that the abstract store shows.
LEMMA WriterRefines ==
  ASSUME TypeOK, StoreInv, StoreInv', OneAtATime, KnowsNewest, NEW w \in Writer, Write(w)
  PROVE  Latest!Next \/ UNCHANGED <<published, Offered, want>>
<1> USE DEF StoreInv, PruneInv, TypeOK
<1>1. want' = want
  BY DEF Write, BeginWrite, PutObject, PutPointer, TearPointer, RewritePointer, Verify,
     ListForPrune, DeleteObject, EndWrite, Return, Interrupt, Forget, readerVars
<1>2. published # None => published \in put
  BY DEF ContentInv
<1>3. CASE PutObject(w)
  <2>1. /\ wpc[w] = "object" /\ published' = published /\ item[w] \in Bundle
        /\ objects' = objects \cup {item[w]} /\ put' = put \cup {item[w]}
    BY <1>3 DEF PutObject
  <2>2. \A c \in put : c.sequence < item[w].sequence
    BY <2>1 DEF WriterInv
  <2>3. \A c \in put : Before(c, item[w])
    BY <2>1, <2>2, BeforeOrders
  <2>4. NewestOf(item[w], put') /\ published # item[w]
    BY <1>2, <2>1, <2>2, <2>3, BeforeOrders, StoreNoneAssumption DEF NewestOf
  <2>5. Offered' = item[w]
    BY <1>2, <2>1, <2>4, UnnamedIs DEF Offered
  <2>6. Offered = None \/ Before(Offered, item[w])
    <3>1. CASE objects = {}
      BY <3>1 DEF Offered, Unnamed
    <3>2. CASE objects # {}
      <4>1. PICK m \in objects : NewestOf(m, put)
        BY <3>2 DEF ContentInv
      <4>2. Offered = None \/ Offered = m
        BY <1>2, <4>1, UnnamedIs DEF Offered
      <4> QED
        BY <2>3, <4>1, <4>2
    <3> QED
      BY <3>1, <3>2
  <2>7. published = None \/ Before(published, item[w])
    BY <1>2, <2>3
  <2>8. Latest!Offer
    BY <1>1, <2>1, <2>5, <2>6, <2>7 DEF Latest!Offer
  <2> QED
    BY <2>8 DEF Latest!Next
<1>4. CASE PutPointer(w) \/ RewritePointer(w)
  <2>1. /\ wpc[w] \in {"pointer", "rewrite"} /\ published' = item[w]
        /\ UNCHANGED <<objects, put>>
    BY <1>4 DEF PutPointer, RewritePointer
  <2>2. item[w] \in objects /\ NewestOf(item[w], put) /\ published # item[w]
    BY <2>1 DEF WriterInv
  <2>3. Offered = item[w]
    BY <1>2, <2>2, UnnamedIs DEF Offered
  <2>4. Offered' = None
    BY <2>1, <2>2, UnnamedIs DEF Offered
  <2>5. item[w] # None
    BY <2>2, StoreNoneAssumption
  <2>6. Latest!Name
    BY <1>1, <2>1, <2>3, <2>4, <2>5 DEF Latest!Name
  <2> QED
    BY <2>6 DEF Latest!Next
<1>5. CASE \/ BeginWrite(w) \/ TearPointer(w) \/ Verify(w) \/ ListForPrune(w)
           \/ DeleteObject(w) \/ EndWrite(w) \/ Return(w) \/ Interrupt(w)
  <2>1. published' = published /\ put' = put
    BY <1>5 DEF BeginWrite, TearPointer, Verify, ListForPrune, DeleteObject, EndWrite,
       Return, Interrupt, Forget
  <2>2. Offered' = Offered
    BY <2>1, OfferedStays
  <2> QED
    BY <1>1, <2>1, <2>2
<1> QED
  BY <1>3, <1>4, <1>5 DEF Write

\* A read takes what the pointer names or what a listing offers, and lets it go.
LEMMA ReaderRefines ==
  ASSUME TypeOK, StoreInv, StoreInv', NEW r \in Reader, Read(r)
  PROVE  Latest!Next \/ UNCHANGED <<published, Offered, want>>
<1> USE DEF StoreInv, TypeOK
<1>1. UNCHANGED <<objects, pointer, put, published>> /\ Offered' = Offered
  BY OfferedStays DEF Read, ReadPointer, SkipPointer, NoPointer, OpenObject, ObjectGone,
     ObjectLost, ListForRead, NothingListed, OpenFallback, writerVars
<1>2. ASSUME NEW b \in {published, Offered} \ {None}, want' = [want EXCEPT ![r] = b]
      PROVE  Latest!Next
  <2>1. Latest!Take(r)
    BY <1>1, <1>2 DEF Latest!Take
  <2> QED
    BY <2>1 DEF Latest!Next
<1>3. ASSUME want' = [want EXCEPT ![r] = None]
      PROVE  Latest!Next
  <2>1. Latest!Release(r)
    BY <1>1, <1>3 DEF Latest!Release
  <2> QED
    BY <2>1 DEF Latest!Next
<1>4. CASE ReadPointer(r)
  <2>1. pointer = published /\ published # None
    BY <1>4, StoreNoneAssumption DEF ReadPointer, ContentInv
  <2> QED
    BY <1>2, <1>4, <2>1 DEF ReadPointer
<1>5. CASE SkipPointer(r)
  BY <1>1, <1>5 DEF SkipPointer
<1>6. CASE NoPointer(r) \/ OpenObject(r) \/ ObjectGone(r) \/ ObjectLost(r) \/ NothingListed(r)
           \/ OpenFallback(r)
  BY <1>3, <1>6 DEF NoPointer, OpenObject, ObjectGone, ObjectLost, NothingListed,
     OpenFallback, EndRead
<1>7. CASE ListForRead(r)
  <2>1. PICK b \in objects : IsLast(b, objects) /\ want' = [want EXCEPT ![r] = b]
    BY <1>7 DEF ListForRead
  <2>2. b \in put /\ (published # None => published \in put)
    BY DEF PruneInv, ContentInv
  <2>3. PICK m \in objects : NewestOf(m, put)
    BY <2>2 DEF ContentInv
  <2>4. b = m
    BY <2>1, <2>3, NewestIsLast DEF PruneInv
  <2>5. Offered = IF published = m THEN None ELSE m
    BY <2>2, <2>3, UnnamedIs DEF Offered, PruneInv
  <2>6. b \in {published, Offered} \ {None}
    BY <2>4, <2>5, StoreNoneAssumption
  <2> QED
    BY <1>2, <2>1, <2>6
<1> QED
  BY <1>4, <1>5, <1>6, <1>7 DEF Read

\* With one authority the store, with its separate objects, pointer and pruning, is to
\* its readers one latest bundle.
THEOREM Refinement ==
  ASSUME OneAtATime, KnowsNewest
  PROVE  Spec => ImplementsLatest
<1>1. Init => Latest!Init
  BY DEF Init, Latest!Init, Offered, Unnamed
<1>2. TypeOK /\ StoreInv /\ StoreInv' /\ [Next]_vars
      => [Latest!Next]_<<published, Offered, want>>
  <2> SUFFICES ASSUME TypeOK, StoreInv, StoreInv', [Next]_vars
               PROVE  Latest!Next \/ UNCHANGED <<published, Offered, want>>
    OBVIOUS
  <2>1. CASE UNCHANGED vars
    BY <2>1 DEF vars, Offered
  <2> QED
    BY <2>1, WriterRefines, ReaderRefines DEF Next
<1> QED
  BY <1>1, <1>2, TypeCorrect, StoreInvariant, PTL DEF Spec, ImplementsLatest, Latest!Spec

=============================================================================
