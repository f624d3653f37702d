------------------------------ MODULE BundleStore ------------------------------
(***************************************************************************)
(* The shared bundle store of failovarr/remote_storage.py and, for SFTP,   *)
(* failovarr/sftp_worker.py: immutable objects named by sequence and hash, *)
(* a pointer latest.json to one of them, and write_latest / read_latest    *)
(* as sequences of remote calls with no transaction around them. Each call *)
(* that another node can notice is a step; a writer may raise or die       *)
(* between any two of them, and leaves the store as it is.                 *)
(*                                                                         *)
(* A bundle is [source, sequence]; its hash orders bundles of one sequence *)
(* (HashRank). Temporary objects are invisible to readers and left out.    *)
(* Names never collide: the payload holds a creation time, so two exports  *)
(* never have one hash.                                                    *)
(***************************************************************************)
EXTENDS Naturals

CONSTANTS
    Backend,       \* "filesystem", "webdav", "s3", "sftp" or "smb"
    Writer,        \* the nodes; each writes under its own lock, one bundle at a time
    Reader,        \* reading processes of any node
    HashRank,      \* the order of two bundles of one sequence and different writers
    OneAtATime,    \* TRUE: no two nodes write at the same time
    KnowsNewest,   \* TRUE: who writes has seen the newest sequence, as the one authority has
    MaxSequence,   \* bound: the largest sequence written
    None, Torn,    \* no bundle; a pointer file of partial content
    Failed         \* the outcome of a read that raises

Backends == {"filesystem", "webdav", "s3", "sftp", "smb"}

Bundle == [source : Writer, sequence : 1..MaxSequence]

ASSUME StoreAssumption ==
    /\ Backend \in Backends
    /\ OneAtATime \in BOOLEAN
    /\ KnowsNewest \in BOOLEAN
    /\ MaxSequence \in Nat
    /\ HashRank \in [Writer -> Nat]
    /\ \A v, w \in Writer : HashRank[v] = HashRank[w] => v = w

ASSUME StoreNoneAssumption ==
    /\ None \notin Bundle
    /\ Torn \notin Bundle \cup {None}
    /\ Failed \notin Bundle \cup {None}

VARIABLES
    objects,     \* the completed objects under bundles/
    pointer,     \* what latest.json names
    wpc,         \* the step of each writer
    item,        \* the bundle each writer publishes
    doomed,      \* the names a writer's prune still has to delete
    rpc,         \* the step of each reader
    want,        \* the object a reader is about to open
    answer,      \* the outcome of a reader's last read
    put,         \* history: every object ever completed
    published,   \* history: the last bundle whose pointer was written whole
    floor        \* history: what was published when the read of a reader began

writerVars == <<wpc, item, doomed, put, published>>
readerVars == <<rpc, want, answer, floor>>
vars == <<objects, pointer, wpc, item, doomed, rpc, want, answer, put, published, floor>>

\* Names are compared: the zero-padded sequence first, then the hash.
Before(a, b) ==
    \/ a.sequence < b.sequence
    \/ a.sequence = b.sequence /\ HashRank[a.source] < HashRank[b.source]

\* The last and the first of the sorted names.
IsLast(b, S) == b \in S /\ \A c \in S : c = b \/ Before(c, b)
IsFirst(b, S) == b \in S /\ \A c \in S : c = b \/ Before(b, c)

\* Three newer names than b are in S.
Superseded(b, S) ==
    \E x, y, z \in S : Before(b, x) /\ Before(x, y) /\ Before(y, z)

\* Mutant: two bundles are kept instead of three.
MutantPrunable(S) == {b \in S : \E x, y \in S : Before(b, x) /\ Before(x, y)}

\* Mutant: the names are kept from the wrong end of the sorted list.
MutantKeepOldest(S) ==
    {b \in S : \E x, y, z \in S : Before(x, y) /\ Before(y, z) /\ Before(z, b)}

\* _retained_bundle_names with the fixed retention of three: all but the last three.
Prunable(S) == {b \in S : Superseded(b, S)}

\* The readers that look for the newest complete bundle when the pointer does not help.
HasFallback == Backend \in {"sftp", "smb"}

Init ==
    /\ objects = {} /\ put = {}
    /\ pointer = None /\ published = None
    /\ wpc = [w \in Writer |-> "idle"]
    /\ item = [w \in Writer |-> None]
    /\ doomed = [w \in Writer |-> {}]
    /\ rpc = [r \in Reader |-> "idle"]
    /\ want = [r \in Reader |-> None]
    /\ floor = [r \in Reader |-> None]
    /\ answer = [r \in Reader |-> None]

-----------------------------------------------------------------------------
(* write_latest *)

WriterGoto(w, step) == wpc' = [wpc EXCEPT ![w] = step]

\* The engine numbers a bundle above all it exported before (export_now reserves the
\* number in its state file first), and above the peer's newest if it has seen that.
BeginWrite(w) ==
    /\ wpc[w] = "idle"
    /\ OneAtATime => \A v \in Writer : wpc[v] = "idle"
    /\ \E b \in Bundle :
          /\ b.source = w
          /\ \A c \in put : c.source = w \/ KnowsNewest => c.sequence < b.sequence
          /\ item' = [item EXCEPT ![w] = b]
    /\ WriterGoto(w, "object")
    /\ UNCHANGED <<objects, pointer, doomed, put, published, readerVars>>

\* The object becomes visible whole: a rename, or one PUT.
PutObject(w) ==
    /\ wpc[w] = "object"
    /\ objects' = objects \cup {item[w]}
    /\ put' = put \cup {item[w]}
    /\ WriterGoto(w, "pointer")
    /\ UNCHANGED <<pointer, item, doomed, published, readerVars>>

\* latest.json is replaced; SFTP reads it back.
PutPointer(w) ==
    /\ wpc[w] = "pointer"
    /\ pointer' = item[w]
    /\ published' = item[w]
    /\ WriterGoto(w, IF Backend = "sftp" THEN "verify" ELSE "list")
    /\ UNCHANGED <<objects, item, doomed, put, readerVars>>

\* An SMB server that rejects the replace: the pointer file is opened for writing
\* (and so truncated), then written.
TearPointer(w) ==
    /\ wpc[w] = "pointer" /\ Backend = "smb"
    /\ pointer' = Torn
    /\ WriterGoto(w, "rewrite")
    /\ UNCHANGED <<objects, item, doomed, put, published, readerVars>>

RewritePointer(w) ==
    /\ wpc[w] = "rewrite"
    /\ pointer' = item[w]
    /\ published' = item[w]
    /\ WriterGoto(w, "list")
    /\ UNCHANGED <<objects, item, doomed, put, readerVars>>

Verify(w) ==
    /\ wpc[w] = "verify"
    /\ pointer = item[w] /\ item[w] \in objects
    /\ WriterGoto(w, "list")
    /\ UNCHANGED <<objects, pointer, item, doomed, put, published, readerVars>>

ListForPrune(w) ==
    /\ wpc[w] = "list"
    /\ doomed' = [doomed EXCEPT ![w] = Prunable(objects)]
    /\ WriterGoto(w, "prune")
    /\ UNCHANGED <<objects, pointer, item, put, published, readerVars>>

\* The names are deleted in order. One that is gone already is an error for the
\* backends whose delete is not idempotent.
DeleteObject(w) ==
    /\ wpc[w] = "prune"
    /\ \E b \in doomed[w] :
          /\ IsFirst(b, doomed[w])
          /\ b \in objects \/ Backend \in {"filesystem", "s3"}
          /\ objects' = objects \ {b}
          /\ doomed' = [doomed EXCEPT ![w] = @ \ {b}]
    /\ UNCHANGED <<pointer, wpc, item, put, published, readerVars>>

\* write_latest returns.
EndWrite(w) ==
    /\ wpc[w] = "prune" /\ doomed[w] = {}
    /\ WriterGoto(w, "written")
    /\ UNCHANGED <<objects, pointer, item, doomed, put, published, readerVars>>

Forget(w) ==
    /\ WriterGoto(w, "idle")
    /\ item' = [item EXCEPT ![w] = None]
    /\ doomed' = [doomed EXCEPT ![w] = {}]
    /\ UNCHANGED <<objects, pointer, put, published, readerVars>>

Return(w) == wpc[w] = "written" /\ Forget(w)

\* A call raises (a refused request, a failed verification, a delete of what is
\* gone, a time-out) or the process dies.
Interrupt(w) == wpc[w] \notin {"idle", "written"} /\ Forget(w)

-----------------------------------------------------------------------------
(* read_latest *)

ReaderGoto(r, step) == rpc' = [rpc EXCEPT ![r] = step]

EndRead(r, outcome) ==
    /\ ReaderGoto(r, "idle")
    /\ want' = [want EXCEPT ![r] = None]
    /\ answer' = [answer EXCEPT ![r] = outcome]

ReadPointer(r) ==
    /\ rpc[r] = "idle"
    /\ pointer \in Bundle
    /\ floor' = [floor EXCEPT ![r] = published]
    /\ answer' = [answer EXCEPT ![r] = None]
    /\ ReaderGoto(r, "open")
    /\ want' = [want EXCEPT ![r] = pointer]
    /\ UNCHANGED <<objects, pointer, writerVars>>

\* A missing or torn pointer; for SMB any error of the call leads to the fallback.
SkipPointer(r) ==
    /\ rpc[r] = "idle" /\ HasFallback
    /\ pointer \notin Bundle \/ Backend = "smb"
    /\ floor' = [floor EXCEPT ![r] = published]
    /\ answer' = [answer EXCEPT ![r] = None]
    /\ ReaderGoto(r, "list")
    /\ UNCHANGED <<objects, pointer, writerVars, want>>

\* Without a fallback a missing pointer ends the read.
NoPointer(r) ==
    /\ rpc[r] = "idle" /\ ~HasFallback
    /\ pointer \notin Bundle
    /\ floor' = [floor EXCEPT ![r] = published]
    /\ EndRead(r, Failed)
    /\ UNCHANGED <<objects, pointer, writerVars>>

OpenObject(r) ==
    /\ rpc[r] = "open"
    /\ want[r] \in objects
    /\ EndRead(r, want[r])
    /\ UNCHANGED <<objects, pointer, writerVars, floor>>

\* The object was pruned after the pointer was read (for SMB: any error).
ObjectGone(r) ==
    /\ rpc[r] = "open" /\ HasFallback
    /\ want[r] \notin objects \/ Backend = "smb"
    /\ ReaderGoto(r, "list")
    /\ want' = [want EXCEPT ![r] = None]
    /\ UNCHANGED <<objects, pointer, writerVars, answer, floor>>

ObjectLost(r) ==
    /\ rpc[r] = "open" /\ ~HasFallback
    /\ want[r] \notin objects
    /\ EndRead(r, Failed)
    /\ UNCHANGED <<objects, pointer, writerVars, floor>>

\* Mutant: the first of the sorted names is taken instead of the last.
MutantListForRead(r) ==
    /\ rpc[r] = "list"
    /\ \E b \in objects : IsFirst(b, objects) /\ want' = [want EXCEPT ![r] = b]
    /\ ReaderGoto(r, "fallback")
    /\ UNCHANGED <<objects, pointer, writerVars, answer, floor>>

ListForRead(r) ==
    /\ rpc[r] = "list"
    /\ \E b \in objects : IsLast(b, objects) /\ want' = [want EXCEPT ![r] = b]
    /\ ReaderGoto(r, "fallback")
    /\ UNCHANGED <<objects, pointer, writerVars, answer, floor>>

NothingListed(r) ==
    /\ rpc[r] = "list"
    /\ objects = {}
    /\ EndRead(r, Failed)
    /\ UNCHANGED <<objects, pointer, writerVars, floor>>

OpenFallback(r) ==
    /\ rpc[r] = "fallback"
    /\ EndRead(r, IF want[r] \in objects THEN want[r] ELSE Failed)
    /\ UNCHANGED <<objects, pointer, writerVars, floor>>

Write(w) ==
    \/ BeginWrite(w) \/ PutObject(w) \/ PutPointer(w) \/ TearPointer(w) \/ RewritePointer(w)
    \/ Verify(w) \/ ListForPrune(w) \/ DeleteObject(w) \/ EndWrite(w) \/ Return(w)
    \/ Interrupt(w)

Read(r) ==
    \/ ReadPointer(r) \/ SkipPointer(r) \/ NoPointer(r)
    \/ OpenObject(r) \/ ObjectGone(r) \/ ObjectLost(r)
    \/ ListForRead(r) \/ NothingListed(r) \/ OpenFallback(r)

Next == (\E w \in Writer : Write(w)) \/ (\E r \in Reader : Read(r))

Spec == Init /\ [][Next]_vars

-----------------------------------------------------------------------------
(* Properties *)

TypeOK ==
    /\ objects \in SUBSET Bundle /\ put \in SUBSET Bundle
    /\ pointer \in Bundle \cup {None, Torn}
    /\ published \in Bundle \cup {None}
    /\ wpc \in [Writer -> {"idle", "object", "pointer", "rewrite", "verify", "list",
                           "prune", "written"}]
    /\ item \in [Writer -> Bundle \cup {None}]
    /\ \A w \in Writer : wpc[w] # "idle" => item[w] \in Bundle
    /\ doomed \in [Writer -> SUBSET Bundle]
    /\ rpc \in [Reader -> {"idle", "open", "list", "fallback"}]
    /\ want \in [Reader -> Bundle \cup {None}]
    /\ floor \in [Reader -> Bundle \cup {None}]
    /\ answer \in [Reader -> Bundle \cup {None, Failed}]

\* Whatever writers interleave, with whatever sequences, and wherever they stop, an
\* object disappears only when three newer ones have been completed.
PrunedAreSuperseded == \A b \in put \ objects : Superseded(b, put)

\* The pointer names a complete object, at every moment (or is being rewritten).
PointerResolves == pointer \in Bundle => pointer \in objects

\* A read answers with a bundle no older than the one published when it began, though
\* the writer may stop anywhere, leave a torn pointer and prune meanwhile.
ReadsAreFresh ==
    \A r \in Reader :
        answer[r] \in Bundle /\ floor[r] # None => ~Before(answer[r], floor[r])

\* A read that began after a publication fails only if three newer bundles have been
\* completed since: retention of three is what protects slow readers.
ReadFailsOnlyIfOvertaken ==
    \A r \in Reader :
        answer[r] = Failed /\ floor[r] # None => Superseded(floor[r], put)

\* The store implements the one latest bundle that the rest of the system sees.
Unnamed(S, named) ==
    IF \E b \in S : named = None \/ Before(named, b)
      THEN CHOOSE b \in S : IsLast(b, S) ELSE None

Offered == Unnamed(objects, published)

Latest == INSTANCE LatestBundle WITH latest <- published, offered <- Offered, held <- want

ImplementsLatest == Latest!Spec

\* "Main must never report an SFTP export as successful unless the published pointer
\* resolves to the exact envelope it wrote": when write_latest returns, it does.
ReportedResolves ==
    \A w \in Writer : wpc[w] = "written" => pointer = item[w] /\ item[w] \in objects

-----------------------------------------------------------------------------
(* Why the properties hold *)

\* What is deleted or about to be deleted is superseded by completed objects.
PruneInv ==
    /\ objects \subseteq put
    /\ \A w \in Writer : \A b \in doomed[w] : Superseded(b, put)
    /\ PrunedAreSuperseded

NewestOf(b, S) == b \in S /\ \A c \in S : c = b \/ c.sequence < b.sequence

\* The one writer holds the newest bundle, and once that is published nothing else is.
WriterInv ==
    /\ \A v, w \in Writer : wpc[v] # "idle" /\ wpc[w] # "idle" => v = w
    /\ \A w \in Writer :
          /\ wpc[w] = "object" => \A c \in put : c.sequence < item[w].sequence
          /\ wpc[w] \notin {"idle", "object"} => item[w] \in objects /\ NewestOf(item[w], put)
          /\ wpc[w] \in {"pointer", "rewrite"} => published # item[w]
          /\ wpc[w] \in {"verify", "list", "prune", "written"} =>
                pointer = item[w] /\ published = item[w]

\* The newest object and the published one are never deleted.
ContentInv ==
    /\ put # {} => \E m \in objects : NewestOf(m, put)
    /\ published # None => published \in objects
    /\ pointer \in Bundle => pointer = published
    /\ Backend # "smb" => pointer = published

\* A reader is on its way to something at least as new as what was published before.
ReaderInv == \A r \in Reader :
    /\ floor[r] # None => floor[r] \in put
    /\ rpc[r] \in {"idle", "list"} => want[r] = None
    /\ rpc[r] \in {"open", "fallback"} =>
          /\ want[r] \in put
          /\ floor[r] # None => ~Before(want[r], floor[r])

\* The inductive invariant behind the properties of the readers and the refinement.
StoreInv == PruneInv /\ WriterInv /\ ContentInv /\ ReaderInv

=============================================================================
