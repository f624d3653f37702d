--------------------------- MODULE BundleAcceptance ---------------------------
(***************************************************************************)
(* Which bundle a Follower imports: verified_candidate, config_for_payload *)
(* and the M3U hash key check of failovarr/engine.py, as apply_latest, the *)
(* forced reapply, adopt_m3u_hash_key_and_apply, preview_latest and the    *)
(* status of bundle_info use them. A read of the newest bundle goes to the *)
(* peer or, when the peer cannot be reached, to a shared store that may be *)
(* behind. The background loop, the operator's requests and changes of the *)
(* configuration interleave; each import is one section of the node's lock.*)
(*                                                                         *)
(* Bundles are verified, from Main, and imported without conflict between  *)
(* records (those are in FollowerImport). A payload hash names a bundle.   *)
(***************************************************************************)
EXTENDS Integers, Sequences

CONSTANTS
    Scope,      \* selections of domains and settings groups, as sets
    Full,       \* the selection of a Main that is up to date
    Key,        \* M3U hash keys
    Behind,     \* the shared store may return an earlier bundle
    MaxBundles, MaxEdits

ASSUME AcceptanceAssumption ==
    /\ Full \in Scope /\ \A s \in Scope : s \subseteq Full
    /\ Behind \in BOOLEAN
    /\ MaxBundles \in Nat \ {0} /\ MaxEdits \in Nat

VARIABLES
    bundles,  \* what Main has published: a sequence of [scope, key]
    exported, \* exported_sequence: this node may have been the authority
    applied,  \* applied_sequence and applied_hash: 0, or the bundle's number
    covered,  \* applied_scope_fingerprint: the selection it was applied for, or {}
    scope,    \* the selection of this Follower
    key,      \* its M3U hash key
    pc,       \* the operator's request: "idle", "confirmed" or "adopted"
    asked,    \* the bundle the operator has confirmed
    forced,   \* the request is a forced reapply
    last,     \* the import that ended last: [kind, bundle]
    edits

vars == <<bundles, exported, applied, covered, scope, key, pc, asked, forced, last, edits>>

Init ==
    /\ \E s \in Scope, k \in Key : bundles = <<[scope |-> s, key |-> k]>>
    /\ exported \in 0..1
    /\ applied = 0 /\ covered = {}
    /\ scope \in Scope /\ key \in Key
    /\ pc = "idle" /\ asked = 0 /\ forced = FALSE
    /\ last = [kind |-> "none", bundle |-> 0]
    /\ edits = 0

Newest == Len(bundles)

\* _load_candidate
Readable == IF Behind THEN 1..Newest ELSE {Newest}

-----------------------------------------------------------------------------
(* Decisions about a verified bundle. Sequences are bundle numbers. *)

KnownSequence == IF applied > exported THEN applied ELSE exported

SamePayload(b) == b = applied

SameScope == covered = scope

\* Mutant: another selection makes any bundle acceptable.
MutantAccepted(b, force) ==
    IF force THEN SamePayload(b) /\ SameScope
    ELSE b > KnownSequence \/ ~SameScope

\* Mutant: a change of the selection does not import the bundle again.
MutantAcceptedNewer(b, force) ==
    IF force THEN SamePayload(b) /\ SameScope ELSE b > KnownSequence

\* verified_candidate, for an import.
Accepted(b, force) ==
    IF force THEN SamePayload(b) /\ SameScope
    ELSE b > KnownSequence \/ (SamePayload(b) /\ ~SameScope)

\* config_for_payload: the bundle has all that is selected here.
Complete(b) == scope \subseteq bundles[b].scope

\* Mutant: the selection is not compared.
MutantInfo(b) ==
    IF ~Complete(b) THEN "incompatible"
    ELSE IF SamePayload(b) THEN "current"
    ELSE IF b <= KnownSequence THEN "stale"
    ELSE "verified"

\* bundle_info
Info(b) ==
    IF ~Complete(b) THEN "incompatible"
    ELSE IF SamePayload(b) /\ SameScope THEN "current"
    ELSE IF b <= KnownSequence /\ ~SamePayload(b) THEN "stale"
    ELSE "verified"

\* _m3u_hash_key_conflict
Mismatch(b) == bundles[b].key # key

-----------------------------------------------------------------------------
(* Main and the configuration of this node. *)

\* Main publishes; an older Main signs a smaller selection.
Publish ==
    /\ Newest < MaxBundles
    /\ \E s \in Scope, k \in Key : bundles' = Append(bundles, [scope |-> s, key |-> k])
    /\ UNCHANGED <<exported, applied, covered, scope, key, pc, asked, forced, last, edits>>

\* Guided setup saves another selection, or Dispatcharr another hash key.
ChangeScope ==
    /\ edits < MaxEdits
    /\ \E s \in Scope \ {scope} : scope' = s
    /\ edits' = edits + 1
    /\ UNCHANGED <<bundles, exported, applied, covered, key, pc, asked, forced, last>>

ChangeKey ==
    /\ edits < MaxEdits
    /\ \E k \in Key \ {key} : key' = k
    /\ edits' = edits + 1
    /\ UNCHANGED <<bundles, exported, applied, covered, scope, pc, asked, forced, last>>

-----------------------------------------------------------------------------
(* Imports. *)

Record(kind, b) ==
    /\ last' = [kind |-> kind, bundle |-> b]
    /\ applied' = b /\ covered' = scope

\* apply_latest of the loop, of the plugin action or of guided setup.
Apply(kind, b, force) ==
    /\ b \in Readable
    /\ Accepted(b, force) /\ Complete(b) /\ ~Mismatch(b)
    /\ Record(kind, b)

Import ==
    /\ \E b \in Readable : Apply("apply", b, FALSE)
    /\ UNCHANGED <<bundles, exported, scope, key, pc, asked, forced, edits>>

ForceReapply ==
    /\ \E b \in Readable : Apply("force", b, TRUE)
    /\ UNCHANGED <<bundles, exported, scope, key, pc, asked, forced, edits>>

\* A preview or an import has shown the mismatch, and the operator confirms
\* that bundle's key, for an import or for a forced reapply.
Confirm ==
    /\ pc = "idle" /\ edits < MaxEdits
    /\ \E b \in Readable, f \in BOOLEAN :
        Mismatch(b) /\ asked' = b /\ forced' = f
    /\ pc' = "confirmed"
    /\ edits' = edits + 1
    /\ UNCHANGED <<bundles, exported, applied, covered, scope, key, last>>

EndRequest == pc' = "idle" /\ asked' = 0 /\ forced' = FALSE

\* adopt_m3u_hash_key: the bundle that is read must be the confirmed one.
Adopt ==
    /\ pc = "confirmed"
    /\ asked \in Readable
    /\ key' = bundles[asked].key
    /\ pc' = "adopted"
    /\ UNCHANGED <<bundles, exported, applied, covered, scope, asked, forced, last, edits>>

\* Mutant: whatever is newest by now is imported.
MutantExpected(b) == TRUE

\* _require_expected_payload_hash
Expected(b) == b = asked

\* The second half of adopt_m3u_hash_key_and_apply, in a lock section of its own.
ApplyAdopted ==
    /\ pc = "adopted"
    /\ \E b \in Readable : Expected(b) /\ Apply("adopted", b, forced)
    /\ EndRequest
    /\ UNCHANGED <<bundles, exported, scope, key, edits>>

\* Another bundle is read, or the import is refused or reports a mismatch.
RequestFails ==
    /\ \/ pc = "confirmed" /\ Readable # {asked}
       \/ pc = "adopted" /\ \E b \in Readable :
            ~(Expected(b) /\ Accepted(b, forced) /\ Complete(b) /\ ~Mismatch(b))
    /\ EndRequest
    /\ UNCHANGED <<bundles, exported, applied, covered, scope, key, last, edits>>

Next ==
    \/ Publish \/ ChangeScope \/ ChangeKey
    \/ Import \/ ForceReapply
    \/ Confirm \/ Adopt \/ ApplyAdopted \/ RequestFails

Spec == Init /\ [][Next]_vars

\* The background loop imports whenever there is something (automatic_apply).
FairSpec == Spec /\ WF_vars(Import)

-----------------------------------------------------------------------------
(* Properties. *)

TypeOK ==
    /\ Newest \in 1..MaxBundles
    /\ exported \in 0..1 /\ applied \in 0..Newest
    /\ scope \in Scope /\ covered \in Scope \cup {{}}
    /\ key \in Key
    /\ pc \in {"idle", "confirmed", "adopted"}
    /\ pc = "idle" <=> asked = 0
    /\ edits \in 0..MaxEdits

\* No read of an earlier bundle takes a Follower back, whatever is asked of it.
NeverBack == [][applied' >= applied]_vars

\* What the status page calls ready to import is what an import accepts
\* (bundle_info against verified_candidate and config_for_payload).
InfoAgreesWithImport ==
    \A b \in 1..Newest : Info(b) = "verified" <=> Accepted(b, FALSE) /\ Complete(b)

\* What was imported has everything that was selected at that time.
CoveredByBundle == applied # 0 => covered \subseteq bundles[applied].scope

\* The invariants together: types, the status page agrees with the import, and
\* what is applied covers the selection it was applied for.
AcceptanceInv == TypeOK /\ InfoAgreesWithImport /\ CoveredByBundle

\* "Adopt a confirmed value, then apply only that same verified bundle."
OnlyConfirmed ==
    [][pc = "adopted" /\ pc' = "idle" /\ last' # last => last'.bundle = asked]_vars

\* A forced reapply, also after a confirmed key, repeats the import of the
\* bundle that is applied and changes nothing else.
ForceRepeats ==
    [][last' # last /\ (last'.kind = "force" \/ (last'.kind = "adopted" /\ forced)) =>
        UNCHANGED <<applied, covered>>]_vars

\* When Main and the operator leave it alone, a Follower whose key matches and
\* whose selection is in the bundle ends with the newest bundle and its selection.
Converges ==
    <>[](Complete(Newest) /\ ~Mismatch(Newest) /\ exported < Newest =>
            applied = Newest /\ SameScope)

=============================================================================
