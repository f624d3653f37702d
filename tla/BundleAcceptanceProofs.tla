------------------------ MODULE BundleAcceptanceProofs ------------------------
(***************************************************************************)
(* BundleAcceptance for any selections, keys and number of bundles.        *)
(***************************************************************************)
EXTENDS BundleAcceptance, TLAPS

Bundle == [scope : Scope, key : Key]

\* The types the proofs need beyond TypeOK, and what TypeOK says of a request:
\* it has a confirmed bundle that Main has published.
Types ==
    /\ bundles \in Seq(Bundle)
    /\ asked \in 0..Newest /\ forced \in BOOLEAN
    /\ TypeOK

Inv == Types /\ CoveredByBundle

\* Bundles are never withdrawn, so what is said of a published one stays true.
LEMMA PublishedStay ==
    ASSUME Types, Publish
    PROVE  /\ bundles' \in Seq(Bundle) /\ Newest' = Newest + 1 /\ Newest' \in 1..MaxBundles
           /\ \A b \in 1..Newest : bundles'[b] = bundles[b]
<1>1. PICK s \in Scope, k \in Key : bundles' = Append(bundles, [scope |-> s, key |-> k])
  BY DEF Publish
<1>2. [scope |-> s, key |-> k] \in Bundle
  BY DEF Bundle
<1> QED
  BY <1>1, <1>2, AcceptanceAssumption DEF Types, TypeOK, Newest, Publish

LEMMA ReadablePublished ==
    ASSUME Types PROVE Readable \subseteq 1..Newest
BY DEF Types, TypeOK, Readable

\* What any import leaves behind.
LEMMA ImportKeepsInv ==
    ASSUME Inv, NEW kind, NEW b, NEW force \in BOOLEAN, Apply(kind, b, force),
           UNCHANGED <<bundles, scope>>
    PROVE  /\ applied' \in 0..Newest /\ covered' \in Scope
           /\ CoveredByBundle'
           /\ applied' >= applied
<1>1. b \in 1..Newest
  BY ReadablePublished DEF Apply, Inv
<1>2. applied' = b /\ covered' = scope /\ scope \subseteq bundles[b].scope /\ Accepted(b, force)
  BY DEF Apply, Record, Complete
<1>3. applied' >= applied
  BY <1>1, <1>2 DEF Accepted, SamePayload, KnownSequence, Inv, Types, TypeOK, Newest
<1>4. CoveredByBundle'
  BY <1>2 DEF CoveredByBundle
<1> QED
  BY <1>1, <1>2, <1>3, <1>4 DEF Inv, Types, TypeOK, Newest

LEMMA InitInv == Init => Inv
<1> SUFFICES ASSUME Init PROVE Inv
  OBVIOUS
<1>1. PICK s \in Scope, k \in Key : bundles = <<[scope |-> s, key |-> k]>>
  BY DEF Init
<1>2. bundles \in Seq(Bundle) /\ Newest = 1
  BY <1>1 DEF Newest, Bundle
<1> QED
  <2>0. forced \in BOOLEAN
    BY DEF Init
  <2>1. Types
    BY <1>2, <2>0, AcceptanceAssumption DEF Init, Types, TypeOK
  <2> QED
    BY <2>1 DEF Init, Inv, CoveredByBundle

LEMMA NextInv == Inv /\ [Next]_vars => Inv'
<1> SUFFICES ASSUME Inv, [Next]_vars PROVE Inv'
  OBVIOUS
<1> USE AcceptanceAssumption
<1>1. CASE Publish
  <2>1. Types'
    BY <1>1, PublishedStay DEF Publish, Inv, Types, TypeOK, Newest
  <2>2. CoveredByBundle'
    BY <1>1, PublishedStay DEF Publish, Inv, Types, TypeOK, CoveredByBundle, Newest
  <2> QED
    BY <2>1, <2>2 DEF Inv
<1>2. CASE ChangeScope \/ ChangeKey
  BY <1>2 DEF ChangeScope, ChangeKey, Inv, Types, TypeOK, CoveredByBundle, Newest
<1>3. CASE Import \/ ForceReapply
  BY <1>3, ImportKeepsInv DEF Import, ForceReapply, Inv, Types, TypeOK, Newest
<1>4. CASE Confirm
  BY <1>4, ReadablePublished DEF Confirm, Inv, Types, TypeOK, CoveredByBundle, Newest
<1>5. CASE Adopt
  <2>1. bundles[asked] \in Bundle
    BY <1>5, ReadablePublished DEF Adopt, Inv, Types, Newest
  <2> QED
    BY <1>5, <2>1 DEF Adopt, Bundle, Inv, Types, TypeOK, CoveredByBundle, Newest
<1>6. CASE ApplyAdopted
  <2>1. /\ applied' \in 0..Newest /\ covered' \in Scope /\ CoveredByBundle'
        /\ UNCHANGED <<bundles, exported, scope, key, edits>>
    BY <1>6, ImportKeepsInv DEF ApplyAdopted, Inv, Types
  <2>2. pc' = "idle" /\ asked' = 0 /\ forced' \in BOOLEAN
    BY <1>6 DEF ApplyAdopted, EndRequest
  <2> QED
    BY <2>1, <2>2 DEF Inv, Types, TypeOK, Newest
<1>7. CASE RequestFails
  <2>1. pc' = "idle" /\ asked' = 0 /\ forced' \in BOOLEAN
    BY <1>7 DEF RequestFails, EndRequest
  <2>2. UNCHANGED <<bundles, exported, applied, covered, scope, key, edits>>
    BY <1>7 DEF RequestFails
  <2> QED
    BY <2>1, <2>2 DEF Inv, Types, TypeOK, CoveredByBundle, Newest
<1>8. CASE UNCHANGED vars
  BY <1>8 DEF vars, Inv, Types, TypeOK, CoveredByBundle, Newest
<1> QED
  BY <1>1, <1>2, <1>3, <1>4, <1>5, <1>6, <1>7, <1>8 DEF Next

LEMMA Invariant == Spec => []Inv
BY InitInv, NextInv, PTL DEF Spec

\* The status page calls a bundle ready exactly when an import accepts it, and
\* what is applied has all that it was applied for (bundle_info against
\* verified_candidate and config_for_payload).
THEOREM StatusAgreesWithImport == Spec => []AcceptanceInv
<1>1. Inv => AcceptanceInv
  <2> SUFFICES ASSUME Inv PROVE InfoAgreesWithImport
    BY DEF Inv, Types, AcceptanceInv
  <2> SUFFICES ASSUME NEW b \in 1..Newest
               PROVE  Info(b) = "verified" <=> Accepted(b, FALSE) /\ Complete(b)
    BY DEF InfoAgreesWithImport
  <2>2. b \in Int /\ applied \in Int /\ exported \in Int
    BY DEF Inv, Types, TypeOK, Newest
  <2> QED
    BY <2>2 DEF Info, Accepted, SamePayload, SameScope, KnownSequence
<1> QED
  BY <1>1, Invariant, PTL

\* No read of an earlier bundle takes a Follower back, whatever is asked of it
\* (verified_candidate).
THEOREM NeverTakenBack == Spec => NeverBack
<1>1. Inv /\ [Next]_vars => [applied' >= applied]_vars
  <2> SUFFICES ASSUME Inv, Next PROVE applied' >= applied
    OBVIOUS
  <2>1. CASE Import \/ ForceReapply \/ ApplyAdopted
    BY <2>1, ImportKeepsInv DEF Import, ForceReapply, ApplyAdopted, Inv, Types
  <2>2. CASE UNCHANGED applied
    BY <2>2 DEF Inv, Types, TypeOK, Newest
  <2> QED
    BY <2>1, <2>2 DEF Next, Publish, ChangeScope, ChangeKey, Confirm, Adopt, RequestFails
<1> QED
  BY <1>1, Invariant, PTL DEF Spec, NeverBack

\* After adopting a confirmed key only the bundle that was confirmed is
\* imported, although the lock is released between the two halves
\* (adopt_m3u_hash_key_and_apply).
THEOREM OnlyConfirmedIsApplied == Spec => OnlyConfirmed
<1> DEFINE A == pc = "adopted" /\ pc' = "idle" /\ last' # last => last'.bundle = asked
<1>1. [Next]_vars => [A]_vars
  <2> SUFFICES ASSUME Next, pc = "adopted", pc' = "idle", last' # last
               PROVE  last'.bundle = asked
    OBVIOUS
  <2>1. ApplyAdopted
    BY DEF Next, Publish, ChangeScope, ChangeKey, Import, ForceReapply, Confirm, Adopt, RequestFails
  <2> QED
    BY <2>1 DEF ApplyAdopted, Expected, Apply, Record
<1> QED
  BY <1>1, PTL DEF Spec, OnlyConfirmed

\* A forced reapply repeats the import of the bundle that is applied, for the
\* selection it was applied for (verified_candidate with force_reapply).
THEOREM ForceOnlyRepeats == Spec => ForceRepeats
<1> DEFINE A == last' # last /\ (last'.kind = "force" \/ (last'.kind = "adopted" /\ forced))
                    => UNCHANGED <<applied, covered>>
<1>1. [Next]_vars => [A]_vars
  <2> SUFFICES ASSUME Next, last' # last, 
                      last'.kind = "force" \/ (last'.kind = "adopted" /\ forced)
               PROVE  UNCHANGED <<applied, covered>>
    OBVIOUS
  <2>1. Import \/ ForceReapply \/ ApplyAdopted
    BY DEF Next, Publish, ChangeScope, ChangeKey, Confirm, Adopt, RequestFails
  <2>2. CASE Import
    BY <2>2 DEF Import, Apply, Record
  <2>3. CASE ForceReapply
    BY <2>3 DEF ForceReapply, Apply, Record, Accepted, SamePayload, SameScope
  <2>4. CASE ApplyAdopted
    BY <2>4 DEF ApplyAdopted, Apply, Record, Accepted, SamePayload, SameScope
  <2> QED
    BY <2>1, <2>2, <2>3, <2>4
<1> QED
  BY <1>1, PTL DEF Spec, ForceRepeats

=============================================================================
