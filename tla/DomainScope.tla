------------------------------ MODULE DomainScope ------------------------------
(***************************************************************************)
(* The domains a node replicates: the tables of failovarr/config.py,       *)
(* expand_domain_dependencies, pass by pass, resolve_domains, the check    *)
(* that ReplicationConfig.validate makes of the result, and _selected_specs*)
(* of failovarr/domains.py, which picks the selection from a table of its  *)
(* own. Records are created and updated domain by domain in the order of   *)
(* that table and deleted in the reverse order, so the three tables must   *)
(* agree for every selection.                                              *)
(***************************************************************************)
EXTENDS Integers, SequencesExt

CONSTANTS
    SupportedDomains,   \* SUPPORTED_DOMAINS of config.py, a sequence
    Dependencies,       \* DOMAIN_DEPENDENCIES of config.py, a function on all domains
    Presets,            \* the scopes that fix the selection, as sequences
    Adapters,           \* the domains of _specs of domains.py, in its order
    References          \* domain: the domains its rows refer to, by the fields in _specs

Supported == ToSet(SupportedDomains)

ASSUME ScopeAssumption ==
    /\ Dependencies \in [Supported -> SUBSET Supported]
    /\ \A preset \in DOMAIN Presets :
          /\ ToSet(Presets[preset]) \subseteq Supported
          /\ \A d \in ToSet(Presets[preset]) : Dependencies[d] \subseteq ToSet(Presets[preset])
    /\ Adapters \in Seq(ToSet(Adapters)) /\ IsInjective(Adapters)

VARIABLES
    scope,       \* replication_scope
    requested,   \* the domains setting
    selected,    \* the set that the loop extends
    resolution   \* "expanding", "resolved" or "refused"

scopeVars == <<scope, requested, selected, resolution>>

ScopeInit ==
    /\ scope \in {"custom", "legacy"} \cup DOMAIN Presets
    /\ IF scope \in DOMAIN Presets
         THEN requested = ToSet(Presets[scope])
         ELSE requested \in SUBSET Supported \ {{}}
    /\ selected = requested
    /\ resolution = "expanding"

\* One pass over tuple(selected).
Pass == selected \cup UNION {Dependencies[d] : d \in selected}

Expand ==
    /\ resolution = "expanding" /\ scope = "custom"
    /\ Pass # selected
    /\ selected' = Pass
    /\ UNCHANGED <<scope, requested, resolution>>

\* validate: every domain has what it requires.
Valid == \A d \in selected : Dependencies[d] \subseteq selected

\* Mutant: a selection that is not expanded is accepted as it is.
MutantResolve ==
    /\ resolution = "expanding"
    /\ scope = "custom" => Pass = selected
    /\ resolution' = "resolved"
    /\ UNCHANGED <<scope, requested, selected>>

\* from_settings validates what resolve_domains returns.
Resolve ==
    /\ resolution = "expanding"
    /\ scope = "custom" => Pass = selected
    /\ resolution' = IF Valid THEN "resolved" ELSE "refused"
    /\ UNCHANGED <<scope, requested, selected>>

ScopeNext == Expand \/ Resolve

ScopeSpec == ScopeInit /\ [][ScopeNext]_scopeVars

\* Mutant: the order of the set, as Python happens to enumerate it.
MutantApplied == SetToSeq(selected)

\* _selected_specs: the table of adapters, without the domains that are not
\* selected. Whatever order config.domains is in, the set of it is taken.
Applied ==
    LET upTo[n \in 0..Len(Adapters)] ==
          IF n = 0 THEN <<>>
          ELSE IF Adapters[n] \in selected THEN Append(upTo[n - 1], Adapters[n])
          ELSE upTo[n - 1]
    IN  upTo[Len(Adapters)]

-----------------------------------------------------------------------------
(* Properties. *)

ScopeTypes ==
    /\ requested \subseteq selected /\ selected \subseteq Supported
    /\ resolution \in {"expanding", "resolved", "refused"}

\* Only a legacy selection that leaves out a prerequisite is refused.
OnlyLegacyRefused == resolution = "refused" => scope = "legacy" /\ ~Valid

\* An accepted selection has every prerequisite, and beyond what was asked for
\* only what some selected domain requires.
ResolvedIsLeast ==
    resolution = "resolved" =>
        /\ \A d \in selected : Dependencies[d] \subseteq selected
        /\ \A d \in selected \ requested : \E e \in selected : d \in Dependencies[e]

\* The invariants of the resolution together: types, who is refused, and that
\* the resolved selection is the least closed one.
ScopeInv == ScopeTypes /\ OnlyLegacyRefused /\ ResolvedIsLeast

\* How the tables of config.py and domains.py must agree: every domain has an
\* adapter, what its rows refer to is a prerequisite of it, and the adapters are
\* in an order in which what is referred to comes first.
TablesAgree ==
    /\ ToSet(Adapters) = Supported
    /\ \A d \in Supported : References[d] \subseteq Dependencies[d]
    /\ \A i, j \in DOMAIN Adapters : Adapters[i] \in References[Adapters[j]] => i < j

\* Every selected domain is applied, once, and after every domain its rows
\* refer to, which is applied too ("SUPPORTED_DOMAINS stays in dependency-safe
\* order for export and transactional apply", config.py, DOMAIN_GROUPS).
AppliedInOrder ==
    resolution = "resolved" =>
        /\ ToSet(Applied) = selected /\ IsInjective(Applied)
        /\ \A j \in DOMAIN Applied : \A d \in References[Applied[j]] :
              \E i \in 1..(j - 1) : Applied[i] = d

=============================================================================
