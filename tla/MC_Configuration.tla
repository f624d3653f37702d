--------------------------- MODULE MC_Configuration ---------------------------
(* The configuration of a node, in two parts, of which the initial state     *)
(* chooses one. "writers": NodeConfig with two domains, one of them in the   *)
(* preset, and a protected record of either kind. "scope": DomainScope with  *)
(* the tables of config.py and domains.py in full, for the presets and every *)
(* selection of at most MaxRequested domains.                                *)
EXTENDS NodeConfig, DomainScope, FiniteSetsExt

CONSTANT MaxRequested

VARIABLE part

\* NodeConfig.
Domains == {"streams", "outputs"}
ContentDomains == {"streams"}
OldRecords == {"protect 1"}
NewRecords == {"protect 2"}

\* SUPPORTED_DOMAINS, config.py:20-40.
SupportedTable == <<
    "user_agents", "stream_profiles", "output_profiles", "core_settings",
    "server_groups", "m3u_accounts", "m3u_filters", "m3u_account_profiles",
    "epg_sources", "epg_data", "channel_groups", "logos", "streams", "channels",
    "channel_overrides", "channel_profiles", "channel_profile_memberships",
    "channel_streams", "channel_group_m3u_accounts">>

\* DOMAIN_DEPENDENCIES, config.py:199-217.
DependencyTable ==
    [stream_profiles |-> {"user_agents"},
     m3u_accounts |-> {"server_groups", "user_agents", "stream_profiles"},
     m3u_filters |-> {"m3u_accounts"},
     m3u_account_profiles |-> {"m3u_accounts"},
     epg_data |-> {"epg_sources"},
     streams |-> {"m3u_accounts", "channel_groups", "stream_profiles"},
     channels |-> {"m3u_accounts", "channel_groups", "logos", "epg_data", "stream_profiles"},
     channel_overrides |-> {"channels", "channel_groups", "logos", "epg_data", "stream_profiles"},
     channel_profile_memberships |-> {"channel_profiles", "channels"},
     channel_streams |-> {"channels", "streams"},
     channel_group_m3u_accounts |-> {"channel_groups", "m3u_accounts"}]
    @@ [d \in ToSet(SupportedTable) |-> {}]

\* _specs, domains.py:79-198: the order of the adapters, and the fields that
\* hold the id of a row of another domain.
AdapterTable == <<
    "user_agents", "stream_profiles", "output_profiles", "core_settings",
    "server_groups", "m3u_accounts", "m3u_filters", "m3u_account_profiles",
    "epg_sources", "epg_data", "channel_groups", "logos", "streams", "channels",
    "channel_overrides", "channel_profiles", "channel_profile_memberships",
    "channel_streams", "channel_group_m3u_accounts">>

ForeignKeys ==
    [stream_profiles |-> [user_agent_id |-> "user_agents"],
     m3u_accounts |->
        [server_group_id |-> "server_groups", user_agent_id |-> "user_agents",
         stream_profile_id |-> "stream_profiles"],
     m3u_filters |-> [m3u_account_id |-> "m3u_accounts"],
     m3u_account_profiles |-> [m3u_account_id |-> "m3u_accounts"],
     epg_data |-> [epg_source_id |-> "epg_sources"],
     streams |->
        [m3u_account_id |-> "m3u_accounts", channel_group_id |-> "channel_groups",
         stream_profile_id |-> "stream_profiles"],
     channels |->
        [logo_id |-> "logos", channel_group_id |-> "channel_groups", epg_data_id |-> "epg_data",
         stream_profile_id |-> "stream_profiles", auto_created_by_id |-> "m3u_accounts"],
     channel_overrides |->
        [channel_id |-> "channels", channel_group_id |-> "channel_groups", logo_id |-> "logos",
         epg_data_id |-> "epg_data", stream_profile_id |-> "stream_profiles"],
     channel_profile_memberships |->
        [channel_profile_id |-> "channel_profiles", channel_id |-> "channels"],
     channel_streams |-> [channel_id |-> "channels", stream_id |-> "streams"],
     channel_group_m3u_accounts |->
        [channel_group_id |-> "channel_groups", m3u_account_id |-> "m3u_accounts"]]
    @@ [d \in ToSet(SupportedTable) |-> <<>>]

ReferenceTable ==
    [d \in ToSet(SupportedTable) |-> {ForeignKeys[d][field] : field \in DOMAIN ForeignKeys[d]}]

\* FULL_DOMAINS, DEFAULT_DOMAINS and IPTV_CONTENT_DOMAINS, config.py:85-101.
Scopes ==
    [full |-> SupportedTable,
     basic |-> <<"user_agents", "stream_profiles", "output_profiles", "core_settings">>,
     iptv_content |->
        SelectSeq(SupportedTable, LAMBDA d : d \notin {"output_profiles", "core_settings"})]

\* What AppliedFollowsTable asks of the tables holds for those of the code.
ASSUME CodeTablesAgree == TablesAgree

MCInit ==
    \/ part = "writers" /\ Init /\ scope = "full" /\ ScopeInit
    \/ /\ part = "scope" /\ Init /\ file.on = Domain
       /\ scope \in {"custom", "legacy"} \cup DOMAIN Presets
       /\ requested \in IF scope \in DOMAIN Presets THEN {ToSet(Presets[scope])}
                        ELSE UNION {kSubset(k, Supported) : k \in 1..MaxRequested}
       /\ ScopeInit

MCNext ==
    \/ part = "writers" /\ Next /\ UNCHANGED <<scopeVars, part>>
    \/ part = "scope" /\ ScopeNext /\ UNCHANGED <<vars, mishaps, part>>

MCSpec == MCInit /\ [][MCNext]_<<vars, mishaps, scopeVars, part>>

=============================================================================
