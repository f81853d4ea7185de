-------------------------- MODULE MCAutonomyPolicy --------------------------
(***************************************************************************)
(* The ids of the connector nodes and tools in the repository, and small   *)
(* sets of override requests and of drifted override rows.                 *)
(***************************************************************************)
EXTENDS AutonomyPolicy, TLC

(* integration.crowdstrike.list_detections contains the token cti. *)
ConnectorIds ==
  { {}, {"splunk"}, {"elastic"}, {"sentinel"}, {"virustotal"}, {"misp"}, {"abuse"},
    {"crowdstrike"}, {"crowdstrike", "cti"}, {"crowdstrike", "isolate"},
    {"sentinelone", "sentinel", "mitigate"}, {"defender", "isolate"},
    {"playbook"}, {"playbook", "block_ip"}, {"siem", "quarantine"} }

WithIntelNodes == ConnectorIds \cup {{"greynoise"}, {"shodan"}}

PartialOver(C, L) == UNION {[D -> L] : D \in SUBSET C}

SubmittedSets ==
  PartialOver({"siem_query", "edr_query", "cti_lookup"}, {0, 1, 2, 4})
    \cup PartialOver({"playbook_execution", "host_isolation", UnknownCategory}, {1, 4, InvalidLevel})

DriftedSets ==
  { ("host_isolation" :> 4) @@ ("edr_query" :> 4),
    ("firewall_rule" :> 3) @@ ("account_disable" :> 4) @@ (UnknownCategory :> 1),
    ("cti_lookup" :> InvalidLevel) @@ ("edr_query" :> 1) }
=============================================================================
