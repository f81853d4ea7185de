--------------------------- MODULE WorkflowPolicy ---------------------------
(***************************************************************************)
(* The human-approval and egress policy that guards every node execution:  *)
(* the pure functions of the engine's HITLMiddleware, HITLGateMiddleware   *)
(* and ConnectorPolicyMiddleware, and the agents-side policy that the      *)
(* engine's one is said to mirror.                                         *)
(*                                                                         *)
(* A node id is abstracted to the set of map tokens that occur in it as    *)
(* substrings: that is all the policy reads of an id.  An autonomy level   *)
(* L0..L4 is its index 0..4, and a TLP its index in _TLP_ORDER.            *)
(***************************************************************************)
EXTENDS Integers, Sequences

Levels == 0..4
Tlps   == 0..4

Fields == {"siem_query", "edr_query", "cti_lookup", "host_isolation",
           "firewall_rule", "account_disable", "playbook_execution"}

Entry(token, field) == [token |-> token, field |-> field]

(* Both maps list the destructive tokens in the same order. *)
ContainmentEntries ==
  << Entry("isolate", "host_isolation"), Entry("quarantine", "host_isolation"),
     Entry("contain", "host_isolation"), Entry("mitigate", "host_isolation"),
     Entry("firewall", "firewall_rule"), Entry("block_ip", "firewall_rule"),
     Entry("block_domain", "firewall_rule"),
     Entry("disable_account", "account_disable"),
     Entry("disable_user", "account_disable"),
     Entry("lock_account", "account_disable"),
     Entry("playbook", "playbook_execution"), Entry("soar", "playbook_execution") >>

(* The read-only part of the engine's map, and the whole _NODE_AUTONOMY_MAP, *)
(* in its iteration order.                                                   *)
NodeReadOnlyEntries ==
  << Entry("splunk", "siem_query"), Entry("elastic", "siem_query"),
     Entry("sentinelone", "edr_query"), Entry("sentinel", "siem_query"),
     Entry("siem", "siem_query"), Entry("crowdstrike", "edr_query"),
     Entry("defender", "edr_query"), Entry("carbon_black", "edr_query"),
     Entry("edr", "edr_query"), Entry("virustotal", "cti_lookup"),
     Entry("misp", "cti_lookup"), Entry("otx", "cti_lookup"),
     Entry("abuse", "cti_lookup"), Entry("greynoise", "cti_lookup"),
     Entry("shodan", "cti_lookup"), Entry("cti", "cti_lookup") >>

NodeAutonomyMap == NodeReadOnlyEntries \o ContainmentEntries

ToolAutonomyMapIntelFirst ==
  << Entry("cti", "cti_lookup"), Entry("siem", "siem_query"),
     Entry("splunk", "siem_query"),
     Entry("elastic", "siem_query"), Entry("sentinelone", "edr_query"),
     Entry("sentinel", "siem_query"), Entry("edr", "edr_query"),
     Entry("crowdstrike", "edr_query"), Entry("defender", "edr_query"),
     Entry("carbon_black", "edr_query"),
     Entry("virustotal", "cti_lookup"), Entry("misp", "cti_lookup"),
     Entry("otx", "cti_lookup"), Entry("abuse", "cti_lookup") >>
  \o ContainmentEntries

(* The read-only part of the agents' map, and the whole _TOOL_AUTONOMY_MAP  *)
(* of the HITL hook, in its iteration order.                               *)
ToolReadOnlyEntries ==
  << Entry("siem", "siem_query"), Entry("splunk", "siem_query"),
     Entry("elastic", "siem_query"), Entry("sentinelone", "edr_query"),
     Entry("sentinel", "siem_query"), Entry("edr", "edr_query"),
     Entry("crowdstrike", "edr_query"), Entry("defender", "edr_query"),
     Entry("carbon_black", "edr_query"), Entry("cti", "cti_lookup"),
     Entry("virustotal", "cti_lookup"), Entry("misp", "cti_lookup"),
     Entry("otx", "cti_lookup"), Entry("abuse", "cti_lookup") >>

ToolAutonomyMap == ToolReadOnlyEntries \o ContainmentEntries

AlwaysGateCategories == {"host_isolation", "firewall_rule", "account_disable"}

(* _CONTAINMENT_TOKENS: derived from the map, so independent of its order. *)
ContainmentTokens(map) ==
  {map[i].token : i \in {j \in DOMAIN map : map[j].field \in AlwaysGateCategories}}

(* The field of the first map entry whose token occurs in the id. *)
Matches(id, map) == {i \in DOMAIN map : map[i].token \in id}

FirstMatch(id, map) == CHOOSE i \in Matches(id, map) : \A j \in Matches(id, map) : i <= j

(* _is_containment_node, and the same scan of the agents' hook. *)
IsContainmentByFirstMatch(id, map) ==
  Matches(id, map) # {} /\ map[FirstMatch(id, map)].field \in AlwaysGateCategories

IsContainment(id, map) == id \cap ContainmentTokens(map) # {}

IsContainmentNode(id) == IsContainment(id, NodeAutonomyMap)

(* _resolve_node_autonomy / _resolve_tool_autonomy; L2 for an unknown id. *)
ResolveAutonomy(id, map, org) ==
  IF Matches(id, map) = {} THEN 2 ELSE org[map[FirstMatch(id, map)].field]

(* The L0..L4 table both requires_approval functions end with. *)
AutonomyTableInverted(agent, level) ==
  \/ agent = 0
  \/ agent = 1 /\ level < 3
  \/ agent = 2 /\ level <= 1
  \/ agent >= 3 /\ level > 3

AutonomyTable(agent, level) ==
  \/ agent = 0
  \/ agent = 1 /\ level < 3
  \/ agent = 2 /\ level <= 1
  \/ agent >= 3 /\ level = 0

(* requires_approval of the engine. *)
RequiresApproval(id, agent, org) ==
  \/ IsContainmentNode(id)
  \/ AutonomyTable(agent, ResolveAutonomy(id, NodeAutonomyMap, org))

(* requires_approval of the agents' hook, for a tool that has no manifest  *)
(* entry of its own (the node-id form both sides classify).                *)
ToolRequiresApproval(id, agent, org) ==
  \/ IsContainment(id, ToolAutonomyMap)
  \/ AutonomyTable(agent, ResolveAutonomy(id, ToolAutonomyMap, org))

(* _tlp_allows: the capability's declared maximum permits the active TLP. *)
TlpAllows(capabilityMax, active) == active <= capabilityMax

-----------------------------------------------------------------------------
(***************************************************************************)
(* The before_run chain of one node, in registration order.  A node class  *)
(* is a record:                                                            *)
(*   integration  meta.category is INTEGRATION                             *)
(*   gate         meta.id is decision.hitl_gate                            *)
(*   id           the tokens of meta.id                                    *)
(*   manifest     "none", "unresolved" (a manifest, but no capability of   *)
(*                it can be determined) or "capability"                    *)
(*   hitl, egress hitl_required and tlp_egress of that capability          *)
(***************************************************************************)
HitlPauses(node, agent, org, ok) ==
  node.integration /\ ~ok /\ RequiresApproval(node.id, agent, org)

GatePauses(node, ok) == node.gate /\ ~ok

PolicyRefuses(node, tlp) ==
  \/ node.manifest = "unresolved"
  \/ node.manifest = "capability" /\ ~TlpAllows(node.egress, tlp)

PolicyPauses(node, ok) == node.manifest = "capability" /\ node.hitl /\ ~ok

(* ok is step_is_approved(ctx). The TLP check comes after the HITL pauses  *)
(* and no approval bypasses it.                                            *)
BeforeRunApprovalFirst(node, agent, org, tlp, ok) ==
  IF HitlPauses(node, agent, org, ok) \/ GatePauses(node, ok) \/ PolicyPauses(node, ok)
    THEN "pause"
  ELSE IF ~ok /\ PolicyRefuses(node, tlp) THEN "refuse"
  ELSE "run"

BeforeRun(node, agent, org, tlp, ok) ==
  IF HitlPauses(node, agent, org, ok) \/ GatePauses(node, ok) THEN "pause"
  ELSE IF PolicyRefuses(node, tlp) THEN "refuse"
  ELSE IF PolicyPauses(node, ok) THEN "pause"
  ELSE "run"

(* The nodes no autonomy setting may run without a human's consent. *)
AlwaysGated(node) ==
  \/ node.gate
  \/ node.integration /\ IsContainmentNode(node.id)
  \/ node.manifest = "capability" /\ node.hitl
=============================================================================
