--------------------------- MODULE AutonomyPolicy ---------------------------
(***************************************************************************)
(* The org's per-category autonomy levels (services/autonomy_service.py    *)
(* and PUT /config/autonomy): the stored overrides, how they are edited,   *)
(* and the effective policy that workflow runs and investigations read.    *)
(***************************************************************************)
EXTENDS WorkflowPolicy

CONSTANTS
  Ids,        \* node ids and tool names, as the sets of tokens in them
  Submitted,  \* the override sets a manager may submit
  Drifted     \* stored override sets left by a manual edit or a schema change

(* A stored override is a partial function from categories to levels; what *)
(* is neither is a category or a level the code does not know.             *)
UnknownCategory == "unknown_category"
InvalidLevel == 9

ASSUME PolicyAssumption ==
  /\ \A id \in Ids : id \subseteq STRING
  /\ \A o \in Submitted \cup Drifted :
       /\ DOMAIN o \subseteq Fields \cup {UnknownCategory}
       /\ \A c \in DOMAIN o : o[c] \in Levels \cup {InvalidLevel}

VARIABLE overrides

HITL_FORCED_CATEGORIES == {"host_isolation", "firewall_rule", "account_disable"}

EDITABLE_CATEGORIES == Fields \ HITL_FORCED_CATEGORIES

(* The defaults of the shared IntegrationAutonomy model. *)
DefaultLevel ==
  [f \in Fields |->
     CASE f \in {"siem_query", "edr_query", "cti_lookup"} -> 3
       [] f = "playbook_execution" -> 2
       [] OTHER -> 0]

(* validate_overrides: nothing stored is changed by a rejected request. *)
Valid(o) == \A c \in DOMAIN o : c \in EDITABLE_CATEGORIES /\ o[c] \in Levels

(* get_effective_autonomy: unknown categories and levels, and overrides of *)
(* a forced category, are ignored at merge time.                           *)
Effective(o) ==
  [f \in Fields |->
     IF f \in DOMAIN o /\ f \in EDITABLE_CATEGORIES /\ o[f] \in Levels
     THEN o[f] ELSE DefaultLevel[f]]

(* put_autonomy_config replaces the override set wholesale. *)
PutAutonomy(o) == Valid(o) /\ overrides' = o

(* The store is edited behind the API's back. *)
Drift(o) == overrides' = o

Init == overrides = << >>

Next == (\E o \in Submitted : PutAutonomy(o)) \/ (\E o \in Drifted : Drift(o))

Spec == Init /\ [][Next]_overrides

-----------------------------------------------------------------------------
Policy == Effective(overrides)

(* No stored override, drifted ones included, lets a containment id run    *)
(* unattended at any agent autonomy, in the engine or in the agents' hook, *)
(* however many benign tokens the id also contains.                        *)
ContainmentAlwaysGated ==
  \A id \in Ids, agent \in Levels :
    (\E i \in DOMAIN ContainmentEntries :
       /\ ContainmentEntries[i].field \in HITL_FORCED_CATEGORIES
       /\ ContainmentEntries[i].token \in id)
      => RequiresApproval(id, agent, Policy) /\ ToolRequiresApproval(id, agent, Policy)

(* More autonomy for the agent never adds an approval: what runs           *)
(* unattended at one level runs unattended at every higher one.            *)
AutonomyMonotone ==
  \A id \in Ids : \A low, high \in Levels :
    low <= high /\ ~RequiresApproval(id, low, Policy) => ~RequiresApproval(id, high, Policy)

Tokens(map) == {map[i].token : i \in DOMAIN map}

(* The engine's policy mirrors the agents' one for every id both hand-kept *)
(* maps know all tokens of: their different scan orders never classify an  *)
(* id differently under any stored overrides.                              *)
PoliciesMirrored ==
  \A id \in Ids, agent \in Levels :
    id \subseteq Tokens(NodeAutonomyMap) \cap Tokens(ToolAutonomyMap) =>
      (RequiresApproval(id, agent, Policy) <=> ToolRequiresApproval(id, agent, Policy))
=============================================================================
