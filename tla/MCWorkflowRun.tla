---------------------------- MODULE MCWorkflowRun ----------------------------
(***************************************************************************)
(* Instances of WorkflowRun for TLC: the graphs, the node classes and the  *)
(* autonomy policies the configurations choose from.                       *)
(***************************************************************************)
EXTENDS WorkflowRun

Edge(s, t, l) == [source |-> s, target |-> t, label |-> l]

Plain == [kind |-> "action", integration |-> FALSE, gate |-> FALSE, id |-> {},
          manifest |-> "none", hitl |-> FALSE, egress |-> 4]

(* A threat-intel lookup, gated only under a strict org policy. *)
Lookup == [Plain EXCEPT !.integration = TRUE, !.id = {"virustotal", "cti"}]

(* Host isolation through an EDR connector: its id also matches edr_query. *)
Isolate == [Plain EXCEPT !.integration = TRUE, !.id = {"crowdstrike", "isolate"},
                         !.manifest = "capability", !.hitl = TRUE]

(* A capability the run's TLP may not egress to, needing approval as well. *)
Share == [Plain EXCEPT !.integration = TRUE, !.id = {"misp"},
                       !.manifest = "capability", !.hitl = TRUE, !.egress = 1]

Kind(k) == [Plain EXCEPT !.kind = k, !.gate = (k = "gate")]

DefaultOrg ==
  [f \in Fields |-> IF f \in AlwaysGateCategories THEN 0
                    ELSE IF f = "playbook_execution" THEN 2 ELSE 3]
LooseOrg == [f \in Fields |-> IF f \in AlwaysGateCategories THEN 0 ELSE 4]
StrictOrg == [DefaultOrg EXCEPT !["cti_lookup"] = 1]

(* A decision, an explicit gate, a containment and an egress-refused step. *)
SeqSteps == {"lookup", "triage", "approve", "isolate", "share", "end"}
SeqNodeOf ==
  [s \in SeqSteps |->
     CASE s = "lookup" -> Lookup [] s = "triage" -> Kind("decision")
       [] s = "approve" -> Kind("gate") [] s = "isolate" -> Isolate
       [] s = "share" -> Share [] s = "end" -> Kind("passthrough")]
SeqEdges ==
  << Edge("lookup", "triage", "next"), Edge("triage", "approve", "true"),
     Edge("triage", "share", "false"), Edge("approve", "isolate", "next"),
     Edge("isolate", "end", "next"), Edge("share", "end", "next") >>

(* A fork with a containment in both branches, joined by a passthrough, and *)
(* a decision behind it that leads to the end, to a step that does not      *)
(* exist, or nowhere.                                                       *)
ForkSteps == {"fork", "lookup", "block", "isolate", "join", "choose", "end", "lost"}
ForkNodes == ForkSteps \ {"lost"}
ForkNodeOf ==
  [s \in ForkNodes |->
     CASE s = "fork" -> Kind("parallel") [] s = "lookup" -> Lookup
       [] s = "block" -> [Plain EXCEPT !.integration = TRUE, !.id = {"firewall", "block_ip"}]
       [] s = "isolate" -> Isolate [] s = "join" -> Kind("passthrough")
       [] s = "choose" -> Kind("decision") [] s = "end" -> Kind("passthrough")]
ForkEdges ==
  << Edge("fork", "lookup", "branch.0"), Edge("fork", "isolate", "branch.1"),
     Edge("fork", "join", "join"), Edge("lookup", "block", "next"),
     Edge("block", "join", "next"), Edge("isolate", "join", "next"),
     Edge("join", "choose", "next"), Edge("choose", "end", "true"),
     Edge("choose", "lost", "false") >>

(* Several policies over time, or the default one. *)
OneOrg == {DefaultOrg}
TwoOrgs == {LooseOrg, StrictOrg}
TrueFalse == {"true", "false"}
TrueFalseOther == {"true", "false", "other"}
=============================================================================
