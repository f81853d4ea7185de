------------------------ MODULE AutonomyPolicyProofs ------------------------
(***************************************************************************)
(* Containment is gated, and autonomy is monotone, for every set of ids    *)
(* and whatever overrides are stored: nothing is assumed of the stored     *)
(* value, because the merge keeps only what it knows. The engine and the   *)
(* agents agree on every id, but for one pair of tokens that their maps    *)
(* list in opposite orders.                                                *)
(***************************************************************************)
EXTENDS AutonomyPolicy, SequenceTheorems, WellFoundedInduction, TLAPS

(* What the maps hold: entries that name a field of the autonomy model.    *)
MapEntry ==
  {e \in Range(NodeReadOnlyEntries) \cup Range(ToolReadOnlyEntries) \cup Range(ContainmentEntries) :
     e.field \in Fields}

LEMMA EntryTypes ==
  /\ NodeReadOnlyEntries \in Seq(MapEntry)
  /\ ToolReadOnlyEntries \in Seq(MapEntry)
  /\ ContainmentEntries \in Seq(MapEntry)
<1>1. /\ "siem_query" \in Fields /\ "edr_query" \in Fields /\ "cti_lookup" \in Fields
      /\ "host_isolation" \in Fields /\ "firewall_rule" \in Fields
      /\ "account_disable" \in Fields /\ "playbook_execution" \in Fields
  BY DEF Fields
<1>2. /\ DOMAIN NodeReadOnlyEntries = 1 .. 16
      /\ \A i \in 1 .. 16 : NodeReadOnlyEntries[i].field \in Fields
      /\ NodeReadOnlyEntries = [i \in 1 .. 16 |-> NodeReadOnlyEntries[i]]
  BY <1>1 DEF NodeReadOnlyEntries, Entry
<1>3. /\ DOMAIN ToolReadOnlyEntries = 1 .. 14
      /\ \A i \in 1 .. 14 : ToolReadOnlyEntries[i].field \in Fields
      /\ ToolReadOnlyEntries = [i \in 1 .. 14 |-> ToolReadOnlyEntries[i]]
  BY <1>1 DEF ToolReadOnlyEntries, Entry
<1>4. /\ DOMAIN ContainmentEntries = 1 .. 12
      /\ \A i \in 1 .. 12 : ContainmentEntries[i].field \in Fields
      /\ ContainmentEntries = [i \in 1 .. 12 |-> ContainmentEntries[i]]
  BY <1>1 DEF ContainmentEntries, Entry
<1>5. /\ \A i \in 1 .. 16 : NodeReadOnlyEntries[i] \in MapEntry
      /\ \A i \in 1 .. 14 : ToolReadOnlyEntries[i] \in MapEntry
      /\ \A i \in 1 .. 12 : ContainmentEntries[i] \in MapEntry
  BY <1>2, <1>3, <1>4 DEF MapEntry, Range
<1> QED  BY <1>2, <1>3, <1>4, <1>5

(* A map made of two parts holds the entries of its second part.           *)
LEMMA TailEntries ==
  ASSUME NEW s \in Seq(MapEntry), NEW t \in Seq(MapEntry), NEW i \in DOMAIN t
  PROVE  \E j \in DOMAIN (s \o t) : (s \o t)[j] = t[i]
<1>1. s \o t \in Seq(MapEntry) /\ Len(s \o t) = Len(s) + Len(t)
  BY ConcatProperties
<1>2. Len(s) \in Nat /\ Len(t) \in Nat /\ i \in 1 .. Len(t)
  OBVIOUS
<1>3. Len(s) + i \in 1 .. Len(s) + Len(t) /\ ~(Len(s) + i <= Len(s)) /\ (Len(s) + i) - Len(s) = i
  BY <1>2
<1>4. (s \o t)[Len(s) + i] = t[i]
  BY <1>3, ConcatProperties
<1>5. DOMAIN (s \o t) = 1 .. Len(s) + Len(t)
  BY <1>1
<1> QED  BY <1>3, <1>4, <1>5

(* An id with a destructive token is containment in any map that ends with *)
(* the destructive entries, whatever stands before them.                   *)
LEMMA ContainmentRecognised ==
  ASSUME NEW s \in Seq(MapEntry), NEW id, NEW i \in DOMAIN ContainmentEntries,
         ContainmentEntries[i].field \in AlwaysGateCategories,
         ContainmentEntries[i].token \in id
  PROVE  IsContainment(id, s \o ContainmentEntries)
<1>1. PICK j \in DOMAIN (s \o ContainmentEntries) :
        (s \o ContainmentEntries)[j] = ContainmentEntries[i]
  BY TailEntries, EntryTypes
<1> QED  BY <1>1 DEF IsContainment, ContainmentTokens

(* Theorem: under every stored overrides, drifted ones included, an id     *)
(* with a destructive token waits for approval at any agent autonomy, in   *)
(* requires_approval of the engine and of the agents' hook alike.          *)
THEOREM ContainmentGated == Spec => []ContainmentAlwaysGated
<1>1. ContainmentAlwaysGated
  <2> SUFFICES ASSUME NEW id \in Ids, NEW agent \in Levels,
                      NEW i \in DOMAIN ContainmentEntries,
                      ContainmentEntries[i].field \in HITL_FORCED_CATEGORIES,
                      ContainmentEntries[i].token \in id
               PROVE  RequiresApproval(id, agent, Policy) /\ ToolRequiresApproval(id, agent, Policy)
    BY DEF ContainmentAlwaysGated
  <2>1. ContainmentEntries[i].field \in AlwaysGateCategories
    BY DEF AlwaysGateCategories, HITL_FORCED_CATEGORIES
  <2>2. IsContainment(id, NodeAutonomyMap)
    BY <2>1, ContainmentRecognised, EntryTypes DEF NodeAutonomyMap
  <2>3. IsContainment(id, ToolAutonomyMap)
    BY <2>1, ContainmentRecognised, EntryTypes DEF ToolAutonomyMap
  <2> QED  BY <2>2, <2>3 DEF RequiresApproval, ToolRequiresApproval, IsContainmentNode
<1> QED  BY <1>1, PTL

(* The merge yields a level for every field, whatever is stored.           *)
LEMMA EffectiveType == \A o : Effective(o) \in [Fields -> Levels]
<1>1. DefaultLevel \in [Fields -> Levels]
  BY DEF DefaultLevel, Levels
<1> QED  BY <1>1 DEF Effective

(* A non-empty set of positions has a first one.                           *)
LEMMA FirstExists ==
  ASSUME NEW I \in SUBSET Nat, I # {}
  PROVE  \E i \in I : \A j \in I : i <= j
<1>1. PICK x \in I : \A y \in I : ~(<<y, x>> \in OpToRel(<, Nat))
  BY WFMin, NatLessThanWellFounded
<1>2. \A y \in I : ~(y < x)
  BY <1>1 DEF OpToRel
<1> QED  BY <1>2

(* The first match is a match: an id some entry matches has a first one.   *)
LEMMA FirstMatchExists ==
  ASSUME NEW map \in Seq(MapEntry), NEW id, Matches(id, map) # {}
  PROVE  FirstMatch(id, map) \in Matches(id, map)
<1>1. Matches(id, map) \in SUBSET Nat
  BY DEF Matches
<1>2. \E i \in Matches(id, map) : \A j \in Matches(id, map) : i <= j
  BY <1>1, FirstExists
<1> QED  BY <1>2 DEF FirstMatch

(* An unknown id resolves to L2 and a known one to its field's level.      *)
LEMMA ResolvedLevel ==
  ASSUME NEW id, NEW org \in [Fields -> Levels]
  PROVE  ResolveAutonomy(id, NodeAutonomyMap, org) \in Levels
<1>1. NodeAutonomyMap \in Seq(MapEntry)
  BY EntryTypes, ConcatProperties DEF NodeAutonomyMap
<1>2. CASE Matches(id, NodeAutonomyMap) = {}
  BY <1>2 DEF ResolveAutonomy, Levels
<1>3. CASE Matches(id, NodeAutonomyMap) # {}
  <2>1. FirstMatch(id, NodeAutonomyMap) \in DOMAIN NodeAutonomyMap
    BY <1>1, <1>3, FirstMatchExists DEF Matches
  <2>2. NodeAutonomyMap[FirstMatch(id, NodeAutonomyMap)] \in MapEntry
    BY <1>1, <2>1
  <2> QED  BY <1>3, <2>2 DEF ResolveAutonomy, MapEntry
<1> QED  BY <1>2, <1>3

(* The L0..L4 table only relaxes as the agent's level rises.               *)
LEMMA TableAntitone ==
  ASSUME NEW level \in Levels, NEW low \in Levels, NEW high \in Levels,
         low <= high, ~AutonomyTable(low, level)
  PROVE  ~AutonomyTable(high, level)
BY DEF AutonomyTable, Levels

(* Theorem: under every stored overrides, a node that runs unattended at   *)
(* one agent level runs unattended at every higher one: requires_approval  *)
(* never asks more of a more autonomous agent.                             *)
THEOREM MoreAutonomyFewerApprovals == Spec => []AutonomyMonotone
<1>1. AutonomyMonotone
  <2> SUFFICES ASSUME NEW id \in Ids, NEW low \in Levels, NEW high \in Levels,
                      low <= high, ~RequiresApproval(id, low, Policy)
               PROVE  ~RequiresApproval(id, high, Policy)
    BY DEF AutonomyMonotone
  <2> DEFINE level == ResolveAutonomy(id, NodeAutonomyMap, Policy)
  <2>1. level \in Levels
    BY EffectiveType, ResolvedLevel DEF Policy
  <2>2. ~IsContainmentNode(id) /\ ~AutonomyTable(low, level)
    BY DEF RequiresApproval
  <2>3. ~AutonomyTable(high, level)
    BY <2>1, <2>2, TableAntitone
  <2> QED  BY <2>2, <2>3 DEF RequiresApproval
<1> QED  BY <1>1, PTL

-----------------------------------------------------------------------------
(* The two maps agree. Each is a read-only part of its own, scanned first, *)
(* and the same destructive entries behind it.                             *)

LEMMA PartEntries ==
  ASSUME NEW s \in Seq(MapEntry), NEW t \in Seq(MapEntry)
  PROVE  /\ DOMAIN (s \o t) = 1 .. Len(s) + Len(t)
         /\ DOMAIN s = 1 .. Len(s) /\ DOMAIN t = 1 .. Len(t)
         /\ Len(s) \in Nat /\ Len(t) \in Nat
         /\ \A i \in 1 .. Len(s) : (s \o t)[i] = s[i]
         /\ \A i \in 1 .. Len(t) : (s \o t)[Len(s) + i] = t[i]
<1>1. s \o t \in Seq(MapEntry) /\ Len(s \o t) = Len(s) + Len(t)
  BY ConcatProperties
<1>2. \A i \in 1 .. Len(s) : i \in 1 .. Len(s) + Len(t) /\ i <= Len(s)
  OBVIOUS
<1>3. \A i \in 1 .. Len(t) : /\ Len(s) + i \in 1 .. Len(s) + Len(t)
                             /\ ~(Len(s) + i <= Len(s)) /\ (Len(s) + i) - Len(s) = i
  OBVIOUS
<1> QED  BY <1>1, <1>2, <1>3, ConcatProperties

(* A scan of map s meets its first hit between lo and hi, where all hits   *)
(* have field f; then it answers f.                                        *)
HitsIn(s, id, lo, hi, f) ==
  /\ lo \in 1 .. Len(s) /\ hi \in 1 .. Len(s)
  /\ \A i \in 1 .. lo - 1 : s[i].token \notin id
  /\ \E i \in lo .. hi : s[i].token \in id
  /\ \A i \in lo .. hi : s[i].token \in id => s[i].field = f

LEMMA FirstHit ==
  ASSUME NEW s \in Seq(MapEntry), NEW t \in Seq(MapEntry), NEW id, NEW org, NEW f,
         NEW lo, NEW hi, HitsIn(s, id, lo, hi, f)
  PROVE  ResolveAutonomy(id, s \o t, org) = org[f]
<1> DEFINE m == s \o t
           I == Matches(id, m)
<1>1. /\ DOMAIN m = 1 .. Len(s) + Len(t) /\ Len(s) \in Nat /\ Len(t) \in Nat
      /\ \A i \in 1 .. Len(s) : m[i] = s[i]
  BY PartEntries
<1>2. PICK h \in lo .. hi : s[h].token \in id
  BY DEF HitsIn
<1>3. h \in I /\ I \in SUBSET Nat
  BY <1>1, <1>2 DEF Matches, HitsIn
<1>4. PICK i \in I : \A j \in I : i <= j
  BY <1>3, FirstExists
<1>5. i \in Nat /\ FirstMatch(id, m) \in I /\ \A j \in I : FirstMatch(id, m) <= j
  BY <1>3, <1>4 DEF FirstMatch
<1> DEFINE k == FirstMatch(id, m)
<1>6. k \in 1 .. Len(s) /\ k <= hi
  BY <1>1, <1>2, <1>3, <1>5 DEF Matches, HitsIn
<1>7. s[k].token \in id /\ m[k] = s[k]
  BY <1>1, <1>5, <1>6 DEF Matches
<1>8. k \in lo .. hi
  <2>1. ~(k \in 1 .. lo - 1)  BY <1>7 DEF HitsIn
  <2> QED  BY <1>6, <2>1 DEF HitsIn
<1>9. m[k].field = f
  BY <1>7, <1>8 DEF HitsIn
<1> QED  BY <1>3, <1>9 DEF ResolveAutonomy

(* A scan without a hit in the first part goes on in the second.           *)
LEMMA NoHit ==
  ASSUME NEW s \in Seq(MapEntry), NEW t \in Seq(MapEntry), NEW id, NEW org,
         \A i \in DOMAIN s : s[i].token \notin id
  PROVE  ResolveAutonomy(id, s \o t, org) = ResolveAutonomy(id, t, org)
<1> DEFINE m == s \o t
           I == Matches(id, t)
           J == Matches(id, m)
           n == Len(s)
<1>1. /\ DOMAIN m = 1 .. n + Len(t) /\ DOMAIN t = 1 .. Len(t)
      /\ DOMAIN s = 1 .. n /\ n \in Nat /\ Len(t) \in Nat
      /\ \A i \in 1 .. n : m[i] = s[i]
      /\ \A i \in 1 .. Len(t) : m[n + i] = t[i]
  BY PartEntries
<1>2. \A i \in I : n + i \in J
  BY <1>1 DEF Matches
<1>3. ASSUME NEW j \in J PROVE j - n \in I /\ j = n + (j - n)
  <2>1. j \in 1 .. n + Len(t) /\ m[j].token \in id  BY <1>1 DEF Matches
  <2>2. ~(j \in 1 .. n)  BY <1>1, <2>1
  <2>3. j - n \in 1 .. Len(t) /\ j = n + (j - n)  BY <1>1, <2>1, <2>2
  <2> QED  BY <1>1, <2>1, <2>3 DEF Matches
<1>4. CASE I = {}
  BY <1>3, <1>4 DEF ResolveAutonomy
<1>5. CASE I # {}
  <2>1. I \in SUBSET Nat  BY <1>1 DEF Matches
  <2>2. PICK i \in I : \A j \in I : i <= j  BY <1>5, <2>1, FirstExists
  <2>3. \A j \in I : (\A l \in I : j <= l) => j = i
    BY <2>1, <2>2
  <2>4. FirstMatch(id, t) = i
    BY <2>2, <2>3 DEF FirstMatch
  <2>5. n + i \in J /\ \A j \in J : n + i <= j
    BY <1>1, <1>2, <1>3, <2>1, <2>2
  <2>6. J \in SUBSET Nat  BY <1>1 DEF Matches
  <2>7. \A j \in J : (\A l \in J : j <= l) => j = n + i
    BY <1>1, <2>1, <2>5, <2>6
  <2>8. FirstMatch(id, m) = n + i
    BY <2>5, <2>7 DEF FirstMatch
  <2>9. m[n + i] = t[i]
    BY <1>1, <2>2 DEF Matches
  <2> QED  BY <1>5, <2>4, <2>5, <2>8, <2>9 DEF ResolveAutonomy
<1> QED  BY <1>4, <1>5

(* The tokens that always wait are those of the destructive entries.       *)
LEMMA DestructiveTokens ==
  ASSUME NEW s \in Seq(MapEntry),
         \A i \in DOMAIN s : s[i].field \notin AlwaysGateCategories
  PROVE  ContainmentTokens(s \o ContainmentEntries) = ContainmentTokens(ContainmentEntries)
<1> DEFINE t == ContainmentEntries
           m == s \o t
           n == Len(s)
<1>1. /\ DOMAIN m = 1 .. n + Len(t) /\ DOMAIN t = 1 .. Len(t)
      /\ DOMAIN s = 1 .. n /\ n \in Nat /\ Len(t) \in Nat
      /\ \A i \in 1 .. n : m[i] = s[i]
      /\ \A i \in 1 .. Len(t) : m[n + i] = t[i]
  BY PartEntries, EntryTypes
<1> HIDE DEF t
<1>2. ASSUME NEW i \in DOMAIN t, t[i].field \in AlwaysGateCategories
      PROVE  n + i \in DOMAIN m /\ m[n + i] = t[i]
  BY <1>1
<1>3. ASSUME NEW j \in DOMAIN m, m[j].field \in AlwaysGateCategories
      PROVE  j - n \in DOMAIN t /\ m[j] = t[j - n]
  <2>1. ~(j \in 1 .. n)  BY <1>1, <1>3
  <2>2. j - n \in 1 .. Len(t) /\ j = n + (j - n)  BY <1>1, <2>1
  <2> QED  BY <1>1, <2>2
<1> QED  BY <1>2, <1>3 DEF ContainmentTokens, t


(* Both maps resolve an id to one field, in the order in which they scan.  *)
LEMMA SameField ==
  ASSUME NEW id, NEW org, "greynoise" \notin id, "shodan" \notin id,
         ~({"siem", "sentinelone"} \subseteq id)
  PROVE  ResolveAutonomy(id, NodeAutonomyMap, org) = ResolveAutonomy(id, ToolAutonomyMap, org)
<1> DEFINE N == NodeReadOnlyEntries
           T == ToolReadOnlyEntries
           t == ContainmentEntries
<1>1. N \in Seq(MapEntry) /\ T \in Seq(MapEntry) /\ t \in Seq(MapEntry)
  BY EntryTypes
<1>2. /\ Len(N) = 16 /\ DOMAIN N = 1 .. 16
      /\ N[1].token = "splunk" /\ N[2].token = "elastic" /\ N[3].token = "sentinelone"
      /\ N[4].token = "sentinel" /\ N[5].token = "siem" /\ N[6].token = "crowdstrike"
      /\ N[7].token = "defender" /\ N[8].token = "carbon_black" /\ N[9].token = "edr"
      /\ N[10].token = "virustotal" /\ N[11].token = "misp" /\ N[12].token = "otx"
      /\ N[13].token = "abuse" /\ N[14].token = "greynoise" /\ N[15].token = "shodan"
      /\ N[16].token = "cti"
  BY DEF NodeReadOnlyEntries, Entry
<1>3. /\ \A i \in {1, 2, 4, 5} : N[i].field = "siem_query"
      /\ \A i \in {3} \cup 6 .. 9 : N[i].field = "edr_query"
      /\ \A i \in 10 .. 16 : N[i].field = "cti_lookup"
  BY DEF NodeReadOnlyEntries, Entry
<1>4. /\ Len(T) = 14 /\ DOMAIN T = 1 .. 14
      /\ T[1].token = "siem" /\ T[2].token = "splunk" /\ T[3].token = "elastic"
      /\ T[4].token = "sentinelone" /\ T[5].token = "sentinel" /\ T[6].token = "edr"
      /\ T[7].token = "crowdstrike" /\ T[8].token = "defender" /\ T[9].token = "carbon_black"
      /\ T[10].token = "cti" /\ T[11].token = "virustotal" /\ T[12].token = "misp"
      /\ T[13].token = "otx" /\ T[14].token = "abuse"
  BY DEF ToolReadOnlyEntries, Entry
<1>5. /\ \A i \in {1, 2, 3, 5} : T[i].field = "siem_query"
      /\ \A i \in {4} \cup 6 .. 9 : T[i].field = "edr_query"
      /\ \A i \in 10 .. 14 : T[i].field = "cti_lookup"
  BY DEF ToolReadOnlyEntries, Entry
<1> HIDE DEF N, T, t
<1> DEFINE Both(f) == /\ ResolveAutonomy(id, N \o t, org) = org[f]
                      /\ ResolveAutonomy(id, T \o t, org) = org[f]
<1>6. ASSUME NEW f, NEW a, NEW b, HitsIn(N, id, a, b, f),
             NEW c, NEW d, HitsIn(T, id, c, d, f)
      PROVE  Both(f)
  BY <1>1, <1>6, FirstHit
<1>7. CASE "splunk" \in id \/ "elastic" \in id
  <2>1. HitsIn(N, id, 1, 2, "siem_query")  BY <1>2, <1>3, <1>4, <1>5, <1>7 DEF HitsIn
  <2>2. HitsIn(T, id, 1, 3, "siem_query")  BY <1>2, <1>3, <1>4, <1>5, <1>7 DEF HitsIn
  <2>3. Both("siem_query")  BY <1>6, <2>1, <2>2
  <2> QED  BY <2>3 DEF NodeAutonomyMap, ToolAutonomyMap, N, T, t
<1>8. CASE "splunk" \notin id /\ "elastic" \notin id /\ "sentinelone" \in id
  <2>1. HitsIn(N, id, 3, 3, "edr_query")  BY <1>2, <1>3, <1>4, <1>5, <1>8 DEF HitsIn
  <2>2. HitsIn(T, id, 4, 4, "edr_query")  BY <1>2, <1>3, <1>4, <1>5, <1>8 DEF HitsIn
  <2>3. Both("edr_query")  BY <1>6, <2>1, <2>2
  <2> QED  BY <2>3 DEF NodeAutonomyMap, ToolAutonomyMap, N, T, t
<1>9. CASE /\ "splunk" \notin id /\ "elastic" \notin id /\ "sentinelone" \notin id
           /\ "sentinel" \in id \/ "siem" \in id
  <2>1. HitsIn(N, id, 4, 5, "siem_query")  BY <1>2, <1>3, <1>4, <1>5, <1>9 DEF HitsIn
  <2>2. HitsIn(T, id, 1, 5, "siem_query")  BY <1>2, <1>3, <1>4, <1>5, <1>9 DEF HitsIn
  <2>3. Both("siem_query")  BY <1>6, <2>1, <2>2
  <2> QED  BY <2>3 DEF NodeAutonomyMap, ToolAutonomyMap, N, T, t
<1> DEFINE NoSiem == \A x \in {"splunk", "elastic", "sentinelone", "sentinel", "siem"} : x \notin id
           NoEdr == \A x \in {"crowdstrike", "defender", "carbon_black", "edr"} : x \notin id
<1>10. CASE NoSiem /\ ~NoEdr
  <2>1. HitsIn(N, id, 6, 9, "edr_query")  BY <1>2, <1>3, <1>4, <1>5, <1>10 DEF HitsIn
  <2>2. HitsIn(T, id, 6, 9, "edr_query")  BY <1>2, <1>3, <1>4, <1>5, <1>10 DEF HitsIn
  <2>3. Both("edr_query")  BY <1>6, <2>1, <2>2
  <2> QED  BY <2>3 DEF NodeAutonomyMap, ToolAutonomyMap, N, T, t
<1> DEFINE NoCti == \A x \in {"virustotal", "misp", "otx", "abuse", "cti"} : x \notin id
<1>11. CASE NoSiem /\ NoEdr /\ ~NoCti
  <2>1. HitsIn(N, id, 10, 16, "cti_lookup")  BY <1>2, <1>3, <1>4, <1>5, <1>11 DEF HitsIn
  <2>2. HitsIn(T, id, 10, 14, "cti_lookup")  BY <1>2, <1>3, <1>4, <1>5, <1>11 DEF HitsIn
  <2>3. Both("cti_lookup")  BY <1>6, <2>1, <2>2
  <2> QED  BY <2>3 DEF NodeAutonomyMap, ToolAutonomyMap, N, T, t
<1>12. CASE NoSiem /\ NoEdr /\ NoCti
  <2>1. (\A i \in DOMAIN N : N[i].token \notin id) /\ (\A i \in DOMAIN T : T[i].token \notin id)
    BY <1>2, <1>4, <1>12
  <2>2. ResolveAutonomy(id, N \o t, org) = ResolveAutonomy(id, T \o t, org)
    BY <1>1, <2>1, NoHit
  <2> QED  BY <2>2 DEF NodeAutonomyMap, ToolAutonomyMap, N, T, t
<1> QED  BY <1>7, <1>8, <1>9, <1>10, <1>11, <1>12

(* Both maps hold the same destructive tokens.                             *)
LEMMA SameDestructive ==
  /\ ContainmentTokens(NodeAutonomyMap) = ContainmentTokens(ContainmentEntries)
  /\ ContainmentTokens(ToolAutonomyMap) = ContainmentTokens(ContainmentEntries)
<1>1. \A i \in DOMAIN NodeReadOnlyEntries : NodeReadOnlyEntries[i].field \notin AlwaysGateCategories
  <2>1. \A i \in 1 .. 16 :
          NodeReadOnlyEntries[i].field \in {"siem_query", "edr_query", "cti_lookup"}
    BY DEF NodeReadOnlyEntries, Entry
  <2>2. DOMAIN NodeReadOnlyEntries = 1 .. 16  BY DEF NodeReadOnlyEntries
  <2> QED  BY <2>1, <2>2 DEF AlwaysGateCategories
<1>2. \A i \in DOMAIN ToolReadOnlyEntries : ToolReadOnlyEntries[i].field \notin AlwaysGateCategories
  <2>1. \A i \in 1 .. 14 :
          ToolReadOnlyEntries[i].field \in {"siem_query", "edr_query", "cti_lookup"}
    BY DEF ToolReadOnlyEntries, Entry
  <2>2. DOMAIN ToolReadOnlyEntries = 1 .. 14  BY DEF ToolReadOnlyEntries
  <2> QED  BY <2>1, <2>2 DEF AlwaysGateCategories
<1> QED
  BY <1>1, <1>2, DestructiveTokens, EntryTypes DEF NodeAutonomyMap, ToolAutonomyMap

(* Theorem: whatever overrides are stored, the engine and the agents' hook *)
(* ask for the same approvals of every id all of whose tokens both maps    *)
(* know, but for an id with the tokens siem and sentinelone: siem comes    *)
(* first in _TOOL_AUTONOMY_MAP and sentinelone in the engine's map.        *)
THEOREM MapsMirrored ==
  ASSUME \A id \in Ids : ~({"siem", "sentinelone"} \subseteq id)
  PROVE  Spec => []PoliciesMirrored
<1>1. "greynoise" \notin Tokens(ToolAutonomyMap) /\ "shodan" \notin Tokens(ToolAutonomyMap)
  <2> DEFINE T == ToolReadOnlyEntries
             t == ContainmentEntries
  <2>1. DOMAIN T = 1 .. 14 /\ \A i \in 1 .. 14 : T[i].token \notin {"greynoise", "shodan"}
    BY DEF ToolReadOnlyEntries, Entry
  <2>2. DOMAIN t = 1 .. 12 /\ \A i \in 1 .. 12 : t[i].token \notin {"greynoise", "shodan"}
    BY DEF ContainmentEntries, Entry
  <2>3. T \in Seq(MapEntry) /\ t \in Seq(MapEntry)  BY EntryTypes
  <2> HIDE DEF T, t
  <2>4. ASSUME NEW j \in DOMAIN (T \o t) PROVE (T \o t)[j].token \notin {"greynoise", "shodan"}
    <3>0. /\ DOMAIN (T \o t) = 1 .. Len(T) + Len(t)
          /\ DOMAIN T = 1 .. Len(T) /\ DOMAIN t = 1 .. Len(t)
          /\ Len(T) \in Nat /\ Len(t) \in Nat
          /\ \A i \in 1 .. Len(T) : (T \o t)[i] = T[i]
          /\ \A i \in 1 .. Len(t) : (T \o t)[Len(T) + i] = t[i]
      BY <2>3, PartEntries
    <3>1. CASE j \in 1 .. Len(T)  BY <2>1, <3>0, <3>1
    <3>2. CASE j \notin 1 .. Len(T)
      <4>1. j - Len(T) \in 1 .. Len(t) /\ j = Len(T) + (j - Len(T))
        BY <3>0, <3>2
      <4>2. (T \o t)[j] = t[j - Len(T)]  BY <3>0, <4>1
      <4> QED  BY <2>2, <3>0, <4>1, <4>2
    <3> QED  BY <3>1, <3>2
  <2> QED  BY <2>4 DEF Tokens, ToolAutonomyMap, T, t
<1>2. PoliciesMirrored
  <2> SUFFICES ASSUME NEW id \in Ids, NEW agent \in Levels,
                      id \subseteq Tokens(NodeAutonomyMap) \cap Tokens(ToolAutonomyMap)
               PROVE  RequiresApproval(id, agent, Policy) <=> ToolRequiresApproval(id, agent, Policy)
    BY DEF PoliciesMirrored
  <2>1. "greynoise" \notin id /\ "shodan" \notin id  BY <1>1
  <2>2. ResolveAutonomy(id, NodeAutonomyMap, Policy) = ResolveAutonomy(id, ToolAutonomyMap, Policy)
    BY <2>1, SameField
  <2>3. IsContainmentNode(id) <=> IsContainment(id, ToolAutonomyMap)
    BY SameDestructive DEF IsContainmentNode, IsContainment
  <2> QED  BY <2>2, <2>3 DEF RequiresApproval, ToolRequiresApproval
<1> QED  BY <1>2, PTL
=============================================================================
