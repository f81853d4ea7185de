--------------------------- MODULE PlaybookGatesProofs ---------------------------
(***************************************************************************)
(* Type correctness of PlaybookGates, and: no step runs behind a gate that *)
(* nobody has approved, for any definitions of the playbook, any edits,    *)
(* any number of walks and of decisions, overlapping or not; and, when the *)
(* decisions follow each other, no run is resumed twice and, in a playbook *)
(* that is not edited, no completed step is undone.                        *)
(***************************************************************************)
EXTENDS PlaybookGates, TLAPS, FiniteSetTheorems, SequenceTheorems, WellFoundedInduction

(* TypeOK is not inductive: a step is finished only if one is pending, and *)
(* the gate that is decided is a step.                                     *)
TypeInv ==
  /\ TypeOK
  /\ \A w \in Walks : walk[w].pc = "step" => walk[w].pending # <<>>
  /\ \A d \in Decisions : Busy(d) => decision[d].gate \in Steps

(* The pending steps of a walk are a stretch of its definition with a gate *)
(* only at the end, and the walk may be where that stretch begins.         *)
Stretch(def, pending, k) ==
  /\ k + Len(pending) <= Len(def)
  /\ \A i \in 1..Len(pending) : pending[i] = def[k + i]
  /\ \A i \in 1..(Len(pending) - 1) : ~pending[i].gate

AllApproved(def, k) == \A j \in GatesBefore(def, k) : def[j].id \in approved

Way(def, pending) ==
  \E k \in Nat :
    /\ Stretch(def, pending, k)
    /\ Released(def, k + 1)
    /\ edited = 0 => def = yaml /\ AllApproved(def, k + 1)

WalkInv ==
  \A w \in Walks :
    /\ Live(w) => Way(walk[w].def, walk[w].pending)
    /\ walk[w].pc = "step" => ~walk[w].pending[1].gate

(* As long as the playbook is as it was, a gate waits only where every gate *)
(* in front of it is approved, in the row and in every copy of its results.  *)
Cleared(s) == \A k \in DOMAIN yaml : yaml[k].id = s => AllApproved(yaml, k)
Marks(results) == \A s \in Steps : results[s] = "awaiting" => Cleared(s)

MarkInv ==
  edited = 0 =>
    /\ Marks(steps)
    /\ \A w \in Walks : Marks(walk[w].results)
    /\ \A d \in Decisions : /\ Marks(decision[d].results)
                            /\ Busy(d) => Cleared(decision[d].gate)

(* A walk is resumed after a gate whose approval has been stored.          *)
ApprovalInv ==
  \A d \in Decisions : decision[d].pc = "written" => decision[d].gate \in approved

GateInv == WalkInv /\ MarkInv /\ ApprovalInv

-----------------------------------------------------------------------------
(* What a walk is given.                                                   *)

LEMMA PositionFound ==
  ASSUME NEW def \in Definitions, NEW id \in Names(def)
  PROVE  PositionOf(def, id) \in DOMAIN def /\ def[PositionOf(def, id)].id = id
BY DEF PositionOf, Names

LEMMA PositionUnique ==
  ASSUME NEW def \in Definitions, NEW k \in DOMAIN def
  PROVE  PositionOf(def, def[k].id) = k
<1>1. def[k].id \in Names(def)
  BY DEF Names
<1> QED  BY <1>1, PositionFound, PlaybookAssumption

LEMMA SubSeqOf ==
  ASSUME NEW s \in Seq(Step), NEW k \in Nat, NEW n \in Nat, k <= n, n <= Len(s)
  PROVE  /\ SubSeq(s, k + 1, n) \in Seq(Step) /\ Len(SubSeq(s, k + 1, n)) = n - k
         /\ \A i \in 1..(n - k) : SubSeq(s, k + 1, n)[i] = s[k + i]
<1>1. Len(s) \in Nat /\ s \in [1..Len(s) -> Step]
  BY LenProperties
<1>2. \A i \in (k + 1)..n : s[i] \in Step
  BY <1>1
<1>3. k + 1 \in Int /\ n \in Int
  OBVIOUS
<1>4. /\ SubSeq(s, k + 1, n) \in Seq(Step)
      /\ Len(SubSeq(s, k + 1, n)) = IF k + 1 <= n THEN n - (k + 1) + 1 ELSE 0
      /\ \A i \in 1..(n - (k + 1) + 1) : SubSeq(s, k + 1, n)[i] = s[(k + 1) + i - 1]
  BY <1>2, <1>3, SubSeqProperties
<1>5. \A i \in 1..(n - k) : (k + 1) + i - 1 = k + i
  OBVIOUS
<1> QED  BY <1>4, <1>5

(* The steps behind a step, or all of them. *)
Behind(def, id) == IF id = None THEN 0 ELSE PositionOf(def, id)

LEMMA BehindFound ==
  ASSUME NEW def \in Definitions, NEW id, id = None \/ id \in Names(def)
  PROVE  /\ Behind(def, id) \in Nat /\ Behind(def, id) <= Len(def)
         /\ id # None => Behind(def, id) >= 1 /\ def[Behind(def, id)].id = id
<1>1. Len(def) \in Nat /\ DOMAIN def = 1..Len(def)
  BY PlaybookAssumption, LenProperties
<1> QED  BY <1>1, PositionFound DEF Behind

LEMMA AfterStretch ==
  ASSUME NEW def \in Definitions, NEW id, id = None \/ id \in Names(def)
  PROVE  /\ After(def, id) \in Seq(Step)
         /\ Len(After(def, id)) = Len(def) - Behind(def, id)
         /\ \A i \in 1..Len(After(def, id)) : After(def, id)[i] = def[Behind(def, id) + i]
<1>1. def \in Seq(Step) /\ Len(def) \in Nat /\ def \in [1..Len(def) -> Step]
  BY PlaybookAssumption, LenProperties
<1>2. CASE id = None
  BY <1>1, <1>2 DEF After, Behind
<1>3. CASE id # None
  <2>1. After(def, id) = SubSeq(def, Behind(def, id) + 1, Len(def))
    BY <1>3 DEF After, Behind
  <2>2. Behind(def, id) \in Nat /\ Behind(def, id) <= Len(def)
    BY BehindFound
  <2> QED  BY <1>1, <2>1, <2>2, SubSeqOf
<1> QED  BY <1>2, <1>3

(* A non-empty set of positions has a first one. *)
LEMMA FirstExists ==
  ASSUME NEW I \in SUBSET Nat, I # {}
  PROVE  \E i \in I : \A j \in I : i <= j
<1>1. PICK x \in I : \A y \in I : ~(<<y, x>> \in OpToRel(<, Nat))
  BY WFMin, NatLessThanWellFounded
<1>2. \A y \in I : ~(y < x)
  BY <1>1 DEF OpToRel
<1> QED  BY <1>2

(* steps_until_gate, whatever it resumes after: a stretch of the definition *)
(* with a gate at most at its end.                                         *)
LEMMA UntilGateStretch ==
  ASSUME NEW def \in Definitions, NEW id, id = None \/ id \in Names(def)
  PROVE  /\ StepsUntilGate(def, id) \in Seq(Step)
         /\ Stretch(def, StepsUntilGate(def, id), Behind(def, id))
<1> DEFINE rest == After(def, id)
           gates == {j \in DOMAIN rest : rest[j].gate}
           b == Behind(def, id)
<1>1. /\ rest \in Seq(Step) /\ Len(rest) = Len(def) - b
      /\ \A i \in 1..Len(rest) : rest[i] = def[b + i]
  BY AfterStretch
<1>2. /\ Len(rest) \in Nat /\ DOMAIN rest = 1..Len(rest) /\ Len(def) \in Nat /\ b \in Nat
  BY <1>1, LenProperties, PlaybookAssumption, BehindFound
<1>3. CASE gates = {}
  <2>1. StepsUntilGate(def, id) = rest
    BY <1>3 DEF StepsUntilGate
  <2>2. \A i \in 1..Len(rest) : ~rest[i].gate
    BY <1>2, <1>3
  <2> HIDE DEF rest, b, gates
  <2>3. Stretch(def, rest, b)
    BY <1>1, <1>2, <2>2 DEF Stretch
  <2> QED  BY <1>1, <2>1, <2>3 DEF b
<1>4. CASE gates # {}
  <2> DEFINE g == CHOOSE j \in gates : \A i \in gates : j <= i
  <2>1. StepsUntilGate(def, id) = SubSeq(rest, 1, g)
    BY <1>4 DEF StepsUntilGate
  <2>2. \E j \in gates : \A i \in gates : j <= i
    <3>1. gates \subseteq Nat
      BY <1>2
    <3> HIDE DEF gates
    <3> QED  BY <1>4, <3>1, FirstExists
  <2>3. g \in gates /\ \A i \in gates : g <= i
    BY <2>2
  <2>4. g \in 1..Len(rest)
    BY <1>2, <2>3
  <2>5. \A i \in 1..(g - 1) : ~rest[i].gate
    BY <1>2, <2>3, <2>4
  <2> DEFINE p == SubSeq(rest, 0 + 1, g)
  <2> HIDE DEF g, rest, gates, b
  <2>6. /\ p \in Seq(Step) /\ Len(p) = g
        /\ \A i \in 1..g : p[i] = rest[i]
    <3>1. 0 \in Nat /\ g \in Nat /\ 0 <= g /\ g <= Len(rest)
      BY <1>2, <2>4
    <3>2. /\ p \in Seq(Step) /\ Len(p) = g - 0
          /\ \A i \in 1..(g - 0) : p[i] = rest[0 + i]
      BY <1>1, <3>1, SubSeqOf
    <3> QED  BY <3>1, <3>2
  <2>7. StepsUntilGate(def, id) = p
    BY <2>1
  <2> HIDE DEF p
  <2>8. Stretch(def, p, b)
    BY <1>1, <1>2, <2>4, <2>5, <2>6 DEF Stretch
  <2> QED  BY <2>6, <2>7, <2>8 DEF b
<1> QED  BY <1>3, <1>4

-----------------------------------------------------------------------------
(* Type correctness.                                                       *)

(* The walk that Spawn creates.                                            *)
Spawned(v, def, id, results) ==
  \/ v.pc = "lost"
  \/ /\ v.pc = "begin" /\ v.def = def /\ v.pending = StepsUntilGate(def, id)
     /\ id = None \/ id \in Names(def)
     /\ v.results = results

LEMMA SpawnWalk ==
  ASSUME TypeInv, NEW def \in Definitions, NEW id, NEW results \in Results,
         Spawn(def, id, results)
  PROVE  \E w \in Walks, v \in WalkType :
           /\ walk' = [walk EXCEPT ![w] = v]
           /\ Spawned(v, def, id, results)
           /\ v.results \in {results, walk[w].results}
<1> DEFINE w == CHOOSE x \in Unused : TRUE
           new == [pc |-> "begin", def |-> def, pending |-> StepsUntilGate(def, id),
                   results |-> results]
           old == [walk[w] EXCEPT !.pc = "lost"]
<1>1. w \in Walks
  BY DEF Spawn, Unused
<1>2. walk[w] \in WalkType
  BY <1>1 DEF TypeInv, TypeOK
<1> HIDE DEF w
<1>3. CASE id = None \/ id \in Names(def)
  <2>1. walk' = [walk EXCEPT ![w] = new]
    BY <1>3 DEF Spawn, w
  <2>2. StepsUntilGate(def, id) \in Seq(Step)
    BY <1>3, UntilGateStretch
  <2>3. new \in WalkType
    BY <2>2 DEF WalkType
  <2> QED  BY <1>1, <1>3, <2>1, <2>3 DEF Spawned
<1>4. CASE ~(id = None \/ id \in Names(def))
  <2>1. walk' = [walk EXCEPT ![w] = old]
    BY <1>4 DEF Spawn, w
  <2>2. old \in WalkType /\ old.pc = "lost" /\ old.results = walk[w].results
    BY <1>2 DEF WalkType
  <2> QED  BY <1>1, <2>1, <2>2 DEF Spawned
<1> QED  BY <1>3, <1>4

LEMMA Upcomings ==
  ASSUME TypeInv, NEW w \in Walks, walk[w].pending # <<>>
  PROVE  /\ Upcoming(w) = walk[w].pending[1] /\ Upcoming(w) \in Step /\ Upcoming(w).id \in Steps
         /\ walk[w].pending \in Seq(Step) /\ Len(walk[w].pending) \in Nat \ {0}
         /\ Tail(walk[w].pending) \in Seq(Step)
         /\ Len(Tail(walk[w].pending)) = Len(walk[w].pending) - 1
         /\ \A i \in 1..Len(Tail(walk[w].pending)) :
              Tail(walk[w].pending)[i] = walk[w].pending[i + 1]
<1> DEFINE p == walk[w].pending
<1>1. p \in Seq(Step)
  BY DEF TypeInv, TypeOK, WalkType
<1> HIDE DEF p
<1>2. p # <<>>
  BY DEF p
<1>3. /\ Head(p) = p[1] /\ Head(p) \in Step /\ Len(p) \in Nat \ {0}
      /\ Tail(p) \in Seq(Step) /\ Len(Tail(p)) = Len(p) - 1
      /\ \A i \in 1..Len(Tail(p)) : Tail(p)[i] = p[i + 1]
  BY <1>1, <1>2, HeadTailProperties, LenProperties
<1> QED  BY <1>1, <1>3 DEF p, Upcoming, Step

LEMMA InitTypes == Init => TypeInv
<1> SUFFICES ASSUME Init PROVE TypeInv
  OBVIOUS
<1>1. NoResults \in Results
  BY DEF NoResults, Results, StepStatuses
<1>2. <<>> \in Seq(Step)
  BY EmptySeq
<1>3. edited \in 0..setting.edits
  BY PlaybookAssumption DEF Init
<1> QED  BY <1>1, <1>2, <1>3 DEF Init, TypeInv, TypeOK, RunStatuses, WalkType, DecisionType, Busy

(* What dies or fails: walks and requests are lost, and nothing else is    *)
(* changed.                                                                *)
FaultStep ==
  \/ Crash
  \/ \E w \in Walks : WalkRaises(w)
  \/ \E d \in Decisions : DecisionRaises(d)

LEMMA FaultMoves ==
  ASSUME TypeInv, FaultStep
  PROVE  /\ UNCHANGED <<setting, edited, yaml, status, steps, approved>> /\ crashed' \in BOOLEAN
         /\ walk' \in [Walks -> WalkType] /\ decision' \in [Decisions -> DecisionType]
         /\ \A w \in Walks : \/ walk'[w] = walk[w]
                             \/ walk'[w].pc = "lost" /\ walk'[w].results = walk[w].results
         /\ \A d \in Decisions : /\ decision'[d] = decision[d] \/ ~Busy(d)'
                                 /\ decision'[d].results = decision[d].results
                                 /\ decision'[d].gate = decision[d].gate
<1>1. walk \in [Walks -> WalkType] /\ decision \in [Decisions -> DecisionType]
  BY DEF TypeInv, TypeOK
<1>2. ASSUME NEW w \in Walks
      PROVE  /\ [walk[w] EXCEPT !.pc = "lost"] \in WalkType
             /\ [walk[w] EXCEPT !.pc = "lost"].pc = "lost"
             /\ [walk[w] EXCEPT !.pc = "lost"].results = walk[w].results
  BY <1>1 DEF WalkType
<1>3. ASSUME NEW d \in Decisions, NEW pc \in {"lost", "refused"}
      PROVE  /\ [decision[d] EXCEPT !.pc = pc] \in DecisionType
             /\ [decision[d] EXCEPT !.pc = pc].pc = pc
             /\ [decision[d] EXCEPT !.pc = pc].results = decision[d].results
             /\ [decision[d] EXCEPT !.pc = pc].gate = decision[d].gate
  BY <1>1 DEF DecisionType
<1>4. CASE Crash
  BY <1>1, <1>2, <1>3, <1>4 DEF Crash, Busy
<1>5. ASSUME NEW w \in Walks, WalkRaises(w)
      PROVE  /\ UNCHANGED <<setting, edited, yaml, status, steps, decision, approved, crashed>>
             /\ walk' = [walk EXCEPT ![w] = [walk[w] EXCEPT !.pc = "lost"]]
  BY <1>5 DEF WalkRaises
<1>6. ASSUME NEW d \in Decisions, DecisionRaises(d)
      PROVE  /\ UNCHANGED <<setting, edited, yaml, status, steps, walk, approved, crashed>>
             /\ \E pc \in {"lost", "refused"} :
                  decision' = [decision EXCEPT ![d] = [decision[d] EXCEPT !.pc = pc]]
  BY <1>6 DEF DecisionRaises
<1>7. CASE \E w \in Walks : WalkRaises(w)
  BY <1>1, <1>2, <1>5, <1>7 DEF TypeInv, TypeOK
<1>8. CASE \E d \in Decisions : DecisionRaises(d)
  <2>1. PICK d \in Decisions, pc \in {"lost", "refused"} :
          decision' = [decision EXCEPT ![d] = [decision[d] EXCEPT !.pc = pc]]
    BY <1>6, <1>8
  <2>2. UNCHANGED <<setting, edited, yaml, status, steps, walk, approved, crashed>>
    BY <1>6, <1>8
  <2>3. decision' \in [Decisions -> DecisionType]
    BY <1>1, <1>3, <2>1
  <2>4. ASSUME NEW c \in Decisions
        PROVE  /\ decision'[c] = decision[c] \/ ~Busy(c)'
               /\ decision'[c].results = decision[c].results
               /\ decision'[c].gate = decision[c].gate
    BY <1>1, <1>3, <2>1 DEF Busy
  <2> QED  BY <1>1, <2>2, <2>3, <2>4 DEF TypeInv, TypeOK
<1> QED  BY <1>4, <1>7, <1>8 DEF FaultStep

LEMMA StepTypes ==
  ASSUME TypeInv, Next
  PROVE  TypeInv'
<1> USE DEF TypeInv, TypeOK, Busy
<1>1. CASE ExecutePlaybook
  <2>1. NoResults \in Results
    BY DEF NoResults, Results, StepStatuses
  <2>2. PICK w \in Walks, v \in WalkType :
          walk' = [walk EXCEPT ![w] = v] /\ v.pc \in {"begin", "lost"}
    BY <1>1, <2>1, SpawnWalk DEF ExecutePlaybook, Spawned
  <2> QED  BY <1>1, <2>2 DEF ExecutePlaybook, RunStatuses
<1>2. CASE UpdatePlaybook
  BY <1>2, PlaybookAssumption DEF UpdatePlaybook
<1>3. ASSUME FaultStep
      PROVE  TypeInv'
  <2>1. /\ walk' \in [Walks -> WalkType] /\ decision' \in [Decisions -> DecisionType]
        /\ \A w \in Walks : walk'[w] = walk[w] \/ walk'[w].pc = "lost"
        /\ \A d \in Decisions : decision'[d] = decision[d] \/ ~Busy(d)'
        /\ UNCHANGED <<setting, edited, yaml, status, steps, approved>> /\ crashed' \in BOOLEAN
    BY <1>3, FaultMoves
  <2> QED  BY <2>1
<1>4. ASSUME NEW w \in Walks, BeginStep(w) \/ Pause(w)
      PROVE  TypeInv'
  <2>1. walk[w] \in WalkType /\ walk[w].pending # <<>>
    BY <1>4 DEF BeginStep, Pause
  <2>2. \A s \in StepStatuses : Resulted(w, s) \in Results
    BY <2>1, Upcomings DEF Resulted, WalkType, Results
  <2>3. CASE BeginStep(w)
    BY <2>1, <2>2, <2>3 DEF BeginStep, WalkType, StepStatuses
  <2>4. CASE Pause(w)
    BY <2>1, <2>2, <2>4 DEF Pause, WalkType, StepStatuses, RunStatuses
  <2> QED  BY <1>4, <2>3, <2>4
<1>5. ASSUME NEW w \in Walks, FinishStep(w)
      PROVE  TypeInv'
  <2>1. walk[w] \in WalkType /\ walk[w].pending # <<>>
    BY <1>5 DEF FinishStep
  <2>2. Resulted(w, "completed") \in Results /\ Tail(walk[w].pending) \in Seq(Step)
    BY <2>1, Upcomings DEF Resulted, WalkType, Results, StepStatuses
  <2> QED  BY <1>5, <2>1, <2>2 DEF FinishStep, WalkType
<1>6. ASSUME NEW w \in Walks, Complete(w)
      PROVE  TypeInv'
  BY <1>6 DEF Complete, WalkType, RunStatuses
<1>7. ASSUME NEW d \in Decisions, Load(d)
      PROVE  TypeInv'
  BY <1>7 DEF Load, Answerable, Marked, DecisionType
<1>8. ASSUME NEW d \in Decisions, Write(d)
      PROVE  TypeInv'
  <2>1. Decided(d) \in Results /\ decision[d].gate \in Steps /\ decision[d] \in DecisionType
    BY <1>8 DEF Write, Decided, DecisionType, Results, StepStatuses
  <2> QED  BY <1>8, <2>1 DEF Write, DecisionType, RunStatuses
<1>9. ASSUME NEW d \in Decisions, Resume(d)
      PROVE  TypeInv'
  <2>1. Decided(d) \in Results
    BY <1>9 DEF Resume, Decided, DecisionType, Results, StepStatuses
  <2>2. PICK w \in Walks, v \in WalkType :
          walk' = [walk EXCEPT ![w] = v] /\ v.pc \in {"begin", "lost"}
    BY <1>9, <2>1, SpawnWalk DEF Resume, Spawned
  <2> QED  BY <1>9, <2>2 DEF Resume, DecisionType
<1> QED
  BY <1>1, <1>2, <1>3, <1>4, <1>5, <1>6, <1>7, <1>8, <1>9 DEF Next, Walking, FaultStep

(* Every behaviour keeps the types of the row, the walks and the requests. *)
THEOREM TypeCorrect == Spec => []TypeOK
<1>1. TypeInv /\ [Next]_vars => TypeInv'
  <2>1. ASSUME TypeInv, UNCHANGED vars PROVE TypeInv'
    BY <2>1 DEF vars, TypeInv, TypeOK, Busy
  <2> QED  BY <2>1, StepTypes
<1>2. TypeInv => TypeOK
  BY DEF TypeInv
<1> QED  BY <1>1, <1>2, InitTypes, PTL DEF Spec

-----------------------------------------------------------------------------
(* The gates.                                                              *)

(* Approvals are never taken back, and an edit makes what is said of an    *)
(* unedited playbook void.                                                 *)
Unrevoked ==
  approved \subseteq approved' /\ (edited' # 0 \/ (edited' = edited /\ yaml' = yaml))

LEMMA WayMoves ==
  ASSUME Unrevoked, NEW w \in Walks, NEW def, NEW pending, Way(def, pending),
         walk'[w].def = def, walk'[w].pending = pending
  PROVE  Way(walk[w].def, walk[w].pending)'
<1>1. PICK k \in Nat : /\ Stretch(def, pending, k) /\ Released(def, k + 1)
                       /\ edited = 0 => def = yaml /\ AllApproved(def, k + 1)
  BY DEF Way
<1>2. Stretch(walk[w].def, walk[w].pending, k)'
  BY <1>1 DEF Stretch
<1>3. Released(walk[w].def, k + 1)'
  BY <1>1 DEF Unrevoked, Released, GatesBefore
<1>4. edited' = 0 => walk'[w].def = yaml' /\ AllApproved(walk[w].def, k + 1)'
  BY <1>1 DEF Unrevoked, AllApproved, GatesBefore
<1> QED  BY <1>2, <1>3, <1>4 DEF Way

LEMMA MarksKept ==
  ASSUME Unrevoked, edited' = 0
  PROVE  /\ edited = 0
         /\ \A s : Cleared(s) => Cleared(s)'
         /\ \A r : Marks(r) => Marks(r)'
<1>1. edited = 0 /\ yaml' = yaml
  BY DEF Unrevoked
<1>2. \A def, k : AllApproved(def, k) => AllApproved(def, k)'
  BY DEF Unrevoked, AllApproved, GatesBefore
<1>3. ASSUME NEW s, Cleared(s)
      PROVE  Cleared(s)'
  BY <1>1, <1>2, <1>3 DEF Cleared
<1>4. \A r : Marks(r) => Marks(r)'
  BY <1>3 DEF Marks
<1> QED  BY <1>1, <1>3, <1>4

(* The walk that starts at the top, or after an approved gate.             *)
LEMMA SpawnWay ==
  ASSUME TypeInv, NEW id, id = None \/ (id \in Names(yaml) /\ id \in approved),
         edited = 0 /\ id # None => Cleared(id)
  PROVE  Way(yaml, StepsUntilGate(yaml, id))
<1> DEFINE b == Behind(yaml, id)
<1>1. yaml \in Definitions
  BY DEF TypeInv, TypeOK
<1>2. Stretch(yaml, StepsUntilGate(yaml, id), b)
  BY <1>1, UntilGateStretch
<1>3. /\ b \in Nat /\ b <= Len(yaml) /\ Len(yaml) \in Nat /\ DOMAIN yaml = 1..Len(yaml)
      /\ id = None => b = 0
      /\ id # None => b >= 1 /\ yaml[b].id = id
  BY <1>1, BehindFound, LenProperties, PlaybookAssumption DEF Behind
<1> HIDE DEF b
<1>4. GatesBefore(yaml, b + 1) \subseteq 1..b
  BY <1>3 DEF GatesBefore
<1>5. Released(yaml, b + 1)
  BY <1>3, <1>4 DEF Released
<1>6. ASSUME edited = 0 PROVE AllApproved(yaml, b + 1)
  <2>1. CASE id = None
    BY <1>3, <1>4, <2>1 DEF AllApproved
  <2>2. CASE id # None
    <3>1. AllApproved(yaml, b)
      BY <1>3, <1>6, <2>2 DEF Cleared
    <3>2. \A j \in GatesBefore(yaml, b + 1) : j = b \/ j \in GatesBefore(yaml, b)
      BY <1>3 DEF GatesBefore
    <3> QED  BY <1>3, <2>2, <3>1, <3>2 DEF AllApproved
  <2> QED  BY <2>1, <2>2
<1> QED  BY <1>2, <1>3, <1>5, <1>6 DEF Way

(* A step that is no gate may be passed.                                   *)
LEMMA WayAhead ==
  ASSUME TypeInv, NEW w \in Walks, walk[w].pending # <<>>, ~walk[w].pending[1].gate,
         Way(walk[w].def, walk[w].pending)
  PROVE  Way(walk[w].def, Tail(walk[w].pending))
<1> DEFINE def == walk[w].def
           p == walk[w].pending
           t == Tail(p)
<1>1. PICK k \in Nat : /\ Stretch(def, p, k) /\ Released(def, k + 1)
                       /\ edited = 0 => def = yaml /\ AllApproved(def, k + 1)
  BY DEF Way
<1>2. /\ Len(p) \in Nat \ {0} /\ Len(t) = Len(p) - 1
      /\ \A i \in 1..Len(t) : t[i] = p[i + 1]
  BY Upcomings
<1>3. def \in Seq(Step)
  BY PlaybookAssumption, EmptySeq DEF TypeInv, TypeOK, WalkType
<1>4. Len(def) \in Nat
  BY <1>3, LenProperties
<1>5. ~p[1].gate
  OBVIOUS
<1> HIDE DEF def, p, t
<1>6. Stretch(def, t, k + 1)
  <2>1. (k + 1) + Len(t) = k + Len(p)
    BY <1>2
  <2>2. ASSUME NEW i \in 1..Len(t)
        PROVE  t[i] = def[(k + 1) + i]
    <3>1. i + 1 \in 1..Len(p) /\ k + (i + 1) = (k + 1) + i
      BY <1>2
    <3> QED  BY <1>1, <1>2, <3>1 DEF Stretch
  <2>3. ASSUME NEW i \in 1..(Len(t) - 1)
        PROVE  ~t[i].gate
    <3>1. i \in 1..Len(t) /\ i + 1 \in 1..(Len(p) - 1)
      BY <1>2
    <3> QED  BY <1>1, <1>2, <3>1 DEF Stretch
  <2> QED  BY <1>1, <2>1, <2>2, <2>3 DEF Stretch
<1>7. ~def[k + 1].gate
  BY <1>1, <1>2, <1>5 DEF Stretch
<1>8. GatesBefore(def, (k + 1) + 1) = GatesBefore(def, k + 1)
  BY <1>7 DEF GatesBefore
<1>9. Released(def, (k + 1) + 1)
  <2>1. PICK j \in 0..((k + 1) - 1) : /\ j = 0 \/ def[j].id \in approved
                                      /\ GatesBefore(def, k + 1) \subseteq 1..j
    BY <1>1 DEF Released
  <2>2. j \in 0..(((k + 1) + 1) - 1)
    BY <2>1
  <2> QED  BY <1>8, <2>1, <2>2 DEF Released
<1>10. edited = 0 => def = yaml /\ AllApproved(def, (k + 1) + 1)
  BY <1>1, <1>8 DEF AllApproved
<1>11. Way(def, t)
  BY <1>6, <1>9, <1>10 DEF Way
<1> QED  BY <1>11 DEF def, p, t

(* Where a walk stands, everything in front is approved.                   *)
LEMMA Standing ==
  ASSUME TypeInv, NEW w \in Walks, walk[w].pending # <<>>, Way(walk[w].def, walk[w].pending)
  PROVE  \E k \in Nat :
           /\ walk[w].def \in Definitions /\ k + 1 \in DOMAIN walk[w].def
           /\ walk[w].def[k + 1] = Upcoming(w)
           /\ Released(walk[w].def, k + 1)
           /\ edited = 0 => walk[w].def = yaml /\ AllApproved(walk[w].def, k + 1)
<1> DEFINE def == walk[w].def
           p == walk[w].pending
<1>1. PICK k \in Nat : /\ Stretch(def, p, k) /\ Released(def, k + 1)
                       /\ edited = 0 => def = yaml /\ AllApproved(def, k + 1)
  BY DEF Way
<1>2. Len(p) \in Nat \ {0} /\ Upcoming(w) = p[1]
  BY Upcomings
<1>3. def \in Definitions \cup {<<>>}
  BY DEF TypeInv, TypeOK, WalkType
<1>4. Len(def) \in Nat /\ DOMAIN def = 1..Len(def)
  BY <1>3, PlaybookAssumption, EmptySeq, LenProperties
<1> HIDE DEF def, p
<1>5. k + 1 \in 1..Len(def) /\ def[k + 1] = p[1]
  BY <1>1, <1>2, <1>4 DEF Stretch
<1>6. def # <<>>
  BY <1>4, <1>5
<1>7. def \in Definitions
  BY <1>3, <1>6
<1> QED  BY <1>1, <1>2, <1>4, <1>5, <1>7 DEF def, p

LEMMA SpawnGates ==
  ASSUME TypeInv, GateInv, NEW id, id = None \/ id \in approved, NEW results \in Results,
         Spawn(yaml, id, results), UNCHANGED <<edited, yaml, approved>>,
         edited = 0 => Marks(results) /\ (id # None => Cleared(id))
  PROVE  WalkInv' /\ (edited = 0 => \A w \in Walks : Marks(walk'[w].results))
<1>1. yaml \in Definitions /\ walk \in [Walks -> WalkType]
  BY DEF TypeInv, TypeOK
<1>2. PICK w \in Walks, v \in WalkType :
        /\ walk' = [walk EXCEPT ![w] = v] /\ Spawned(v, yaml, id, results)
        /\ v.results \in {results, walk[w].results}
  BY <1>1, SpawnWalk
<1>3. v.pc = "begin" => Way(v.def, v.pending)
  <2> SUFFICES ASSUME v.pc = "begin" PROVE Way(v.def, v.pending)
    OBVIOUS
  <2>1. /\ v.def = yaml /\ v.pending = StepsUntilGate(yaml, id)
        /\ id = None \/ id \in Names(yaml)
    BY <1>2 DEF Spawned
  <2>2. Way(yaml, StepsUntilGate(yaml, id))
    <3>1. id = None \/ (id \in Names(yaml) /\ id \in approved)
      BY <2>1
    <3>2. edited = 0 /\ id # None => Cleared(id)
      OBVIOUS
    <3> QED  BY <3>1, <3>2, SpawnWay
  <2> QED  BY <2>1, <2>2
<1>4. \A x \in Walks : walk'[x] = IF x = w THEN v ELSE walk[x]
  BY <1>1, <1>2
<1>5. v.pc \in {"begin", "lost"}
  BY <1>2 DEF Spawned
<1>6. WalkInv'
  <2> SUFFICES ASSUME NEW x \in Walks
               PROVE  /\ Live(x)' => Way(walk[x].def, walk[x].pending)'
                      /\ walk'[x].pc = "step" => ~walk'[x].pending[1].gate
    BY DEF WalkInv
  <2>1. CASE x = w
    BY <1>3, <1>4, <1>5, <2>1, WayMoves DEF Unrevoked, Live
  <2>2. CASE x # w
    BY <1>4, <2>2, WayMoves DEF Unrevoked, Live, GateInv, WalkInv
  <2> QED  BY <2>1, <2>2
<1>7. edited = 0 => \A x \in Walks : Marks(walk'[x].results)
  BY <1>2, <1>4 DEF GateInv, MarkInv
<1> QED  BY <1>6, <1>7

(* A step of a walk that stays within its way and marks what it may. *)
LEMMA WalkGates ==
  ASSUME TypeInv, GateInv, NEW w \in Walks, NEW v, walk' = [walk EXCEPT ![w] = v],
         UNCHANGED <<edited, yaml, approved, decision>>,
         v.pc \in {"begin", "step"} => Way(v.def, v.pending),
         v.pc = "step" => ~v.pending[1].gate,
         edited = 0 => Marks(v.results),
         steps' = v.results \/ steps' = steps
  PROVE  GateInv'
<1>1. \A x \in Walks : walk'[x] = IF x = w THEN v ELSE walk[x]
  BY DEF TypeInv, TypeOK
<1>2. edited' = 0 => /\ \A s : Cleared(s) => Cleared(s)'
                     /\ \A r : Marks(r) => Marks(r)'
  BY MarksKept DEF Unrevoked
<1>3. WalkInv'
  <2> SUFFICES ASSUME NEW x \in Walks
               PROVE  /\ Live(x)' => Way(walk[x].def, walk[x].pending)'
                      /\ walk'[x].pc = "step" => ~walk'[x].pending[1].gate
    BY DEF WalkInv
  <2>1. CASE x = w
    BY <1>1, <2>1, WayMoves DEF Unrevoked, Live
  <2>2. CASE x # w
    BY <1>1, <2>2, WayMoves DEF Unrevoked, Live, GateInv, WalkInv
  <2> QED  BY <2>1, <2>2
<1>4. MarkInv'
  BY <1>1, <1>2 DEF GateInv, MarkInv, Busy
<1>5. ApprovalInv'
  BY DEF GateInv, ApprovalInv
<1> QED  BY <1>3, <1>4, <1>5 DEF GateInv

LEMMA WalkingGates ==
  ASSUME TypeInv, GateInv, NEW w \in Walks, Walking(w)
  PROVE  GateInv'
<1> DEFINE old == walk[w]
<1>1. walk \in [Walks -> WalkType] /\ old \in WalkType
  BY DEF TypeInv, TypeOK
<1>2. edited = 0 => Marks(old.results)
  BY DEF GateInv, MarkInv
<1>3. Live(w) => Way(old.def, old.pending)
  BY DEF GateInv, WalkInv
<1>4. ASSUME old.pending # <<>>, NEW outcome \in {"running", "completed"}
      PROVE  edited = 0 => Marks(Resulted(w, outcome))
  <2>1. Upcoming(w).id \in Steps /\ old.results \in [Steps -> StepStatuses]
    BY <1>1, <1>4, Upcomings DEF WalkType, Results
  <2> QED  BY <1>2, <1>4, <2>1 DEF Resulted, Marks
<1>5. CASE BeginStep(w)
  <2> DEFINE v == [old EXCEPT !.pc = "step", !.results = Resulted(w, "running")]
  <2>1. /\ walk' = [walk EXCEPT ![w] = v] /\ steps' = Resulted(w, "running")
        /\ UNCHANGED <<edited, yaml, approved, decision>>
        /\ old.pending # <<>> /\ ~Upcoming(w).gate /\ Live(w)
    BY <1>1, <1>5 DEF BeginStep, Live, WalkType
  <2>2. /\ v.pc = "step" /\ v.def = old.def /\ v.pending = old.pending
        /\ v.results = Resulted(w, "running")
    BY <1>1 DEF WalkType
  <2>3. ~v.pending[1].gate
    BY <2>1, <2>2, Upcomings
  <2> HIDE DEF v
  <2> QED  BY <1>3, <1>4, <2>1, <2>2, <2>3, WalkGates
<1>6. CASE FinishStep(w)
  <2> DEFINE v == [old EXCEPT !.pc = "begin", !.pending = Tail(@),
                              !.results = Resulted(w, "completed")]
  <2>1. /\ walk' = [walk EXCEPT ![w] = v] /\ steps' = Resulted(w, "completed")
        /\ UNCHANGED <<edited, yaml, approved, decision>>
        /\ old.pending # <<>> /\ ~old.pending[1].gate /\ Live(w)
    BY <1>1, <1>6 DEF FinishStep, Live, WalkType, TypeInv, GateInv, WalkInv
  <2>2. /\ v.pc = "begin" /\ v.def = old.def /\ v.pending = Tail(old.pending)
        /\ v.results = Resulted(w, "completed")
    BY <1>1 DEF WalkType
  <2>3. Way(v.def, v.pending)
    BY <1>3, <2>1, <2>2, WayAhead
  <2> HIDE DEF v
  <2> QED  BY <1>4, <2>1, <2>2, <2>3, WalkGates
<1>7. CASE Pause(w)
  (* Everything in front of the gate that now waits is approved. *)
  <2> DEFINE v == [old EXCEPT !.pc = "ended", !.results = Resulted(w, "awaiting")]
  <2>1. /\ walk' = [walk EXCEPT ![w] = v] /\ steps' = Resulted(w, "awaiting")
        /\ UNCHANGED <<edited, yaml, approved, decision>>
        /\ old.pending # <<>> /\ Live(w)
    BY <1>1, <1>7 DEF Pause, Live, WalkType
  <2>2. v.pc = "ended" /\ v.results = Resulted(w, "awaiting")
    BY <1>1 DEF WalkType
  <2>3. edited = 0 => Cleared(Upcoming(w).id)
    <3>1. PICK k \in Nat :
            /\ old.def \in Definitions /\ k + 1 \in DOMAIN old.def
            /\ old.def[k + 1] = Upcoming(w)
            /\ edited = 0 => old.def = yaml /\ AllApproved(old.def, k + 1)
      BY <1>3, <2>1, Standing
    <3> QED  BY <3>1, PlaybookAssumption DEF Cleared
  <2>4. edited = 0 => Marks(Resulted(w, "awaiting"))
    <3>1. Upcoming(w).id \in Steps /\ old.results \in [Steps -> StepStatuses]
      BY <1>1, <2>1, Upcomings DEF WalkType, Results
    <3> QED  BY <1>2, <2>3, <3>1 DEF Resulted, Marks
  <2> HIDE DEF v
  <2> QED  BY <2>1, <2>2, <2>4, WalkGates
<1>8. CASE Complete(w)
  <2> DEFINE v == [old EXCEPT !.pc = "ended"]
  <2>1. /\ walk' = [walk EXCEPT ![w] = v] /\ steps' = steps
        /\ UNCHANGED <<edited, yaml, approved, decision>>
    BY <1>1, <1>8 DEF Complete
  <2>2. v.pc = "ended" /\ v.results = old.results
    BY <1>1 DEF WalkType
  <2> HIDE DEF v
  <2> QED  BY <1>2, <2>1, <2>2, WalkGates
<1> QED  BY <1>5, <1>6, <1>7, <1>8 DEF Walking

(* What changes neither a walk nor the way in front of it. *)
LEMMA WalksKept ==
  ASSUME GateInv, Unrevoked,
         \A w \in Walks : walk'[w] = walk[w] \/ (walk'[w].pc = "lost"
                                                 /\ walk'[w].results = walk[w].results)
  PROVE  WalkInv' /\ (edited' = 0 => \A w \in Walks : Marks(walk[w].results)')
<1>1. ASSUME NEW w \in Walks
      PROVE  /\ Live(w)' => Way(walk[w].def, walk[w].pending)'
             /\ walk'[w].pc = "step" => ~walk'[w].pending[1].gate
  BY <1>1, WayMoves DEF GateInv, WalkInv, Live
<1>2. ASSUME edited' = 0, NEW w \in Walks
      PROVE  Marks(walk[w].results)'
  <2>1. /\ edited = 0 /\ walk'[w].results = walk[w].results
        /\ \A s : Cleared(s) => Cleared(s)'
    BY <1>2, MarksKept
  <2> QED  BY <2>1 DEF GateInv, MarkInv, Marks
<1> QED  BY <1>1, <1>2 DEF WalkInv

LEMMA DecisionGates ==
  ASSUME TypeInv, GateInv, NEW d \in Decisions, Load(d) \/ Write(d) \/ Resume(d)
  PROVE  GateInv'
<1> USE DEF TypeInv, TypeOK, Busy
<1>1. CASE Load(d)
  <2>1. UNCHANGED <<edited, yaml, approved, walk, steps>>
    BY <1>1 DEF Load
  <2>2. WalkInv'
    BY <2>1, WalksKept DEF Unrevoked
  <2>3. ApprovalInv'
    <3>1. \A c \in Decisions : decision'[c].pc = "written" => decision'[c] = decision[c]
      BY <1>1 DEF Load, DecisionType
    <3> QED  BY <2>1, <3>1 DEF GateInv, ApprovalInv
  <2>4. ASSUME edited = 0, NEW c \in Decisions
        PROVE  Marks(decision'[c].results) /\ (Busy(c)' => Cleared(decision'[c].gate))
    BY <1>1, <2>4 DEF Load, Marked, DecisionType, GateInv, MarkInv, Marks
  <2>5. MarkInv'
    BY <2>1, <2>4, MarksKept DEF GateInv, MarkInv, Unrevoked, Marks, Cleared, AllApproved
  <2> QED  BY <2>2, <2>3, <2>5 DEF GateInv
<1>2. CASE Write(d)
  <2>1. /\ UNCHANGED <<edited, yaml, walk>> /\ steps' = Decided(d) /\ approved \subseteq approved'
        /\ \A c \in Decisions : /\ decision'[c].results = decision[c].results
                                /\ decision'[c].gate = decision[c].gate
                                /\ Busy(c)' => Busy(c)
    BY <1>2 DEF Write, DecisionType
  <2>2. WalkInv' /\ (edited' = 0 => \A w \in Walks : Marks(walk[w].results)')
    BY <2>1, WalksKept DEF Unrevoked
  <2>3. ApprovalInv'
    BY <1>2 DEF Write, DecisionType, GateInv, ApprovalInv
  <2>4. ASSUME edited' = 0
        PROVE  \A s : Cleared(s) => Cleared(s)'
    BY <2>1, <2>4, MarksKept DEF Unrevoked
  <2>5. edited = 0 => Marks(Decided(d))
    BY DEF Decided, DecisionType, Results, GateInv, MarkInv, Marks
  <2>6. MarkInv'
    BY <2>1, <2>2, <2>4, <2>5 DEF GateInv, MarkInv, Marks
  <2> QED  BY <2>2, <2>3, <2>6 DEF GateInv
<1>3. CASE Resume(d)
  <2>1. /\ UNCHANGED <<edited, yaml, approved, steps>> /\ Spawn(yaml, decision[d].gate, Decided(d))
        /\ decision[d].gate \in approved /\ Busy(d)
        /\ \A c \in Decisions : /\ decision'[c].results = decision[c].results
                                /\ decision'[c].gate = decision[c].gate
                                /\ Busy(c)' => Busy(c)
    BY <1>3 DEF Resume, DecisionType, GateInv, ApprovalInv
  <2>2. Decided(d) \in Results
    BY <2>1 DEF Decided, DecisionType, Results, StepStatuses
  <2>3. edited = 0 => Marks(Decided(d)) /\ Cleared(decision[d].gate)
    BY <2>1 DEF Decided, DecisionType, Results, GateInv, MarkInv, Marks
  <2>4. WalkInv' /\ (edited = 0 => \A w \in Walks : Marks(walk'[w].results))
    BY <2>1, <2>2, <2>3, SpawnGates
  <2>5. ApprovalInv'
    BY <1>3 DEF Resume, DecisionType, GateInv, ApprovalInv
  <2>6. edited' = 0 => \A s : Cleared(s) => Cleared(s)'
    BY <2>1, MarksKept DEF Unrevoked
  <2>7. MarkInv'
    BY <2>1, <2>4, <2>6 DEF GateInv, MarkInv, Marks
  <2> QED  BY <2>4, <2>5, <2>7 DEF GateInv
<1> QED  BY <1>1, <1>2, <1>3

LEMMA StepGates ==
  ASSUME TypeInv, GateInv, Next
  PROVE  GateInv'
<1>1. CASE ExecutePlaybook
  <2>1. UNCHANGED <<edited, yaml, approved, steps, decision>> /\ Spawn(yaml, None, NoResults)
    BY <1>1 DEF ExecutePlaybook
  <2>2. NoResults \in Results /\ Marks(NoResults)
    BY DEF NoResults, Results, StepStatuses, Marks
  <2>3. WalkInv' /\ (edited = 0 => \A w \in Walks : Marks(walk'[w].results))
    BY <2>1, <2>2, SpawnGates
  <2>4. edited' = 0 => \A s : Cleared(s) => Cleared(s)'
    BY <2>1, MarksKept DEF Unrevoked
  <2>5. MarkInv' /\ ApprovalInv'
    BY <2>1, <2>3, <2>4 DEF GateInv, MarkInv, Marks, ApprovalInv, Busy
  <2> QED  BY <2>3, <2>5 DEF GateInv
<1>2. CASE UpdatePlaybook
  <2>1. UNCHANGED <<walk, approved, steps, decision>> /\ edited' # 0
    BY <1>2 DEF UpdatePlaybook, TypeInv, TypeOK
  <2>2. WalkInv'
    BY <2>1, WalksKept DEF Unrevoked
  <2> QED  BY <2>1, <2>2 DEF GateInv, MarkInv, ApprovalInv
<1>3. CASE FaultStep
  <2>1. /\ UNCHANGED <<edited, yaml, approved, steps>>
        /\ \A w \in Walks : walk'[w] = walk[w] \/ (walk'[w].pc = "lost"
                                                   /\ walk'[w].results = walk[w].results)
        /\ \A c \in Decisions : /\ decision'[c].results = decision[c].results
                                /\ decision'[c].gate = decision[c].gate
                                /\ decision'[c] = decision[c] \/ ~Busy(c)'
    BY <1>3, FaultMoves
  <2>2. WalkInv' /\ (edited' = 0 => \A w \in Walks : Marks(walk[w].results)')
    BY <2>1, WalksKept DEF Unrevoked
  <2>3. edited' = 0 => \A s : Cleared(s) => Cleared(s)'
    BY <2>1, MarksKept DEF Unrevoked
  <2>4. MarkInv' /\ ApprovalInv'
    BY <2>1, <2>2, <2>3 DEF GateInv, MarkInv, Marks, ApprovalInv, Busy
  <2> QED  BY <2>2, <2>4 DEF GateInv
<1>4. ASSUME NEW w \in Walks, Walking(w) PROVE GateInv'
  BY <1>4, WalkingGates
<1>5. ASSUME NEW d \in Decisions, Load(d) \/ Write(d) \/ Resume(d) PROVE GateInv'
  BY <1>5, DecisionGates
<1> QED  BY <1>1, <1>2, <1>3, <1>4, <1>5 DEF Next, FaultStep

(* No step runs behind a gate that nobody has approved: from the last       *)
(* approved step, or the top, the way to it is free of gates, and in a      *)
(* playbook that was not edited every gate in front of it is approved.     *)
THEOREM GatesHold == Spec => []GateHolds
<1>1. Init => GateInv
  BY DEF Init, NoResults, GateInv, WalkInv, Live, MarkInv, Marks, ApprovalInv, Busy
<1>2. (TypeInv /\ GateInv) /\ [Next]_vars => (TypeInv /\ GateInv)'
  <2>1. ASSUME TypeInv, GateInv, UNCHANGED vars PROVE TypeInv' /\ GateInv'
    <3>1. TypeInv'
      BY <2>1 DEF vars, TypeInv, TypeOK, Busy
    <3>2. WalkInv' /\ (edited' = 0 => \A w \in Walks : Marks(walk[w].results)')
      BY <2>1, WalksKept DEF vars, Unrevoked
    <3>3. edited' = 0 => \A s : Cleared(s) => Cleared(s)'
      BY <2>1, MarksKept DEF vars, Unrevoked
    <3>4. MarkInv' /\ ApprovalInv'
      BY <2>1, <3>2, <3>3 DEF vars, GateInv, MarkInv, Marks, ApprovalInv, Busy
    <3> QED  BY <3>1, <3>2, <3>4 DEF GateInv
  <2> QED  BY <2>1, StepTypes, StepGates
<1>3. TypeInv /\ GateInv => GateHolds
  <2> SUFFICES ASSUME TypeInv, GateInv, NEW w \in Walks, walk[w].pc = "step"
               PROVE  LET def == walk[w].def
                          here == PositionOf(def, Upcoming(w).id)
                      IN /\ Released(def, here)
                         /\ edited = 0 => \A k \in GatesBefore(def, here) : def[k].id \in approved
    BY DEF GateHolds
  <2>1. walk[w].pending # <<>> /\ Way(walk[w].def, walk[w].pending)
    BY DEF TypeInv, GateInv, WalkInv, Live
  <2>2. PICK k \in Nat :
          /\ walk[w].def \in Definitions /\ k + 1 \in DOMAIN walk[w].def
          /\ walk[w].def[k + 1] = Upcoming(w)
          /\ Released(walk[w].def, k + 1)
          /\ edited = 0 => AllApproved(walk[w].def, k + 1)
    BY <2>1, Standing
  <2>3. PositionOf(walk[w].def, Upcoming(w).id) = k + 1
    BY <2>2, PositionUnique
  <2> QED  BY <2>2, <2>3 DEF AllApproved
<1> QED  BY <1>1, <1>2, <1>3, InitTypes, PTL DEF Spec

-----------------------------------------------------------------------------
(* Decisions made one after the other. The run is in one hand at a time: a *)
(* walk that runs, or a decision that is being made, and never both.       *)

TurnInv ==
  Serial =>
    /\ \A v, w \in Walks : Live(v) /\ Live(w) => v = w
    /\ \A c, d \in Decisions : Busy(c) /\ Busy(d) => c = d
    /\ \A w \in Walks : Live(w) => status = "running" /\ \A d \in Decisions : ~Busy(d)
    /\ \A d \in Decisions : /\ decision[d].pc = "loaded" => status = "paused_hitl"
                            /\ decision[d].pc = "written" => status = "running"

(* Whoever has the run in hand knows what is in the row; what the walk has *)
(* before it, and what is behind a waiting gate, is not completed yet.     *)
NoneDoneAfter(s) ==
  \A j, k \in DOMAIN yaml : yaml[k].id = s /\ k < j => steps[yaml[j].id] # "completed"

Ahead(w) ==
  walk[w].pending # <<>> =>
    /\ steps[walk[w].pending[1].id] # "completed"
    /\ NoneDoneAfter(walk[w].pending[1].id)

KeptInv ==
  Serial /\ edited = 0 =>
    /\ status = "none" => steps = NoResults
    /\ \A s, t \in Marked : s = t
    /\ \A s \in Marked : NoneDoneAfter(s)
    /\ \A w \in Walks : Live(w) => walk[w].results = steps /\ Marked = {} /\ Ahead(w)
    /\ \A d \in Decisions :
         /\ decision[d].pc = "loaded" => decision[d].results = steps /\ decision[d].gate \in Marked
         /\ decision[d].pc = "written" =>
              Decided(d) = steps /\ Marked = {} /\ NoneDoneAfter(decision[d].gate)

(* What each step does to the walks and the decisions. *)
LEMMA WalkingMoves ==
  ASSUME TypeInv, NEW w \in Walks, Walking(w)
  PROVE  /\ UNCHANGED <<setting, edited, yaml, decision>> /\ Live(w)
         /\ \A x \in Walks : x # w => walk'[x] = walk[x]
         /\ status' = status \/ ~Live(w)'
<1>1. walk \in [Walks -> WalkType] /\ walk[w] \in WalkType
  BY DEF TypeInv, TypeOK
<1>2. CASE BeginStep(w)  BY <1>1, <1>2 DEF BeginStep, Live
<1>3. CASE FinishStep(w)  BY <1>1, <1>3 DEF FinishStep, Live
<1>4. CASE Pause(w)  BY <1>1, <1>4 DEF Pause, Live, WalkType
<1>5. CASE Complete(w)  BY <1>1, <1>5 DEF Complete, Live, WalkType
<1> QED  BY <1>2, <1>3, <1>4, <1>5 DEF Walking

LEMMA DecisionMoves ==
  ASSUME TypeInv, NEW d \in Decisions, Load(d) \/ Write(d) \/ Resume(d)
  PROVE  /\ UNCHANGED <<setting, edited, yaml>>
         /\ \A c \in Decisions : c # d => decision'[c] = decision[c]
         /\ Load(d) => /\ UNCHANGED <<walk, status, steps>> /\ MayDecide
                       /\ \/ decision'[d].pc = "refused"
                          \/ /\ Answerable /\ decision'[d].pc = "loaded"
                             /\ decision'[d].gate \in Marked /\ decision'[d].results = steps
         /\ Write(d) => /\ UNCHANGED walk /\ steps' = Decided(d) /\ decision[d].pc = "loaded"
                        /\ \/ decision'[d].pc = "answered" /\ status' = "failed"
                           \/ decision'[d].pc = "written" /\ status' = "running"
                        /\ decision'[d].gate = decision[d].gate
                        /\ decision'[d].approved = decision[d].approved
                        /\ decision'[d].results = decision[d].results
         /\ Resume(d) => /\ UNCHANGED <<status, steps>> /\ decision[d].pc = "written"
                         /\ decision'[d].pc = "answered"
                         /\ Spawn(yaml, decision[d].gate, Decided(d))
<1>1. decision \in [Decisions -> DecisionType] /\ decision[d] \in DecisionType
  BY DEF TypeInv, TypeOK
<1>2. CASE Load(d)
  BY <1>1, <1>2 DEF Load, Write, Resume, DecisionType
<1>3. CASE Write(d)
  BY <1>1, <1>3 DEF Load, Write, Resume, DecisionType
<1>4. CASE Resume(d)
  BY <1>1, <1>4 DEF Load, Write, Resume, DecisionType
<1> QED  BY <1>2, <1>3, <1>4

LEMMA StepTurn ==
  ASSUME TypeInv, TurnInv, Next
  PROVE  TurnInv'
<1> USE DEF TurnInv
<1>1. CASE ExecutePlaybook
  <2>1. /\ UNCHANGED <<setting, decision>> /\ status = "none" /\ status' = "running"
        /\ Spawn(yaml, None, NoResults) /\ NoResults \in Results
    BY <1>1 DEF ExecutePlaybook, NoResults, Results, StepStatuses
  <2>2. PICK w \in Walks, v \in WalkType : walk' = [walk EXCEPT ![w] = v]
    BY <2>1, SpawnWalk DEF TypeInv, TypeOK
  <2>3. \A x \in Walks : x # w => walk'[x] = walk[x]
    BY <2>2 DEF TypeInv, TypeOK
  <2>4. Serial => /\ \A x \in Walks : Live(x)' => x = w
                  /\ \A d \in Decisions : ~Busy(d)
    BY <2>1, <2>3 DEF Live, Busy
  <2> QED  BY <2>1, <2>4 DEF Serial, Busy
<1>2. CASE UpdatePlaybook
  BY <1>2 DEF UpdatePlaybook, Serial, Live, Busy
<1>3. CASE FaultStep
  <2>1. /\ UNCHANGED <<setting, status>>
        /\ \A w \in Walks : Live(w)' => Live(w)
        /\ \A d \in Decisions : decision'[d] = decision[d] \/ ~Busy(d)'
    BY <1>3, FaultMoves DEF Live
  <2> QED  BY <2>1 DEF Serial, Busy
<1>4. ASSUME NEW w \in Walks, Walking(w) PROVE TurnInv'
  <2>1. /\ UNCHANGED <<setting, decision>> /\ Live(w)
        /\ \A x \in Walks : x # w => walk'[x] = walk[x]
        /\ status' = status \/ ~Live(w)'
    BY <1>4, WalkingMoves
  <2>2. \A x \in Walks : Live(x)' => Live(x)  BY <2>1 DEF Live
  <2> QED  BY <2>1, <2>2 DEF Serial, Busy
<1>5. ASSUME NEW d \in Decisions, Load(d) PROVE TurnInv'
  <2>1. /\ UNCHANGED <<setting, walk, status>> /\ MayDecide
        /\ \A c \in Decisions : c # d => decision'[c] = decision[c]
        /\ decision'[d].pc = "refused" \/ (Answerable /\ decision'[d].pc = "loaded")
    BY <1>5, DecisionMoves
  <2>2. Serial => \A c \in Decisions : ~Busy(c)
    BY <2>1 DEF MayDecide, Serial
  <2> QED  BY <2>1, <2>2 DEF Serial, Live, Busy, Answerable
<1>6. ASSUME NEW d \in Decisions, Write(d) PROVE TurnInv'
  <2>1. /\ UNCHANGED <<setting, walk>> /\ decision[d].pc = "loaded"
        /\ \A c \in Decisions : c # d => decision'[c] = decision[c]
        /\ \/ decision'[d].pc = "answered" /\ status' = "failed"
           \/ decision'[d].pc = "written" /\ status' = "running"
    BY <1>6, DecisionMoves
  <2>2. Serial => /\ \A w \in Walks : ~Live(w)
                  /\ \A c \in Decisions : c # d => ~Busy(c)
    BY <2>1 DEF Busy
  <2> QED  BY <2>1, <2>2 DEF Serial, Live, Busy
<1>7. ASSUME NEW d \in Decisions, Resume(d) PROVE TurnInv'
  <2>1. /\ UNCHANGED <<setting, status>> /\ decision[d].pc = "written"
        /\ \A c \in Decisions : c # d => decision'[c] = decision[c]
        /\ decision'[d].pc = "answered" /\ Spawn(yaml, decision[d].gate, Decided(d))
    BY <1>7, DecisionMoves
  <2>2. Decided(d) \in Results
    BY <2>1 DEF Decided, DecisionType, Results, StepStatuses, TypeInv, TypeOK, Busy
  <2>3. PICK w \in Walks, v \in WalkType : walk' = [walk EXCEPT ![w] = v]
    BY <2>1, <2>2, SpawnWalk DEF TypeInv, TypeOK
  <2>4. \A x \in Walks : x # w => walk'[x] = walk[x]
    BY <2>3 DEF TypeInv, TypeOK
  <2>5. Serial => /\ status = "running"
                  /\ \A x \in Walks : Live(x)' => x = w
                  /\ \A c \in Decisions : ~Busy(c)'
    BY <2>1, <2>4 DEF Live, Busy
  <2> QED  BY <2>1, <2>5 DEF Serial, Busy
<1> QED  BY <1>1, <1>2, <1>3, <1>4, <1>5, <1>6, <1>7 DEF Next, FaultStep

(* Decisions made one after the other never resume a run twice: at most    *)
(* one walk runs, and only while the row says running.                     *)
THEOREM NeverResumedTwice == Spec => []ResumedOnce
<1>1. Init => TurnInv
  BY DEF Init, TurnInv, Live, Busy
<1>2. (TypeInv /\ TurnInv) /\ [Next]_vars => (TypeInv /\ TurnInv)'
  <2>1. ASSUME TypeInv, TurnInv, UNCHANGED vars PROVE (TypeInv /\ TurnInv)'
    BY <2>1 DEF vars, TypeInv, TypeOK, TurnInv, Serial, Live, Busy
  <2> QED  BY <2>1, StepTypes, StepTurn
<1>3. TurnInv => ResumedOnce
  <2> SUFFICES ASSUME TurnInv, Serial PROVE Cardinality({w \in Walks : Live(w)}) <= 1
    BY DEF ResumedOnce, TurnInv
  <2> DEFINE running == {w \in Walks : Live(w)}
  <2>1. running = {} \/ \E w : running = {w}  BY DEF TurnInv
  <2> HIDE DEF running
  <2>2. Cardinality(running) \in {0, 1}  BY <2>1, FS_EmptySet, FS_Singleton
  <2>3. Cardinality(running) <= 1  BY <2>2
  <2> QED  BY <2>3 DEF running
<1> QED  BY <1>1, <1>2, <1>3, InitTypes, PTL DEF Spec

-----------------------------------------------------------------------------
(* The work. *)

LEMMA DistinctIds ==
  ASSUME TypeInv
  PROVE  /\ yaml \in Definitions /\ DOMAIN yaml = 1..Len(yaml) /\ Len(yaml) \in Nat
         /\ \A j, k \in DOMAIN yaml : yaml[j].id = yaml[k].id => j = k
         /\ \A k \in DOMAIN yaml : yaml[k].id \in Steps
         /\ steps \in [Steps -> StepStatuses]
<1>1. yaml \in Definitions /\ yaml \in Seq(Step)
  BY PlaybookAssumption DEF TypeInv, TypeOK
<1>2. DOMAIN yaml = 1..Len(yaml) /\ Len(yaml) \in Nat /\ yaml \in [1..Len(yaml) -> Step]
  BY <1>1, LenProperties
<1>3. \A k \in DOMAIN yaml : yaml[k].id \in Steps  BY <1>2 DEF Step
<1> QED  BY <1>1, <1>2, <1>3, PlaybookAssumption DEF TypeInv, TypeOK, Results

(* A walk that passes a step comes to the one behind it. *)
LEMMA NextInLine ==
  ASSUME TypeInv, NEW w \in Walks, edited = 0, Way(walk[w].def, walk[w].pending),
         walk[w].pending # <<>>, Tail(walk[w].pending) # <<>>
  PROVE  \E k \in DOMAIN yaml : /\ k + 1 \in DOMAIN yaml
                                /\ yaml[k] = walk[w].pending[1]
                                /\ yaml[k + 1] = Tail(walk[w].pending)[1]
<1> DEFINE p == walk[w].pending
           t == Tail(p)
<1>1. PICK k \in Nat : Stretch(yaml, p, k)  BY DEF Way
<1>2. /\ p \in Seq(Step) /\ Len(p) \in Nat \ {0} /\ t \in Seq(Step) /\ Len(t) = Len(p) - 1
      /\ \A i \in 1..Len(t) : t[i] = p[i + 1]
  BY Upcomings
<1>3. DOMAIN yaml = 1..Len(yaml) /\ Len(yaml) \in Nat  BY DistinctIds
<1> HIDE DEF p
<1>4. Len(t) # 0  BY <1>2, EmptySeq, LenProperties DEF p
<1> HIDE DEF t
<1>5. 1 \in 1..Len(t) /\ 1 \in 1..Len(p) /\ 2 \in 1..Len(p)  BY <1>2, <1>4
<1>6. t[1] = p[2] /\ p[1] = yaml[k + 1] /\ p[2] = yaml[(k + 1) + 1]
  BY <1>1, <1>2, <1>5 DEF Stretch
<1>7. k + 1 \in DOMAIN yaml /\ (k + 1) + 1 \in DOMAIN yaml
  BY <1>1, <1>2, <1>3, <1>5 DEF Stretch
<1> QED  BY <1>6, <1>7 DEF p, t

(* A walk that is started begins at the top, or right behind the gate.     *)
LEMMA FirstInLine ==
  ASSUME TypeInv, NEW id, id = None \/ id \in Names(yaml), StepsUntilGate(yaml, id) # <<>>
  PROVE  \E k \in DOMAIN yaml : /\ yaml[k] = StepsUntilGate(yaml, id)[1]
                                /\ id # None => k - 1 \in DOMAIN yaml /\ yaml[k - 1].id = id
<1> DEFINE p == StepsUntilGate(yaml, id)
           b == Behind(yaml, id)
<1>1. DOMAIN yaml = 1..Len(yaml) /\ Len(yaml) \in Nat /\ yaml \in Definitions  BY DistinctIds
<1>2. p \in Seq(Step) /\ Stretch(yaml, p, b)  BY <1>1, UntilGateStretch
<1>3. b \in Nat /\ b <= Len(yaml) /\ (id # None => b >= 1 /\ yaml[b].id = id)
  BY <1>1, BehindFound
<1>4. p # <<>>  OBVIOUS
<1> HIDE DEF p, b
<1>5. Len(p) \in Nat \ {0}  BY <1>2, <1>4, EmptySeq, LenProperties
<1>6. 1 \in 1..Len(p) /\ b + Len(p) <= Len(yaml) /\ p[1] = yaml[b + 1]
  BY <1>2, <1>5 DEF Stretch
<1>7. b + 1 \in DOMAIN yaml /\ (b + 1) - 1 = b  BY <1>1, <1>3, <1>5, <1>6
<1>8. id # None => b \in DOMAIN yaml  BY <1>1, <1>3
<1> QED  BY <1>3, <1>6, <1>7, <1>8 DEF p

(* Completing a step leaves what is behind the next one as it was.         *)
LEMMA DoneSoFar ==
  ASSUME TypeInv, NEW k \in DOMAIN yaml, k + 1 \in DOMAIN yaml, NoneDoneAfter(yaml[k].id)
  PROVE  steps[yaml[k + 1].id] # "completed" /\ NoneDoneAfter(yaml[k + 1].id)
<1>1. /\ DOMAIN yaml = 1..Len(yaml) /\ Len(yaml) \in Nat
      /\ \A i, j \in DOMAIN yaml : yaml[i].id = yaml[j].id => i = j
  BY DistinctIds
<1>2. k < k + 1  BY <1>1
<1>3. ASSUME NEW j \in DOMAIN yaml, NEW i \in DOMAIN yaml, yaml[i].id = yaml[k + 1].id, i < j
      PROVE  steps[yaml[j].id] # "completed"
  <2>1. i = k + 1 /\ k < j  BY <1>1, <1>3
  <2> QED  BY <2>1 DEF NoneDoneAfter
<1> QED  BY <1>2, <1>3 DEF NoneDoneAfter

(* The result of a step is written: what is behind it stays as it was, and *)
(* unless it is completed nothing else is done either.                     *)
LEMMA WriteAt ==
  ASSUME TypeInv, NEW s \in Steps, NEW outcome, yaml' = yaml,
         steps' = [steps EXCEPT ![s] = outcome]
  PROVE  /\ NoneDoneAfter(s) => NoneDoneAfter(s)'
         /\ NoneDoneAfter(s) =>
              \A k \in DOMAIN yaml : yaml[k].id = s /\ k + 1 \in DOMAIN yaml =>
                steps'[yaml[k + 1].id] # "completed" /\ NoneDoneAfter(yaml[k + 1].id)'
         /\ outcome # "completed" => \A x : NoneDoneAfter(x) => NoneDoneAfter(x)'
<1>1. /\ DOMAIN yaml = 1..Len(yaml) /\ Len(yaml) \in Nat
      /\ \A i, j \in DOMAIN yaml : yaml[i].id = yaml[j].id => i = j
      /\ \A j \in DOMAIN yaml : yaml[j].id \in Steps
      /\ steps \in [Steps -> StepStatuses]
  BY DistinctIds
<1>2. \A j \in DOMAIN yaml :
        steps'[yaml[j].id] = IF yaml[j].id = s THEN outcome ELSE steps[yaml[j].id]
  BY <1>1
<1>3. NoneDoneAfter(s) => NoneDoneAfter(s)'
  BY <1>1, <1>2 DEF NoneDoneAfter
<1>4. ASSUME NEW k \in DOMAIN yaml, yaml[k].id = s, k + 1 \in DOMAIN yaml, NoneDoneAfter(s)
      PROVE  steps'[yaml[k + 1].id] # "completed" /\ NoneDoneAfter(yaml[k + 1].id)'
  <2>1. steps[yaml[k + 1].id] # "completed" /\ NoneDoneAfter(yaml[k + 1].id)
    BY <1>4, DoneSoFar
  <2>2. k + 1 # k /\ yaml[k + 1].id # s  BY <1>1, <1>4
  <2>3. ASSUME NEW j \in DOMAIN yaml, NEW i \in DOMAIN yaml, yaml[i].id = yaml[k + 1].id, i < j
        PROVE  steps'[yaml[j].id] # "completed"
    <3>1. i = k + 1 /\ j # k  BY <1>1, <1>4, <2>3
    <3>2. yaml[j].id # s  BY <1>1, <1>4, <3>1
    <3> QED  BY <1>2, <2>1, <2>3, <3>2 DEF NoneDoneAfter
  <2> QED  BY <1>2, <1>4, <2>1, <2>2, <2>3 DEF NoneDoneAfter
<1>5. outcome # "completed" => \A x : NoneDoneAfter(x) => NoneDoneAfter(x)'
  BY <1>1, <1>2 DEF NoneDoneAfter
<1> QED  BY <1>3, <1>4, <1>5

WorkStep ==
  Serial /\ edited = 0 => \A s \in Steps : steps[s] = "completed" => steps'[s] = "completed"

(* A walk that has just been started, at the top or after a decided gate.  *)
LEMMA SpawnKept ==
  ASSUME TypeInv, NEW id, NEW results \in Results, Spawn(yaml, id, results),
         results = steps, UNCHANGED <<setting, edited, yaml, steps>>, status' = "running",
         Marked = {}, \A w \in Walks : ~Live(w), \A d \in Decisions : ~Busy(d)',
         id # None => NoneDoneAfter(id),
         id = None => \A k \in DOMAIN yaml : steps[yaml[k].id] # "completed"
  PROVE  KeptInv'
<1>1. PICK w \in Walks, v \in WalkType :
        walk' = [walk EXCEPT ![w] = v] /\ Spawned(v, yaml, id, results)
  BY SpawnWalk DEF TypeInv, TypeOK
<1>2. walk'[w] = v /\ \A x \in Walks : x # w => walk'[x] = walk[x]
  BY <1>1 DEF TypeInv, TypeOK
<1>3. \A x \in Walks : Live(x)' => x = w /\ v.pc = "begin"
  BY <1>1, <1>2 DEF Live, Spawned
<1>4. ASSUME v.pc = "begin", v.pending # <<>>
      PROVE  steps[v.pending[1].id] # "completed" /\ NoneDoneAfter(v.pending[1].id)
  <2>1. v.pending = StepsUntilGate(yaml, id) /\ (id = None \/ id \in Names(yaml))
    BY <1>1, <1>4 DEF Spawned
  <2>2. PICK k \in DOMAIN yaml : /\ yaml[k] = v.pending[1]
                                 /\ id # None => k - 1 \in DOMAIN yaml /\ yaml[k - 1].id = id
    BY <1>4, <2>1, FirstInLine
  <2>3. CASE id = None  BY <2>2, <2>3 DEF NoneDoneAfter
  <2>4. CASE id # None
    <3>1. PICK j \in DOMAIN yaml : j + 1 = k /\ yaml[j].id = id
      <4>1. (k - 1) + 1 = k  BY DistinctIds
      <4> QED  BY <2>2, <2>4, <4>1
    <3> QED  BY <2>2, <2>4, <3>1, DoneSoFar
  <2> QED  BY <2>3, <2>4
<1>5. Marked' = {}  BY DEF Marked
<1>6. ASSUME NEW x \in Walks, Live(x)'
      PROVE  walk'[x].results = steps' /\ Marked' = {} /\ Ahead(x)'
  <2>1. x = w /\ v.pc = "begin" /\ v.results = steps
    BY <1>1, <1>3, <1>6 DEF Spawned
  <2> QED  BY <1>2, <1>4, <1>5, <2>1 DEF Ahead, NoneDoneAfter
<1> QED  BY <1>5, <1>6 DEF KeptInv, Busy

(* A step of the walk that has the run in hand. *)
LEMMA WalkingKept ==
  ASSUME TypeInv, GateInv, TurnInv, KeptInv, NEW w \in Walks, Walking(w), Serial, edited = 0
  PROVE  KeptInv' /\ WorkStep
<1>1. /\ UNCHANGED <<setting, edited, yaml, decision>> /\ Live(w)
      /\ \A x \in Walks : x # w => walk'[x] = walk[x]
  BY WalkingMoves
<1>2. /\ status = "running" /\ \A d \in Decisions : ~Busy(d)
      /\ \A x \in Walks : x # w => ~Live(x)'
  BY <1>1 DEF TurnInv, Live
<1>3. /\ walk[w].results = steps /\ Marked = {} /\ Ahead(w)
      /\ walk \in [Walks -> WalkType] /\ walk[w] \in WalkType
      /\ steps \in [Steps -> StepStatuses]
  BY <1>1, DistinctIds DEF KeptInv, TypeInv, TypeOK
<1>4. \A d \in Decisions : decision'[d].pc \notin {"loaded", "written"}
  BY <1>1, <1>2 DEF Busy
<1>5. ASSUME walk[w].pending # <<>>
      PROVE  /\ walk[w].pending[1] = Upcoming(w) /\ Upcoming(w).id \in Steps
             /\ steps[Upcoming(w).id] # "completed" /\ NoneDoneAfter(Upcoming(w).id)
             /\ \A outcome : Resulted(w, outcome) = [steps EXCEPT ![Upcoming(w).id] = outcome]
  BY <1>3, <1>5, Upcomings DEF Ahead, Resulted
<1>6. ASSUME walk[w].pending # <<>>, NEW outcome \in {"running", "completed"},
             steps' = Resulted(w, outcome)
      PROVE  Marked' = {} /\ WorkStep
  BY <1>3, <1>5, <1>6 DEF Marked, WorkStep
<1>7. CASE BeginStep(w)
  <2>1. /\ walk[w].pending # <<>> /\ steps' = Resulted(w, "running") /\ status' = status
        /\ walk'[w].results = Resulted(w, "running") /\ walk'[w].pending = walk[w].pending
    BY <1>3, <1>7 DEF BeginStep, WalkType
  <2>2. PICK u \in Steps : u = Upcoming(w).id  BY <1>5, <2>1
  <2>3. Ahead(w)'
    <3>1. steps' = [steps EXCEPT ![u] = "running"]  BY <1>5, <2>1, <2>2
    <3>2. steps'[u] # "completed" /\ NoneDoneAfter(u)'
      BY <1>1, <1>3, <1>5, <2>1, <2>2, <3>1, WriteAt
    <3>3. walk'[w].pending[1].id = u  BY <1>5, <2>1, <2>2
    <3> QED  BY <3>2, <3>3 DEF Ahead, NoneDoneAfter
  <2> QED  BY <1>1, <1>2, <1>4, <1>6, <2>1, <2>3 DEF KeptInv
<1>8. CASE FinishStep(w)
  <2>1. /\ walk[w].pending # <<>> /\ ~walk[w].pending[1].gate
        /\ steps' = Resulted(w, "completed") /\ status' = status
        /\ walk'[w].results = Resulted(w, "completed")
        /\ walk'[w].pending = Tail(walk[w].pending)
    BY <1>3, <1>8 DEF FinishStep, WalkType, TypeInv, GateInv, WalkInv
  <2>2. ASSUME Tail(walk[w].pending) # <<>>
        PROVE  /\ steps'[walk'[w].pending[1].id] # "completed"
               /\ NoneDoneAfter(walk[w].pending[1].id)'
    <3>1. Way(walk[w].def, walk[w].pending)  BY <1>1 DEF GateInv, WalkInv
    <3>2. PICK k \in DOMAIN yaml : /\ k + 1 \in DOMAIN yaml /\ yaml[k] = walk[w].pending[1]
                                   /\ yaml[k + 1] = Tail(walk[w].pending)[1]
      BY <2>1, <2>2, <3>1, NextInLine
    <3>3. PICK u \in Steps : u = Upcoming(w).id /\ yaml[k].id = u  BY <1>5, <2>1, <3>2
    <3>4. steps' = [steps EXCEPT ![u] = "completed"]  BY <1>5, <2>1, <3>3
    <3>5. steps'[yaml[k + 1].id] # "completed" /\ NoneDoneAfter(yaml[k + 1].id)'
      BY <1>1, <1>5, <2>1, <3>2, <3>3, <3>4, WriteAt
    <3>6. yaml'[k + 1] = walk'[w].pending[1]  BY <1>1, <2>1, <3>2
    <3> QED  BY <1>1, <3>5, <3>6 DEF NoneDoneAfter
  <2>3. Ahead(w)'  BY <2>1, <2>2 DEF Ahead, NoneDoneAfter
  <2> QED  BY <1>1, <1>2, <1>4, <1>6, <2>1, <2>3 DEF KeptInv
<1>9. CASE Pause(w)
  <2>1. /\ walk[w].pending # <<>> /\ steps' = Resulted(w, "awaiting")
        /\ status' = "paused_hitl" /\ ~Live(w)'
    BY <1>3, <1>9 DEF Pause, WalkType, Live
  <2>2. PICK u \in Steps : u = Upcoming(w).id  BY <1>5, <2>1
  <2>3. steps' = [steps EXCEPT ![u] = "awaiting"]  BY <1>5, <2>1, <2>2
  <2>4. NoneDoneAfter(u)'  BY <1>1, <1>5, <2>1, <2>2, <2>3, WriteAt
  <2>5. Marked' = {u} /\ WorkStep
    BY <1>3, <1>5, <2>1, <2>2, <2>3 DEF Marked, WorkStep
  <2> QED  BY <1>1, <1>2, <1>4, <2>1, <2>4, <2>5 DEF KeptInv
<1>10. CASE Complete(w)
  <2>1. steps' = steps /\ status' = "completed" /\ ~Live(w)'
    BY <1>3, <1>10 DEF Complete, WalkType, Live
  <2>2. Marked' = {} /\ WorkStep  BY <1>3, <2>1 DEF Marked, WorkStep
  <2> QED  BY <1>1, <1>2, <1>4, <2>1, <2>2 DEF KeptInv
<1> QED  BY <1>7, <1>8, <1>9, <1>10 DEF Walking

LEMMA DecisionKept ==
  ASSUME TypeInv, TurnInv, KeptInv, NEW d \in Decisions, Load(d) \/ Write(d) \/ Resume(d),
         Serial, edited = 0
  PROVE  KeptInv' /\ WorkStep
<1>1. /\ UNCHANGED <<setting, edited, yaml>>
      /\ \A c \in Decisions : c # d => decision'[c] = decision[c]
  BY DecisionMoves
<1>2. steps \in [Steps -> StepStatuses]  BY DistinctIds
<1>3. CASE Load(d)
  <2>1. /\ UNCHANGED <<walk, status, steps>> /\ MayDecide
        /\ \/ decision'[d].pc = "refused"
           \/ /\ Answerable /\ decision'[d].pc = "loaded"
              /\ decision'[d].gate \in Marked /\ decision'[d].results = steps
    BY <1>3, DecisionMoves
  <2>2. \A c \in Decisions : ~Busy(c)  BY <2>1 DEF MayDecide, Serial
  <2>3. /\ Marked' = Marked /\ WorkStep
        /\ \A s : NoneDoneAfter(s)' <=> NoneDoneAfter(s)
        /\ \A w \in Walks : (Live(w)' <=> Live(w)) /\ (Ahead(w)' <=> Ahead(w))
    BY <1>1, <2>1 DEF Marked, WorkStep, NoneDoneAfter, Live, Ahead
  <2>4. ASSUME NEW c \in Decisions
        PROVE  /\ decision'[c].pc = "loaded" => /\ decision'[c].results = steps
                                                /\ decision'[c].gate \in Marked
               /\ decision'[c].pc # "written"
    BY <1>1, <2>1, <2>2 DEF Busy
  <2> QED  BY <2>1, <2>3, <2>4 DEF KeptInv
<1>4. CASE Write(d)
  <2>1. /\ UNCHANGED walk /\ steps' = Decided(d) /\ decision[d].pc = "loaded"
        /\ \/ decision'[d].pc = "answered" /\ status' = "failed"
           \/ decision'[d].pc = "written" /\ status' = "running"
        /\ decision'[d].gate = decision[d].gate
        /\ decision'[d].approved = decision[d].approved
        /\ decision'[d].results = decision[d].results
    BY <1>4, DecisionMoves
  <2>2. /\ \A w \in Walks : ~Live(w)'
        /\ \A c \in Decisions : c # d => ~Busy(c)
    BY <2>1 DEF TurnInv, Busy, Live
  <2>3. PICK g \in Steps : g = decision[d].gate  BY <2>1 DEF TypeInv, Busy
  <2>4. /\ Marked = {g} /\ steps[g] = "awaiting" /\ NoneDoneAfter(g)
    BY <2>1, <2>3 DEF KeptInv, Marked
  <2>5. PICK outcome \in {"completed", "rejected"} : steps' = [steps EXCEPT ![g] = outcome]
    BY <2>1, <2>3 DEF Decided, KeptInv
  <2>6. NoneDoneAfter(g)'  BY <1>1, <2>4, <2>5, WriteAt
  <2>7. Marked' = {} /\ WorkStep  BY <1>2, <2>4, <2>5 DEF Marked, WorkStep
  <2>8. Decided(d)' = steps'  BY <2>1 DEF Decided
  <2>9. ASSUME NEW c \in Decisions
        PROVE  /\ decision'[c].pc # "loaded"
               /\ decision'[c].pc = "written" => /\ Decided(c)' = steps'
                                                 /\ NoneDoneAfter(decision[c].gate)'
    <3>1. CASE c # d  BY <1>1, <2>2, <3>1 DEF Busy
    <3>2. CASE c = d
      <4>1. NoneDoneAfter(decision[d].gate)'  BY <2>1, <2>3, <2>6 DEF NoneDoneAfter
      <4> QED  BY <2>1, <2>8, <3>2, <4>1
    <3> QED  BY <3>1, <3>2
  <2> QED  BY <2>1, <2>2, <2>7, <2>9 DEF KeptInv
<1>5. CASE Resume(d)
  <2>1. /\ UNCHANGED <<status, steps>> /\ decision[d].pc = "written"
        /\ decision'[d].pc = "answered" /\ Spawn(yaml, decision[d].gate, Decided(d))
    BY <1>5, DecisionMoves
  <2>2. /\ status = "running" /\ \A w \in Walks : ~Live(w)
        /\ \A c \in Decisions : c # d => ~Busy(c)
    BY <2>1 DEF TurnInv, Busy
  <2>3. Decided(d) = steps /\ Marked = {} /\ NoneDoneAfter(decision[d].gate)
    BY <2>1 DEF KeptInv
  <2>4. decision[d].gate # None  BY <2>1, PlaybookAssumption DEF TypeInv, Busy
  <2>5. steps \in Results  BY DEF TypeInv, TypeOK
  <2>6. \A c \in Decisions : ~Busy(c)'  BY <1>1, <2>1, <2>2 DEF Busy
  <2> QED  BY <1>1, <2>1, <2>2, <2>3, <2>4, <2>5, <2>6, SpawnKept DEF WorkStep
<1> QED  BY <1>3, <1>4, <1>5

LEMMA StepKept ==
  ASSUME TypeInv, GateInv, TurnInv, KeptInv, Next
  PROVE  KeptInv' /\ WorkStep
<1>1. CASE ExecutePlaybook
  <2>1. /\ UNCHANGED <<setting, edited, yaml, steps, decision>>
        /\ status = "none" /\ status' = "running" /\ Spawn(yaml, None, NoResults)
        /\ NoResults \in Results
    BY <1>1 DEF ExecutePlaybook, NoResults, Results, StepStatuses
  <2>2. CASE Serial /\ edited = 0
    <3>1. steps = NoResults  BY <2>1, <2>2 DEF KeptInv
    <3>2. /\ \A w \in Walks : ~Live(w)
          /\ \A d \in Decisions : ~Busy(d)'
      BY <2>1, <2>2 DEF TurnInv, Busy
    <3>3. Marked = {}  BY <3>1 DEF Marked, NoResults
    <3>4. \A k \in DOMAIN yaml : steps[yaml[k].id] # "completed"
      BY <3>1, DistinctIds DEF NoResults
    <3> QED  BY <2>1, <3>1, <3>2, <3>3, <3>4, SpawnKept DEF WorkStep
  <2>3. CASE ~(Serial /\ edited = 0)  BY <2>1, <2>3 DEF KeptInv, WorkStep, Serial
  <2> QED  BY <2>2, <2>3
<1>2. CASE UpdatePlaybook
  BY <1>2 DEF UpdatePlaybook, KeptInv, WorkStep, TypeInv, TypeOK
<1>3. CASE FaultStep
  <2>1. /\ UNCHANGED <<setting, edited, yaml, status, steps>>
        /\ \A w \in Walks : walk'[w] = walk[w] \/ ~Live(w)'
        /\ \A d \in Decisions : \/ decision'[d] = decision[d]
                                \/ decision'[d].pc \notin {"loaded", "written"}
    BY <1>3, FaultMoves DEF Live, Busy
  <2>2. Marked' = Marked /\ \A s : NoneDoneAfter(s)' <=> NoneDoneAfter(s)
    BY <2>1 DEF Marked, NoneDoneAfter
  <2>3. \A w \in Walks : walk'[w] = walk[w] => (Live(w)' <=> Live(w)) /\ (Ahead(w)' <=> Ahead(w))
    BY <2>1 DEF Live, Ahead, NoneDoneAfter
  <2>4. \A d \in Decisions : decision'[d] = decision[d] => Decided(d)' = Decided(d)
    BY DEF Decided
  <2> QED  BY <2>1, <2>2, <2>3, <2>4 DEF KeptInv, WorkStep, Serial
<1>4. ASSUME NEW w \in Walks, Walking(w) PROVE KeptInv' /\ WorkStep
  <2>1. setting' = setting /\ edited' = edited  BY <1>4, WalkingMoves
  <2> QED  BY <1>4, <2>1, WalkingKept DEF KeptInv, WorkStep, Serial
<1>5. ASSUME NEW d \in Decisions, Load(d) \/ Write(d) \/ Resume(d) PROVE KeptInv' /\ WorkStep
  <2>1. setting' = setting /\ edited' = edited  BY <1>5, DecisionMoves
  <2> QED  BY <1>5, <2>1, DecisionKept DEF KeptInv, WorkStep, Serial
<1> QED  BY <1>1, <1>2, <1>3, <1>4, <1>5 DEF Next, FaultStep

(* A walk carries on from the results it was given: while decisions follow *)
(* each other and nobody edits the playbook, a completed step stays        *)
(* completed and an approved gate open.                                    *)
THEOREM NoWorkUndone == Spec => WorkKept
<1> DEFINE Inv == TypeInv /\ GateInv /\ TurnInv /\ KeptInv
<1>1. Init => Inv
  <2> SUFFICES ASSUME Init PROVE Inv  OBVIOUS
  <2>1. GateInv
    BY DEF Init, NoResults, GateInv, WalkInv, Live, MarkInv, Marks, ApprovalInv, Busy
  <2>2. TurnInv  BY DEF Init, TurnInv, Live, Busy
  <2>3. Marked = {}  BY DEF Init, Marked, NoResults
  <2>4. KeptInv  BY <2>3 DEF Init, KeptInv, Live
  <2> QED  BY <2>1, <2>2, <2>4, InitTypes
<1>2. Inv /\ [Next]_vars => Inv' /\ [WorkStep]_vars
  <2>1. ASSUME Inv, UNCHANGED vars PROVE Inv'
    <3>1. TypeInv' /\ TurnInv'
      BY <2>1 DEF vars, TypeInv, TypeOK, TurnInv, Serial, Live, Busy
    <3>2. GateInv'
      <4>1. WalkInv' /\ (edited' = 0 => \A w \in Walks : Marks(walk[w].results)')
        BY <2>1, WalksKept DEF vars, Unrevoked
      <4>2. edited' = 0 => \A s : Cleared(s) => Cleared(s)'
        BY <2>1, MarksKept DEF vars, Unrevoked
      <4>3. MarkInv' /\ ApprovalInv'
        BY <2>1, <4>1, <4>2 DEF vars, GateInv, MarkInv, Marks, ApprovalInv, Busy
      <4> QED  BY <4>1, <4>3 DEF GateInv
    <3>3. /\ Marked' = Marked /\ \A s : NoneDoneAfter(s)' <=> NoneDoneAfter(s)
          /\ \A w \in Walks : (Live(w)' <=> Live(w)) /\ (Ahead(w)' <=> Ahead(w))
          /\ \A d \in Decisions : Decided(d)' = Decided(d)
      BY <2>1 DEF vars, Marked, NoneDoneAfter, Live, Ahead, Decided
    <3>4. KeptInv'  BY <2>1, <3>3 DEF vars, KeptInv, Serial
    <3> QED  BY <3>1, <3>2, <3>4
  <2> QED  BY <2>1, StepTypes, StepGates, StepTurn, StepKept
<1> QED  BY <1>1, <1>2, PTL DEF Spec, WorkKept, WorkStep
================================================================================
