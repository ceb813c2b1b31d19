--------------------------- MODULE MCFoundry_proofs ---------------------------
(***************************************************************************)
(* Theorems about the parts of the foundry that MCFoundry checks together,   *)
(* for every value of the constants that FoundryAssumption allows: first     *)
(* each part, then the composed specification.                             *)
(***************************************************************************)
EXTENDS MCFoundry, Sequences, FiniteSetTheorems, FunctionTheorems, WellFoundedInduction, TLAPS

-----------------------------------------------------------------------------
(* VerifierCompiler. *)
(* A specification is the deterministic one when it comes from the task, and *)
(* what was accepted passed the suite of its route.                         *)
VerifierInv ==
    /\ VC!TypeOK /\ spec = [k \in DOMAIN spec |-> spec[k]]
    /\ origin = "task" /\ pc \notin {"accepted_sft", "rejected"} => spec = VC!Deterministic
    /\ pc = "accepted" => VC!SuitePasses(answer)
    /\ pc = "accepted_sft" => spec = VC!SftSpec /\ VC!Passes(answer)

LEMMA VerifierTargets ==
    ASSUME VC!VerifierAssumption, task \in Targets
    PROVE  /\ task.nodes \subseteq Nodes /\ task.relations \subseteq Relations
           /\ task.values \subseteq Values /\ task.evidence \subseteq SUBSET Spans
  BY DEF VC!VerifierAssumption, VC!Task

(* What is added to a proposal is a gate or an outcome, and a predicate is    *)
(* given a weight without losing its place or its gate.                     *)
LEMMA NormalizedIs ==
    ASSUME VC!VerifierAssumption, task \in Targets, NEW p,
           DOMAIN p \subseteq VC!Kind, \A k \in DOMAIN p : p[k] \in VC!Role
    PROVE  /\ DOMAIN VC!Normalized(p) \subseteq VC!Kind
           /\ VC!Normalized(p) = [k \in DOMAIN VC!Normalized(p) |-> VC!Normalized(p)[k]]
           /\ \A k \in DOMAIN VC!Normalized(p) : VC!Normalized(p)[k] \in VC!Role
           /\ VC!Baseline \cup task.values \subseteq DOMAIN VC!Normalized(p)
           /\ \A k \in VC!Baseline \cup task.values :
                k \notin DOMAIN p => VC!Normalized(p)[k].required
  <1> DEFINE own == {k \in DOMAIN p : VC!Applicable(k)}
             all == [k \in own \cup VC!Baseline \cup task.values |->
                       IF k \in own THEN p[k] ELSE IF k \in Values THEN VC!Outcome ELSE VC!Gate]
  <1>1. VC!Baseline \subseteq VC!Kind /\ task.values \subseteq VC!Kind /\ own \subseteq VC!Kind
    BY VerifierTargets DEF VC!Baseline, VC!Kind
  <1>2. VC!Gate \in VC!Role /\ VC!Outcome \in VC!Role /\ VC!Gate.required /\ VC!Outcome.required
    BY DEF VC!Gate, VC!Outcome, VC!Role
  <1>3. /\ DOMAIN all = own \cup VC!Baseline \cup task.values
        /\ all = [k \in DOMAIN all |-> all[k]] /\ \A k \in DOMAIN all : all[k] \in VC!Role
        /\ \A k \in DOMAIN all : k \notin DOMAIN p => all[k].required
    BY <1>2
  <1> HIDE DEF all
  <1>4. ASSUME NEW j
        PROVE  LET m == [all EXCEPT ![j].weighted = TRUE] IN
               /\ DOMAIN m = DOMAIN all /\ m = [k \in DOMAIN m |-> m[k]]
               /\ \A k \in DOMAIN all : m[k] \in VC!Role /\ m[k].required = all[k].required
    <2>1. ASSUME NEW r \in VC!Role
          PROVE  [r EXCEPT !.weighted = TRUE] \in VC!Role
                 /\ [r EXCEPT !.weighted = TRUE].required = r.required
      BY DEF VC!Role
    <2> QED  BY <1>3, <2>1
  <1>5. VC!Normalized(p) = all \/ \E j : VC!Normalized(p) = [all EXCEPT ![j].weighted = TRUE]
    BY DEF VC!Normalized, all
  <1>6. \A k \in VC!Baseline \cup task.values : k \in DOMAIN all
    BY <1>3
  <1> HIDE DEF own
  <1>7. CASE VC!Normalized(p) = all
    BY <1>1, <1>3, <1>6, <1>7
  <1>8. CASE \E j : VC!Normalized(p) = [all EXCEPT ![j].weighted = TRUE]
    <2>1. PICK j : VC!Normalized(p) = [all EXCEPT ![j].weighted = TRUE]
      BY <1>8
    <2>2. /\ DOMAIN VC!Normalized(p) = DOMAIN all
          /\ VC!Normalized(p) = [k \in DOMAIN VC!Normalized(p) |-> VC!Normalized(p)[k]]
          /\ \A k \in DOMAIN all : /\ VC!Normalized(p)[k] \in VC!Role
                                  /\ VC!Normalized(p)[k].required = all[k].required
      <3> DEFINE m == [all EXCEPT ![j].weighted = TRUE]
      <3>1. /\ DOMAIN m = DOMAIN all /\ m = [k \in DOMAIN m |-> m[k]]
            /\ \A k \in DOMAIN all : m[k] \in VC!Role /\ m[k].required = all[k].required
        BY <1>4
      <3>2. VC!Normalized(p) = m
        BY <2>1
      <3> HIDE DEF m
      <3> QED  BY <3>1, <3>2
    <2>3. DOMAIN all \subseteq VC!Kind
      BY <1>1, <1>3
    <2>4. \A k \in VC!Baseline \cup task.values :
              k \in DOMAIN all /\ (k \notin DOMAIN p => VC!Normalized(p)[k].required)
      BY <1>3, <1>6, <2>2
    <2> QED  BY <2>2, <2>3, <2>4
  <1> QED  BY <1>5, <1>7, <1>8

LEMMA DeterministicIs ==
    ASSUME VC!VerifierAssumption, task \in Targets
    PROVE  /\ DOMAIN VC!Deterministic \subseteq VC!Kind
           /\ VC!Deterministic = [k \in DOMAIN VC!Deterministic |-> VC!Deterministic[k]]
           /\ \A k \in DOMAIN VC!Deterministic : VC!Deterministic[k] \in VC!Role
           /\ \A k \in VC!Baseline : k \in DOMAIN VC!Deterministic /\ VC!Deterministic[k].required
  BY NormalizedIs DEF VC!Deterministic

LEMMA SftIs ==
    ASSUME VC!VerifierAssumption, task \in Targets
    PROVE  /\ DOMAIN VC!SftSpec = {"nonempty", "manifest", "consistency"} \cup task.values
           /\ VC!SftSpec = [k \in DOMAIN VC!SftSpec |-> VC!SftSpec[k]]
           /\ \A k \in DOMAIN VC!SftSpec : VC!SftSpec[k] \in VC!Role /\ VC!SftSpec[k].required
           /\ DOMAIN VC!SftSpec \subseteq VC!Kind
  BY VerifierTargets DEF VC!SftSpec, VC!Gate, VC!Outcome, VC!Role, VC!Kind

LEMMA DeterministicSame == ASSUME task' = task PROVE VC!Deterministic' = VC!Deterministic
  <1>1. \A k : VC!Applicable(k)' = VC!Applicable(k)
    BY DEF VC!Applicable
  <1>2. VC!Baseline' = VC!Baseline
    BY DEF VC!Baseline
  <1> QED  BY <1>1, <1>2 DEF VC!Deterministic, VC!Normalized

LEMMA VerifierInit == ASSUME VC!VerifierAssumption, VC!Init PROVE VerifierInv
  BY DEF VC!Init, VerifierInv, VC!TypeOK

LEMMA UsedOne ==
    ASSUME VC!VerifierAssumption, VerifierInv, VC!TakeSpec
    PROVE  VerifierInv'
  <1>1. task \in Targets /\ task' = task /\ answer' = answer /\ mending' = FALSE
        /\ pc' \in {"critic", "recheck"} /\ answer \in References
    BY DEF VC!TakeSpec, VC!Ask, VerifierInv, VC!TypeOK
  <1>2. CASE VC!Use(VC!Deterministic, "task")
    <2>1. spec' = VC!Deterministic /\ origin' = "task" /\ VC!Deterministic' = VC!Deterministic
      BY <1>1, <1>2, DeterministicSame DEF VC!Use
    <2> QED  BY <1>1, <2>1, DeterministicIs DEF VerifierInv, VC!TypeOK
  <1>3. CASE \E p \in Proposals : VC!Use(VC!Normalized(p), "model")
    <2>1. PICK p \in Proposals : spec' = VC!Normalized(p) /\ origin' = "model"
      BY <1>3 DEF VC!Use
    <2>2. DOMAIN p \subseteq VC!Kind /\ \A k \in DOMAIN p : p[k] \in VC!Role
      BY DEF VC!VerifierAssumption
    <2> QED  BY <1>1, <2>1, <2>2, NormalizedIs DEF VerifierInv, VC!TypeOK
  <1> QED  BY <1>2, <1>3 DEF VC!TakeSpec

LEMMA Critiqued ==
    ASSUME VC!VerifierAssumption, VerifierInv, pc \in {"critic", "recheck"}, NEW accepted \in BOOLEAN,
           VC!Critique(accepted), task' = task, answer' = answer
    PROVE  VerifierInv'
  <1>1. task \in Targets /\ answer \in References /\ mending' = FALSE
        /\ VC!Deterministic' = VC!Deterministic
    <2>1. task \in Targets /\ answer \in References
      BY DEF VerifierInv, VC!TypeOK
    <2>2. mending' = FALSE
      BY DEF VC!Critique, VC!Suite, VC!Ask
    <2> QED  BY <2>1, <2>2, DeterministicSame
  <1>2. CASE pc' = "repair" /\ spec' = spec /\ origin' = origin
    BY <1>1, <1>2 DEF VerifierInv, VC!TypeOK
  <1>3. ASSUME VC!Suite, <<spec, origin>>' = <<spec, origin>> \/ VC!Use(VC!Deterministic, "task")
        PROVE  VerifierInv'
    <2>1. pc' \in {"accepted", "rejected"} /\ (pc' = "accepted" => VC!SuitePasses(answer)')
      BY <1>3 DEF VC!Suite, VC!Ask
    <2>2. origin' = "task" => spec' = VC!Deterministic'
      BY <1>1, <1>3 DEF VC!Use, VerifierInv
    <2>3. /\ DOMAIN spec' \subseteq VC!Kind /\ \A k \in DOMAIN spec' : spec'[k] \in VC!Role
          /\ spec' = [k \in DOMAIN spec' |-> spec'[k]] /\ origin' \in {"model", "task"}
      BY <1>1, <1>3, DeterministicIs DEF VC!Use, VerifierInv, VC!TypeOK
    <2> QED  BY <1>1, <2>1, <2>2, <2>3 DEF VerifierInv, VC!TypeOK
  <1>4. CASE pc = "critic" /\ ~accepted
    <2>1. pc' = "repair" /\ spec' = spec /\ origin' = origin
      BY <1>4 DEF VC!Critique, VC!Ask
    <2> QED  BY <1>2, <2>1
  <1>5. CASE accepted
    <2>1. VC!Suite /\ spec' = spec /\ origin' = origin
      BY <1>5 DEF VC!Critique
    <2> QED  BY <1>3, <2>1
  <1>6. CASE pc # "critic" /\ ~accepted
    <2>1. VC!Suite /\ VC!Use(VC!Deterministic, "task")
      BY <1>6 DEF VC!Critique
    <2> QED  BY <1>3, <2>1
  <1> QED  BY <1>4, <1>5, <1>6

LEMMA VerifierNext ==
    ASSUME VC!VerifierAssumption, VerifierInv, [VC!Next]_VC!vars PROVE VerifierInv'
  <1>1. CASE UNCHANGED VC!vars
    <2>1. /\ task' = task /\ answer' = answer /\ pc' = pc /\ mending' = mending
          /\ spec' = spec /\ origin' = origin
      BY <1>1 DEF VC!vars
    <2>2. VC!Deterministic' = VC!Deterministic /\ VC!SftSpec' = VC!SftSpec
      BY <2>1, DeterministicSame DEF VC!SftSpec
    <2>3. \A k, x : VC!Holds(k, x)' = VC!Holds(k, x)
      BY <2>1 DEF VC!Holds
    <2>4. \A x : VC!Passes(x)' <=> VC!Passes(x)
      BY <2>1, <2>3 DEF VC!Passes
    <2>5. VC!Adversarial(answer)' = VC!Adversarial(answer) /\ VC!Mutations(answer)' = VC!Mutations(answer)
          /\ VC!Metamorphic(answer)' = VC!Metamorphic(answer)
      BY <2>1 DEF VC!Adversarial, VC!CitesEvidence, VC!Mutations, VC!Mutated, VC!Metamorphic
    <2>6. VC!SuitePasses(answer)' <=> VC!SuitePasses(answer)
      BY <2>1, <2>4, <2>5 DEF VC!SuitePasses
    <2>7. VC!Passes(answer)' <=> VC!Passes(answer)
      BY <2>1, <2>4 DEF VC!Passes
    <2>8. VC!TypeOK' /\ (spec = [k \in DOMAIN spec |-> spec[k]])'
      BY <2>1 DEF VerifierInv, VC!TypeOK
    <2> QED  BY <2>1, <2>2, <2>6, <2>7, <2>8 DEF VerifierInv
  <1>2. CASE VC!TakeCritique
    <2>1. task' = task /\ answer' = answer /\ pc \in {"critic", "recheck"}
      BY <1>2 DEF VC!TakeCritique
    <2>2. CASE mending' = TRUE /\ UNCHANGED <<pc, spec, origin>>
      BY <2>1, <2>2, DeterministicSame DEF VerifierInv, VC!TypeOK
    <2> QED  BY <1>2, <2>1, <2>2, Critiqued DEF VC!TakeCritique
  <1>3. CASE VC!GradeSft
    <2>1. task' = task /\ answer' = answer /\ task \in Targets /\ answer \in References
          /\ spec' = VC!SftSpec /\ origin' = "task" /\ mending' = FALSE
          /\ pc' \in {"accepted_sft", "rejected"} /\ (pc' = "accepted_sft" => VC!Passes(answer)')
      BY <1>3 DEF VC!GradeSft, VC!Use, VC!Ask, VerifierInv, VC!TypeOK
    <2>2. VC!SftSpec' = VC!SftSpec
      BY <2>1 DEF VC!SftSpec
    <2> QED  BY <2>1, <2>2, SftIs DEF VerifierInv, VC!TypeOK
  <1> QED  BY <1>1, <1>2, <1>3, UsedOne DEF VC!Next

(* An answer that passes although another of the same report and evidence     *)
(* does not, is told apart by a kind.                                       *)
LEMMA Tells ==
    ASSUME NEW a, NEW b, VC!Passes(a), ~VC!Passes(b)
    PROVE  \E k \in DOMAIN spec : /\ VC!Holds(k, a) /\ ~VC!Holds(k, b)
                                  /\ \A c : VC!Passes(c) => VC!Holds(k, c)
  BY DEF VC!Passes

(* The node of a relation that holds is committed.                           *)
LEMMA Endpoints == ASSUME NEW a, NEW r \in a.relations PROVE {r[1], r[2]} \subseteq VC!Committed(a)
  BY DEF VC!Committed

LEMMA RewardHolds == ASSUME VC!VerifierAssumption, VerifierInv PROVE VC!TypeOK /\ VC!RewardIsEarned
  <1>1. task \in Targets /\ task \in VC!Task /\ answer \in VC!Answer /\ VC!TypeOK
        /\ DOMAIN spec \subseteq VC!Kind
    BY DEF VC!VerifierAssumption, VerifierInv, VC!TypeOK
  <1>2. \A v \in Values : v \notin {"nonempty", "manifest", "consistency", "nodes",
                                    "membership", "coverage", "relations"}
    BY DEF VC!VerifierAssumption
  <1>3. \A v \in Values : \A a : VC!Holds(v, a) <=> v \in a.right
    BY <1>2 DEF VC!Holds
  <1>4. ASSUME pc = "accepted_sft"
        PROVE  /\ task.values \subseteq answer.right
               /\ answer.report # "empty" /\ (task.values # {} => answer.report = "full")
    <2>1. \A k \in {"nonempty", "manifest", "consistency"} \cup task.values : VC!Holds(k, answer)
      BY <1>1, <1>4, SftIs DEF VerifierInv, VC!Passes
    <2>2. task.values \subseteq answer.right
      BY <1>1, <1>3, <2>1, VerifierTargets
    <2>3. VC!Holds("consistency", answer)
      BY <2>1
    <2> QED  BY <2>2, <2>3 DEF VC!Holds
  <1>5. ASSUME pc = "accepted", NEW a \in VC!Answer, VC!Passes(a),
               NEW n \in task.nodes \cap VC!Committed(answer), ~VC!Sole(n)
        PROVE  n \in VC!Committed(a)
    <2> DEFINE b == VC!WithoutNode(answer, n)
    <2>1. /\ b.report = answer.report /\ b.evidence = answer.evidence
          /\ b.nodes = answer.nodes \ {n}
          /\ b.relations = {r \in answer.relations : n \notin {r[1], r[2]}}
          /\ b.right = answer.right \ {n} /\ b.wrong = answer.wrong \ {n}
      BY <1>1 DEF VC!WithoutNode, VC!Answer
    <2>2. n \notin VC!Committed(b)
      BY <2>1 DEF VC!Committed
    <2>3. VC!Committed(b) \cup b.evidence # {}
      BY <1>5, <2>1 DEF VC!Sole
    <2>4. b \in VC!Mutations(answer)
      BY <2>2 DEF VC!Mutations, VC!Mutated
    <2> HIDE DEF b
    <2>5. VC!Passes(answer) /\ ~VC!Passes(b)
      BY <1>5, <2>4 DEF VerifierInv, VC!SuitePasses
    <2>6. PICK k \in DOMAIN spec : VC!Holds(k, answer) /\ ~VC!Holds(k, b) /\ VC!Holds(k, a)
      BY <1>5, <2>5, Tells
    <2>7. CASE k \in Values
      BY <1>3, <2>1, <2>6, <2>7 DEF VC!Committed
    <2>8. CASE k = "nodes"
      BY <1>5, <2>6, <2>8 DEF VC!Holds
    <2>9. CASE k = "relations"
      <3>1. PICK r \in task.relations : r \in answer.relations /\ r \notin b.relations
        BY <2>6, <2>9 DEF VC!Holds
      <3>2. n \in {r[1], r[2]} /\ r \in a.relations
        BY <2>1, <2>6, <2>9, <3>1 DEF VC!Holds
      <3> QED  BY <3>2, Endpoints
    <2>10. CASE k \in {"nonempty", "manifest", "consistency", "membership", "coverage"}
      <3>1. VC!Holds(k, b)
        BY <2>1, <2>3, <2>6, <2>10 DEF VC!Holds
      <3> QED  BY <2>6, <3>1
    <2> QED  BY <1>1, <2>7, <2>8, <2>9, <2>10 DEF VC!Kind
  <1>6. ASSUME pc = "accepted", NEW a \in VC!Answer, VC!Passes(a),
               NEW v \in task.values \cap answer.right
        PROVE  v \in a.right
    <2> DEFINE b == VC!WithoutValue(answer, v)
    <2>1. /\ b.report = answer.report /\ b.evidence = answer.evidence /\ b.nodes = answer.nodes
          /\ b.relations = answer.relations /\ b.right = answer.right \ {v}
          /\ b.wrong = answer.wrong \cup {v}
      BY <1>1 DEF VC!WithoutValue, VC!Answer
    <2>2. b \in VC!Mutations(answer)
      BY <2>1 DEF VC!Mutations, VC!Mutated
    <2>3. VC!Committed(b) = VC!Committed(answer)
      BY <2>1 DEF VC!Committed
    <2> HIDE DEF b
    <2>4. VC!Passes(answer) /\ ~VC!Passes(b)
      BY <1>6, <2>2 DEF VerifierInv, VC!SuitePasses
    <2>5. PICK k \in DOMAIN spec : VC!Holds(k, answer) /\ ~VC!Holds(k, b) /\ VC!Holds(k, a)
      BY <1>6, <2>4, Tells
    <2>6. CASE k \in Values
      BY <1>3, <2>1, <2>5, <2>6
    <2>7. CASE k \notin Values
      <3>1. VC!Holds(k, b) = VC!Holds(k, answer)
        BY <1>1, <2>1, <2>3, <2>7 DEF VC!Holds, VC!Kind
      <3> QED  BY <2>5, <3>1
    <2> QED  BY <2>6, <2>7
  <1>7. ASSUME pc = "accepted", NEW a \in VC!Answer, VC!Passes(a), origin = "task"
        PROVE  /\ task.relations \subseteq a.relations
               /\ task.evidence # {} => Invented \notin a.evidence
               /\ task.evidence # {} => \E S \in task.evidence : S \subseteq a.evidence
    <2>1. \A k \in VC!Baseline : VC!Holds(k, a)
      BY <1>1, <1>7, DeterministicIs DEF VerifierInv, VC!Passes
    <2>2. task.relations \subseteq a.relations
      <3>1. CASE task.relations # {}
        <4>1. VC!Holds("relations", a)
          BY <2>1, <3>1 DEF VC!Baseline
        <4> QED  BY <4>1 DEF VC!Holds
      <3> QED  BY <3>1
    <2>3. ASSUME task.evidence # {}
          PROVE  Invented \notin a.evidence /\ \E S \in task.evidence : S \subseteq a.evidence
      <3>1. VC!Holds("membership", a) /\ VC!Holds("coverage", a)
        BY <2>1, <2>3 DEF VC!Baseline
      <3> QED  BY <3>1 DEF VC!Holds, VC!VerifierAssumption
    <2> QED  BY <2>2, <2>3
  <1> QED  BY <1>1, <1>4, <1>5, <1>6, <1>7 DEF VC!RewardIsEarned

-----------------------------------------------------------------------------
(* FoundryIntake. *)
IntakeTypes ==
    /\ log \in Logs /\ running \subseteq Replicas /\ admissions \subseteq Identities
    /\ row \in [rev: DOMAIN log \cup {0}, state: {"none", "queued", "processing", "done"}]
    /\ next \in [Replicas -> DOMAIN log \cup {0}] /\ stored \in [Replicas -> DOMAIN log \cup {0}]
    /\ pc \in [Replicas -> {"read", "enqueue", "admit", "refuse", "remove"}]
    /\ missed \cup offered \subseteq DOMAIN log
    /\ crashes \in 0..CrashLimit /\ claims \in 0..ClaimLimit
    /\ \A r \in Replicas : stored[r] <= next[r] /\ (pc[r] # "read" => FI!Position(r) \in DOMAIN log)
    /\ \A r \in Replicas \ running : pc[r] = "read" /\ next[r] = 0

(* Every candidate before a record is admitted. *)
AdmittedBefore(i) ==
    \A j \in DOMAIN log : j < i /\ log[j].kind = "candidate" => log[j].identity \in admissions

(* What a replica that runs alone knows: a record that is not admitted is the *)
(* last it has offered, and what is not in the row was missed.              *)
Alone(r) ==
    /\ pc[r] # "read" => FI!Current(r).kind = "candidate"
    /\ pc[r] \in {"enqueue", "refuse"} => FI!Current(r).identity \notin admissions
    /\ pc[r] = "remove" => FI!Current(r).identity \in admissions
    /\ pc[r] = "admit" => FI!Position(r) \in missed \/ row.rev = FI!Position(r)
    /\ \A i \in offered : AdmittedBefore(i) /\ log[i].kind = "candidate"
    /\ AdmittedBefore(FI!Position(r))
    /\ row.state # "none" => \A i \in offered : i > row.rev => i \in missed
    /\ row.state # "none" =>
          \A i \in (row.rev + 1)..next[r] : log[i].kind = "other" => i \in missed

IntakeInv == IntakeTypes /\ \A r \in Replicas : running = {r} => Alone(r)

-----------------------------------------------------------------------------
LEMMA LogTypes ==
    ASSUME FI!IntakeAssumption, IntakeTypes
    PROVE  /\ DOMAIN log \subseteq Nat \ {0} /\ \A i \in DOMAIN log : \A j \in 1..i : j \in DOMAIN log
           /\ \A i \in DOMAIN log : log[i] \in FI!Record
           /\ row.rev \in Nat /\ row.rev \in DOMAIN log \cup {0}
           /\ row.state \in {"none", "queued", "processing", "done"}
           /\ row = [rev |-> row.rev, state |-> row.state]
           /\ \A r \in Replicas : next[r] \in Nat /\ stored[r] \in Nat
           /\ CrashLimit \in Nat /\ ClaimLimit \in Nat
  <1>1. log \in Seq(FI!Record)
    BY DEF FI!IntakeAssumption, IntakeTypes
  <1>2. DOMAIN log = 1..Len(log) /\ Len(log) \in Nat
    BY <1>1
  <1>3. /\ DOMAIN log \subseteq Nat \ {0} /\ \A i \in DOMAIN log : \A j \in 1..i : j \in DOMAIN log
        /\ \A i \in DOMAIN log : log[i] \in FI!Record
    BY <1>1, <1>2
  <1>4. row.rev \in DOMAIN log \cup {0} /\ row = [rev |-> row.rev, state |-> row.state]
        /\ row.state \in {"none", "queued", "processing", "done"}
    BY DEF IntakeTypes
  <1>5. \A r \in Replicas : next[r] \in DOMAIN log \cup {0} /\ stored[r] \in DOMAIN log \cup {0}
    BY DEF IntakeTypes
  <1> QED  BY <1>3, <1>4, <1>5 DEF FI!IntakeAssumption

LEMMA IntakeSays ==
    ASSUME FI!IntakeAssumption, IntakeInv PROVE FI!TypeOK /\ FI!QueueFollowsLog
  <1>1. FI!TypeOK
    BY DEF IntakeInv, IntakeTypes, FI!TypeOK
  <1>2. ASSUME NEW r \in Replicas, running = {r}, row.state = "queued", NEW i \in (row.rev + 1)..next[r]
        PROVE  i \in missed \/ (log[i].kind # "other" /\ i \notin offered)
    BY <1>2, LogTypes DEF IntakeInv, Alone
  <1> QED  BY <1>1, <1>2 DEF FI!QueueFollowsLog

LEMMA IntakeInit == ASSUME FI!IntakeAssumption, FI!Init PROVE IntakeInv
  <1>1. IntakeTypes
    BY DEF FI!IntakeAssumption, FI!Init, IntakeTypes, FI!NoRow
  <1>2. ASSUME NEW r \in Replicas PROVE Alone(r)
    BY <1>1, LogTypes DEF FI!Init, Alone, FI!NoRow, AdmittedBefore, FI!Position
  <1> QED  BY <1>1, <1>2 DEF IntakeInv

(* Steps by which a replica that runs, or the drain loop, keeps the types. *)
LEMMA IntakeTypesKept ==
    ASSUME FI!IntakeAssumption, IntakeTypes, [FI!Next]_FI!vars PROVE IntakeTypes'
  <1> USE LogTypes
  <1>1. \A r \in Replicas : FI!Position(r) \in Nat
    BY DEF FI!Position
  <1>2. FI!Removed \in [rev: DOMAIN log \cup {0}, state: {"none", "queued", "processing", "done"}]
    BY DEF FI!Removed, FI!NoRow, IntakeTypes
  <1>3. ASSUME NEW r \in Replicas, FI!Withdraw(r) PROVE IntakeTypes'
    <2>1. next' = [next EXCEPT ![r] = next[r] + 1] /\ pc' = [pc EXCEPT ![r] = "read"]
          /\ r \in running /\ next[r] + 1 \in DOMAIN log /\ row' = FI!Removed
          /\ missed' = FI!Missing(next[r] + 1)
          /\ UNCHANGED <<log, running, admissions, stored, offered, crashes, claims>>
      BY <1>3 DEF FI!Withdraw, FI!Done, FI!Read, FI!Position
    <2> QED  BY <1>2, <2>1 DEF IntakeTypes, FI!Position, FI!Missing
  <1>4. ASSUME NEW r \in Replicas, FI!PassOver(r) PROVE IntakeTypes'
    <2>1. next' = [next EXCEPT ![r] = next[r] + 1] /\ pc' = [pc EXCEPT ![r] = "read"]
          /\ r \in running /\ next[r] + 1 \in DOMAIN log
          /\ UNCHANGED <<log, running, row, admissions, stored, offered, missed, crashes, claims>>
      BY <1>4 DEF FI!PassOver, FI!Done, FI!Read, FI!Position
    <2> QED  BY <2>1 DEF IntakeTypes, FI!Position
  <1>5. ASSUME NEW r \in Replicas, FI!LoadEvidence(r) PROVE IntakeTypes'
    <2>1. PICK p \in {"enqueue", "refuse"} : pc' = [pc EXCEPT ![r] = p]
      BY <1>5 DEF FI!LoadEvidence, FI!Goto
    <2>2. /\ r \in running /\ next[r] + 1 \in DOMAIN log /\ next' = next
          /\ UNCHANGED <<log, running, row, admissions, stored, offered, missed, crashes, claims>>
      BY <1>5 DEF FI!LoadEvidence, FI!Read, FI!Goto, FI!Position
    <2> QED  BY <2>1, <2>2 DEF IntakeTypes, FI!Position
  <1>6. ASSUME NEW r \in Replicas, FI!Enqueue(r) PROVE IntakeTypes'
    <2>1. /\ pc[r] = "enqueue" /\ pc' = [pc EXCEPT ![r] = "admit"] /\ next' = next
          /\ row' = FI!Upserted(next[r] + 1) /\ offered' = offered \cup {next[r] + 1}
          /\ missed' = FI!Missing(next[r] + 1)
          /\ UNCHANGED <<log, running, admissions, stored, crashes, claims>>
      BY <1>6 DEF FI!Enqueue, FI!Goto, FI!Position
    <2>2. next[r] + 1 \in DOMAIN log /\ r \in running
      BY <2>1 DEF IntakeTypes, FI!Position
    <2>3. row' \in [rev: DOMAIN log \cup {0}, state: {"none", "queued", "processing", "done"}]
      BY <2>1, <2>2 DEF FI!Upserted, IntakeTypes
    <2> QED  BY <2>1, <2>2, <2>3 DEF IntakeTypes, FI!Position, FI!Missing
  <1>7. ASSUME NEW r \in Replicas, FI!RecordAdmission(r) PROVE IntakeTypes'
    <2>1. /\ pc[r] \in {"admit", "refuse"}
          /\ admissions' = admissions \cup {log[next[r] + 1].identity}
          /\ \/ next' = [next EXCEPT ![r] = next[r] + 1] /\ pc' = [pc EXCEPT ![r] = "read"]
             \/ next' = next /\ pc' = [pc EXCEPT ![r] = "remove"]
          /\ UNCHANGED <<log, running, row, stored, offered, missed, crashes, claims>>
      BY <1>7 DEF FI!RecordAdmission, FI!Goto, FI!Done, FI!Current, FI!Position
    <2>2. next[r] + 1 \in DOMAIN log /\ r \in running
      BY <2>1 DEF IntakeTypes, FI!Position
    <2>3. log[next[r] + 1].identity \in Identities
      BY <2>2 DEF FI!Record
    <2> QED  BY <2>1, <2>2, <2>3 DEF IntakeTypes, FI!Position
  <1>8. ASSUME NEW r \in Replicas, FI!RemoveQueued(r) PROVE IntakeTypes'
    <2>1. next' = [next EXCEPT ![r] = next[r] + 1] /\ pc' = [pc EXCEPT ![r] = "read"]
          /\ pc[r] = "remove" /\ row' = FI!Removed
          /\ UNCHANGED <<log, running, admissions, stored, offered, missed, crashes, claims>>
      BY <1>8 DEF FI!RemoveQueued, FI!Done
    <2>2. next[r] + 1 \in DOMAIN log /\ r \in running
      BY <2>1 DEF IntakeTypes, FI!Position
    <2> QED  BY <1>2, <2>1, <2>2 DEF IntakeTypes, FI!Position
  <1>9. ASSUME NEW r \in Replicas, FI!Snapshot(r) PROVE IntakeTypes'
    BY <1>9 DEF FI!Snapshot, IntakeTypes, FI!Position
  <1>10. ASSUME NEW r \in Replicas, FI!Crash(r) PROVE IntakeTypes'
    <2>1. /\ r \in running /\ crashes < CrashLimit /\ crashes' = crashes + 1
          /\ next' = [next EXCEPT ![r] = stored[r]] /\ pc' = [pc EXCEPT ![r] = "read"]
          /\ UNCHANGED <<log, running, row, admissions, stored, offered, missed, claims>>
      BY <1>10 DEF FI!Crash
    <2> QED  BY <2>1 DEF IntakeTypes, FI!Position
  <1>11. ASSUME FI!Claim \/ FI!EndClaim PROVE IntakeTypes'
    <2>1. row' \in [rev: DOMAIN log \cup {0}, state: {"none", "queued", "processing", "done"}]
      BY <1>11 DEF FI!Claim, FI!EndClaim, IntakeTypes
    <2> QED  BY <1>11, <2>1 DEF FI!Claim, FI!EndClaim, IntakeTypes, FI!Position
  <1>12. ASSUME UNCHANGED FI!vars PROVE IntakeTypes'
    BY <1>12 DEF FI!vars, IntakeTypes, FI!Position
  <1> QED  BY <1>3, <1>4, <1>5, <1>6, <1>7, <1>8, <1>9, <1>10, <1>11, <1>12 DEF FI!Next

LEMMA AloneKept ==
    ASSUME FI!IntakeAssumption, IntakeTypes, [FI!Next]_FI!vars, NEW r \in Replicas, running = {r}, Alone(r)
    PROVE  Alone(r)'
  <1> USE LogTypes
  <1>1. FI!Position(r) \in Nat /\ FI!Position(r) = next[r] + 1
        /\ FI!Current(r) = log[next[r] + 1]
    BY DEF FI!Position, FI!Current
  <1>2. \A s \in Replicas \ {r} : pc[s] = "read" /\ next[s] = 0 /\ s \notin running
        /\ stored[s] <= next[s]
    BY DEF IntakeTypes
  <1>3. next \in [Replicas -> DOMAIN log \cup {0}]
        /\ pc \in [Replicas -> {"read", "enqueue", "admit", "refuse", "remove"}]
    BY DEF IntakeTypes
  <1>4. FI!Removed.state \in {"none", "processing", "done"} /\ (FI!Removed.state # "none" => FI!Removed = row)
    BY DEF FI!Removed, FI!NoRow
  <1>5. CASE FI!Withdraw(r)
    <2>1. next'[r] = next[r] + 1 /\ pc'[r] = "read" /\ log[next[r] + 1].kind = "other"
          /\ row' = FI!Removed /\ missed' = FI!Missing(next[r] + 1) /\ next[r] + 1 \in DOMAIN log
          /\ log' = log /\ admissions' = admissions /\ offered' = offered
      BY <1>1, <1>3, <1>5 DEF FI!Withdraw, FI!Done, FI!Read
    <2>2. row'.state # "none" => row' = row /\ next[r] + 1 \in missed' /\ missed \subseteq missed'
      BY <1>4, <2>1 DEF FI!Removed, FI!NoRow, FI!Missing
    <2> QED  BY <1>1, <2>1, <2>2 DEF Alone, AdmittedBefore, FI!Position, FI!Current
  <1>6. CASE FI!PassOver(r)
    <2>1. next'[r] = next[r] + 1 /\ pc'[r] = "read" /\ log[next[r] + 1].kind # "other"
          /\ FI!Observed(r) /\ row' = row /\ missed' = missed /\ next[r] + 1 \in DOMAIN log
          /\ log' = log /\ admissions' = admissions /\ offered' = offered
      BY <1>1, <1>3, <1>6 DEF FI!PassOver, FI!Done, FI!Read
    <2> QED  BY <1>1, <2>1 DEF Alone, AdmittedBefore, FI!Position, FI!Current, FI!Observed
  <1>7. CASE FI!LoadEvidence(r)
    <2>1. next' = next /\ pc'[r] \in {"enqueue", "refuse"} /\ log[next[r] + 1].kind = "candidate"
          /\ log[next[r] + 1].identity \notin admissions
          /\ row' = row /\ missed' = missed /\ log' = log /\ admissions' = admissions
          /\ offered' = offered
      BY <1>1, <1>3, <1>7 DEF FI!LoadEvidence, FI!Goto, FI!Observed
    <2> QED  BY <1>1, <2>1 DEF Alone, AdmittedBefore, FI!Position, FI!Current
  <1>8. CASE FI!Enqueue(r)
    <2>1. next' = next /\ pc'[r] = "admit" /\ pc[r] = "enqueue" /\ row' = FI!Upserted(next[r] + 1)
          /\ missed' = FI!Missing(next[r] + 1) /\ log' = log /\ admissions' = admissions
          /\ offered' = offered \cup {next[r] + 1}
      BY <1>1, <1>3, <1>8 DEF FI!Enqueue, FI!Goto
    <2>2. next[r] + 1 \in DOMAIN log /\ log[next[r] + 1].kind = "candidate"
          /\ log[next[r] + 1].identity \notin admissions
      BY <1>1, <2>1 DEF IntakeTypes, Alone
    <2>3. \A i \in offered : i <= next[r] + 1
      BY <2>2 DEF Alone, AdmittedBefore, IntakeTypes
    <2>4. \/ row' = [rev |-> next[r] + 1, state |-> "queued"]
          \/ row' = row /\ next[r] + 1 \in missed' /\ missed \subseteq missed' /\ row.state # "none"
      BY <2>1 DEF FI!Upserted, FI!Missing
    <2> QED  BY <1>1, <2>1, <2>2, <2>3, <2>4 DEF Alone, AdmittedBefore, FI!Position, FI!Current
  <1>9. CASE FI!RecordAdmission(r)
    <2>1. /\ pc[r] \in {"admit", "refuse"}
          /\ admissions' = admissions \cup {log[next[r] + 1].identity}
          /\ \/ next'[r] = next[r] + 1 /\ pc'[r] = "read" /\ pc[r] = "admit"
             \/ next' = next /\ pc'[r] = "remove"
          /\ UNCHANGED <<log, row, offered, missed>>
      BY <1>1, <1>3, <1>9 DEF FI!RecordAdmission, FI!Goto, FI!Done
    <2>2. log[next[r] + 1].kind = "candidate"
      BY <1>1, <2>1 DEF Alone
    <2> QED  BY <1>1, <2>1, <2>2 DEF Alone, AdmittedBefore, FI!Position, FI!Current
  <1>10. CASE FI!RemoveQueued(r)
    <2>1. next'[r] = next[r] + 1 /\ pc'[r] = "read" /\ pc[r] = "remove" /\ row' = FI!Removed
          /\ UNCHANGED <<log, admissions, offered, missed>>
      BY <1>3, <1>10 DEF FI!RemoveQueued, FI!Done
    <2>2. log[next[r] + 1].kind = "candidate" /\ log[next[r] + 1].identity \in admissions
      BY <1>1, <2>1 DEF Alone
    <2> QED  BY <1>1, <1>4, <2>1, <2>2 DEF Alone, AdmittedBefore, FI!Position, FI!Current
  <1>11. CASE FI!Snapshot(r)
    <2>1. pc' = pc /\ next' = next /\ UNCHANGED <<log, row, admissions, offered, missed>>
      BY <1>11 DEF FI!Snapshot
    <2> QED  BY <2>1 DEF Alone, AdmittedBefore, FI!Position, FI!Current
  <1>12. CASE FI!Crash(r)
    <2>1. next'[r] = stored[r] /\ pc'[r] = "read" /\ stored[r] <= next[r]
          /\ UNCHANGED <<log, row, admissions, offered, missed>>
      BY <1>3, <1>12 DEF FI!Crash, IntakeTypes
    <2> QED  BY <1>1, <2>1 DEF Alone, AdmittedBefore, FI!Position, FI!Current
  <1>13. CASE FI!Claim \/ FI!EndClaim
    <2>1. /\ pc' = pc /\ next' = next /\ UNCHANGED <<log, admissions, offered, missed>>
          /\ row'.rev = row.rev /\ row.state # "none"
      BY <1>13 DEF FI!Claim, FI!EndClaim
    <2> QED  BY <2>1 DEF Alone, AdmittedBefore, FI!Position, FI!Current
  <1>14. ASSUME NEW s \in Replicas \ {r},
                \/ FI!Withdraw(s) \/ FI!PassOver(s) \/ FI!LoadEvidence(s) \/ FI!Enqueue(s)
                \/ FI!RecordAdmission(s) \/ FI!RemoveQueued(s) \/ FI!Snapshot(s) \/ FI!Crash(s)
         PROVE  FALSE
    BY <1>2, <1>14 DEF FI!Withdraw, FI!PassOver, FI!LoadEvidence, FI!Enqueue, FI!RecordAdmission,
       FI!RemoveQueued,
                       FI!Snapshot, FI!Crash, FI!Read
  <1>15. CASE UNCHANGED FI!vars
    <2>1. pc' = pc /\ next' = next /\ UNCHANGED <<log, row, admissions, offered, missed>>
      BY <1>15 DEF FI!vars
    <2> QED  BY <2>1 DEF Alone, AdmittedBefore, FI!Position, FI!Current
  <1> QED  BY <1>5, <1>6, <1>7, <1>8, <1>9, <1>10, <1>11, <1>12, <1>13, <1>14, <1>15 DEF FI!Next

LEMMA IntakeNext == ASSUME FI!IntakeAssumption, IntakeInv, [FI!Next]_FI!vars PROVE IntakeInv'
  <1>1. running' = running
    BY DEF FI!Next, FI!vars, FI!Withdraw, FI!PassOver, FI!LoadEvidence, FI!Enqueue,
       FI!RecordAdmission, FI!RemoveQueued,
           FI!Snapshot, FI!Crash, FI!Claim, FI!EndClaim
  <1>2. IntakeTypes'
    BY IntakeTypesKept DEF IntakeInv
  <1>3. ASSUME NEW r \in Replicas, running = {r} PROVE Alone(r)'
    BY <1>3, AloneKept DEF IntakeInv
  <1> QED  BY <1>1, <1>2, <1>3 DEF IntakeInv

-----------------------------------------------------------------------------
(* EvidenceGraph. *)
(* The instance counts as the module it is taken in does. *)
LEMMA GraphSize == \A S : EG!Cardinality(S) = Cardinality(S)
  BY DEF Cardinality, EG!Cardinality

(* A graph as it is kept: whole edges, nodes apart by their ids, with sources. *)
Sourced(nodes) == \A n \in nodes : n.spans \subseteq GraphSpans /\ (n.groundable => n.spans # {})
Apart(nodes) == \A m, n \in nodes : m.id = n.id => m = n

GraphInv ==
    /\ graph = [nodes |-> graph.nodes, edges |-> graph.edges]
    /\ graph.nodes \subseteq EG!Node /\ graph.edges \subseteq EG!Edge /\ IsFiniteSet(graph.nodes)
    /\ Sourced(graph.nodes) /\ Apart(graph.nodes)
    /\ graph.edges = EG!Between(graph.edges, graph.nodes)
    /\ pc \in {"pass", "mend_pass", "critic", "mend_critic", "repair", "mend_repair",
               "finish", "done", "failed"}
    /\ pass \in 1..GraphPasses /\ round \in 0..2 /\ critique \in EG!Critique
    /\ critique.accepted => critique.invalid = {}
    /\ pc = "done" => graph.nodes # {} /\ critique.invalid \cap EG!IdsOf(graph.nodes) = {}

-----------------------------------------------------------------------------
LEMMA AsManyIds ==
    ASSUME NEW nodes, IsFiniteSet(nodes), Apart(nodes)
    PROVE  Cardinality(EG!IdsOf(nodes)) = Cardinality(nodes)
  <1> DEFINE f == [n \in nodes |-> n.id]
  <1>1. f \in [nodes -> EG!IdsOf(nodes)] /\ \A m, n \in nodes : f[m] = f[n] => m = n
    BY DEF Apart, EG!IdsOf
  <1>2. \A i \in EG!IdsOf(nodes) : \E n \in nodes : f[n] = i
    BY DEF EG!IdsOf
  <1> HIDE DEF f
  <1>3. f \in Bijection(nodes, EG!IdsOf(nodes))
    BY <1>1, <1>2 DEF Bijection, Injection, Surjection, IsInjective
  <1>4. ExistsBijection(nodes, EG!IdsOf(nodes))
    BY <1>3 DEF ExistsBijection
  <1> QED  BY <1>4, FS_Bijection

LEMMA SupportedIs ==
    ASSUME NEW n \in EG!Node
    PROVE  /\ EG!Supported(n) \in EG!Node /\ EG!Supported(n).id = n.id
           /\ EG!Supported(n).groundable = n.groundable
           /\ EG!Supported(n).spans \subseteq GraphSpans
  <1>1. n = [id |-> n.id, groundable |-> n.groundable, spans |-> n.spans]
    BY DEF EG!Node
  <1>2. EG!Supported(n) = [id |-> n.id, groundable |-> n.groundable, spans |-> n.spans \cap GraphSpans]
    BY <1>1 DEF EG!Supported
  <1> QED  BY <1>2 DEF EG!Node

LEMMA KeptAre ==
    ASSUME NEW s \in Seq(EG!Node)
    PROVE  /\ EG!KeptNodes(s) \subseteq EG!Node /\ IsFiniteSet(EG!KeptNodes(s))
           /\ Sourced(EG!KeptNodes(s)) /\ Apart(EG!KeptNodes(s))
  <1> DEFINE usable == {i \in EG!FirstUnique(s) : EG!IsGrounded(s[i])}
  <1>0. PICK chosen : chosen = {i \in usable : Cardinality({j \in usable : j <= i}) <= MaxNodes}
    OBVIOUS
  <1>1. EG!KeptNodes(s) = {EG!Supported(s[i]) : i \in chosen} /\ chosen \subseteq usable
    BY GraphSize, <1>0 DEF EG!KeptNodes
  <1>2. DOMAIN s = 1..Len(s) /\ Len(s) \in Nat /\ \A i \in DOMAIN s : s[i] \in EG!Node
    OBVIOUS
  <1>3. /\ chosen \subseteq DOMAIN s
        /\ \A i \in chosen : EG!IsGrounded(s[i])
        /\ \A i, j \in chosen : s[i].id = s[j].id => i = j
    <2>1. \A i \in chosen : i \in DOMAIN s /\ EG!IsGrounded(s[i])
                            /\ \A j \in 1..(i - 1) : s[j].id # s[i].id
      BY <1>1 DEF EG!FirstUnique
    <2> QED  BY <1>2, <2>1
  <1> HIDE DEF usable
  <1>4. \A i \in chosen : /\ EG!Supported(s[i]) \in EG!Node /\ EG!Supported(s[i]).id = s[i].id
                          /\ EG!Supported(s[i]).groundable = s[i].groundable
                          /\ EG!Supported(s[i]).spans \subseteq GraphSpans
    <2> TAKE i \in chosen
    <2>1. s[i] \in EG!Node
      BY <1>2, <1>3
    <2> QED  BY <2>1, SupportedIs
  <1>5. EG!KeptNodes(s) \subseteq EG!Node /\ Sourced(EG!KeptNodes(s)) /\ Apart(EG!KeptNodes(s))
    BY <1>1, <1>3, <1>4 DEF Sourced, Apart, EG!IsGrounded
  <1>6. IsFiniteSet(EG!KeptNodes(s))
    <2> DEFINE n == Len(s)
               f == [i \in chosen |-> EG!Supported(s[i])]
    <2>1. IsFiniteSet(chosen)
      <3>1. n \in Nat /\ chosen \subseteq 1..n
        BY <1>2, <1>3
      <3> HIDE DEF n
      <3>2. IsFiniteSet(1..n)
        BY <3>1, FS_Interval
      <3> QED  BY <3>1, <3>2, FS_Subset
    <2>2. f \in [chosen -> EG!KeptNodes(s)] /\ \A x \in EG!KeptNodes(s) : \E i \in chosen : f[i] = x
      BY <1>1
    <2> HIDE DEF f
    <2>3. f \in Surjection(chosen, EG!KeptNodes(s))
      BY <2>2 DEF Surjection
    <2> QED  BY <2>1, <2>3, FS_Surjection
  <1> QED  BY <1>5, <1>6

LEMMA BetweenTwice ==
    ASSUME NEW edges, NEW nodes
    PROVE  EG!Between(edges, nodes) \subseteq edges
           /\ EG!Between(EG!Between(edges, nodes), nodes) = EG!Between(edges, nodes)
  BY DEF EG!Between

LEMMA GraphIsValid == ASSUME GraphInv PROVE EG!Valid(graph)
  BY GraphSize, AsManyIds DEF GraphInv, EG!Valid, Sourced

LEMMA MergedIsValid ==
    ASSUME EG!GraphAssumption, GraphInv, NEW p \in Patches
    PROVE  LET g == EG!Merge(EG!Bounded(p)) IN
           /\ g = [nodes |-> g.nodes, edges |-> g.edges]
           /\ g.nodes \subseteq EG!Node /\ g.edges \subseteq EG!Edge /\ IsFiniteSet(g.nodes)
           /\ Sourced(g.nodes) /\ Apart(g.nodes) /\ g.edges = EG!Between(g.edges, g.nodes)
           /\ EG!Valid(g)
  <1> DEFINE b == EG!Bounded(p)
             gone == b.drop \cup EG!IdsOf(b.nodes)
             nodes == {n \in graph.nodes : n.id \notin gone} \cup b.nodes
             all == (graph.edges \cup b.edges) \ b.cut
             g == EG!Merge(b)
  <1>1. p.nodes \in Seq(EG!Node) /\ p.edges \subseteq EG!Edge
    BY DEF EG!GraphAssumption, EG!Patch
  <1>2. b.nodes = EG!KeptNodes(p.nodes) /\ b.edges \subseteq EG!Edge
    BY <1>1 DEF EG!Bounded
  <1>3. g = [nodes |-> nodes, edges |-> EG!Between(all, nodes)]
    BY DEF EG!Merge
  <1>4. /\ b.nodes \subseteq EG!Node /\ IsFiniteSet(b.nodes) /\ Sourced(b.nodes) /\ Apart(b.nodes)
        /\ graph.edges \subseteq EG!Edge /\ graph.nodes \subseteq EG!Node
        /\ IsFiniteSet(graph.nodes)
        /\ Sourced(graph.nodes) /\ Apart(graph.nodes)
    BY <1>1, <1>2, KeptAre DEF GraphInv
  <1> HIDE DEF b, g
  <1>5. nodes \subseteq EG!Node /\ Sourced(nodes) /\ Apart(nodes)
    BY <1>4 DEF Sourced, Apart, EG!IdsOf
  <1>6. IsFiniteSet(nodes)
    <2>1. IsFiniteSet({n \in graph.nodes : n.id \notin gone})
      BY <1>4, FS_Subset
    <2> QED  BY <1>4, <2>1, FS_Union
  <1>7. EG!Between(all, nodes) \subseteq EG!Edge
        /\ EG!Between(EG!Between(all, nodes), nodes) = EG!Between(all, nodes)
    BY <1>2, <1>4, BetweenTwice
  <1>8. g.nodes = nodes /\ g.edges = EG!Between(all, nodes)
    BY <1>3
  <1> HIDE DEF nodes, all
  <1>9. Cardinality(EG!IdsOf(g.nodes)) = Cardinality(g.nodes)
    BY <1>5, <1>6, <1>8, AsManyIds
  <1>10. EG!Valid(g)
    BY GraphSize, <1>5, <1>7, <1>8, <1>9 DEF EG!Valid, Sourced
  <1> QED  BY <1>3, <1>5, <1>6, <1>7, <1>8, <1>10 DEF b, g

LEMMA GraphInit == ASSUME EG!GraphAssumption, EG!Init PROVE GraphInv
  BY FS_EmptySet DEF EG!GraphAssumption, EG!Init, GraphInv, Sourced, Apart, EG!Between,
     EG!NoCritique, EG!Critique,
                     EG!Edge

LEMMA PatchKeeps == ASSUME EG!GraphAssumption, GraphInv, EG!TakePatch PROVE GraphInv'
  <1>1. PICK p \in Patches :
          /\ graph' = EG!Merge(EG!Bounded(p))
          /\ IF EG!Valid(EG!Merge(EG!Bounded(p))) THEN EG!Continue ELSE pc' = "failed" /\ UNCHANGED pass
    BY DEF EG!TakePatch
  <1>2. /\ graph' = [nodes |-> graph'.nodes, edges |-> graph'.edges]
        /\ graph'.nodes \subseteq EG!Node /\ graph'.edges \subseteq EG!Edge
        /\ IsFiniteSet(graph'.nodes)
        /\ Sourced(graph'.nodes) /\ Apart(graph'.nodes)
        /\ graph'.edges = EG!Between(graph'.edges, graph'.nodes)
    BY <1>1, MergedIsValid
  <1>3. EG!Continue /\ round' = round /\ critique' = critique
    BY <1>1, MergedIsValid DEF EG!TakePatch
  <1>4. pc' \in {"critic", "pass"} /\ pass' \in 1..GraphPasses
    BY <1>3 DEF EG!Continue, GraphInv, EG!GraphAssumption
  <1> QED  BY <1>2, <1>3, <1>4 DEF GraphInv

LEMMA CritiqueKeeps == ASSUME EG!GraphAssumption, GraphInv, EG!TakeCritique PROVE GraphInv'
  <1>1. PICK c \in EG!Critique :
          /\ critique' = EG!Decided(c)
          /\ IF ~EG!Decided(c).accepted /\ round < 2
             THEN pc' = "repair" /\ round' = round + 1
             ELSE pc' = "finish" /\ UNCHANGED round
    BY DEF EG!TakeCritique
  <1>2. EG!Decided(c) \in EG!Critique /\ (EG!Decided(c).accepted => EG!Decided(c).invalid = {})
    BY DEF EG!Decided, EG!Critique
  <1>3. graph' = graph /\ pass' = pass
    BY DEF EG!TakeCritique
  <1>4. pc' \in {"repair", "finish"} /\ round' \in 0..2
    BY <1>1 DEF GraphInv
  <1> QED  BY <1>1, <1>2, <1>3, <1>4 DEF GraphInv

LEMMA EndKeeps == ASSUME EG!GraphAssumption, GraphInv, EG!EndCompile PROVE GraphInv'
  <1> DEFINE nodes == {n \in graph.nodes : critique.accepted \/ n.id \notin critique.invalid}
             edges == EG!Between(graph.edges, nodes)
  <1>1. graph' = [nodes |-> nodes, edges |-> edges] /\ pass' = pass /\ round' = round
        /\ critique' = critique
    BY DEF EG!EndCompile, EG!Pruned
  <1>2. nodes \subseteq EG!Node /\ Sourced(nodes) /\ Apart(nodes) /\ nodes \subseteq graph.nodes
    BY DEF GraphInv, Sourced, Apart
  <1>3. critique.invalid \cap EG!IdsOf(nodes) = {}
    BY DEF GraphInv, EG!IdsOf
  <1>4. pc' \in {"failed", "done"} /\ (pc' = "done" => nodes # {})
    BY DEF EG!EndCompile, EG!Pruned
  <1> HIDE DEF nodes
  <1>5. IsFiniteSet(nodes)
    BY <1>2, FS_Subset DEF GraphInv
  <1>6. edges \subseteq EG!Edge /\ edges = EG!Between(edges, nodes)
    BY BetweenTwice DEF GraphInv
  <1> HIDE DEF edges
  <1> QED  BY <1>1, <1>2, <1>3, <1>4, <1>5, <1>6 DEF GraphInv

LEMMA GraphNext == ASSUME EG!GraphAssumption, GraphInv, [EG!Next]_EG!vars PROVE GraphInv'
  <1>1. ASSUME EG!MalformedPatch \/ EG!MalformedCritique PROVE GraphInv'
    <2>1. graph' = graph /\ pass' = pass /\ round' = round /\ critique' = critique
          /\ pc' \in {"mend_pass", "mend_repair", "mend_critic", "failed"}
      BY <1>1 DEF EG!MalformedPatch, EG!MalformedCritique
    <2> QED  BY <2>1 DEF GraphInv
  <1>2. ASSUME UNCHANGED EG!vars PROVE GraphInv'
    BY <1>2 DEF EG!vars, GraphInv
  <1> QED  BY <1>1, <1>2, PatchKeeps, CritiqueKeeps, EndKeeps DEF EG!Next

LEMMA GraphSays == ASSUME GraphInv PROVE EG!TypeOK /\ EG!GraphIsGrounded
  BY GraphIsValid DEF GraphInv, EG!TypeOK, EG!GraphIsGrounded

-----------------------------------------------------------------------------
(* Sums over finite sets, by the smallest set for which they would not add up. *)
Some(s) == CHOOSE x \in s : TRUE

(* A function that adds f up over every subset of S, and what its CHOOSE is. *)
AddsUp(f, S, g) ==
    g = [s \in SUBSET S |-> IF s = {} THEN 0 ELSE f[Some(s)] + g[s \ {Some(s)}]]

LEMMA SumIs ==
    ASSUME NEW f, NEW S
    PROVE  SumFunctionOnSet(f, S) = (CHOOSE g : AddsUp(f, S, g))[S]
  BY DEF SumFunctionOnSet, FoldFunctionOnSet, MapThenFoldSet, AddsUp, Some

(* Of some subsets of a finite set one has no other among its subsets. *)
LEMMA LeastSubset ==
    ASSUME NEW S, IsFiniteSet(S), NEW T, T \subseteq SUBSET S, T # {}
    PROVE  \E s \in T : \A t \in T : t \subseteq s => t = s
  <1>1. FiniteSubsetsOf(S) = SUBSET S
    BY FS_FiniteSubsetsOfFinite
  <1>2. IsWellFoundedOn(StrictSubsetOrdering(S), SUBSET S)
    BY <1>1, FS_StrictSubsetOrderingWellFounded
  <1>3. PICK s \in T : \A t \in T : ~(<<t, s>> \in StrictSubsetOrdering(S))
    BY <1>2, WFMin
  <1>4. \A t \in T : t \subseteq s => t = s
    BY <1>3 DEF StrictSubsetOrdering
  <1> QED  BY <1>4

Sums(f, s) ==
    SumFunctionOnSet(f, s) =
        IF s = {} THEN 0 ELSE f[Some(s)] + SumFunctionOnSet(f, s \ {Some(s)})

LEMMA SumStep ==
    ASSUME NEW f, NEW S, IsFiniteSet(S) PROVE Sums(f, S)
  <1> SUFFICES ASSUME ~Sums(f, S) PROVE FALSE
    OBVIOUS
  <1> DEFINE Bad == {s \in SUBSET S : ~Sums(f, s)}
  <1>1. Bad \subseteq SUBSET S /\ Bad # {}
    OBVIOUS
  <1> HIDE DEF Bad
  <1>2. PICK T \in Bad : \A t \in Bad : t \subseteq T => t = T
    BY <1>1, LeastSubset
  <1> USE DEF Bad
  <1>3. T \in SUBSET S /\ ~Sums(f, T)
    BY <1>2
  <1>4. IsFiniteSet(T)
    BY <1>3, FS_Subset
  <1>5. \A t \in SUBSET T : t # T => Sums(f, t)
    BY <1>2, <1>3
  <1>6. \A s \in SUBSET T : s # {} =>
            Some(s) \in s /\ s \ {Some(s)} \in SUBSET T /\ s \ {Some(s)} # T
    BY DEF Some
  <1> DEFINE g == [s \in SUBSET T |->
                      IF s = {} THEN 0 ELSE f[Some(s)] + SumFunctionOnSet(f, s \ {Some(s)})]
  <1> HIDE DEF Bad
  <1>7. AddsUp(f, T, g)
    <2>1. \A t \in SUBSET T : t # T => g[t] = SumFunctionOnSet(f, t)
      BY <1>5 DEF Sums
    <2>2. \A s \in SUBSET T : s # {} =>
              g[s \ {Some(s)}] = SumFunctionOnSet(f, s \ {Some(s)})
      <3> HIDE DEF g
      <3> QED  BY <1>6, <2>1
    <2>3. g = [s \in SUBSET T |-> IF s = {} THEN 0 ELSE f[Some(s)] + g[s \ {Some(s)}]]
      BY <2>2
    <2> HIDE DEF g
    <2> QED  BY <2>3 DEF AddsUp
  <1> HIDE DEF g
  <1> DEFINE h == CHOOSE x : AddsUp(f, T, x)
  <1>8. AddsUp(f, T, h)
    BY <1>7
  <1>9. SumFunctionOnSet(f, T) = h[T]
    BY SumIs
  <1> HIDE DEF h
  <1>10. \A s \in SUBSET T : h[s] = IF s = {} THEN 0 ELSE f[Some(s)] + h[s \ {Some(s)}]
    BY <1>8 DEF AddsUp
  <1>11. \A s \in SUBSET T : s # T => h[s] = SumFunctionOnSet(f, s)
    <2> SUFFICES ASSUME NEW r \in SUBSET T, r # T, h[r] # SumFunctionOnSet(f, r) PROVE FALSE
      OBVIOUS
    <2> DEFINE Off == {s \in SUBSET T : s # T /\ h[s] # SumFunctionOnSet(f, s)}
    <2>1. Off \subseteq SUBSET T /\ Off # {}
      OBVIOUS
    <2> HIDE DEF Off
    <2>2. PICK s \in Off : \A t \in Off : t \subseteq s => t = s
      BY <1>4, <2>1, LeastSubset
    <2> USE DEF Off
    <2>3. s \in SUBSET T /\ s # T /\ h[s] # SumFunctionOnSet(f, s) /\ Sums(f, s)
      BY <1>5, <2>2
    <2>4. s # {}
      BY <1>10, <2>3 DEF Sums
    <2>5. Some(s) \in s /\ s \ {Some(s)} \in SUBSET T /\ s \ {Some(s)} # T
      BY <1>6, <2>3, <2>4
    <2>6. s \ {Some(s)} \notin Off
      BY <2>2, <2>5
    <2>7. h[s \ {Some(s)}] = SumFunctionOnSet(f, s \ {Some(s)})
      BY <2>5, <2>6
    <2>8. h[s] = f[Some(s)] + h[s \ {Some(s)}]
      BY <1>10, <2>3, <2>4
    <2> QED  BY <2>3, <2>4, <2>7, <2>8 DEF Sums
  <1>12. T # {} => h[T \ {Some(T)}] = SumFunctionOnSet(f, T \ {Some(T)})
    BY <1>6, <1>11
  <1> QED  BY <1>3, <1>9, <1>10, <1>12 DEF Sums

LEMMA SumEmpty == \A f : SumFunctionOnSet(f, {}) = 0
  BY SumStep, FS_EmptySet DEF Sums

(* A sum of natural numbers is one. *)
LEMMA SumType ==
    ASSUME NEW f, NEW S, IsFiniteSet(S), \A x \in S : f[x] \in Nat
    PROVE  SumFunctionOnSet(f, S) \in Nat
  <1> SUFFICES ASSUME SumFunctionOnSet(f, S) \notin Nat PROVE FALSE
    OBVIOUS
  <1> DEFINE Bad == {s \in SUBSET S : SumFunctionOnSet(f, s) \notin Nat}
  <1>1. PICK s \in Bad : \A t \in Bad : t \subseteq s => t = s
    <2>1. Bad \subseteq SUBSET S /\ Bad # {}
      OBVIOUS
    <2> HIDE DEF Bad
    <2> QED  BY <2>1, LeastSubset
  <1>2. s \in SUBSET S /\ SumFunctionOnSet(f, s) \notin Nat
    BY <1>1
  <1>3. Sums(f, s)
    BY <1>2, SumStep, FS_Subset
  <1>4. s # {}
    BY <1>2, <1>3 DEF Sums
  <1>5. Some(s) \in s
    BY <1>4 DEF Some
  <1>6. SumFunctionOnSet(f, s \ {Some(s)}) \in Nat
    BY <1>1, <1>2, <1>5
  <1>7. f[Some(s)] \in Nat
    BY <1>2, <1>5
  <1> QED  BY <1>2, <1>3, <1>4, <1>6, <1>7 DEF Sums

(* The values outside of the set do not count. *)
LEMMA SumAgrees ==
    ASSUME NEW f, NEW e, NEW S, IsFiniteSet(S), \A x \in S : f[x] = e[x]
    PROVE  SumFunctionOnSet(f, S) = SumFunctionOnSet(e, S)
  <1> SUFFICES ASSUME SumFunctionOnSet(f, S) # SumFunctionOnSet(e, S) PROVE FALSE
    OBVIOUS
  <1> DEFINE Bad == {s \in SUBSET S : SumFunctionOnSet(f, s) # SumFunctionOnSet(e, s)}
  <1>1. PICK s \in Bad : \A t \in Bad : t \subseteq s => t = s
    <2>1. Bad \subseteq SUBSET S /\ Bad # {}
      OBVIOUS
    <2> HIDE DEF Bad
    <2> QED  BY <2>1, LeastSubset
  <1>2. s \in SUBSET S /\ SumFunctionOnSet(f, s) # SumFunctionOnSet(e, s)
    BY <1>1
  <1>3. Sums(f, s) /\ Sums(e, s)
    BY <1>2, SumStep, FS_Subset
  <1>4. s # {}
    BY <1>2, <1>3 DEF Sums
  <1>5. Some(s) \in s
    BY <1>4 DEF Some
  <1>6. SumFunctionOnSet(f, s \ {Some(s)}) = SumFunctionOnSet(e, s \ {Some(s)})
    BY <1>1, <1>2, <1>5
  <1>7. f[Some(s)] = e[Some(s)]
    BY <1>2, <1>5
  <1> QED  BY <1>2, <1>3, <1>4, <1>6, <1>7 DEF Sums

(* Any element may be taken out first. *)
LEMMA SumWithout ==
    ASSUME NEW f, NEW S, IsFiniteSet(S), \A x \in S : f[x] \in Nat, NEW y \in S
    PROVE  SumFunctionOnSet(f, S) = f[y] + SumFunctionOnSet(f, S \ {y})
  <1> DEFINE P(s) == \A z \in s : SumFunctionOnSet(f, s) = f[z] + SumFunctionOnSet(f, s \ {z})
  <1> SUFFICES ASSUME ~P(S) PROVE FALSE
    OBVIOUS
  <1> DEFINE Bad == {s \in SUBSET S : ~P(s)}
  <1>1. PICK s \in Bad : \A t \in Bad : t \subseteq s => t = s
    <2>1. Bad \subseteq SUBSET S /\ Bad # {}
      OBVIOUS
    <2> HIDE DEF Bad
    <2> QED  BY <2>1, LeastSubset
  <1>2. s \in SUBSET S /\ ~P(s) /\ \A t \in SUBSET s : t # s => P(t)
    BY <1>1
  <1> HIDE DEF Bad
  <1>3. PICK z \in s : SumFunctionOnSet(f, s) # f[z] + SumFunctionOnSet(f, s \ {z})
    BY <1>2
  <1> DEFINE p == Some(s)
             r == (s \ {p}) \ {z}
  <1>4. p \in s
    BY DEF Some
  <1>5. Sums(f, s)
    BY <1>2, SumStep, FS_Subset
  <1>6. SumFunctionOnSet(f, s) = f[p] + SumFunctionOnSet(f, s \ {p})
    BY <1>5, <1>4 DEF Sums
  <1>7. p # z
    BY <1>3, <1>6
  <1> HIDE DEF p
  <1>8. SumFunctionOnSet(f, s \ {p}) = f[z] + SumFunctionOnSet(f, r)
    <2>1. s \ {p} \in SUBSET s /\ s \ {p} # s /\ z \in s \ {p}
      BY <1>4, <1>7
    <2>2. P(s \ {p})
      BY <1>2, <2>1
    <2> QED  BY <2>1, <2>2
  <1>9. SumFunctionOnSet(f, s \ {z}) = f[p] + SumFunctionOnSet(f, r)
    <2>1. s \ {z} \in SUBSET s /\ s \ {z} # s /\ p \in s \ {z} /\ (s \ {z}) \ {p} = r
      BY <1>3, <1>4, <1>7
    <2>2. P(s \ {z})
      BY <1>2, <2>1
    <2> QED  BY <2>1, <2>2
  <1>10. f[p] \in Nat /\ f[z] \in Nat
    BY <1>2, <1>3, <1>4
  <1>11. SumFunctionOnSet(f, r) \in Nat
    <2>1. IsFiniteSet(r) /\ \A x \in r : f[x] \in Nat
      BY <1>2, FS_Subset
    <2> HIDE DEF r
    <2> QED  BY <2>1, SumType
  <1> HIDE DEF r
  <1> QED  BY <1>3, <1>6, <1>8, <1>9, <1>10, <1>11

LEMMA SumWith ==
    ASSUME NEW f, NEW S, IsFiniteSet(S), NEW y, y \notin S, \A x \in S \cup {y} : f[x] \in Nat
    PROVE  SumFunctionOnSet(f, S \cup {y}) = f[y] + SumFunctionOnSet(f, S)
  <1>1. IsFiniteSet(S \cup {y}) /\ (S \cup {y}) \ {y} = S
    BY FS_AddElement
  <1> DEFINE T == S \cup {y}
  <1>2. SumFunctionOnSet(f, T) = f[y] + SumFunctionOnSet(f, T \ {y})
    <2>1. y \in T /\ IsFiniteSet(T) /\ \A x \in T : f[x] \in Nat
      BY <1>1
    <2> HIDE DEF T
    <2> QED  BY <2>1, SumWithout
  <1> QED  BY <1>1, <1>2

(* Smaller values have a smaller sum. *)
LEMMA SumBelow ==
    ASSUME NEW f, NEW e, NEW S, IsFiniteSet(S),
           \A x \in S : f[x] \in Nat /\ e[x] \in Nat /\ f[x] <= e[x]
    PROVE  SumFunctionOnSet(f, S) <= SumFunctionOnSet(e, S)
  <1> SUFFICES ASSUME ~(SumFunctionOnSet(f, S) <= SumFunctionOnSet(e, S)) PROVE FALSE
    OBVIOUS
  <1> DEFINE Bad == {s \in SUBSET S : ~(SumFunctionOnSet(f, s) <= SumFunctionOnSet(e, s))}
  <1>1. PICK s \in Bad : \A t \in Bad : t \subseteq s => t = s
    <2>1. Bad \subseteq SUBSET S /\ Bad # {}
      OBVIOUS
    <2> HIDE DEF Bad
    <2> QED  BY <2>1, LeastSubset
  <1>2. s \in SUBSET S /\ ~(SumFunctionOnSet(f, s) <= SumFunctionOnSet(e, s))
    BY <1>1
  <1>3. IsFiniteSet(s) /\ Sums(f, s) /\ Sums(e, s)
    BY <1>2, SumStep, FS_Subset
  <1>4. s # {}
    BY <1>2, <1>3 DEF Sums
  <1>5. Some(s) \in s
    BY <1>4 DEF Some
  <1> DEFINE r == s \ {Some(s)}
  <1>6. SumFunctionOnSet(f, r) <= SumFunctionOnSet(e, r)
    BY <1>1, <1>2, <1>5
  <1>7. f[Some(s)] \in Nat /\ e[Some(s)] \in Nat /\ f[Some(s)] <= e[Some(s)]
    BY <1>2, <1>5
  <1>8. SumFunctionOnSet(f, r) \in Nat /\ SumFunctionOnSet(e, r) \in Nat
    <2>1. IsFiniteSet(r) /\ \A x \in r : f[x] \in Nat /\ e[x] \in Nat
      BY <1>2, <1>3, FS_Subset
    <2> HIDE DEF r
    <2> QED  BY <2>1, SumType
  <1> QED  BY <1>2, <1>3, <1>4, <1>6, <1>7, <1>8 DEF Sums

(* The sum over two sets without a common element. *)
LEMMA SumBoth ==
    ASSUME NEW f, NEW S, IsFiniteSet(S), NEW T, IsFiniteSet(T), S \cap T = {},
           \A x \in S \cup T : f[x] \in Nat
    PROVE  SumFunctionOnSet(f, S \cup T) = SumFunctionOnSet(f, S) + SumFunctionOnSet(f, T)
  <1> DEFINE P(t) == SumFunctionOnSet(f, S \cup t) = SumFunctionOnSet(f, S) + SumFunctionOnSet(f, t)
  <1> SUFFICES ASSUME ~P(T) PROVE FALSE
    OBVIOUS
  <1> DEFINE Bad == {t \in SUBSET T : ~P(t)}
  <1>1. PICK s \in Bad : \A t \in Bad : t \subseteq s => t = s
    <2>1. Bad \subseteq SUBSET T /\ Bad # {}
      OBVIOUS
    <2> HIDE DEF Bad
    <2> QED  BY <2>1, LeastSubset
  <1>2. s \in SUBSET T /\ ~P(s) /\ \A t \in SUBSET s : t # s => P(t)
    BY <1>1
  <1> HIDE DEF Bad
  <1>3. IsFiniteSet(s) /\ IsFiniteSet(S \cup s)
    BY <1>2, FS_Subset, FS_Union
  <1>4. SumFunctionOnSet(f, S) \in Nat /\ SumFunctionOnSet(f, s) \in Nat
    BY <1>2, <1>3, SumType
  <1>5. s # {}
    <2> SUFFICES ASSUME s = {} PROVE FALSE
      OBVIOUS
    <2>1. S \cup s = S /\ SumFunctionOnSet(f, s) = 0
      BY SumEmpty
    <2> QED  BY <1>2, <1>4, <2>1
  <1>6. PICK y : y \in s
    BY <1>5
  <1> DEFINE r == s \ {y}
  <1>7. P(r)
    BY <1>2, <1>6
  <1>8. SumFunctionOnSet(f, s) = f[y] + SumFunctionOnSet(f, r)
    BY <1>2, <1>3, <1>6, SumWithout
  <1>9. SumFunctionOnSet(f, S \cup s) = f[y] + SumFunctionOnSet(f, S \cup r)
    <2>1. (S \cup s) \ {y} = S \cup r /\ y \in S \cup s /\ \A x \in S \cup s : f[x] \in Nat
      BY <1>2, <1>6
    <2> DEFINE U == S \cup s
    <2>2. SumFunctionOnSet(f, U) = f[y] + SumFunctionOnSet(f, U \ {y})
      <3>1. y \in U /\ IsFiniteSet(U) /\ \A x \in U : f[x] \in Nat
        BY <1>3, <2>1
      <3> HIDE DEF U
      <3> QED  BY <3>1, SumWithout
    <2> QED  BY <2>1, <2>2
  <1>10. SumFunctionOnSet(f, r) \in Nat /\ f[y] \in Nat
    <2>1. IsFiniteSet(r) /\ \A x \in r : f[x] \in Nat
      BY <1>2, <1>3, FS_Subset
    <2> HIDE DEF r
    <2> QED  BY <1>2, <1>6, <2>1, SumType
  <1> HIDE DEF r
  <1> QED  BY <1>2, <1>4, <1>7, <1>8, <1>9, <1>10

-----------------------------------------------------------------------------
(* TaskFactory. *)
(* The instance counts as the module it is taken in does. *)
LEMMA TaskSize ==
    /\ \A S : TF!Cardinality(S) = Cardinality(S)
    /\ \A S : TF!IsFiniteSet(S) <=> IsFiniteSet(S)
  BY DEF Cardinality, TF!Cardinality, IsFiniteSet, TF!IsFiniteSet

Early == {"design", "answerability", "complete"}
AtWork == {"turn", "contract", "grounding", "complete_grounding"}

TaskTypes ==
    /\ TF!TypeOK
    /\ passed = [t \in DOMAIN passed |-> passed[t]]
    /\ working \in Seq(TF!Solver) /\ (pc \in {"turn", "contract"} => working # <<>>)
    /\ pc \in AtWork => selected # {}

(* Before a selection the critic has said what the verdicts are.            *)
Unselected == pc \in Early => heard = verdicts /\ DOMAIN heard \subseteq Designs
                              /\ selected = {} /\ DOMAIN passed = {}

(* What was heard of a trajectory is what its verdict says, and nothing is    *)
(* heard of the trajectories of a task before it is worked on.              *)
Judged ==
    /\ pc \in AtWork => /\ DOMAIN verdicts \subseteq TF!Solver
                        /\ \A x \in DOMAIN verdicts :
                              /\ <<TF!Current, x>> \in DOMAIN heard
                              /\ heard[<<TF!Current, x>>] = ~TF!Blocks(verdicts[x])
    /\ \A t \in selected, x \in TF!Solver :
          <<t, x>> \in DOMAIN heard => pc \in AtWork /\ t = TF!Current /\ x \in DOMAIN verdicts

TaskInv == TaskTypes /\ Unselected /\ Judged /\ TF!CritiquesStand

-----------------------------------------------------------------------------
LEMMA Extreme ==
    ASSUME NEW S, IsFiniteSet(S), S # {}, NEW R,
           \A x, y \in S : x = y \/ <<x, y>> \in R \/ <<y, x>> \in R,
           \A x, y, z \in S : <<x, y>> \in R /\ <<y, z>> \in R => <<x, z>> \in R
    PROVE  \E x \in S : \A y \in S : y = x \/ <<y, x>> \in R
  <1> DEFINE Good(B) == \E x \in B : \A y \in B : y = x \/ <<y, x>> \in R
             Bad == {B \in SUBSET S : B # {} /\ ~Good(B)}
  <1> SUFFICES ASSUME ~Good(S) PROVE FALSE
    OBVIOUS
  <1>1. Bad \subseteq SUBSET S /\ Bad # {}
    OBVIOUS
  <1> HIDE DEF Bad
  <1>2. PICK B \in Bad : \A C \in Bad : C \subseteq B => C = B
    BY <1>1, LeastSubset
  <1>3. B \in SUBSET S /\ B # {} /\ ~Good(B)
    BY <1>2 DEF Bad
  <1>4. PICK x \in B : TRUE
    BY <1>3
  <1>5. CASE B \ {x} = {}
    BY <1>3, <1>4, <1>5
  <1>6. CASE B \ {x} # {}
    <2>1. Good(B \ {x})
      <3>1. B \ {x} \notin Bad
        BY <1>2, <1>4
      <3>2. B \ {x} \in SUBSET S
        BY <1>3
      <3> QED  BY <1>6, <3>1, <3>2 DEF Bad
    <2>2. PICK y \in B \ {x} : \A z \in B \ {x} : z = y \/ <<z, y>> \in R
      BY <2>1
    <2>3. x \in S /\ y \in S /\ x # y /\ \A z \in B : z \in S
      BY <1>3, <1>4
    <2>4. CASE <<x, y>> \in R
      <3>1. \A z \in B : z = y \/ <<z, y>> \in R
        BY <2>2, <2>4
      <3> QED  BY <1>3, <3>1
    <2>5. CASE <<y, x>> \in R
      <3>1. \A z \in B : z = x \/ <<z, x>> \in R
        <4> TAKE z \in B
        <4>1. z = x \/ z = y \/ <<z, y>> \in R
          BY <2>2
        <4>2. <<z, y>> \in R => <<z, x>> \in R
          BY <2>3, <2>5
        <4> QED  BY <2>5, <4>1, <4>2
      <3> QED  BY <1>3, <1>4, <3>1
    <2> QED  BY <2>3, <2>4, <2>5
  <1> QED  BY <1>5, <1>6

LEMMA SurvivorsAre ==
    ASSUME NEW B, B \subseteq Designs
    PROVE  /\ TF!Survivors(B) \subseteq TF!Survivors(Designs) /\ TF!Survivors(B) \subseteq Designs
           /\ \A t \in TF!Survivors(Designs) : t \in Designs /\ TF!Route(t) \in {"sft", "rl"}
  BY DEF TF!Survivors, TF!Route

(* Before orders the tasks that survive. *)
LEMMA BeforeOrders ==
    ASSUME TF!TaskAssumption
    PROVE  /\ \A s, t \in TF!Survivors(Designs) : s = t \/ TF!Before(s, t) \/ TF!Before(t, s)
           /\ \A s, t \in TF!Survivors(Designs) : TF!Before(s, t) => ~TF!Before(t, s) /\ s # t
           /\ \A s, t, u \in TF!Survivors(Designs) : TF!Before(s, t) /\ TF!Before(t, u) => TF!Before(s, u)
  <1>1. \A t \in TF!Survivors(Designs) : t \in Designs /\ TF!Route(t) \in {"sft", "rl"} /\ Rank[t] \in Int
    BY TaskSize, SurvivorsAre DEF TF!TaskAssumption
  <1>2. \A s, t \in TF!Survivors(Designs) : Rank[s] = Rank[t] => s = t
    BY TaskSize, <1>1 DEF TF!TaskAssumption
  <1>3. \A s, t \in TF!Survivors(Designs) : s = t \/ TF!Before(s, t) \/ TF!Before(t, s)
    BY <1>1, <1>2 DEF TF!Before
  <1>4. \A s, t \in TF!Survivors(Designs) : TF!Before(s, t) => ~TF!Before(t, s) /\ s # t
    BY <1>1 DEF TF!Before
  <1>5. \A s, t, u \in TF!Survivors(Designs) : TF!Before(s, t) /\ TF!Before(t, u) => TF!Before(s, u)
    BY <1>1 DEF TF!Before
  <1> QED  BY <1>3, <1>4, <1>5

LEMMA LastOf ==
    ASSUME TF!TaskAssumption, NEW S, S \subseteq TF!Survivors(Designs), S # {}
    PROVE  \E t \in S : \A s \in S : s = t \/ TF!Before(s, t)
  <1> DEFINE R == {p \in S \X S : TF!Before(p[1], p[2])}
  <1>1. \A s, t \in S : <<s, t>> \in R <=> TF!Before(s, t)
    OBVIOUS
  <1>2. IsFiniteSet(S)
    BY TaskSize, SurvivorsAre, FS_Subset DEF TF!TaskAssumption
  <1> HIDE DEF R
  <1>3. /\ \A x, y \in S : x = y \/ <<x, y>> \in R \/ <<y, x>> \in R
        /\ \A x, y, z \in S : <<x, y>> \in R /\ <<y, z>> \in R => <<x, z>> \in R
    BY <1>1, BeforeOrders
  <1>4. PICK t \in S : \A s \in S : s = t \/ <<s, t>> \in R
    BY <1>2, <1>3, Extreme
  <1> QED  BY <1>1, <1>4

LEMMA FirstOf ==
    ASSUME TF!TaskAssumption, NEW S, S \subseteq TF!Survivors(Designs), S # {}
    PROVE  \E t \in S : \A s \in S : ~TF!Before(s, t)
  <1> DEFINE R == {p \in S \X S : TF!Before(p[2], p[1])}
  <1>1. \A s, t \in S : <<s, t>> \in R <=> TF!Before(t, s)
    OBVIOUS
  <1>2. IsFiniteSet(S)
    BY TaskSize, SurvivorsAre, FS_Subset DEF TF!TaskAssumption
  <1> HIDE DEF R
  <1>3. /\ \A x, y \in S : x = y \/ <<x, y>> \in R \/ <<y, x>> \in R
        /\ \A x, y, z \in S : <<x, y>> \in R /\ <<y, z>> \in R => <<x, z>> \in R
    BY <1>1, BeforeOrders
  <1>4. PICK t \in S : \A s \in S : s = t \/ <<s, t>> \in R
    BY <1>2, <1>3, Extreme
  <1>5. \A s \in S : ~TF!Before(s, t)
    BY <1>1, <1>4, BeforeOrders
  <1> QED  BY <1>5

LEMMA CurrentIsSelected ==
    ASSUME TF!TaskAssumption, selected \subseteq TF!Survivors(Designs), selected # {}
    PROVE  TF!Current \in selected
  BY FirstOf DEF TF!Current

LEMMA FewOfAFamily ==
    ASSUME TF!TaskAssumption, NEW S, S \subseteq TF!Survivors(Designs), NEW f
    PROVE  /\ IsFiniteSet({t \in TF!Select(S) : Family[t] = f}) /\ TF!Select(S) \subseteq S
           /\ Cardinality({t \in TF!Select(S) : Family[t] = f}) <= FamilyLimit
  <1> DEFINE diverse == {t \in S :
                 Cardinality({s \in TF!Better(S, t) : Family[s] = Family[t]}) < FamilyLimit}
             F == {t \in TF!Select(S) : Family[t] = f}
  <1>1. TF!Select(S) \subseteq diverse /\ diverse \subseteq S
    BY TaskSize DEF TF!Select
  <1>2. F \subseteq S /\ IsFiniteSet(S) /\ IsFiniteSet(F)
    <2>1. IsFiniteSet(S)
      BY TaskSize, SurvivorsAre, FS_Subset DEF TF!TaskAssumption
    <2>2. F \subseteq S
      BY <1>1
    <2> HIDE DEF F
    <2> QED  BY <2>1, <2>2, FS_Subset
  <1>3. FamilyLimit \in Nat
    BY TaskSize DEF TF!TaskAssumption
  <1>4. CASE F = {}
    <2>1. Cardinality(F) = 0
      BY <1>4, FS_EmptySet
    <2> HIDE DEF F
    <2>2. Cardinality(F) <= FamilyLimit
      BY <1>3, <2>1
    <2> QED  BY <1>1, <1>2, <2>2 DEF F
  <1>5. CASE F # {}
    <2> HIDE DEF F
    <2>1. PICK w \in F : \A s \in F : s = w \/ TF!Before(s, w)
      BY <1>2, <1>5, LastOf
    <2>2. PICK rest : rest = {s \in TF!Better(S, w) : Family[s] = Family[w]}
      OBVIOUS
    <2>3. w \in diverse /\ Family[w] = f /\ F \ {w} \subseteq rest /\ rest \subseteq S
      BY <1>1, <1>2, <2>1, <2>2 DEF F, TF!Better
    <2>4. Cardinality(rest) < FamilyLimit
      BY <2>2, <2>3
    <2>5. IsFiniteSet(rest) /\ Cardinality(F \ {w}) <= Cardinality(rest)
      BY <1>2, <2>3, FS_Subset
    <2>6. Cardinality(F \ {w}) = Cardinality(F) - 1 /\ Cardinality(F) \in Nat
          /\ Cardinality(rest) \in Nat
      BY <1>2, <2>1, <2>5, FS_RemoveElement, FS_CardinalityType
    <2>7. Cardinality(F) <= FamilyLimit
      BY <1>3, <2>4, <2>5, <2>6
    <2> QED  BY <1>1, <1>2, <2>7 DEF F
  <1> QED  BY <1>4, <1>5

-----------------------------------------------------------------------------
LEMMA TaskInit == ASSUME TF!TaskAssumption, TF!Init PROVE TaskInv
  <1>1. /\ pc = "design" /\ mending = FALSE /\ level = 1 /\ batch = {} /\ selected = {} /\ turn = 0
        /\ failed = {} /\ working = <<>> /\ trajectories = {}
        /\ verdicts = TF!NoVerdict /\ passed = TF!NoVerdict /\ heard = TF!NoVerdict
        /\ DOMAIN TF!NoVerdict = {} /\ TF!NoVerdict = [x \in {} |-> FALSE]
    BY DEF TF!Init, TF!NoVerdict
  <1>2. \A f : Cardinality({t \in selected \cup DOMAIN passed : Family[t] = f}) = 0
    <2>1. \A f : {t \in selected \cup DOMAIN passed : Family[t] = f} = {}
      BY <1>1
    <2> QED  BY <2>1, FS_EmptySet
  <1>3. TF!CritiquesStand
    BY TaskSize, <1>1, <1>2 DEF TF!CritiquesStand, TF!TaskAssumption
  <1>4. TF!TypeOK
    <2>1. 0 \in 0..(MaxTurns - 1) /\ 1 \in 1..3
      BY TaskSize DEF TF!TaskAssumption
    <2>2. DOMAIN passed \subseteq batch
      BY <1>1
    <2> QED  BY <1>1, <2>1, <2>2 DEF TF!TypeOK
  <1>5. passed = [t \in DOMAIN passed |-> passed[t]]
    BY <1>1
  <1> QED  BY <1>1, <1>3, <1>4, <1>5 DEF TaskInv, TaskTypes, Unselected, Judged, Early, AtWork

(* Fewer tasks have as good a claim. *)
LEMMA StillFew ==
    ASSUME TF!TaskAssumption, TaskInv, NEW S, S \subseteq selected \cup DOMAIN passed
    PROVE  \A f \in {Family[t] : t \in Designs} :
              Cardinality({t \in S : Family[t] = f}) <= FamilyLimit
  <1> TAKE f \in {Family[t] : t \in Designs}
  <1> DEFINE A == {t \in S : Family[t] = f}
             B == {t \in selected \cup DOMAIN passed : Family[t] = f}
  <1>1. A \subseteq B /\ B \subseteq Designs
    BY SurvivorsAre DEF TaskInv, TaskTypes, TF!TypeOK
  <1>2. Cardinality(B) <= FamilyLimit
    BY TaskSize DEF TaskInv, TF!CritiquesStand
  <1> HIDE DEF A, B
  <1>3. IsFiniteSet(B) /\ Cardinality(A) <= Cardinality(B)
    BY TaskSize, <1>1, FS_Subset DEF TF!TaskAssumption
  <1>4. IsFiniteSet(A) /\ Cardinality(A) \in Nat /\ Cardinality(B) \in Nat
    BY <1>1, <1>3, FS_Subset, FS_CardinalityType
  <1>5. Cardinality(A) <= FamilyLimit
    BY TaskSize, <1>2, <1>3, <1>4 DEF TF!TaskAssumption
  <1> QED  BY <1>5 DEF A

LEMMA BatchKeeps == ASSUME TF!TaskAssumption, TaskInv, TF!TakeBatch PROVE TaskInv'
  <1>1. PICK B \in TF!UpTo(TF!Limit) :
          /\ batch' = TF!Survivors(B)
          /\ IF TF!Survivors(B) # {} THEN TF!Ask("answerability") /\ UNCHANGED level
             ELSE IF level < 3 THEN TF!Ask("design") /\ level' = level + 1
             ELSE TF!Ask("failed") /\ UNCHANGED level
    BY DEF TF!TakeBatch
  <1>2. B \subseteq Designs /\ batch' \subseteq TF!Survivors(Designs)
    BY TaskSize, <1>1, SurvivorsAre DEF TF!UpTo
  <1>3. pc' \in {"answerability", "design", "failed"} /\ mending' = FALSE /\ level' \in 1..3
    BY <1>1 DEF TF!Ask, TaskInv, TaskTypes, TF!TypeOK
  <1>4. /\ pc = "design" /\ heard' = heard /\ verdicts' = verdicts /\ selected' = selected
        /\ turn' = turn /\ failed' = failed /\ working' = working /\ passed' = passed
        /\ trajectories' = trajectories
    BY DEF TF!TakeBatch
  <1>5. heard = verdicts /\ DOMAIN heard \subseteq Designs /\ selected = {} /\ DOMAIN passed = {}
    BY <1>4 DEF TaskInv, Unselected, Early
  <1>6. TF!CritiquesStand'
    BY TaskSize, <1>4 DEF TaskInv, TF!CritiquesStand
  <1> QED  BY <1>2, <1>3, <1>4, <1>5, <1>6
           DEF TaskInv, TaskTypes, TF!TypeOK, Unselected, Judged, Early, AtWork

LEMMA AnswerabilityKeeps == ASSUME TF!TaskAssumption, TaskInv, TF!TakeAnswerability PROVE TaskInv'
  <1>1. PICK v \in TF!Partial(batch, BOOLEAN) :
          /\ verdicts' = TF!Merged(v) /\ heard' = TF!Hear(v)
          /\ IF pc = "answerability" /\ batch \ DOMAIN v # {}
             THEN TF!Ask("complete") /\ UNCHANGED selected
             ELSE TF!Ask("next") /\ selected' = TF!Select(TF!Accepted(TF!Merged(v)))
    BY DEF TF!TakeAnswerability
  <1>2. /\ pc \in {"answerability", "complete"} /\ batch' = batch /\ level' = level
        /\ turn' = turn /\ failed' = failed /\ working' = working /\ passed' = passed
        /\ trajectories' = trajectories
    BY DEF TF!TakeAnswerability
  <1>3. heard = verdicts /\ DOMAIN heard \subseteq Designs /\ selected = {} /\ DOMAIN passed = {}
    BY <1>2 DEF TaskInv, Unselected, Early
  <1>4. batch \subseteq TF!Survivors(Designs) /\ batch \subseteq Designs
    BY SurvivorsAre DEF TaskInv, TaskTypes, TF!TypeOK
  <1>5. DOMAIN v \subseteq batch
    BY DEF TF!Partial
  <1>6. TF!Merged(v) = TF!Hear(v) /\ DOMAIN heard' \subseteq Designs
    BY <1>1, <1>3, <1>4, <1>5 DEF TF!Merged, TF!Hear
  <1>7. /\ TF!TypeOK' /\ passed' = [t \in DOMAIN passed' |-> passed'[t]]
        /\ working' \in Seq(TF!Solver) /\ pc' \in {"complete", "next"}
    <2>1. selected' \subseteq batch
      <3>1. TF!Accepted(TF!Merged(v)) \subseteq batch
        BY DEF TF!Accepted
      <3>2. TF!Select(TF!Accepted(TF!Merged(v))) \subseteq TF!Accepted(TF!Merged(v))
        BY <1>4, <3>1, FewOfAFamily
      <3> QED  BY <1>1, <1>3, <3>1, <3>2
    <2>2. pc' \in {"complete", "next"} /\ mending' = FALSE
      BY <1>1 DEF TF!Ask
    <2> QED  BY <1>2, <2>1, <2>2 DEF TaskInv, TaskTypes, TF!TypeOK
  <1>8. CASE pc' = "complete"
    <2>1. selected' = {}
      BY <1>1, <1>3, <1>8 DEF TF!Ask
    <2>2. TF!CritiquesStand'
      <3>1. selected' \cup DOMAIN passed' \subseteq selected \cup DOMAIN passed
        BY <1>2, <2>1
      <3> QED  BY TaskSize, <1>2, <1>3, <2>1, <3>1, StillFew DEF TF!CritiquesStand
    <2> QED  BY <1>1, <1>2, <1>3, <1>6, <1>7, <1>8, <2>1, <2>2
             DEF TaskInv, TaskTypes, Unselected, Judged, Early, AtWork
  <1>9. CASE pc' = "next"
    <2>1. selected' = TF!Select(TF!Accepted(TF!Merged(v)))
      BY <1>1, <1>9 DEF TF!Ask
    <2>2. TF!Accepted(TF!Merged(v)) \subseteq TF!Survivors(Designs)
      BY <1>4 DEF TF!Accepted
    <2>3. selected' \subseteq TF!Accepted(TF!Merged(v))
      BY <2>1, <2>2, FewOfAFamily
    <2>4. \A t \in selected' : t \in DOMAIN heard' /\ heard'[t] /\ t \in Designs
      BY <1>1, <1>4, <1>6, <2>3 DEF TF!Accepted
    <2>5. \A f : Cardinality({t \in selected' : Family[t] = f}) <= FamilyLimit
      BY <2>1, <2>2, FewOfAFamily
    <2>6. TF!CritiquesStand'
      <3>1. selected' \cup DOMAIN passed' = selected' /\ DOMAIN passed' = {}
        BY <1>2, <1>3
      <3> QED  BY TaskSize, <2>4, <2>5, <3>1 DEF TF!CritiquesStand
    <2>7. \A t \in selected', x \in TF!Solver : <<t, x>> \notin DOMAIN heard'
      <3>1. \A t \in Designs, x \in TF!Solver : <<t, x>> \notin Designs
        BY TaskSize DEF TF!TaskAssumption, TF!Solver
      <3> QED  BY <1>6, <2>4, <3>1
    <2>8. Judged'
      BY <1>9, <2>7 DEF Judged, AtWork
    <2> QED  BY <1>7, <1>9, <2>6, <2>8 DEF TaskInv, TaskTypes, Unselected, Early, AtWork
  <1> QED  BY <1>7, <1>8, <1>9

(* A task is taken up, or the paper is done. *)
LEMMA NextTaskKeeps == ASSUME TF!TaskAssumption, TaskInv, TF!NextTask PROVE TaskInv'
  <1>1. /\ pc = "next" /\ verdicts' = TF!NoVerdict /\ turn' = 0 /\ failed' = {} /\ trajectories' = {}
        /\ level' = level /\ batch' = batch /\ selected' = selected /\ passed' = passed
        /\ heard' = heard /\ mending' = FALSE
        /\ \/ selected = {} /\ pc' = "done" /\ working' = working
           \/ selected # {} /\ pc' = "turn" /\ working' = TF!Solvers
    BY DEF TF!NextTask, TF!Ask
  <1>2. DOMAIN verdicts' = {}
    BY <1>1 DEF TF!NoVerdict
  <1>3. TF!Solvers \in Seq(TF!Solver) /\ TF!Solvers # <<>>
    BY DEF TF!Solvers, TF!Solver
  <1>4. TaskTypes'
    <2>1. 0 \in 0..(MaxTurns - 1)
      BY TaskSize DEF TF!TaskAssumption
    <2>2. TF!TypeOK'
      BY <1>1, <2>1 DEF TaskInv, TaskTypes, TF!TypeOK
    <2>3. /\ passed' = [t \in DOMAIN passed' |-> passed'[t]] /\ working' \in Seq(TF!Solver)
          /\ pc' = "turn" => working' # <<>> /\ selected' # {}
          /\ pc' \in {"turn", "done"}
      BY <1>1, <1>3 DEF TaskInv, TaskTypes
    <2> QED  BY <2>2, <2>3 DEF TaskTypes, AtWork
  <1>5. \A t \in selected, x \in TF!Solver : <<t, x>> \notin DOMAIN heard
    BY <1>1 DEF TaskInv, Judged, AtWork
  <1>6. Judged'
    BY <1>1, <1>2, <1>5 DEF Judged
  <1>7. TF!CritiquesStand'
    BY TaskSize, <1>1 DEF TaskInv, TF!CritiquesStand
  <1> QED  BY <1>1, <1>4, <1>6, <1>7 DEF TaskInv, Unselected, Early

(* The task at work stays, or it is done with and the next one comes. *)
LEMMA WorkMoves ==
    ASSUME TF!TaskAssumption, TaskInv, pc \in AtWork,
           pc' \in AtWork \cup {"next"}, mending' \in BOOLEAN, level' = level, batch' = batch,
           passed' = passed, heard' = heard, verdicts' = verdicts,
           turn' \in 0..(MaxTurns - 1), failed' \subseteq Requests,
           trajectories' \subseteq TF!Solver, working' \in Seq(TF!Solver),
           pc' \in {"turn", "contract"} => working' # <<>>,
           selected' = IF pc' = "next" THEN selected \ {TF!Current} ELSE selected
    PROVE  TaskInv'
  <1>1. selected' \subseteq selected /\ selected # {}
    BY DEF TaskInv, TaskTypes
  <1>2. TaskTypes'
    BY <1>1 DEF TaskInv, TaskTypes, TF!TypeOK, AtWork
  <1>3. TF!CritiquesStand'
    <2>1. selected' \cup DOMAIN passed' \subseteq selected \cup DOMAIN passed
      BY <1>1
    <2> QED  BY TaskSize, <1>1, <2>1, StillFew DEF TaskInv, TF!CritiquesStand
  <1>4. Judged'
    <2>1. CASE pc' = "next"
      <3>1. \A t \in selected', x \in TF!Solver : <<t, x>> \notin DOMAIN heard
        BY <1>1, <2>1 DEF TaskInv, Judged
      <3> QED  BY <2>1, <3>1 DEF Judged, AtWork
    <2>2. CASE pc' # "next"
      <3>1. selected' = selected /\ TF!Current' = TF!Current
        BY <2>2 DEF TF!Current
      <3> QED  BY <2>2, <3>1 DEF TaskInv, Judged
    <2> QED  BY <2>1, <2>2
  <1> QED  BY <1>2, <1>3, <1>4 DEF TaskInv, Unselected, Early, AtWork

LEMMA AfterSolverKeeps ==
    ASSUME TF!TaskAssumption, TaskInv, pc \in {"turn", "contract"}, NEW delivered,
           delivered \subseteq TF!Solver, TF!AfterSolver(delivered),
           level' = level, batch' = batch, passed' = passed, heard' = heard, verdicts' = verdicts
    PROVE  TaskInv'
  <1>1. /\ working \in Seq(TF!Solver) /\ working # <<>>
        /\ Tail(working) \in Seq(TF!Solver) /\ (Len(working) > 1 => Tail(working) # <<>>)
    <2>1. working \in Seq(TF!Solver) /\ working # <<>>
      BY DEF TaskInv, TaskTypes
    <2>2. Tail(working) \in Seq(TF!Solver) /\ Len(Tail(working)) = Len(working) - 1
          /\ Len(working) \in Nat /\ Len(<<>>) = 0
      BY <2>1
    <2>3. Len(working) > 1 => Len(Tail(working)) # 0
      BY <2>2, SMT
    <2>4. Tail(working) = <<>> => Len(Tail(working)) = 0
      BY <2>2
    <2> QED  BY <2>1, <2>2, <2>3, <2>4
  <1>2. /\ trajectories' = delivered /\ working' = Tail(working) /\ turn' = 0 /\ failed' = {}
        /\ mending' = FALSE /\ pc' \in {"turn", "grounding", "next"}
        /\ pc' = "turn" => Len(working) > 1
        /\ selected' = IF pc' = "next" THEN selected \ {TF!Current} ELSE selected
    BY DEF TF!AfterSolver, TF!Ask
  <1>3. 0 \in 0..(MaxTurns - 1)
    BY TaskSize DEF TF!TaskAssumption
  <1> QED  BY <1>1, <1>2, <1>3, WorkMoves DEF AtWork

LEMMA TurnKeeps == ASSUME TF!TaskAssumption, TaskInv, TF!ToolTurn \/ TF!FinalTurn PROVE TaskInv'
  <1>1. /\ pc \in {"turn", "contract"} /\ level' = level /\ batch' = batch /\ passed' = passed
        /\ heard' = heard /\ verdicts' = verdicts
    BY DEF TF!ToolTurn, TF!FinalTurn
  <1>2. /\ trajectories \subseteq TF!Solver /\ working \in Seq(TF!Solver) /\ working # <<>>
        /\ turn \in 0..(MaxTurns - 1) /\ failed \subseteq Requests /\ MaxTurns \in Nat
    BY TaskSize, <1>1 DEF TaskInv, TaskTypes, TF!TypeOK, TF!TaskAssumption
  <1>3. CASE TF!AfterSolver(trajectories)
    BY <1>1, <1>2, <1>3, AfterSolverKeeps
  <1>4. CASE TF!AfterSolver(trajectories \cup {Head(working)})
    <2>1. Head(working) \in TF!Solver
      BY <1>2
    <2> QED  BY <1>1, <1>2, <1>4, <2>1, AfterSolverKeeps
  <1>5. ASSUME TF!ToolTurn, ~TF!AfterSolver(trajectories) PROVE TaskInv'
    <2>0. turn + 1 >= MaxTurns \/ turn + 1 < MaxTurns
      BY <1>2
    <2>1. PICK R \in SUBSET Requests :
            /\ turn + 1 < MaxTurns /\ failed' = failed \cup R /\ turn' = turn + 1 /\ TF!Ask("turn")
            /\ UNCHANGED <<selected, working, trajectories>>
      BY <1>5, <2>0 DEF TF!ToolTurn
    <2>2. turn' \in 0..(MaxTurns - 1) /\ failed' \subseteq Requests /\ pc' = "turn"
          /\ mending' = FALSE
      BY <1>2, <2>1 DEF TF!Ask
    <2> QED  BY <1>1, <1>2, <2>1, <2>2, WorkMoves DEF AtWork
  <1>6. ASSUME TF!FinalTurn, ~TF!AfterSolver(trajectories),
               ~TF!AfterSolver(trajectories \cup {Head(working)})
        PROVE  TaskInv'
    <2>1. TF!Ask("contract") /\ UNCHANGED <<selected, turn, failed, working, trajectories>>
      BY <1>6 DEF TF!FinalTurn
    <2> QED  BY <1>1, <1>2, <2>1, WorkMoves DEF AtWork, TF!Ask
  <1> QED  BY <1>3, <1>4, <1>5, <1>6

(* The verdicts about the trajectories of the task at work. *)
LEMMA HeardOfIt ==
    ASSUME TF!TaskAssumption, TaskInv, pc \in {"grounding", "complete_grounding"},
           NEW v \in TF!Partial(trajectories, TF!Grounding), verdicts' = TF!Merged(v),
           heard' = TF!Hear([y \in {TF!Current} \X DOMAIN v |-> ~TF!Blocks(v[y[2]])])
    PROVE  /\ DOMAIN verdicts' \subseteq TF!Solver
           /\ \A x \in DOMAIN verdicts' :
                 /\ <<TF!Current, x>> \in DOMAIN heard'
                 /\ heard'[<<TF!Current, x>>] = ~TF!Blocks(verdicts'[x])
           /\ \A y \in DOMAIN heard : y \in DOMAIN heard' /\ heard'[y] = heard[y]
           /\ \A y \in DOMAIN heard' : y \in DOMAIN heard \/ \E z \in DOMAIN v : y = <<TF!Current, z>>
           /\ DOMAIN v \subseteq DOMAIN verdicts' /\ DOMAIN verdicts \subseteq DOMAIN verdicts'
  <1> DEFINE said == [y \in {TF!Current} \X DOMAIN v |-> ~TF!Blocks(v[y[2]])]
  <1>1. DOMAIN v \subseteq TF!Solver /\ DOMAIN verdicts \subseteq TF!Solver /\ TF!Current \in selected
    BY CurrentIsSelected DEF TF!Partial, TaskInv, TaskTypes, TF!TypeOK, Judged, AtWork
  <1>2. DOMAIN verdicts' = DOMAIN verdicts \cup DOMAIN v
        /\ \A x \in DOMAIN verdicts' :
              verdicts'[x] = IF x \in DOMAIN verdicts THEN verdicts[x] ELSE v[x]
    BY DEF TF!Merged
  <1>3. DOMAIN said = {TF!Current} \X DOMAIN v
        /\ \A x \in DOMAIN v : <<TF!Current, x>> \in DOMAIN said
                              /\ said[<<TF!Current, x>>] = ~TF!Blocks(v[x])
        /\ \A y \in DOMAIN said : \E z \in DOMAIN v : y = <<TF!Current, z>>
    OBVIOUS
  <1> HIDE DEF said
  <1>4. DOMAIN heard' = DOMAIN said \cup DOMAIN heard
        /\ \A y \in DOMAIN heard' :
              heard'[y] = IF y \in DOMAIN heard THEN heard[y] ELSE said[y]
    BY DEF TF!Hear, said
  <1>5. ASSUME NEW x \in DOMAIN verdicts'
        PROVE  /\ <<TF!Current, x>> \in DOMAIN heard'
               /\ heard'[<<TF!Current, x>>] = ~TF!Blocks(verdicts'[x])
    <2>1. CASE x \in DOMAIN verdicts
      <3>1. <<TF!Current, x>> \in DOMAIN heard /\ heard[<<TF!Current, x>>] = ~TF!Blocks(verdicts[x])
        BY <2>1 DEF TaskInv, Judged, AtWork
      <3>2. verdicts'[x] = verdicts[x]
        BY <1>2, <2>1
      <3> QED  BY <1>4, <3>1, <3>2
    <2>2. CASE x \notin DOMAIN verdicts
      <3>1. x \in DOMAIN v /\ x \in TF!Solver /\ verdicts'[x] = v[x]
        BY <1>1, <1>2, <2>2
      <3>2. <<TF!Current, x>> \notin DOMAIN heard
        BY <1>1, <2>2, <3>1 DEF TaskInv, Judged
      <3>3. <<TF!Current, x>> \in DOMAIN said /\ said[<<TF!Current, x>>] = ~TF!Blocks(v[x])
        BY <1>3, <3>1
      <3> QED  BY <1>4, <3>1, <3>2, <3>3
    <2> QED  BY <2>1, <2>2
  <1> QED  BY <1>1, <1>2, <1>3, <1>4, <1>5

LEMMA GroundingKeeps == ASSUME TF!TaskAssumption, TaskInv, TF!TakeGrounding PROVE TaskInv'
  <1>1. PICK v \in TF!Partial(trajectories, TF!Grounding) :
          /\ verdicts' = TF!Merged(v)
          /\ heard' = TF!Hear([y \in {TF!Current} \X DOMAIN v |-> ~TF!Blocks(v[y[2]])])
          /\ IF pc = "grounding" /\ trajectories \ DOMAIN v # {}
             THEN TF!Ask("complete_grounding") /\ UNCHANGED <<selected, passed>>
             ELSE /\ TF!Ask("next") /\ selected' = selected \ {TF!Current}
                  /\ passed' = [t \in DOMAIN passed \cup {TF!Current} |->
                        IF t \in DOMAIN passed THEN passed[t]
                        ELSE {x \in trajectories : ~TF!Blocks(TF!Completed(TF!Merged(v), x))}]
    BY DEF TF!TakeGrounding
  <1>2. /\ pc \in {"grounding", "complete_grounding"} /\ level' = level /\ batch' = batch
        /\ turn' = turn /\ failed' = failed /\ working' = working
        /\ trajectories' = trajectories
    BY DEF TF!TakeGrounding
  <1>3. /\ DOMAIN verdicts' \subseteq TF!Solver
        /\ \A x \in DOMAIN verdicts' :
              /\ <<TF!Current, x>> \in DOMAIN heard'
              /\ heard'[<<TF!Current, x>>] = ~TF!Blocks(verdicts'[x])
        /\ \A y \in DOMAIN heard : y \in DOMAIN heard' /\ heard'[y] = heard[y]
        /\ \A y \in DOMAIN heard' : y \in DOMAIN heard \/ \E z \in DOMAIN v : y = <<TF!Current, z>>
        /\ DOMAIN v \subseteq DOMAIN verdicts' /\ DOMAIN verdicts \subseteq DOMAIN verdicts'
    BY <1>1, <1>2, HeardOfIt
  <1>4. TF!Current \in selected
    BY <1>2, CurrentIsSelected DEF TaskInv, TaskTypes, TF!TypeOK, AtWork
  <1>5. pc' \in {"complete_grounding", "next"} /\ mending' = FALSE
    BY <1>1 DEF TF!Ask
  <1>6. /\ selected' \subseteq selected /\ DOMAIN passed' \subseteq DOMAIN passed \cup {TF!Current}
        /\ passed' = [t \in DOMAIN passed' |-> passed'[t]]
        /\ pc' = "next" => selected' = selected \ {TF!Current}
        /\ pc' # "next" => selected' = selected
    BY <1>1, <1>5 DEF TF!Ask, TaskInv, TaskTypes
  <1>7. TaskTypes'
    <2>1. TF!TypeOK'
      BY <1>2, <1>4, <1>5, <1>6 DEF TaskInv, TaskTypes, TF!TypeOK
    <2>2. working' \in Seq(TF!Solver) /\ pc' \notin {"turn", "contract"}
      BY <1>2, <1>5 DEF TaskInv, TaskTypes
    <2>3. pc' \in AtWork => selected' # {}
      BY <1>4, <1>5, <1>6 DEF AtWork
    <2> QED  BY <1>6, <2>1, <2>2, <2>3 DEF TaskTypes
  <1>8. TF!CritiquesStand'
    <2>1. selected' \cup DOMAIN passed' \subseteq selected \cup DOMAIN passed
      BY <1>4, <1>6
    <2>2. \A t \in selected \cup DOMAIN passed : t \in DOMAIN heard' /\ heard'[t]
      BY TaskSize, <1>3 DEF TaskInv, TF!CritiquesStand
    <2>3. ASSUME NEW t \in DOMAIN passed', NEW x \in passed'[t]
          PROVE  <<t, x>> \in DOMAIN heard' /\ heard'[<<t, x>>]
      <3>1. CASE t \in DOMAIN passed
        <4>1. passed'[t] = passed[t]
          BY <1>1, <3>1
        <4> QED  BY TaskSize, <1>3, <3>1, <4>1 DEF TaskInv, TF!CritiquesStand
      <3>2. CASE t \notin DOMAIN passed
        <4>1. t = TF!Current /\ x \in trajectories /\ ~TF!Blocks(TF!Completed(verdicts', x))
          BY <1>1, <3>2
        <4>2. x \in DOMAIN verdicts' /\ ~TF!Blocks(verdicts'[x])
          BY <4>1 DEF TF!Completed, TF!Blocks
        <4> QED  BY <1>3, <4>1, <4>2
      <3> QED  BY <3>1, <3>2
    <2> QED  BY TaskSize, <2>1, <2>2, <2>3, StillFew DEF TF!CritiquesStand
  <1>9. Judged'
    <2>1. CASE pc' = "next"
      <3>1. \A t \in selected', x \in TF!Solver : <<t, x>> \notin DOMAIN heard'
        <4> TAKE t \in selected', x \in TF!Solver
        <4>1. t \in selected /\ t # TF!Current
          BY <1>6, <2>1
        <4>2. <<t, x>> \notin DOMAIN heard
          BY <4>1 DEF TaskInv, Judged
        <4> QED  BY <1>3, <4>1, <4>2
      <3> QED  BY <2>1, <3>1 DEF Judged, AtWork
    <2>2. CASE pc' = "complete_grounding"
      <3>1. selected' = selected /\ TF!Current' = TF!Current
        BY <1>6, <2>2 DEF TF!Current
      <3>2. \A t \in selected, x \in TF!Solver :
                <<t, x>> \in DOMAIN heard' => t = TF!Current /\ x \in DOMAIN verdicts'
        <4> TAKE t \in selected, x \in TF!Solver
        <4>1. <<t, x>> \in DOMAIN heard => t = TF!Current /\ x \in DOMAIN verdicts
          BY DEF TaskInv, Judged
        <4> QED  BY <1>3, <4>1
      <3> QED  BY <1>3, <2>2, <3>1, <3>2 DEF Judged, AtWork
    <2> QED  BY <1>5, <2>1, <2>2
  <1> QED  BY <1>5, <1>7, <1>8, <1>9 DEF TaskInv, Unselected, Early

LEMMA TaskSame ==
    ASSUME TaskInv, pc' = pc, mending' \in BOOLEAN,
           UNCHANGED <<level, batch, selected, turn, failed, working, trajectories, verdicts, passed,
                       heard>>
    PROVE  TaskInv'
  <1>1. TF!Current' = TF!Current
    BY DEF TF!Current
  <1>2. TaskTypes'
    BY DEF TaskInv, TaskTypes, TF!TypeOK
  <1>3. Unselected'
    BY DEF TaskInv, Unselected
  <1>4. Judged'
    BY <1>1 DEF TaskInv, Judged
  <1>5. TF!CritiquesStand'
    BY DEF TaskInv, TF!CritiquesStand
  <1> QED  BY <1>2, <1>3, <1>4, <1>5 DEF TaskInv

LEMMA MalformedKeeps == ASSUME TF!TaskAssumption, TaskInv, TF!Malformed PROVE TaskInv'
  <1>1. /\ pc \notin {"next", "contract", "done", "failed"} /\ level' = level /\ batch' = batch
        /\ verdicts' = verdicts /\ passed' = passed /\ heard' = heard
    BY DEF TF!Malformed
  <1>2. /\ trajectories \subseteq TF!Solver /\ working \in Seq(TF!Solver)
        /\ turn \in 0..(MaxTurns - 1) /\ failed \subseteq Requests
        /\ pc = "turn" => working # <<>>
        /\ pc \in Early \cup AtWork
    BY <1>1 DEF TaskInv, TaskTypes, TF!TypeOK, Early, AtWork
  <1>3. ASSUME pc' = pc, mending' \in BOOLEAN,
               UNCHANGED <<selected, turn, failed, working, trajectories>>
        PROVE  TaskInv'
    BY <1>1, <1>3, TaskSame
  <1>4. ASSUME pc' = "failed", mending' = FALSE, pc \in Early,
               UNCHANGED <<selected, turn, failed, working, trajectories>>
        PROVE  TaskInv'
    <2>1. selected = {}
      BY <1>4 DEF TaskInv, Unselected
    <2> QED  BY TaskSize, <1>1, <1>4, <2>1
             DEF TaskInv, TaskTypes, TF!TypeOK, Unselected, Judged, TF!CritiquesStand, Early, AtWork
  <1>5. CASE ~mending
    BY <1>3, <1>5 DEF TF!Malformed
  <1>6. CASE mending /\ pc = "turn"
    <2>1. TF!AfterSolver(trajectories)
      BY <1>6 DEF TF!Malformed
    <2> QED  BY <1>1, <1>2, <1>6, <2>1, AfterSolverKeeps
  <1>7. CASE mending /\ pc \in {"grounding", "complete_grounding"}
    <2>1. pc' = "next" /\ mending' = FALSE /\ selected' = selected \ {TF!Current}
          /\ UNCHANGED <<turn, failed, working, trajectories>>
      BY <1>7 DEF TF!Malformed, TF!Ask
    <2> QED  BY <1>1, <1>2, <1>7, <2>1, WorkMoves DEF AtWork
  <1>8. CASE mending /\ pc \in Early
    <2>1. pc' = "failed" /\ mending' = FALSE
          /\ UNCHANGED <<selected, turn, failed, working, trajectories>>
      BY <1>8 DEF TF!Malformed, TF!Ask, Early
    <2> QED  BY <1>4, <1>8, <2>1
  <1> QED  BY <1>1, <1>2, <1>5, <1>6, <1>7, <1>8 DEF Early, AtWork

LEMMA TaskNext == ASSUME TF!TaskAssumption, TaskInv, [TF!Next]_TF!vars PROVE TaskInv'
  <1>1. ASSUME UNCHANGED TF!vars PROVE TaskInv'
    <2>1. mending' \in BOOLEAN
      BY <1>1 DEF TF!vars, TaskInv, TaskTypes, TF!TypeOK
    <2> QED  BY <1>1, <2>1, TaskSame DEF TF!vars
  <1> QED  BY <1>1, BatchKeeps, AnswerabilityKeeps, NextTaskKeeps, TurnKeeps, GroundingKeeps,
              MalformedKeeps DEF TF!Next

LEMMA TaskSays == TaskInv => TF!TypeOK /\ TF!CritiquesStand
  BY DEF TaskInv, TaskTypes

-----------------------------------------------------------------------------
(* QuotaLedger. *)
(* The instance adds up as the module it is taken in does. *)
LEMMA LedgerSums ==
    /\ \A f, S : QL!SumFunctionOnSet(f, S) = SumFunctionOnSet(f, S)
    /\ \A f : QL!SumFunction(f) = SumFunction(f)
  <1>1. \A f, S : QL!SumFunctionOnSet(f, S) = SumFunctionOnSet(f, S)
    BY DEF SumFunctionOnSet, FoldFunctionOnSet, MapThenFoldSet, QL!SumFunctionOnSet,
           QL!FoldFunctionOnSet, QL!MapThenFoldSet
  <1> QED  BY <1>1 DEF SumFunction, QL!SumFunction

Holding == {"reserved", "calling", "succeeded", "failed"}
QuotaCall == [pc: Holding \cup {"idle", "reserving", "down"}, current: QL!Instant, id: Nat,
              attempts: 0..Attempts, tokens: Nat, lost: BOOLEAN]

LedgerTypes ==
    /\ now \in QL!Instant /\ slips \in 0..QuotaFaults
    /\ windows \in [QL!Window -> [used: QL!Amount, reserved: QL!Amount]]
    /\ reservations \in Seq(QL!Reservation) /\ Len(reservations) <= CallLimit
    /\ calls \in [QuotaWorkers -> QuotaCall]
    /\ sent \in [1..CallLimit -> [QL!Minute -> Nat]]

(* A reservation is in the hands of one worker, which counts what it sends;   *)
(* what nobody has reserved yet has sent nothing.                          *)
Hands ==
    /\ \A w \in QuotaWorkers : calls[w].pc \in Holding =>
          /\ calls[w].id \in DOMAIN reservations
          /\ reservations[calls[w].id].state # "reconciled"
          /\ QL!SentUnder(calls[w].id) = calls[w].attempts
    /\ \A w \in QuotaWorkers : calls[w].pc \notin Holding => calls[w].attempts = 0
    /\ \A w, v \in QuotaWorkers :
          calls[w].pc \in Holding /\ calls[v].pc \in Holding /\ calls[w].id = calls[v].id => w = v
    /\ \A i \in 1..CallLimit : QL!SentUnder(i) <= Attempts
    /\ \A i \in 1..CallLimit : i \notin DOMAIN reservations => QL!SentUnder(i) = 0
    /\ \A i \in DOMAIN reservations : reservations[i].amount["requests"] = Attempts

(* What a settled reservation has in the windows: no more is sent under one   *)
(* that its call has settled, and the sweep has charged all there can be.   *)
Owed(i) == IF reservations[i].state = "reconciled" THEN QL!SentUnder(i)
           ELSE reservations[i].amount["requests"]
Past(win) == QL!Of(win) \ QL!Open(win)
OwedIsUsed ==
    \A win \in QL!Window :
        SumFunctionOnSet([i \in Past(win) |-> Owed(i)], Past(win)) <= windows[win].used["requests"]

LedgerInv == LedgerTypes /\ Hands /\ QL!LedgerBalances /\ QL!RequestsWithinLimit /\ OwedIsUsed

-----------------------------------------------------------------------------
LEMMA MultipleLeavesNothing == ASSUME NEW M \in Nat \ {0}, NEW q \in Nat PROVE (M * q) % M = 0
  OBVIOUS
LEMMA Floor ==
    ASSUME NEW M \in Nat \ {0}, NEW t \in Nat
    PROVE  (t - (t % M)) % M = 0 /\ t - (t % M) \in 0..t
  <1>1. t - (t % M) = M * (t \div M) /\ t \div M \in Nat
    OBVIOUS
  <1>2. (t - (t % M)) % M = 0
    BY <1>1, MultipleLeavesNothing
  <1>3. t % M \in Nat /\ t % M <= t
    OBVIOUS
  <1> QED  BY <1>2, <1>3

LEMMA StartsOfWindows ==
    ASSUME QL!QuotaAssumption, NEW t \in QL!Instant
    PROVE  QL!MinuteOf(t) \in QL!Minute /\ QL!DayOf(t) \in QL!Day
  <1>1. t \in Nat /\ t <= Horizon /\ Horizon \in Nat
        /\ MinuteTicks \in Nat \ {0} /\ DayTicks \in Nat \ {0}
    BY DEF QL!QuotaAssumption, QL!Instant
  <1>2. (t - (t % MinuteTicks)) % MinuteTicks = 0 /\ t - (t % MinuteTicks) \in 0..t
    BY <1>1, Floor
  <1>3. (t - (t % DayTicks)) % DayTicks = 0 /\ t - (t % DayTicks) \in 0..t
    BY <1>1, Floor
  <1>4. \A n \in 0..t : n \in QL!Instant
    BY <1>1 DEF QL!Instant
  <1> QED  BY <1>2, <1>3, <1>4 DEF QL!MinuteOf, QL!DayOf, QL!Minute, QL!Day

LEMMA FiniteRows ==
    ASSUME LedgerTypes, NEW S, S \subseteq DOMAIN reservations
    PROVE  IsFiniteSet(S) /\ IsFiniteSet(DOMAIN reservations)
  <1> DEFINE n == Len(reservations)
  <1>1. n \in Nat /\ DOMAIN reservations = 1..n
    BY DEF LedgerTypes
  <1> HIDE DEF n
  <1>2. IsFiniteSet(1..n)
    BY <1>1, FS_Interval
  <1> QED  BY <1>1, <1>2, FS_Subset

LEMMA FiniteMinutes == ASSUME QL!QuotaAssumption PROVE IsFiniteSet(QL!Minute)
  <1>1. IsFiniteSet(0..Horizon)
    BY FS_Interval DEF QL!QuotaAssumption
  <1> QED  BY <1>1, FS_Subset DEF QL!Minute, QL!Instant

LEMMA RowType ==
    ASSUME QL!QuotaAssumption, LedgerTypes, NEW i \in DOMAIN reservations
    PROVE  /\ reservations[i] \in QL!Reservation /\ i \in 1..CallLimit /\ i \in Nat
           /\ reservations[i].amount \in QL!Amount
           /\ \A x \in QL!Resource : reservations[i].amount[x] \in Nat
  <1>1. reservations[i] \in QL!Reservation /\ i \in 1..Len(reservations)
    BY DEF LedgerTypes
  <1>2. reservations[i].amount \in QL!Amount
    BY <1>1 DEF QL!Reservation
  <1>3. i \in 1..CallLimit
    BY <1>1 DEF LedgerTypes, QL!QuotaAssumption
  <1> QED  BY <1>1, <1>2, <1>3 DEF QL!Amount

LEMMA SentType ==
    ASSUME QL!QuotaAssumption, LedgerTypes, NEW i \in 1..CallLimit
    PROVE  QL!SentUnder(i) \in Nat
  <1>1. DOMAIN sent[i] = QL!Minute /\ \A m \in QL!Minute : sent[i][m] \in Nat
    BY DEF LedgerTypes
  <1> QED  BY LedgerSums, <1>1, FiniteMinutes, SumType DEF QL!SentUnder, SumFunction

(* The sum of a resource over some rows, by any function that says the same.  *)
LEMMA SumOfIs ==
    ASSUME NEW rows, IsFiniteSet(rows), NEW amount, NEW f, NEW x \in QL!Resource,
           \A i \in rows : f[i] = amount[i][x]
    PROVE  QL!SumOf(amount, rows)[x] = SumFunctionOnSet(f, rows)
  <1> DEFINE e == [i \in rows |-> amount[i][x]]
  <1>1. \A i \in rows : e[i] = f[i]
    OBVIOUS
  <1>2. QL!SumOf(amount, rows)[x] = SumFunctionOnSet(e, rows)
    BY LedgerSums DEF QL!SumOf
  <1> HIDE DEF e
  <1> QED  BY <1>1, <1>2, SumAgrees

LEMMA SumOfType ==
    ASSUME NEW rows, IsFiniteSet(rows), NEW amount, \A i \in rows : amount[i] \in QL!Amount
    PROVE  QL!SumOf(amount, rows) \in QL!Amount
  <1> SUFFICES ASSUME NEW x \in QL!Resource PROVE QL!SumOf(amount, rows)[x] \in Nat
    BY LedgerSums DEF QL!SumOf, QL!Amount
  <1> DEFINE f == [i \in rows |-> amount[i][x]]
  <1>1. \A i \in rows : f[i] = amount[i][x] /\ f[i] \in Nat
    BY DEF QL!Amount
  <1> HIDE DEF f
  <1>2. QL!SumOf(amount, rows)[x] = SumFunctionOnSet(f, rows)
    BY <1>1, SumOfIs
  <1>3. SumFunctionOnSet(f, rows) \in Nat
    BY <1>1, SumType
  <1> QED  BY <1>2, <1>3

LEMMA RowsOfWindow ==
    ASSUME LedgerTypes, NEW win
    PROVE  /\ IsFiniteSet(QL!Of(win)) /\ IsFiniteSet(QL!Open(win)) /\ IsFiniteSet(Past(win))
           /\ QL!Open(win) \subseteq QL!Of(win) /\ QL!Of(win) \subseteq DOMAIN reservations
  <1>1. QL!Open(win) \subseteq QL!Of(win) /\ QL!Of(win) \subseteq DOMAIN reservations
    BY DEF QL!Open, QL!Of
  <1> QED  BY <1>1, FiniteRows DEF Past

-----------------------------------------------------------------------------
(* What the invariant says. *)

LEMMA LedgerSays ==
    ASSUME QL!QuotaAssumption, LedgerInv
    PROVE  QL!TypeOK /\ QL!LedgerBalances /\ QL!RequestsWithinLimit /\ QL!NeverUndercharged
  <1>1. QL!TypeOK
    <2>1. /\ now \in QL!Instant /\ slips \in 0..QuotaFaults
          /\ windows \in [QL!Window -> [used: QL!Amount, reserved: QL!Amount]]
          /\ sent \in [1..CallLimit -> [QL!Minute -> Nat]]
      BY DEF LedgerInv, LedgerTypes
    <2>2. \A i \in DOMAIN reservations : reservations[i] \in QL!Reservation
      BY DEF LedgerInv, LedgerTypes
    <2>3. \A w \in QuotaWorkers : calls[w].attempts \in 0..Attempts
      BY DEF LedgerInv, LedgerTypes, QuotaCall
    <2>4. \A w \in QuotaWorkers : calls[w].pc \in Holding => calls[w].id \in DOMAIN reservations
      BY DEF LedgerInv, Hands
    <2> QED  BY <2>1, <2>2, <2>3, <2>4 DEF QL!TypeOK, Holding
  <1>2. ASSUME NEW win \in QL!Window
        PROVE  SumFunctionOnSet([i \in QL!Of(win) |-> QL!SentUnder(i)], QL!Of(win))
                   <= windows[win].used["requests"] + windows[win].reserved["requests"]
    <2> DEFINE f == [i \in QL!Of(win) |-> QL!SentUnder(i)]
               e == [i \in QL!Of(win) |-> Owed(i)]
               past == [i \in Past(win) |-> Owed(i)]
    <2>1. /\ IsFiniteSet(QL!Of(win)) /\ IsFiniteSet(QL!Open(win)) /\ IsFiniteSet(Past(win))
          /\ QL!Open(win) \subseteq QL!Of(win) /\ QL!Of(win) \subseteq DOMAIN reservations
          /\ QL!Of(win) = QL!Open(win) \cup Past(win) /\ QL!Open(win) \cap Past(win) = {}
      BY RowsOfWindow DEF LedgerInv, Past
    <2>2. \A i \in QL!Of(win) : QL!SentUnder(i) \in Nat /\ QL!SentUnder(i) <= Attempts
      BY <2>1, RowType, SentType DEF LedgerInv, Hands
    <2>3. \A i \in QL!Of(win) : /\ reservations[i].amount["requests"] = Attempts
                            /\ reservations[i].amount["requests"] \in Nat
      BY <2>1, RowType DEF LedgerInv, Hands, QL!Resource
    <2>4. \A i \in QL!Of(win) : f[i] \in Nat /\ e[i] \in Nat /\ f[i] <= e[i]
      BY <2>2, <2>3 DEF Owed
    <2>5. \A i \in Past(win) : past[i] = e[i]
      BY <2>1
    <2>6. \A i \in QL!Open(win) : e[i] = QL!Amounts[i]["requests"]
      BY <2>1 DEF QL!Open, Owed, QL!Amounts
    <2> HIDE DEF f, e, past
    <2>7. SumFunctionOnSet(f, QL!Of(win)) <= SumFunctionOnSet(e, QL!Of(win))
      BY <2>1, <2>4, SumBelow
    <2>8. SumFunctionOnSet(e, QL!Of(win)) =
              SumFunctionOnSet(e, QL!Open(win)) + SumFunctionOnSet(e, Past(win))
      <3>1. \A i \in QL!Open(win) \cup Past(win) : e[i] \in Nat
        BY <2>1, <2>4
      <3>2. SumFunctionOnSet(e, QL!Open(win) \cup Past(win)) =
              SumFunctionOnSet(e, QL!Open(win)) + SumFunctionOnSet(e, Past(win))
        BY <2>1, <3>1, SumBoth
      <3> QED  BY <2>1, <3>2
    <2>9. SumFunctionOnSet(e, QL!Open(win)) = windows[win].reserved["requests"]
      <3>1. QL!SumOf(QL!Amounts, QL!Open(win))["requests"] = SumFunctionOnSet(e, QL!Open(win))
        BY <2>1, <2>6, SumOfIs DEF QL!Resource
      <3> QED  BY <3>1 DEF LedgerInv, QL!LedgerBalances
    <2>10. SumFunctionOnSet(e, Past(win)) <= windows[win].used["requests"]
      <3>1. SumFunctionOnSet(past, Past(win)) = SumFunctionOnSet(e, Past(win))
        BY <2>1, <2>5, SumAgrees
      <3>2. SumFunctionOnSet(past, Past(win)) <= windows[win].used["requests"]
        BY DEF LedgerInv, OwedIsUsed, past
      <3> QED  BY <3>1, <3>2
    <2>11. /\ SumFunctionOnSet(f, QL!Of(win)) \in Nat /\ SumFunctionOnSet(e, QL!Open(win)) \in Nat
           /\ SumFunctionOnSet(e, Past(win)) \in Nat
      BY <2>1, <2>4, SumType
    <2>12. windows[win].used["requests"] \in Nat
      BY DEF LedgerInv, LedgerTypes, QL!Amount, QL!Resource
    <2>13. SumFunctionOnSet(f, QL!Of(win))
               <= windows[win].used["requests"] + windows[win].reserved["requests"]
      BY <2>7, <2>8, <2>9, <2>10, <2>11, <2>12
    <2> QED  BY <2>13 DEF f
  <1> QED  BY LedgerSums, <1>1, <1>2 DEF LedgerInv, QL!NeverUndercharged

LEMMA LedgerInit == ASSUME QL!QuotaAssumption, QL!Init PROVE LedgerInv
  <1>1. LedgerTypes
    BY DEF QL!QuotaAssumption, QL!Init, LedgerTypes, QL!Idle, QuotaCall, Holding, QL!Nothing,
       QL!Amount, QL!Instant
  <1>2. \A i \in 1..CallLimit : QL!SentUnder(i) = 0
    <2> TAKE i \in 1..CallLimit
    <2>1. DOMAIN sent[i] = QL!Minute /\ \A m \in QL!Minute : sent[i][m] = 0
      BY DEF QL!Init
    <2> DEFINE zero == [m \in QL!Minute |-> 0]
    <2>2. QL!SentUnder(i) = SumFunctionOnSet(sent[i], QL!Minute)
      BY LedgerSums, <2>1 DEF QL!SentUnder, SumFunction
    <2>3. Sums(sent[i], QL!Minute)
      BY FiniteMinutes, SumStep
    <2>4. SumFunctionOnSet(sent[i], QL!Minute) = 0
      <3> DEFINE P(s) == SumFunctionOnSet(sent[i], s) = 0
                 Bad == {s \in SUBSET QL!Minute : ~P(s)}
      <3> SUFFICES ASSUME ~P(QL!Minute) PROVE FALSE
        OBVIOUS
      <3>1. Bad \subseteq SUBSET QL!Minute /\ Bad # {}
        OBVIOUS
      <3> HIDE DEF Bad
      <3>2. PICK s \in Bad : \A t \in Bad : t \subseteq s => t = s
        BY <3>1, FiniteMinutes, LeastSubset
      <3> USE DEF Bad
      <3>3. s \in SUBSET QL!Minute /\ SumFunctionOnSet(sent[i], s) # 0
        BY <3>2
      <3>4. Sums(sent[i], s)
        BY <3>3, FiniteMinutes, FS_Subset, SumStep
      <3>5. s # {} /\ Some(s) \in s
        BY <3>3, <3>4 DEF Sums, Some
      <3>6. SumFunctionOnSet(sent[i], s \ {Some(s)}) = 0
        BY <3>2, <3>3, <3>5
      <3> QED  BY <2>1, <3>3, <3>4, <3>5, <3>6 DEF Sums
    <2> QED  BY <2>2, <2>4
  <1>3. DOMAIN reservations = {}
    BY DEF QL!Init
  <1>4. Hands
    <2>1. \A w \in QuotaWorkers : calls[w] = QL!Idle
      BY DEF QL!Init
    <2> QED  BY <1>2, <1>3, <2>1 DEF Hands, QL!Idle, Holding, QL!QuotaAssumption
  <1>5. ASSUME NEW win \in QL!Window
        PROVE  /\ QL!Open(win) = {} /\ QL!Of(win) = {} /\ Past(win) = {}
               /\ \A x \in QL!Resource : windows[win].used[x] = 0 /\ windows[win].reserved[x] = 0
               /\ windows[win].reserved = QL!Nothing
    BY <1>3 DEF QL!Open, QL!Of, Past, QL!Init, QL!Nothing
  <1>6. QL!LedgerBalances
    <2> SUFFICES ASSUME NEW win \in QL!Window PROVE windows[win].reserved = QL!SumOf(QL!Amounts, QL!Open(win))
      BY DEF QL!LedgerBalances
    <2>1. QL!SumOf(QL!Amounts, {}) = QL!Nothing
      BY LedgerSums, SumEmpty DEF QL!SumOf, QL!Nothing
    <2> QED  BY <1>5, <2>1
  <1>7. QL!RequestsWithinLimit
    <2>1. \A win \in QL!Window : QuotaLimit[win[1]]["requests"] # None => QuotaLimit[win[1]]["requests"] \in Nat
      BY DEF QL!QuotaAssumption, QL!Window, QL!Kind, QL!Resource
    <2> QED  BY <1>5, <2>1 DEF QL!RequestsWithinLimit, QL!Resource
  <1>8. OwedIsUsed
    <2> SUFFICES ASSUME NEW win \in QL!Window
                 PROVE  SumFunctionOnSet([i \in Past(win) |-> Owed(i)], Past(win))
                            <= windows[win].used["requests"]
      BY DEF OwedIsUsed
    <2>1. SumFunctionOnSet([i \in Past(win) |-> Owed(i)], Past(win)) = 0
      BY <1>5, SumEmpty
    <2> QED  BY <1>5, <2>1 DEF QL!Resource
  <1> QED  BY <1>1, <1>4, <1>6, <1>7, <1>8 DEF LedgerInv

-----------------------------------------------------------------------------
(* The steps, by what they do to the ledger: nothing, a new reservation, or    *)
(* the charge of some open ones.                                           *)

LEMMA LedgerStays ==
    ASSUME QL!QuotaAssumption, LedgerInv, windows' = windows,
           DOMAIN reservations' = DOMAIN reservations,
           \A i \in DOMAIN reservations :
              /\ reservations'[i].state = reservations[i].state
              /\ reservations'[i].amount = reservations[i].amount
              /\ reservations'[i].minute = reservations[i].minute
              /\ reservations'[i].day = reservations[i].day
              /\ Owed(i)' = Owed(i)
    PROVE  (QL!LedgerBalances /\ QL!RequestsWithinLimit /\ OwedIsUsed)'
  <1>1. \A win : QL!Open(win)' = QL!Open(win) /\ QL!Of(win)' = QL!Of(win)
    BY DEF QL!Open, QL!Of, QL!WindowsOf
  <1>2. \A win : Past(win)' = Past(win) /\ Past(win) \subseteq DOMAIN reservations
    BY <1>1 DEF Past, QL!Of
  <1>3. QL!Amounts' = QL!Amounts
    BY DEF QL!Amounts
  <1>4. QL!LedgerBalances'
    BY LedgerSums, <1>1, <1>3 DEF LedgerInv, QL!LedgerBalances, QL!SumOf
  <1>5. QL!RequestsWithinLimit'
    BY DEF LedgerInv, QL!RequestsWithinLimit
  <1>6. OwedIsUsed'
    <2> SUFFICES ASSUME NEW win \in QL!Window
                 PROVE  SumFunctionOnSet([i \in Past(win)' |-> Owed(i)'], Past(win)')
                            <= windows'[win].used["requests"]
      BY DEF OwedIsUsed
    <2>1. [i \in Past(win)' |-> Owed(i)'] = [i \in Past(win) |-> Owed(i)]
      BY <1>2
    <2> QED  BY <1>2, <2>1 DEF LedgerInv, OwedIsUsed
  <1> QED  BY <1>4, <1>5, <1>6

LEMMA InsertKeeps ==
    ASSUME QL!QuotaAssumption, LedgerInv, NEW r \in QL!Reservation, r.state = "reserved",
           r.amount["requests"] = Attempts, QL!HasCapacity(r), QL!Insert(r), sent' = sent,
           Len(reservations) < CallLimit
    PROVE  /\ reservations' \in Seq(QL!Reservation) /\ Len(reservations') <= CallLimit
           /\ DOMAIN reservations' = DOMAIN reservations \cup {Len(reservations) + 1}
           /\ Len(reservations) + 1 \notin DOMAIN reservations
           /\ Len(reservations) + 1 \in 1..CallLimit
           /\ reservations'[Len(reservations) + 1] = r
           /\ \A i \in DOMAIN reservations : reservations'[i] = reservations[i]
           /\ windows' \in [QL!Window -> [used: QL!Amount, reserved: QL!Amount]]
           /\ (QL!LedgerBalances /\ QL!RequestsWithinLimit /\ OwedIsUsed)'
  <1> DEFINE n == Len(reservations) + 1
  <1>1. reservations \in Seq(QL!Reservation) /\ reservations' = Append(reservations, r)
    BY DEF LedgerInv, LedgerTypes, QL!Insert
  <1>2. /\ reservations' \in Seq(QL!Reservation) /\ Len(reservations') <= CallLimit
        /\ DOMAIN reservations' = DOMAIN reservations \cup {n} /\ n \notin DOMAIN reservations
        /\ n \in 1..CallLimit /\ reservations'[n] = r
        /\ \A i \in DOMAIN reservations : reservations'[i] = reservations[i]
    BY <1>1 DEF QL!QuotaAssumption
  <1> HIDE DEF n
  <1>3. /\ r.amount \in QL!Amount /\ windows \in [QL!Window -> [used: QL!Amount, reserved: QL!Amount]]
        /\ LedgerTypes
    BY DEF QL!Reservation, LedgerInv, LedgerTypes
  <1>4. windows' = [win \in QL!Window |->
          IF win \in QL!WindowsOf(r) THEN [windows[win] EXCEPT !.reserved = QL!Plus(windows[win].reserved, r.amount)]
          ELSE windows[win]]
    BY DEF QL!Insert
  <1>5. ASSUME NEW win \in QL!Window
        PROVE  /\ windows[win].used \in QL!Amount /\ windows[win].reserved \in QL!Amount
               /\ windows'[win].used = windows[win].used
               /\ windows'[win].reserved = IF win \in QL!WindowsOf(r)
                                          THEN QL!Plus(windows[win].reserved, r.amount)
                                          ELSE windows[win].reserved
               /\ windows'[win] \in [used: QL!Amount, reserved: QL!Amount]
    <2>1. windows[win] \in [used: QL!Amount, reserved: QL!Amount]
      BY <1>3
    <2>2. QL!Plus(windows[win].reserved, r.amount) \in QL!Amount
      BY <1>3, <2>1 DEF QL!Plus, QL!Amount
    <2>3. CASE win \in QL!WindowsOf(r)  BY <1>4, <2>1, <2>2, <2>3
    <2>4. CASE win \notin QL!WindowsOf(r)  BY <1>4, <2>1, <2>4
    <2> QED  BY <2>1, <2>3, <2>4
  <1>6. windows' \in [QL!Window -> [used: QL!Amount, reserved: QL!Amount]]
    BY <1>4, <1>5
  <1>7. ASSUME NEW win \in QL!Window
        PROVE  /\ QL!Open(win)' = IF win \in QL!WindowsOf(r) THEN QL!Open(win) \cup {n} ELSE QL!Open(win)
               /\ Past(win)' = Past(win)
    <2>1. QL!Open(win)' = IF win \in QL!WindowsOf(r) THEN QL!Open(win) \cup {n} ELSE QL!Open(win)
      BY <1>2 DEF QL!Open, QL!WindowsOf
    <2>2. QL!Of(win)' = IF win \in QL!WindowsOf(r) THEN QL!Of(win) \cup {n} ELSE QL!Of(win)
      BY <1>2 DEF QL!Of, QL!WindowsOf
    <2>3. n \notin QL!Open(win) /\ n \notin QL!Of(win)
      BY <1>2 DEF QL!Open, QL!Of
    <2> QED  BY <2>1, <2>2, <2>3 DEF Past
  <1>8. ASSUME NEW win \in QL!Window, NEW x \in QL!Resource
        PROVE  windows'[win].reserved[x] = QL!SumOf(QL!Amounts', QL!Open(win)')[x]
    <2> DEFINE f == [i \in DOMAIN reservations' |-> reservations'[i].amount[x]]
    <2>1. \A i \in DOMAIN reservations' : f[i] = QL!Amounts'[i][x]
      BY DEF QL!Amounts
    <2>2. \A i \in DOMAIN reservations : f[i] = QL!Amounts[i][x] /\ f[i] \in Nat
      BY <1>2, <1>3, RowType DEF QL!Amounts
    <2>3. f[n] = r.amount[x] /\ f[n] \in Nat
      BY <1>2, <1>3 DEF QL!Amount
    <2> HIDE DEF f
    <2>4. /\ IsFiniteSet(QL!Open(win)) /\ QL!Open(win) \subseteq DOMAIN reservations
          /\ IsFiniteSet(QL!Open(win)') /\ QL!Open(win)' \subseteq DOMAIN reservations'
      <3>1. IsFiniteSet(QL!Open(win)) /\ QL!Open(win) \subseteq DOMAIN reservations
        BY <1>3, RowsOfWindow
      <3> QED  BY <1>2, <1>7, <3>1, FS_AddElement
    <2>5. QL!SumOf(QL!Amounts, QL!Open(win))[x] = SumFunctionOnSet(f, QL!Open(win))
      BY <2>2, <2>4, SumOfIs
    <2>6. QL!SumOf(QL!Amounts', QL!Open(win)')[x] = SumFunctionOnSet(f, QL!Open(win)')
      BY <2>1, <2>4, SumOfIs
    <2>7. windows[win].reserved[x] = SumFunctionOnSet(f, QL!Open(win))
      BY <2>5 DEF LedgerInv, QL!LedgerBalances
    <2>8. CASE win \in QL!WindowsOf(r)
      <3>1. n \notin QL!Open(win) /\ \A i \in QL!Open(win) \cup {n} : f[i] \in Nat
        BY <1>2, <2>2, <2>3, <2>4
      <3>2. SumFunctionOnSet(f, QL!Open(win) \cup {n}) = f[n] + SumFunctionOnSet(f, QL!Open(win))
        BY <2>4, <3>1, SumWith
      <3>3. windows'[win].reserved[x] = windows[win].reserved[x] + r.amount[x]
        BY <1>5, <2>8 DEF QL!Plus
      <3>4. SumFunctionOnSet(f, QL!Open(win)) \in Nat
        BY <2>4, <3>1, SumType
      <3>5. QL!SumOf(QL!Amounts', QL!Open(win)')[x] = f[n] + SumFunctionOnSet(f, QL!Open(win))
        BY <1>7, <2>6, <2>8, <3>2
      <3> QED  BY <2>3, <2>7, <3>3, <3>4, <3>5
    <2>9. CASE win \notin QL!WindowsOf(r)
      BY <1>5, <1>7, <2>6, <2>7, <2>9
    <2> QED  BY <2>8, <2>9
  <1>9. QL!LedgerBalances'
    <2> SUFFICES ASSUME NEW win \in QL!Window
                 PROVE  windows'[win].reserved = QL!SumOf(QL!Amounts', QL!Open(win)')
      BY DEF QL!LedgerBalances
    <2>1. windows'[win].reserved \in QL!Amount
      BY <1>5
    <2>2. windows'[win].reserved = [x \in QL!Resource |-> windows'[win].reserved[x]]
      BY <2>1 DEF QL!Amount
    <2>3. QL!SumOf(QL!Amounts', QL!Open(win)') = [x \in QL!Resource |-> QL!SumOf(QL!Amounts', QL!Open(win)')[x]]
      BY LedgerSums DEF QL!SumOf
    <2> QED  BY <1>8, <2>2, <2>3
  <1>10. QL!RequestsWithinLimit'
    <2> SUFFICES ASSUME NEW win \in QL!Window, QuotaLimit[win[1]]["requests"] # None
                 PROVE  windows'[win].used["requests"] + windows'[win].reserved["requests"]
                            <= QuotaLimit[win[1]]["requests"]
      BY DEF QL!RequestsWithinLimit
    <2>1. CASE win \in QL!WindowsOf(r)
      <3>1. windows[win].used["requests"] + windows[win].reserved["requests"]
                + r.amount["requests"] <= QuotaLimit[win[1]]["requests"]
        BY <2>1 DEF QL!HasCapacity, QL!Resource
      <3>2. windows'[win].reserved["requests"] =
                windows[win].reserved["requests"] + r.amount["requests"]
        BY <1>5, <2>1 DEF QL!Plus, QL!Resource
      <3>3. /\ windows[win].used["requests"] \in Nat /\ windows[win].reserved["requests"] \in Nat
            /\ r.amount["requests"] \in Nat
        BY <1>3, <1>5 DEF QL!Amount, QL!Resource
      <3>4. windows'[win].used["requests"] = windows[win].used["requests"]
        BY <1>5
      <3>5. windows'[win].used["requests"] + windows'[win].reserved["requests"] =
              windows[win].used["requests"] + windows[win].reserved["requests"] + r.amount["requests"]
        BY <3>2, <3>3, <3>4
      <3> QED  BY <3>1, <3>5
    <2>2. CASE win \notin QL!WindowsOf(r)
      BY <1>5, <2>2 DEF LedgerInv, QL!RequestsWithinLimit
    <2> QED  BY <2>1, <2>2
  <1>11. OwedIsUsed'
    <2> SUFFICES ASSUME NEW win \in QL!Window
                 PROVE  SumFunctionOnSet([i \in Past(win)' |-> Owed(i)'], Past(win)')
                            <= windows'[win].used["requests"]
      BY DEF OwedIsUsed
    <2>1. \A i \in Past(win) : Owed(i)' = Owed(i)
      BY LedgerSums, <1>2 DEF Past, QL!Of, Owed, QL!SentUnder
    <2>2. [i \in Past(win)' |-> Owed(i)'] = [i \in Past(win) |-> Owed(i)]
      BY <1>7, <2>1
    <2> QED  BY <1>5, <1>7, <2>2 DEF LedgerInv, OwedIsUsed
  <1> QED  BY <1>2, <1>6, <1>9, <1>10, <1>11 DEF n

Closed(rows, s) ==
    [i \in DOMAIN reservations |->
        IF i \in rows THEN [reservations[i] EXCEPT !.state = s] ELSE reservations[i]]

LEMMA ChargeKeeps ==
    ASSUME QL!QuotaAssumption, LedgerInv,
           NEW rows, rows \subseteq {i \in DOMAIN reservations : reservations[i].state = "reserved"},
           NEW actual, NEW s \in {"reconciled", "reconciled_after_restart"},
           \A i \in rows : /\ actual[i] \in QL!Amount
                           /\ actual[i]["requests"] <= Attempts
                           /\ IF s = "reconciled" THEN QL!SentUnder(i) <= actual[i]["requests"]
                              ELSE actual[i]["requests"] = Attempts,
           windows' = QL!Charged(rows, actual), reservations' = Closed(rows, s), sent' = sent
    PROVE  /\ reservations' \in Seq(QL!Reservation) /\ Len(reservations') <= CallLimit
           /\ DOMAIN reservations' = DOMAIN reservations
           /\ \A i \in DOMAIN reservations :
                 /\ reservations'[i].amount = reservations[i].amount
                 /\ reservations'[i].state = IF i \in rows THEN s ELSE reservations[i].state
           /\ windows' \in [QL!Window -> [used: QL!Amount, reserved: QL!Amount]]
           /\ (QL!LedgerBalances /\ QL!RequestsWithinLimit /\ OwedIsUsed)'
  <1>1. /\ LedgerTypes /\ rows \subseteq DOMAIN reservations
        /\ \A i \in rows : reservations[i].state = "reserved"
        /\ \A i \in DOMAIN reservations : reservations[i] \in QL!Reservation
    BY RowType DEF LedgerInv
  <1>2. ASSUME NEW i \in DOMAIN reservations
        PROVE  /\ reservations'[i] \in QL!Reservation
               /\ reservations'[i].amount = reservations[i].amount
               /\ reservations'[i].minute = reservations[i].minute
               /\ reservations'[i].day = reservations[i].day
               /\ reservations'[i].state = IF i \in rows THEN s ELSE reservations[i].state
    <2>1. reservations[i] \in QL!Reservation
      BY <1>1
    <2>2. CASE i \in rows
      <3>1. reservations'[i] = [reservations[i] EXCEPT !.state = s]
        BY <2>2 DEF Closed
      <3> QED  BY <2>1, <2>2, <3>1 DEF QL!Reservation
    <2>3. CASE i \notin rows  BY <2>1, <2>3 DEF Closed
    <2> QED  BY <2>2, <2>3
  <1>3. /\ reservations' \in Seq(QL!Reservation) /\ Len(reservations') <= CallLimit
        /\ DOMAIN reservations' = DOMAIN reservations
    <2> DEFINE n == Len(reservations)
    <2>1. n \in Nat /\ DOMAIN reservations = 1..n /\ n <= CallLimit
      BY <1>1 DEF LedgerTypes
    <2> HIDE DEF n
    <2>2. DOMAIN reservations' = 1..n
      BY <2>1 DEF Closed
    <2>3. reservations' = [i \in 1..n |-> reservations'[i]]
      BY <2>1 DEF Closed
    <2>4. reservations' \in [1..n -> QL!Reservation]
      BY <1>2, <2>1, <2>3
    <2>5. reservations' \in Seq(QL!Reservation) /\ Len(reservations') = n
      BY <2>1, <2>4
    <2> QED  BY <2>1, <2>2, <2>5
  <1> DEFINE mine(win) == {i \in rows : win \in QL!WindowsOf(reservations[i])}
  <1>4. ASSUME NEW win \in QL!Window
        PROVE  /\ QL!Open(win)' = QL!Open(win) \ mine(win) /\ mine(win) \subseteq QL!Open(win)
               /\ Past(win)' = Past(win) \cup mine(win) /\ Past(win) \cap mine(win) = {}
               /\ IsFiniteSet(mine(win)) /\ IsFiniteSet(QL!Open(win)) /\ IsFiniteSet(Past(win))
    <2>1. \A i \in DOMAIN reservations : QL!WindowsOf(reservations'[i]) = QL!WindowsOf(reservations[i])
      BY <1>2 DEF QL!WindowsOf
    <2>2. mine(win) \subseteq QL!Open(win) /\ QL!Open(win) \subseteq QL!Of(win)
      BY <1>1 DEF QL!Open, QL!Of
    <2>3. QL!Open(win)' = QL!Open(win) \ mine(win)
      BY <1>1, <1>2, <1>3, <2>1 DEF QL!Open
    <2>4. QL!Of(win)' = QL!Of(win)
      BY <1>3, <2>1 DEF QL!Of
    <2>5. Past(win)' = Past(win) \cup mine(win) /\ Past(win) \cap mine(win) = {}
      BY <2>2, <2>3, <2>4 DEF Past
    <2>6. IsFiniteSet(QL!Open(win)) /\ IsFiniteSet(Past(win))
      BY <1>1, RowsOfWindow
    <2> QED  BY <2>2, <2>3, <2>5, <2>6, FS_Subset
  <1>5. ASSUME NEW win \in QL!Window
        PROVE  /\ windows[win].used \in QL!Amount /\ windows[win].reserved \in QL!Amount
               /\ windows'[win].used = QL!Plus(windows[win].used, QL!SumOf(actual, mine(win)))
               /\ windows'[win].reserved = QL!MinusAtLeastZero(windows[win].reserved, QL!SumOf(QL!Amounts, mine(win)))
               /\ QL!SumOf(actual, mine(win)) \in QL!Amount
               /\ QL!SumOf(QL!Amounts, mine(win)) \in QL!Amount
               /\ windows'[win] \in [used: QL!Amount, reserved: QL!Amount]
    <2>1. windows[win] \in [used: QL!Amount, reserved: QL!Amount]
      BY <1>1 DEF LedgerTypes
    <2>2. windows'[win] = [used |-> QL!Plus(windows[win].used, QL!SumOf(actual, mine(win))),
             reserved |-> QL!MinusAtLeastZero(windows[win].reserved, QL!SumOf(QL!Amounts, mine(win)))]
      BY DEF QL!Charged
    <2>3. \A i \in mine(win) : actual[i] \in QL!Amount /\ QL!Amounts[i] \in QL!Amount
      BY <1>1, RowType DEF QL!Amounts
    <2>4. QL!SumOf(actual, mine(win)) \in QL!Amount /\ QL!SumOf(QL!Amounts, mine(win)) \in QL!Amount
      <3> HIDE DEF mine
      <3> QED  BY <1>4, <2>3, SumOfType
    <2> HIDE DEF mine
    <2>5. QL!Plus(windows[win].used, QL!SumOf(actual, mine(win))) \in QL!Amount
      BY <2>1, <2>4 DEF QL!Plus, QL!Amount
    <2>6. QL!MinusAtLeastZero(windows[win].reserved, QL!SumOf(QL!Amounts, mine(win))) \in QL!Amount
      BY <2>1, <2>4 DEF QL!MinusAtLeastZero, QL!Amount
    <2> QED  BY <2>1, <2>2, <2>4, <2>5, <2>6
  <1>6. windows' \in [QL!Window -> [used: QL!Amount, reserved: QL!Amount]]
    <2>1. DOMAIN windows' = QL!Window /\ windows' = [win \in QL!Window |-> windows'[win]]
      BY DEF QL!Charged
    <2> HIDE DEF mine
    <2> QED  BY <1>5, <2>1
  <1> HIDE DEF mine
  (* What the open reservations that are charged have reserved. *)
  <1>7. ASSUME NEW win \in QL!Window, NEW x \in QL!Resource
        PROVE  /\ windows'[win].reserved[x] = QL!SumOf(QL!Amounts', QL!Open(win)')[x]
               /\ windows[win].reserved[x] = windows'[win].reserved[x] + QL!SumOf(QL!Amounts, mine(win))[x]
               /\ QL!SumOf(QL!Amounts, mine(win))[x] \in Nat /\ windows'[win].reserved[x] \in Nat
    <2> DEFINE f == [i \in DOMAIN reservations |-> reservations[i].amount[x]]
               left == QL!Open(win)'
    <2>1. /\ QL!Open(win) = left \cup mine(win) /\ left \cap mine(win) = {}
          /\ QL!Open(win) \subseteq DOMAIN reservations
          /\ IsFiniteSet(left)
      BY <1>4, FS_Subset DEF QL!Open
    <2>2. \A i \in DOMAIN reservations :
              f[i] = QL!Amounts[i][x] /\ f[i] \in Nat /\ f[i] = QL!Amounts'[i][x]
      BY <1>1, <1>2, <1>3, RowType DEF QL!Amounts
    <2> HIDE DEF f, left
    <2>3. QL!SumOf(QL!Amounts, QL!Open(win))[x] = SumFunctionOnSet(f, QL!Open(win))
      <3>1. IsFiniteSet(QL!Open(win)) /\ \A i \in QL!Open(win) : f[i] = QL!Amounts[i][x]
        BY <1>4, <2>1, <2>2
      <3> QED  BY <3>1, SumOfIs
    <2>4. QL!SumOf(QL!Amounts, mine(win))[x] = SumFunctionOnSet(f, mine(win))
      <3>1. IsFiniteSet(mine(win)) /\ \A i \in mine(win) : f[i] = QL!Amounts[i][x]
        BY <1>4, <2>1, <2>2
      <3> QED  BY <3>1, SumOfIs
    <2>5. QL!SumOf(QL!Amounts', left)[x] = SumFunctionOnSet(f, left)
      <3>1. IsFiniteSet(left) /\ \A i \in left : f[i] = QL!Amounts'[i][x]
        BY <2>1, <2>2
      <3> QED  BY <3>1, SumOfIs
    <2>6. SumFunctionOnSet(f, left) \in Nat /\ SumFunctionOnSet(f, mine(win)) \in Nat
      BY <1>4, <2>1, <2>2, SumType
    <2>7. SumFunctionOnSet(f, QL!Open(win)) =
              SumFunctionOnSet(f, left) + SumFunctionOnSet(f, mine(win))
      <3>1. \A i \in left \cup mine(win) : f[i] \in Nat
        BY <2>1, <2>2
      <3>2. SumFunctionOnSet(f, left \cup mine(win)) =
              SumFunctionOnSet(f, left) + SumFunctionOnSet(f, mine(win))
        BY <1>4, <2>1, <3>1, SumBoth
      <3> QED  BY <2>1, <3>2
    <2>8. windows[win].reserved[x] = SumFunctionOnSet(f, QL!Open(win))
      BY <2>3 DEF LedgerInv, QL!LedgerBalances
    <2>9. windows'[win].reserved[x] =
              IF windows[win].reserved[x] < QL!SumOf(QL!Amounts, mine(win))[x] THEN 0
              ELSE windows[win].reserved[x] - QL!SumOf(QL!Amounts, mine(win))[x]
      BY <1>5 DEF QL!MinusAtLeastZero
    <2>10. windows'[win].reserved[x] = SumFunctionOnSet(f, left)
      BY <2>4, <2>6, <2>7, <2>8, <2>9
    <2> QED  BY <2>4, <2>5, <2>6, <2>7, <2>8, <2>10 DEF left
  <1>8. QL!LedgerBalances'
    <2> SUFFICES ASSUME NEW win \in QL!Window
                 PROVE  windows'[win].reserved = QL!SumOf(QL!Amounts', QL!Open(win)')
      BY DEF QL!LedgerBalances
    <2>1. windows'[win].reserved \in QL!Amount
      BY <1>5
    <2>2. windows'[win].reserved = [x \in QL!Resource |-> windows'[win].reserved[x]]
      BY <2>1 DEF QL!Amount
    <2>3. QL!SumOf(QL!Amounts', QL!Open(win)') = [x \in QL!Resource |-> QL!SumOf(QL!Amounts', QL!Open(win)')[x]]
      BY LedgerSums DEF QL!SumOf
    <2> QED  BY <1>7, <2>2, <2>3
  (* The charge of requests is at most what was reserved, and at least what   *)
  (* was sent.                                                             *)
  <1>9. ASSUME NEW win \in QL!Window
        PROVE  /\ QL!SumOf(actual, mine(win))["requests"] <= QL!SumOf(QL!Amounts, mine(win))["requests"]
               /\ QL!SumOf(actual, mine(win))["requests"] \in Nat
               /\ windows'[win].used["requests"] =
                      windows[win].used["requests"] + QL!SumOf(actual, mine(win))["requests"]
               /\ windows[win].used["requests"] \in Nat
    <2> DEFINE a == [i \in mine(win) |-> actual[i]["requests"]]
               f == [i \in mine(win) |-> QL!Amounts[i]["requests"]]
    <2>1. \A i \in mine(win) :
              a[i] = actual[i]["requests"] /\ f[i] = QL!Amounts[i]["requests"]
              /\ a[i] \in Nat /\ f[i] \in Nat /\ a[i] <= f[i]
      <3> TAKE i \in mine(win)
      <3>1. i \in rows /\ i \in DOMAIN reservations
        BY <1>1 DEF mine
      <3>2. QL!Amounts[i]["requests"] = Attempts /\ actual[i]["requests"] <= Attempts
        BY <3>1 DEF QL!Amounts, LedgerInv, Hands
      <3>3. actual[i]["requests"] \in Nat /\ Attempts \in Nat
        BY <3>1 DEF QL!Amount, QL!Resource, QL!QuotaAssumption
      <3> QED  BY <3>2, <3>3
    <2> HIDE DEF a, f
    <2>2. SumFunctionOnSet(a, mine(win)) <= SumFunctionOnSet(f, mine(win))
      BY <1>4, <2>1, SumBelow
    <2>3. QL!SumOf(actual, mine(win))["requests"] = SumFunctionOnSet(a, mine(win))
      BY <1>4, <2>1, SumOfIs DEF QL!Resource
    <2>4. QL!SumOf(QL!Amounts, mine(win))["requests"] = SumFunctionOnSet(f, mine(win))
      BY <1>4, <2>1, SumOfIs DEF QL!Resource
    <2>5. QL!SumOf(actual, mine(win))["requests"] \in Nat /\ windows[win].used["requests"] \in Nat
      BY <1>5 DEF QL!Amount, QL!Resource
    <2>6. windows'[win].used["requests"] =
                      windows[win].used["requests"] + QL!SumOf(actual, mine(win))["requests"]
      BY <1>5 DEF QL!Plus, QL!Resource
    <2> QED  BY <2>2, <2>3, <2>4, <2>5, <2>6
  <1>10. QL!RequestsWithinLimit'
    <2> SUFFICES ASSUME NEW win \in QL!Window, QuotaLimit[win[1]]["requests"] # None
                 PROVE  windows'[win].used["requests"] + windows'[win].reserved["requests"]
                            <= QuotaLimit[win[1]]["requests"]
      BY DEF QL!RequestsWithinLimit
    <2>1. windows[win].used["requests"] + windows[win].reserved["requests"]
              <= QuotaLimit[win[1]]["requests"]
      BY DEF LedgerInv, QL!RequestsWithinLimit
    <2>2. /\ windows[win].reserved["requests"] =
                 windows'[win].reserved["requests"] + QL!SumOf(QL!Amounts, mine(win))["requests"]
          /\ QL!SumOf(QL!Amounts, mine(win))["requests"] \in Nat
          /\ windows'[win].reserved["requests"] \in Nat
      BY <1>7 DEF QL!Resource
    <2>3. QuotaLimit[win[1]]["requests"] \in Nat
      BY DEF QL!QuotaAssumption, QL!Window, QL!Kind, QL!Resource
    <2> QED  BY <1>9, <2>1, <2>2, <2>3
  <1>11. OwedIsUsed'
    <2> SUFFICES ASSUME NEW win \in QL!Window
                 PROVE  SumFunctionOnSet([i \in Past(win)' |-> Owed(i)'], Past(win)')
                            <= windows'[win].used["requests"]
      BY DEF OwedIsUsed
    <2> DEFINE e == [i \in Past(win)' |-> Owed(i)']
               before == [i \in Past(win) |-> Owed(i)]
               a == [i \in mine(win) |-> actual[i]["requests"]]
    <2>1. \A i \in DOMAIN reservations : QL!SentUnder(i)' = QL!SentUnder(i) /\ QL!SentUnder(i) \in Nat
      BY LedgerSums, <1>1, RowType, SentType DEF QL!SentUnder
    <2>2. Past(win) \subseteq DOMAIN reservations /\ mine(win) \subseteq DOMAIN reservations
          /\ mine(win) \subseteq rows
      BY <1>1 DEF Past, QL!Of, mine
    <2>3. \A i \in DOMAIN reservations :
              /\ reservations[i].amount["requests"] = Attempts /\ Attempts \in Nat
              /\ reservations'[i].amount["requests"] = Attempts
      BY <1>2 DEF LedgerInv, Hands, QL!QuotaAssumption
    <2>4. \A i \in Past(win) : e[i] = before[i] /\ before[i] \in Nat
      <3> TAKE i \in Past(win)
      <3>1. i \notin rows
        BY <1>1 DEF Past, QL!Open, QL!Of
      <3>2. Owed(i)' = Owed(i) /\ Owed(i) \in Nat
        BY <1>2, <2>1, <2>2, <2>3, <3>1 DEF Owed
      <3> QED  BY <1>4, <3>2
    <2>5. \A i \in mine(win) : e[i] \in Nat /\ a[i] \in Nat /\ e[i] <= a[i]
      <3> TAKE i \in mine(win)
      <3>1. i \in rows /\ i \in DOMAIN reservations /\ reservations'[i].state = s
        BY <1>2, <2>2
      <3>2. Owed(i)' = IF s = "reconciled" THEN QL!SentUnder(i) ELSE Attempts
        BY <2>1, <2>3, <3>1 DEF Owed
      <3>3. actual[i]["requests"] \in Nat
        BY <3>1 DEF QL!Amount, QL!Resource
      <3>4. Owed(i)' \in Nat /\ Owed(i)' <= actual[i]["requests"]
        BY <2>1, <2>3, <3>1, <3>2, <3>3
      <3> QED  BY <1>4, <3>3, <3>4
    <2>6. \A i \in mine(win) : a[i] = actual[i]["requests"]
      OBVIOUS
    <2> HIDE DEF e, before, a
    <2>7. SumFunctionOnSet(e, Past(win)') =
              SumFunctionOnSet(e, Past(win)) + SumFunctionOnSet(e, mine(win))
      <3>1. \A i \in Past(win) \cup mine(win) : e[i] \in Nat
        BY <2>4, <2>5
      <3>2. SumFunctionOnSet(e, Past(win) \cup mine(win)) =
              SumFunctionOnSet(e, Past(win)) + SumFunctionOnSet(e, mine(win))
        BY <1>4, <3>1, SumBoth
      <3> QED  BY <1>4, <3>2
    <2>8. SumFunctionOnSet(e, Past(win)) = SumFunctionOnSet(before, Past(win))
      BY <1>4, <2>4, SumAgrees
    <2>9. SumFunctionOnSet(e, mine(win)) <= SumFunctionOnSet(a, mine(win))
      BY <1>4, <2>5, SumBelow
    <2>10. SumFunctionOnSet(a, mine(win)) = QL!SumOf(actual, mine(win))["requests"]
      BY <1>4, <2>6, SumOfIs DEF QL!Resource
    <2>11. SumFunctionOnSet(before, Past(win)) <= windows[win].used["requests"]
      BY DEF LedgerInv, OwedIsUsed, before
    <2>12. /\ SumFunctionOnSet(before, Past(win)) \in Nat /\ SumFunctionOnSet(e, mine(win)) \in Nat
           /\ SumFunctionOnSet(a, mine(win)) \in Nat
      BY <1>4, <2>4, <2>5, SumType
    <2>13. SumFunctionOnSet(e, Past(win)') <= windows'[win].used["requests"]
      BY <1>9, <2>7, <2>8, <2>9, <2>10, <2>11, <2>12
    <2> QED  BY <2>13 DEF e
  <1> QED  BY <1>2, <1>3, <1>6, <1>8, <1>10, <1>11

-----------------------------------------------------------------------------
(* What a worker does to the call it is in. *)

LEMMA HandsMove ==
    ASSUME QL!QuotaAssumption, LedgerInv, NEW w \in QuotaWorkers, NEW c \in QuotaCall,
           calls' = [calls EXCEPT ![w] = c], sent' = sent,
           DOMAIN reservations \subseteq DOMAIN reservations',
           \A i \in DOMAIN reservations' : reservations'[i].amount["requests"] = Attempts,
           \A v \in QuotaWorkers \ {w} : calls[v].pc \in Holding =>
                  reservations'[calls[v].id].state # "reconciled",
           IF c.pc \in Holding
           THEN /\ c.id \in DOMAIN reservations' /\ reservations'[c.id].state # "reconciled"
                /\ QL!SentUnder(c.id) = c.attempts
                /\ \A v \in QuotaWorkers \ {w} : calls[v].pc \in Holding => calls[v].id # c.id
           ELSE c.attempts = 0
    PROVE  Hands' /\ calls' \in [QuotaWorkers -> QuotaCall]
  <1>1. calls \in [QuotaWorkers -> QuotaCall] /\ Hands
    BY DEF LedgerInv, LedgerTypes
  <1>2. /\ calls' \in [QuotaWorkers -> QuotaCall] /\ calls'[w] = c
        /\ \A v \in QuotaWorkers \ {w} : calls'[v] = calls[v]
    BY <1>1
  <1>3. \A i : QL!SentUnder(i)' = QL!SentUnder(i)
    BY LedgerSums DEF QL!SentUnder
  <1>4. ASSUME NEW v \in QuotaWorkers, calls'[v].pc \in Holding
        PROVE  /\ calls'[v].id \in DOMAIN reservations'
               /\ reservations'[calls'[v].id].state # "reconciled"
               /\ QL!SentUnder(calls'[v].id) = calls'[v].attempts
    <2>1. CASE v = w  BY <1>2, <1>4, <2>1
    <2>2. CASE v # w  BY <1>1, <1>2, <1>4, <2>2 DEF Hands
    <2> QED  BY <2>1, <2>2
  <1>5. \A v \in QuotaWorkers : calls'[v].pc \notin Holding => calls'[v].attempts = 0
    BY <1>1, <1>2 DEF Hands
  <1>6. \A u, v \in QuotaWorkers : calls'[u].pc \in Holding /\ calls'[v].pc \in Holding
                               /\ calls'[u].id = calls'[v].id => u = v
    <2> SUFFICES ASSUME NEW u \in QuotaWorkers, NEW v \in QuotaWorkers, calls'[u].pc \in Holding,
                        calls'[v].pc \in Holding, calls'[u].id = calls'[v].id, u # v
                 PROVE  FALSE
      OBVIOUS
    <2>1. CASE u = w  BY <1>2, <2>1
    <2>2. CASE v = w  BY <1>2, <2>2
    <2>3. CASE u # w /\ v # w  BY <1>1, <1>2, <2>3 DEF Hands
    <2> QED  BY <2>1, <2>2, <2>3
  <1>7. \A i \in 1..CallLimit : i \notin DOMAIN reservations' => QL!SentUnder(i)' = 0
    BY <1>1, <1>3 DEF Hands
  <1>8. \A i \in 1..CallLimit : QL!SentUnder(i)' <= Attempts
    BY <1>1, <1>3 DEF Hands
  <1> QED  BY <1>2, <1>3, <1>4, <1>5, <1>6, <1>7, <1>8 DEF Hands

(* A step that leaves the ledger and moves one call. *)
LEMMA CallMoves ==
    ASSUME QL!QuotaAssumption, LedgerInv, NEW w \in QuotaWorkers, NEW c \in QuotaCall,
           calls' = [calls EXCEPT ![w] = c], windows' = windows, sent' = sent, now' = now,
           slips' \in 0..QuotaFaults,
           reservations' \in Seq(QL!Reservation), Len(reservations') = Len(reservations),
           \A i \in DOMAIN reservations :
              /\ reservations'[i].state = reservations[i].state
              /\ reservations'[i].amount = reservations[i].amount
              /\ reservations'[i].minute = reservations[i].minute
              /\ reservations'[i].day = reservations[i].day,
           IF c.pc \in Holding
           THEN calls[w].pc \in Holding /\ c.id = calls[w].id /\ c.attempts = calls[w].attempts
           ELSE c.attempts = 0
    PROVE  LedgerInv'
  <1>1. LedgerTypes /\ Hands
    BY DEF LedgerInv
  <1>2. DOMAIN reservations' = DOMAIN reservations
    BY <1>1 DEF LedgerTypes
  <1>3. \A i \in DOMAIN reservations : Owed(i)' = Owed(i)
    BY LedgerSums DEF Owed, QL!SentUnder
  <1>4. (QL!LedgerBalances /\ QL!RequestsWithinLimit /\ OwedIsUsed)'
    BY <1>2, <1>3, LedgerStays
  <1>5. \A i \in DOMAIN reservations' : reservations'[i].amount["requests"] = Attempts
    BY <1>1, <1>2 DEF Hands
  <1>6. \A v \in QuotaWorkers : calls[v].pc \in Holding =>
            calls[v].id \in DOMAIN reservations /\ reservations'[calls[v].id].state # "reconciled"
    BY <1>1 DEF Hands
  <1>7. c.pc \in Holding => \A v \in QuotaWorkers \ {w} : calls[v].pc \in Holding => calls[v].id # c.id
    BY <1>1 DEF Hands
  <1>8. c.pc \in Holding => QL!SentUnder(c.id) = c.attempts
    BY <1>1 DEF Hands
  <1>9. Hands' /\ calls' \in [QuotaWorkers -> QuotaCall]
    BY <1>2, <1>5, <1>6, <1>7, <1>8, HandsMove
  <1>10. LedgerTypes'
    BY <1>1, <1>9 DEF LedgerTypes
  <1> QED  BY <1>4, <1>9, <1>10 DEF LedgerInv

LEMMA IdleIsCall ==
    ASSUME QL!QuotaAssumption
    PROVE  /\ QL!Idle \in QuotaCall /\ QL!Idle.attempts = 0 /\ QL!Idle.pc = "idle"
           /\ \A t \in QL!Instant : [QL!Idle EXCEPT !.pc = "reserving", !.current = t] \in QuotaCall
           /\ [QL!Idle EXCEPT !.pc = "down"] \in QuotaCall
  <1>1. 0 \in QL!Instant /\ 0 \in 0..Attempts
    BY DEF QL!QuotaAssumption, QL!Instant
  <1>2. QL!Idle = [pc |-> "idle", current |-> 0, id |-> 0, attempts |-> 0, tokens |-> 0,
                   lost |-> FALSE]
    BY DEF QL!Idle
  <1>3. QL!Idle \in QuotaCall /\ QL!Idle.attempts = 0 /\ QL!Idle.pc = "idle"
    BY <1>1, <1>2 DEF QuotaCall
  <1>4. [QL!Idle EXCEPT !.pc = "down"] \in QuotaCall
    BY <1>1, <1>2 DEF QuotaCall
  <1>5. \A t \in QL!Instant : [QL!Idle EXCEPT !.pc = "reserving", !.current = t] \in QuotaCall
    BY <1>1, <1>2 DEF QuotaCall
  <1> QED  BY <1>3, <1>4, <1>5

LEMMA CallType ==
    ASSUME LedgerInv, NEW w \in QuotaWorkers
    PROVE  calls[w] \in QuotaCall /\ calls \in [QuotaWorkers -> QuotaCall] /\ now \in QL!Instant
  BY DEF LedgerInv, LedgerTypes

(* The same call at another point. *)
LEMMA GotoKeeps ==
    ASSUME QL!QuotaAssumption, LedgerInv, NEW w \in QuotaWorkers, calls[w].pc \in Holding,
           NEW p \in Holding, NEW t \in Nat, NEW l \in BOOLEAN,
           calls' = [calls EXCEPT ![w] = [calls[w] EXCEPT !.pc = p, !.tokens = t, !.lost = l]],
           windows' = windows, sent' = sent, now' = now, slips' \in 0..QuotaFaults,
           reservations' = reservations \/ (calls[w].id \in DOMAIN reservations /\ reservations' = QL!Renewed(w))
    PROVE  LedgerInv'
  <1> DEFINE c == [calls[w] EXCEPT !.pc = p, !.tokens = t, !.lost = l]
  <1>1. calls[w] \in QuotaCall
    BY CallType
  <1>2. c \in QuotaCall /\ c.pc = p /\ c.id = calls[w].id /\ c.attempts = calls[w].attempts
    BY <1>1 DEF QuotaCall
  <1> HIDE DEF c
  <1>3. reservations \in Seq(QL!Reservation) /\ now \in QL!Instant
    BY DEF LedgerInv, LedgerTypes
  <1>4. /\ reservations' \in Seq(QL!Reservation) /\ Len(reservations') = Len(reservations)
        /\ \A i \in DOMAIN reservations :
              /\ reservations'[i].state = reservations[i].state
              /\ reservations'[i].amount = reservations[i].amount
              /\ reservations'[i].minute = reservations[i].minute
              /\ reservations'[i].day = reservations[i].day
    <2>1. CASE reservations' = reservations  BY <1>3, <2>1
    <2>2. CASE calls[w].id \in DOMAIN reservations /\ reservations' = QL!Renewed(w)
      <3> DEFINE k == calls[w].id
                 q == [reservations[k] EXCEPT !.lease = now + LeaseTicks]
      <3>1. reservations[k] \in QL!Reservation /\ now + LeaseTicks \in Nat
        BY <1>3, <2>2 DEF QL!QuotaAssumption, QL!Instant
      <3>2. /\ q \in QL!Reservation /\ q.state = reservations[k].state
            /\ q.amount = reservations[k].amount /\ q.minute = reservations[k].minute
            /\ q.day = reservations[k].day
        BY <3>1 DEF QL!Reservation
      <3>3. reservations' = [reservations EXCEPT ![k] = q]
        BY <2>2 DEF QL!Renewed
      <3>4. k \in DOMAIN reservations
        BY <2>2
      <3> HIDE DEF k, q
      <3>5. reservations' \in Seq(QL!Reservation) /\ Len(reservations') = Len(reservations)
        <4> DEFINE n == Len(reservations)
        <4>1. n \in Nat /\ DOMAIN reservations = 1..n
              /\ \A i \in 1..n : reservations[i] \in QL!Reservation
          BY <1>3
        <4>2. reservations' \in [1..n -> QL!Reservation]
          <5>1. reservations \in [1..n -> QL!Reservation]
            BY <1>3
          <5> HIDE DEF n
          <5> QED  BY <3>2, <3>3, <5>1
        <4>3. reservations' \in Seq(QL!Reservation) /\ Len(reservations') = n
          <5> HIDE DEF n
          <5> QED  BY <4>1, <4>2
        <4> QED  BY <4>3
      <3>6. \A i \in DOMAIN reservations :
                reservations'[i] = IF i = k THEN q ELSE reservations[i]
        BY <3>3
      <3> QED  BY <3>2, <3>5, <3>6
    <2> QED  BY <2>1, <2>2
  <1>5. calls' = [calls EXCEPT ![w] = c]
    BY DEF c
  <1> QED  BY <1>2, <1>4, <1>5, CallMoves

LEMMA InHand ==
    ASSUME LedgerInv, NEW w \in QuotaWorkers, calls[w].pc \in Holding
    PROVE  /\ calls[w].id \in DOMAIN reservations /\ QL!Mine(w).state # "reconciled"
           /\ QL!SentUnder(calls[w].id) = calls[w].attempts
           /\ QL!Mine(w).amount["requests"] = Attempts
  BY DEF LedgerInv, Hands, QL!Mine

LEMMA ConstantsAre ==
    ASSUME QL!QuotaAssumption
    PROVE  Attempts \in Nat \ {0} /\ LeaseTicks \in Nat \ {0} /\ CallLimit \in Nat
           /\ QuotaFaults \in Nat /\ Horizon \in Nat /\ Usages \subseteq Nat
           /\ Estimates \subseteq Nat
  BY DEF QL!QuotaAssumption

LEMMA SweepKeeps ==
    ASSUME QL!QuotaAssumption, LedgerInv, NEW w \in QuotaWorkers,
           NEW c \in QuotaCall, QL!ReconcileAbandoned,
           calls' = [calls EXCEPT ![w] = c], c.pc \notin Holding, c.attempts = 0,
           UNCHANGED <<now, sent, slips>>
    PROVE  LedgerInv'
  <1>1. PICK charged \in SUBSET QL!Lapsed :
          /\ windows' = QL!Charged(charged, QL!Amounts)
          /\ reservations' = [i \in DOMAIN reservations |->
                IF i \in charged THEN [reservations[i] EXCEPT !.state = "reconciled_after_restart"]
                ELSE reservations[i]]
    BY DEF QL!ReconcileAbandoned
  <1> DEFINE s == "reconciled_after_restart"
  <1>2. charged \subseteq {i \in DOMAIN reservations : reservations[i].state = "reserved"}
    BY DEF QL!Lapsed
  <1>3. \A i \in charged : /\ QL!Amounts[i] \in QL!Amount /\ QL!Amounts[i]["requests"] = Attempts
                           /\ QL!Amounts[i]["requests"] <= Attempts
    <2> TAKE i \in charged
    <2>1. i \in DOMAIN reservations
      BY <1>2
    <2>2. reservations[i].amount \in QL!Amount /\ reservations[i].amount["requests"] = Attempts
      BY <2>1, RowType DEF LedgerInv, Hands
    <2> QED  BY <2>1, <2>2, ConstantsAre DEF QL!Amounts
  <1>4. reservations' = Closed(charged, s)
    BY <1>1 DEF Closed
  <1>5. /\ reservations' \in Seq(QL!Reservation) /\ Len(reservations') <= CallLimit
        /\ DOMAIN reservations' = DOMAIN reservations
        /\ \A i \in DOMAIN reservations :
              /\ reservations'[i].amount = reservations[i].amount
              /\ reservations'[i].state = IF i \in charged THEN s ELSE reservations[i].state
        /\ windows' \in [QL!Window -> [used: QL!Amount, reserved: QL!Amount]]
        /\ (QL!LedgerBalances /\ QL!RequestsWithinLimit /\ OwedIsUsed)'
    <2>1. s \in {"reconciled", "reconciled_after_restart"} /\ s # "reconciled"
      OBVIOUS
    <2> HIDE DEF s
    <2> QED  BY <1>1, <1>2, <1>3, <1>4, <2>1, ChargeKeeps
  <1>6. \A i \in DOMAIN reservations' : reservations'[i].amount["requests"] = Attempts
    BY <1>5 DEF LedgerInv, Hands
  <1>7. \A v \in QuotaWorkers : calls[v].pc \in Holding => reservations'[calls[v].id].state # "reconciled"
    BY <1>5, InHand DEF QL!Mine
  <1>8. Hands' /\ calls' \in [QuotaWorkers -> QuotaCall]
    BY <1>5, <1>6, <1>7, HandsMove
  <1>9. LedgerTypes'
    BY <1>5, <1>8 DEF LedgerInv, LedgerTypes
  <1> QED  BY <1>5, <1>8, <1>9 DEF LedgerInv

LEMMA RequestedType ==
    ASSUME QL!QuotaAssumption, LedgerInv, NEW w \in QuotaWorkers, NEW estimate \in Estimates
    PROVE  /\ QL!Requested(w, estimate) \in QL!Reservation /\ QL!Requested(w, estimate).state = "reserved"
           /\ QL!Requested(w, estimate).amount["requests"] = Attempts
  <1>1. calls[w].current \in QL!Instant
    BY CallType DEF QuotaCall
  <1>2. QL!MinuteOf(calls[w].current) \in QL!Minute /\ QL!DayOf(calls[w].current) \in QL!Day
    BY <1>1, StartsOfWindows
  <1>3. calls[w].current + LeaseTicks \in Nat /\ estimate \in Nat /\ Attempts \in Nat
    BY <1>1, ConstantsAre DEF QL!Instant
  <1>4. [x \in QL!Resource |-> IF x = "requests" THEN Attempts ELSE estimate] \in QL!Amount
    BY <1>3 DEF QL!Amount
  <1> QED  BY <1>2, <1>3, <1>4 DEF QL!Requested, QL!Reservation, QL!Resource

(* A reservation was made, and the worker has it or has lost the reply. *)
LEMMA ReservedKeeps ==
    ASSUME QL!QuotaAssumption, LedgerInv, NEW w \in QuotaWorkers, NEW c \in QuotaCall,
           NEW estimate \in Estimates, QL!HasCapacity(QL!Requested(w, estimate)),
           QL!Insert(QL!Requested(w, estimate)), Len(reservations) < CallLimit,
           calls' = [calls EXCEPT ![w] = c], c.attempts = 0,
           c.pc \in Holding => c.id = Len(reservations) + 1,
           now' = now, sent' = sent, slips' \in 0..QuotaFaults
    PROVE  LedgerInv'
  <1> DEFINE r == QL!Requested(w, estimate)
             n == Len(reservations) + 1
  <1>1. r \in QL!Reservation /\ r.state = "reserved" /\ r.amount["requests"] = Attempts
    BY RequestedType
  <1>2. QL!HasCapacity(r) /\ QL!Insert(r)
    OBVIOUS
  <1> HIDE DEF r
  <1>3. /\ reservations' \in Seq(QL!Reservation) /\ Len(reservations') <= CallLimit
        /\ DOMAIN reservations' = DOMAIN reservations \cup {n}
        /\ n \notin DOMAIN reservations /\ n \in 1..CallLimit /\ reservations'[n] = r
        /\ \A i \in DOMAIN reservations : reservations'[i] = reservations[i]
        /\ windows' \in [QL!Window -> [used: QL!Amount, reserved: QL!Amount]]
        /\ (QL!LedgerBalances /\ QL!RequestsWithinLimit /\ OwedIsUsed)'
    BY <1>1, <1>2, InsertKeeps
  <1>4. c.pc \in Holding => c.id = n
    OBVIOUS
  <1> HIDE DEF n
  <1>5. \A i \in DOMAIN reservations' : reservations'[i].amount["requests"] = Attempts
    BY <1>1, <1>3 DEF LedgerInv, Hands
  <1>6. \A v \in QuotaWorkers : calls[v].pc \in Holding =>
            reservations'[calls[v].id].state # "reconciled" /\ calls[v].id # n
    BY <1>3, InHand DEF QL!Mine
  <1>7. QL!SentUnder(n) = 0
    BY <1>3 DEF LedgerInv, Hands
  <1>8. Hands' /\ calls' \in [QuotaWorkers -> QuotaCall]
    BY <1>1, <1>3, <1>4, <1>5, <1>6, <1>7, HandsMove
  <1>9. LedgerTypes'
    BY <1>3, <1>8 DEF LedgerInv, LedgerTypes
  <1> QED  BY <1>3, <1>8, <1>9 DEF LedgerInv

LEMMA ReserveKeeps ==
    ASSUME QL!QuotaAssumption, LedgerInv, NEW w \in QuotaWorkers, QL!Reserve(w) PROVE LedgerInv'
  <1>1. PICK estimate \in Estimates :
          IF QL!HasCapacity(QL!Requested(w, estimate))
          THEN /\ QL!Insert(QL!Requested(w, estimate))
               /\ calls' = [calls EXCEPT ![w].pc = "reserved", ![w].id = Len(reservations) + 1]
          ELSE calls' = [calls EXCEPT ![w] = QL!Idle] /\ UNCHANGED <<reservations, windows>>
    BY DEF QL!Reserve
  <1>2. /\ calls[w].pc = "reserving" /\ Len(reservations) < CallLimit
        /\ now' = now /\ sent' = sent /\ slips' = slips
    BY DEF QL!Reserve
  <1>3. slips' \in 0..QuotaFaults /\ Len(reservations) \in Nat /\ calls[w] \in QuotaCall
        /\ calls[w].attempts = 0 /\ reservations \in Seq(QL!Reservation)
    BY <1>2, CallType DEF LedgerInv, LedgerTypes, Hands, Holding
  <1>4. CASE QL!HasCapacity(QL!Requested(w, estimate))
    <2> DEFINE n == Len(reservations) + 1
               c == [calls[w] EXCEPT !.pc = "reserved", !.id = n]
    <2>1. n \in Nat
      BY <1>3
    <2> HIDE DEF n
    <2>2. c \in QuotaCall /\ c.attempts = 0 /\ c.id = n
      BY <1>3, <2>1 DEF QuotaCall, Holding
    <2>3. calls' = [calls EXCEPT ![w] = c]
      BY <1>1, <1>4, CallType DEF n
    <2> HIDE DEF c
    <2> QED  BY <1>1, <1>2, <1>3, <1>4, <2>2, <2>3, ReservedKeeps DEF n
  <1>5. CASE ~QL!HasCapacity(QL!Requested(w, estimate))
    <2>1. QL!Idle.pc \notin Holding
      BY IdleIsCall DEF Holding
    <2> QED  BY <1>1, <1>2, <1>3, <1>5, <2>1, IdleIsCall, CallMoves
  <1> QED  BY <1>4, <1>5

LEMMA ReplyLostKeeps ==
    ASSUME QL!QuotaAssumption, LedgerInv, NEW w \in QuotaWorkers, QL!ReplyLost(w) PROVE LedgerInv'
  <1>1. PICK estimate \in Estimates :
          QL!HasCapacity(QL!Requested(w, estimate)) /\ QL!Insert(QL!Requested(w, estimate))
    BY DEF QL!ReplyLost
  <1>2. /\ Len(reservations) < CallLimit /\ now' = now /\ sent' = sent
        /\ calls' = [calls EXCEPT ![w] = QL!Idle] /\ slips < QuotaFaults /\ slips' = slips + 1
    BY DEF QL!ReplyLost
  <1>3. slips' \in 0..QuotaFaults
    BY <1>2, ConstantsAre DEF LedgerInv, LedgerTypes
  <1>4. QL!Idle.pc \notin Holding
    BY IdleIsCall DEF Holding
  <1> QED  BY <1>1, <1>2, <1>3, <1>4, IdleIsCall, ReservedKeeps

LEMMA SentOnce ==
    ASSUME QL!QuotaAssumption, LedgerTypes, NEW k \in 1..CallLimit, NEW m \in QL!Minute,
           sent' = [sent EXCEPT ![k][m] = sent[k][m] + 1]
    PROVE  /\ sent' \in [1..CallLimit -> [QL!Minute -> Nat]]
           /\ SumFunction(sent'[k]) = SumFunction(sent[k]) + 1
           /\ \A i \in 1..CallLimit : i # k => sent'[i] = sent[i]
  <1>1. sent \in [1..CallLimit -> [QL!Minute -> Nat]]
    BY DEF LedgerTypes
  <1>2. /\ sent' \in [1..CallLimit -> [QL!Minute -> Nat]]
        /\ \A i \in 1..CallLimit : i # k => sent'[i] = sent[i]
        /\ DOMAIN sent'[k] = QL!Minute /\ DOMAIN sent[k] = QL!Minute
        /\ sent'[k][m] = sent[k][m] + 1 /\ \A n \in QL!Minute \ {m} : sent'[k][n] = sent[k][n]
        /\ \A n \in QL!Minute : sent[k][n] \in Nat /\ sent'[k][n] \in Nat
    BY <1>1
  <1> DEFINE f == sent[k]
             e == sent'[k]
  <1>3. SumFunction(f) = SumFunctionOnSet(f, QL!Minute) /\ SumFunction(e) = SumFunctionOnSet(e, QL!Minute)
    BY <1>2 DEF SumFunction
  <1>4. IsFiniteSet(QL!Minute) /\ IsFiniteSet(QL!Minute \ {m})
    BY FiniteMinutes, FS_RemoveElement
  <1>5. /\ \A n \in QL!Minute : f[n] \in Nat /\ e[n] \in Nat
        /\ \A n \in QL!Minute \ {m} : e[n] = f[n]
        /\ e[m] = f[m] + 1
    BY <1>2
  <1> HIDE DEF f, e
  <1>6. SumFunctionOnSet(f, QL!Minute) = f[m] + SumFunctionOnSet(f, QL!Minute \ {m})
    BY <1>4, <1>5, SumWithout
  <1>7. SumFunctionOnSet(e, QL!Minute) = e[m] + SumFunctionOnSet(e, QL!Minute \ {m})
    BY <1>4, <1>5, SumWithout
  <1>8. SumFunctionOnSet(e, QL!Minute \ {m}) = SumFunctionOnSet(f, QL!Minute \ {m})
    BY <1>4, <1>5, SumAgrees
  <1>9. SumFunctionOnSet(f, QL!Minute \ {m}) \in Nat
    BY <1>4, <1>5, SumType
  <1>10. SumFunction(e) = SumFunction(f) + 1
    BY <1>3, <1>5, <1>6, <1>7, <1>8, <1>9
  <1> QED  BY <1>2, <1>10 DEF f, e

LEMMA SendKeeps ==
    ASSUME QL!QuotaAssumption, LedgerInv, NEW w \in QuotaWorkers, QL!Send(w) PROVE LedgerInv'
  <1>1. PICK k, m : k = calls[w].id /\ m = QL!MinuteOf(now)
    OBVIOUS
  <1>2. /\ calls[w].pc = "calling" /\ calls[w].attempts < Attempts
        /\ sent' = [sent EXCEPT ![k][m] = sent[k][m] + 1]
        /\ calls' = [calls EXCEPT ![w].attempts = calls[w].attempts + 1]
        /\ now' = now /\ windows' = windows /\ reservations' = reservations /\ slips' = slips
    BY <1>1 DEF QL!Send
  <1>3. /\ LedgerTypes /\ Hands /\ m \in QL!Minute /\ calls[w] \in QuotaCall /\ calls[w].pc \in Holding
        /\ calls \in [QuotaWorkers -> QuotaCall] /\ calls[w].attempts \in Nat
    BY <1>1, <1>2, CallType, StartsOfWindows DEF LedgerInv, LedgerTypes, Holding, QuotaCall
  <1>4. /\ k \in DOMAIN reservations /\ k \in 1..CallLimit /\ reservations[k].state # "reconciled"
        /\ SumFunction(sent[k]) = calls[w].attempts
    BY LedgerSums, <1>1, <1>3, InHand, RowType DEF QL!Mine, QL!SentUnder
  <1>5. /\ sent' \in [1..CallLimit -> [QL!Minute -> Nat]]
        /\ SumFunction(sent'[k]) = calls[w].attempts + 1
        /\ \A i \in 1..CallLimit : i # k => sent'[i] = sent[i]
    BY <1>2, <1>3, <1>4, SentOnce
  <1>6. (QL!LedgerBalances /\ QL!RequestsWithinLimit /\ OwedIsUsed)'
    <2>1. \A i \in DOMAIN reservations : Owed(i)' = Owed(i)
      <3> TAKE i \in DOMAIN reservations
      <3>1. i \in 1..CallLimit
        BY <1>3, RowType
      <3> QED  BY LedgerSums, <1>2, <1>4, <1>5, <3>1 DEF Owed, QL!SentUnder
    <2> QED  BY <1>2, <2>1, LedgerStays
  <1>7. PICK c : c = [calls[w] EXCEPT !.attempts = calls[w].attempts + 1]
    OBVIOUS
  <1>8. c \in QuotaCall /\ c.pc = "calling" /\ c.id = k /\ c.attempts = calls[w].attempts + 1
        /\ c.attempts <= Attempts
    BY <1>1, <1>2, <1>3, <1>7, ConstantsAre DEF QuotaCall
  <1>9. /\ calls'[w] = c /\ calls' \in [QuotaWorkers -> QuotaCall]
        /\ \A v \in QuotaWorkers \ {w} : calls'[v] = calls[v]
    BY <1>2, <1>3, <1>7, <1>8
  <1>10. \A v \in QuotaWorkers : calls'[v].pc = calls[v].pc /\ calls'[v].id = calls[v].id
    BY <1>1, <1>2, <1>8, <1>9
  <1>11. Hands'
    <2>1. ASSUME NEW v \in QuotaWorkers, calls'[v].pc \in Holding
          PROVE  /\ calls'[v].id \in DOMAIN reservations'
                 /\ reservations'[calls'[v].id].state # "reconciled"
                 /\ SumFunction(sent'[calls'[v].id]) = calls'[v].attempts
      <3>1. /\ calls[v].pc \in Holding /\ calls'[v].id = calls[v].id
            /\ calls[v].id \in DOMAIN reservations /\ calls[v].id \in 1..CallLimit
            /\ reservations[calls[v].id].state # "reconciled"
            /\ SumFunction(sent[calls[v].id]) = calls[v].attempts
        BY LedgerSums, <1>3, <1>10, <2>1, InHand, RowType DEF QL!Mine, QL!SentUnder
      <3>2. CASE v = w
        BY <1>1, <1>2, <1>5, <1>8, <1>9, <3>1, <3>2
      <3>3. CASE v # w
        <4>1. calls[v].id # k
          BY <1>1, <1>3, <3>1, <3>3 DEF Hands
        <4>2. sent'[calls'[v].id] = sent[calls[v].id] /\ calls'[v].attempts = calls[v].attempts
          BY <1>5, <1>9, <3>1, <3>3, <4>1
        <4> QED  BY <1>2, <3>1, <4>2
      <3> QED  BY <3>2, <3>3
    <2>2. \A v \in QuotaWorkers : calls'[v].pc \notin Holding => calls'[v].attempts = 0
      <3>1. \A v \in QuotaWorkers : calls'[v].pc \notin Holding => v # w
        BY <1>3, <1>10
      <3> QED  BY <1>3, <1>9, <3>1 DEF Hands
    <2>3. \A u, v \in QuotaWorkers : calls'[u].pc \in Holding /\ calls'[v].pc \in Holding
                                 /\ calls'[u].id = calls'[v].id => u = v
      BY <1>3, <1>10 DEF Hands
    <2>4. \A i \in 1..CallLimit : SumFunction(sent'[i]) <= Attempts
      <3>1. SumFunction(sent'[k]) <= Attempts
        BY <1>5, <1>8
      <3>2. \A i \in 1..CallLimit : SumFunction(sent[i]) <= Attempts
        BY LedgerSums, <1>3 DEF Hands, QL!SentUnder
      <3> TAKE i \in 1..CallLimit
      <3>3. CASE i = k  BY <3>1, <3>3
      <3>4. CASE i # k  BY <1>5, <3>2, <3>4
      <3> QED  BY <3>3, <3>4
    <2>5. \A i \in 1..CallLimit : i \notin DOMAIN reservations' => SumFunction(sent'[i]) = 0
      <3>1. \A i \in 1..CallLimit : i \notin DOMAIN reservations => SumFunction(sent[i]) = 0
        BY LedgerSums, <1>3 DEF Hands, QL!SentUnder
      <3> QED  BY <1>2, <1>4, <1>5, <3>1
    <2>6. \A i \in DOMAIN reservations' : reservations'[i].amount["requests"] = Attempts
      BY <1>2, <1>3 DEF Hands
    <2> QED  BY LedgerSums, <2>1, <2>2, <2>3, <2>4, <2>5, <2>6 DEF Hands, QL!SentUnder
  <1>12. LedgerTypes'
    BY <1>2, <1>3, <1>5, <1>9 DEF LedgerTypes
  <1> QED  BY <1>6, <1>11, <1>12 DEF LedgerInv

LEMMA ReconcileKeeps ==
    ASSUME QL!QuotaAssumption, LedgerInv, NEW w \in QuotaWorkers, QL!Reconcile(w) PROVE LedgerInv'
  <1>0. PICK k : k = calls[w].id
    OBVIOUS
  <1>1. /\ calls[w].pc \in {"succeeded", "failed"} /\ QL!Settle(w)
        /\ calls' = [calls EXCEPT ![w] = QL!Idle] /\ now' = now /\ sent' = sent /\ slips' = slips
    BY DEF QL!Reconcile
  <1>2. /\ LedgerTypes /\ Hands /\ calls[w] \in QuotaCall /\ calls[w].pc \in Holding
        /\ slips' \in 0..QuotaFaults /\ reservations \in Seq(QL!Reservation)
    BY <1>1, CallType DEF LedgerInv, LedgerTypes, Holding
  <1>3. /\ k \in DOMAIN reservations /\ QL!SentUnder(k) = calls[w].attempts
        /\ reservations[k].amount["requests"] = Attempts /\ reservations[k].amount \in QL!Amount
        /\ QL!SentUnder(k) <= Attempts /\ QL!Mine(w) = reservations[k]
    BY <1>0, <1>2, InHand, RowType DEF QL!Mine, Hands
  <1>4. QL!Idle.pc \notin Holding /\ QL!Idle \in QuotaCall /\ QL!Idle.attempts = 0
    BY IdleIsCall DEF Holding
  <1>5. CASE QL!Mine(w).state # "reserved"
    <2>1. windows' = windows /\ reservations' = reservations
      BY <1>1, <1>5 DEF QL!Settle
    <2> QED  BY <1>1, <1>2, <1>4, <2>1, CallMoves
  <1>6. CASE QL!Mine(w).state = "reserved"
    <2>1. PICK s, actual, rows :
            s = "reconciled" /\ actual = [i \in {k} |-> QL!Actual(w)] /\ rows = {k}
      OBVIOUS
    <2>0. windows' = QL!Charged(rows, actual) /\ reservations' = [reservations EXCEPT ![k].state = s]
      BY <1>0, <1>1, <1>6, <2>1 DEF QL!Settle
    <2>2. QL!Actual(w) \in QL!Amount /\ QL!Actual(w)["requests"] <= Attempts
          /\ QL!SentUnder(k) <= QL!Actual(w)["requests"]
      <3>1. calls[w].attempts \in Nat /\ calls[w].tokens \in Nat /\ Attempts \in Nat
            /\ calls[w].attempts <= Attempts
        BY <1>2, ConstantsAre DEF QuotaCall
      <3>2. QL!Actual(w) \in QL!Amount
        BY <1>3, <3>1 DEF QL!Actual, QL!Amount
      <3>3. QL!Actual(w)["requests"] = IF calls[w].pc = "succeeded" THEN calls[w].attempts ELSE Attempts
        <4>1. CASE calls[w].pc = "succeeded"  BY <4>1 DEF QL!Actual, QL!Resource
        <4>2. CASE calls[w].pc # "succeeded"  BY <1>3, <4>2 DEF QL!Actual, QL!Resource
        <4> QED  BY <4>1, <4>2
      <3> QED  BY <1>3, <3>1, <3>2, <3>3
    <2>3. \A i \in rows : /\ actual[i] \in QL!Amount /\ actual[i]["requests"] <= Attempts
                         /\ QL!SentUnder(i) <= actual[i]["requests"]
      BY <2>1, <2>2
    <2>4. reservations' = Closed(rows, s)
      BY <1>2, <1>3, <2>0, <2>1 DEF Closed
    <2>5. rows \subseteq {i \in DOMAIN reservations : reservations[i].state = "reserved"}
      BY <1>3, <1>6, <2>1
    <2>6. /\ reservations' \in Seq(QL!Reservation) /\ Len(reservations') <= CallLimit
          /\ DOMAIN reservations' = DOMAIN reservations
          /\ \A i \in DOMAIN reservations :
                /\ reservations'[i].amount = reservations[i].amount
                /\ reservations'[i].state = IF i \in rows THEN s ELSE reservations[i].state
          /\ windows' \in [QL!Window -> [used: QL!Amount, reserved: QL!Amount]]
          /\ (QL!LedgerBalances /\ QL!RequestsWithinLimit /\ OwedIsUsed)'
      <3>1. /\ s \in {"reconciled", "reconciled_after_restart"}
            /\ \A i \in rows : /\ actual[i] \in QL!Amount
                               /\ actual[i]["requests"] <= Attempts
                               /\ IF s = "reconciled" THEN QL!SentUnder(i) <= actual[i]["requests"]
                                  ELSE actual[i]["requests"] = Attempts
        BY <2>1, <2>3
      <3> QED  BY <1>1, <2>0, <2>4, <2>5, <3>1, ChargeKeeps
    <2>7. \A i \in DOMAIN reservations' : reservations'[i].amount["requests"] = Attempts
      BY <1>2, <2>6 DEF Hands
    <2>8. \A v \in QuotaWorkers \ {w} : calls[v].pc \in Holding =>
              reservations'[calls[v].id].state # "reconciled"
      <3> SUFFICES ASSUME NEW v \in QuotaWorkers \ {w}, calls[v].pc \in Holding
                   PROVE  reservations'[calls[v].id].state # "reconciled"
        OBVIOUS
      <3>1. calls[v].id # k
        BY <1>0, <1>2 DEF Hands
      <3>2. calls[v].id \in DOMAIN reservations /\ reservations[calls[v].id].state # "reconciled"
        BY <1>2 DEF Hands
      <3> QED  BY <2>1, <2>6, <3>1, <3>2
    <2>9. Hands' /\ calls' \in [QuotaWorkers -> QuotaCall]
      BY <1>1, <1>4, <2>6, <2>7, <2>8, HandsMove
    <2>10. LedgerTypes'
      BY <1>1, <1>2, <2>6, <2>9 DEF LedgerTypes
    <2> QED  BY <2>6, <2>9, <2>10 DEF LedgerInv
  <1> QED  BY <1>5, <1>6

LEMMA StepKeeps ==
    ASSUME QL!QuotaAssumption, LedgerInv, NEW w \in QuotaWorkers,
           \/ QL!KeepAlive(w) \/ QL!Heartbeat(w) \/ QL!Answer(w) \/ QL!Fail(w)
           \/ QL!StoreUnavailable(w) \/ QL!Crash(w)
    PROVE  LedgerInv'
  <1> DEFINE turned(p, t, l) == [calls[w] EXCEPT !.pc = p, !.tokens = t, !.lost = l]
  <1>1. /\ calls[w] \in QuotaCall /\ calls \in [QuotaWorkers -> QuotaCall] /\ slips \in 0..QuotaFaults
        /\ QuotaFaults \in Nat /\ calls[w].tokens \in Nat /\ calls[w].lost \in BOOLEAN
        /\ reservations \in Seq(QL!Reservation)
    BY CallType, ConstantsAre DEF LedgerInv, LedgerTypes, QuotaCall
  <1>2. calls[w].pc \in Holding => calls[w].id \in DOMAIN reservations
    BY InHand
  <1>3. \A p \in Holding : [calls EXCEPT ![w].pc = p] =
                                [calls EXCEPT ![w] = turned(p, calls[w].tokens, calls[w].lost)]
    BY <1>1 DEF QuotaCall
  <1>4. ASSUME NEW p \in Holding, calls[w].pc \in Holding, QL!Goto(w, p), windows' = windows,
               sent' = sent, now' = now, slips' \in 0..QuotaFaults,
               reservations' = reservations \/ reservations' = QL!Renewed(w)
        PROVE  LedgerInv'
    <2>1. calls' = [calls EXCEPT ![w] = turned(p, calls[w].tokens, calls[w].lost)]
      BY <1>3, <1>4 DEF QL!Goto
    <2> QED  BY <1>1, <1>2, <1>4, <2>1, GotoKeeps
  <1>5. ASSUME QL!KeepAlive(w) PROVE LedgerInv'
    BY <1>1, <1>4, <1>5 DEF QL!KeepAlive, Holding
  <1>6. ASSUME QL!Heartbeat(w) PROVE LedgerInv'
    <2>1. /\ calls[w].pc = "calling" /\ windows' = windows /\ sent' = sent /\ now' = now
          /\ slips' = slips /\ calls[w].pc \in Holding
          /\ \/ reservations' = QL!Renewed(w) /\ calls' = calls
             \/ reservations' = reservations /\ calls' = [calls EXCEPT ![w].lost = TRUE]
      BY <1>6 DEF QL!Heartbeat, Holding
    <2>2. CASE reservations' = QL!Renewed(w) /\ calls' = calls
      <3>1. turned("calling", calls[w].tokens, calls[w].lost) = calls[w]
        BY <1>1, <2>1 DEF QuotaCall
      <3>2. calls' = [calls EXCEPT ![w] = turned("calling", calls[w].tokens, calls[w].lost)]
        BY <1>1, <2>2, <3>1
      <3>3. "calling" \in Holding /\ calls[w].id \in DOMAIN reservations
            /\ slips' \in 0..QuotaFaults /\ reservations' = QL!Renewed(w) /\ calls[w].tokens \in Nat
            /\ calls[w].lost \in BOOLEAN /\ calls[w].pc \in Holding
            /\ windows' = windows /\ sent' = sent /\ now' = now
        BY <1>1, <1>2, <2>1, <2>2 DEF Holding
      <3> QED  BY <3>2, <3>3, GotoKeeps
    <2>3. CASE reservations' = reservations /\ calls' = [calls EXCEPT ![w].lost = TRUE]
      <3>1. calls' = [calls EXCEPT ![w] = turned("calling", calls[w].tokens, TRUE)]
        BY <1>1, <2>1, <2>3 DEF QuotaCall
      <3> QED  BY <1>1, <1>2, <2>1, <2>3, <3>1, GotoKeeps DEF Holding
    <2> QED  BY <2>1, <2>2, <2>3
  <1>7. ASSUME QL!Answer(w) PROVE LedgerInv'
    <2>1. /\ calls[w].pc = "calling" /\ windows' = windows /\ sent' = sent /\ now' = now
          /\ slips' = slips /\ calls[w].pc \in Holding
      BY <1>7 DEF QL!Answer, Holding
    <2>2. PICK usage \in Usages :
          IF ~calls[w].lost /\ QL!Renewable(w)
          THEN /\ reservations' = QL!Renewed(w)
               /\ calls' = [calls EXCEPT ![w].pc = "succeeded", ![w].tokens = usage]
          ELSE UNCHANGED reservations /\ QL!Goto(w, "failed")
      BY <1>7 DEF QL!Answer
    <2>3. usage \in Nat
      BY ConstantsAre
    <2>4. CASE ~calls[w].lost /\ QL!Renewable(w)
      <3>1. calls' = [calls EXCEPT ![w] = turned("succeeded", usage, calls[w].lost)]
        BY <1>1, <2>2, <2>4 DEF QuotaCall
      <3> QED  BY <1>1, <1>2, <2>1, <2>2, <2>3, <2>4, <3>1, GotoKeeps DEF Holding
    <2>5. CASE ~(~calls[w].lost /\ QL!Renewable(w))
      BY <1>1, <1>4, <2>1, <2>2, <2>5 DEF Holding
    <2> QED  BY <2>4, <2>5
  <1>8. ASSUME QL!Fail(w) PROVE LedgerInv'
    BY <1>1, <1>4, <1>8 DEF QL!Fail, Holding
  <1>9. QL!Idle.pc \notin Holding /\ [QL!Idle EXCEPT !.pc = "down"].pc \notin Holding
        /\ QL!Idle \in QuotaCall /\ QL!Idle.attempts = 0
        /\ [QL!Idle EXCEPT !.pc = "down"] \in QuotaCall
        /\ [QL!Idle EXCEPT !.pc = "down"].attempts = 0
    BY IdleIsCall DEF QL!Idle, Holding
  <1>10. ASSUME QL!StoreUnavailable(w) PROVE LedgerInv'
    <2>1. /\ slips' \in 0..QuotaFaults /\ now' = now /\ windows' = windows
          /\ reservations' = reservations /\ sent' = sent
      BY <1>1, <1>10 DEF QL!StoreUnavailable
    <2>2. CASE calls[w].pc \in {"reserved", "calling"}
      BY <1>4, <1>10, <2>1, <2>2 DEF QL!StoreUnavailable, Holding
    <2>3. CASE calls[w].pc \notin {"reserved", "calling"}
      <3>1. calls' = [calls EXCEPT ![w] = QL!Idle]
        BY <1>10, <2>3 DEF QL!StoreUnavailable
      <3> QED  BY <1>1, <1>9, <2>1, <3>1, CallMoves
    <2> QED  BY <2>2, <2>3
  <1>11. ASSUME QL!Crash(w) PROVE LedgerInv'
    <2>1. /\ slips' \in 0..QuotaFaults /\ now' = now /\ windows' = windows
          /\ reservations' = reservations /\ sent' = sent
          /\ calls' = [calls EXCEPT ![w] = [QL!Idle EXCEPT !.pc = "down"]]
      BY <1>1, <1>11 DEF QL!Crash
    <2> QED  BY <1>1, <1>9, <2>1, CallMoves
  <1> QED  BY <1>5, <1>6, <1>7, <1>8, <1>10, <1>11

LEMMA LedgerStutter ==
    ASSUME QL!QuotaAssumption, LedgerInv, calls' = calls, windows' = windows, sent' = sent,
           reservations' = reservations, now' \in QL!Instant, slips' = slips
    PROVE  LedgerInv'
  <1>1. \A i : QL!SentUnder(i)' = QL!SentUnder(i) /\ Owed(i)' = Owed(i)
    BY LedgerSums DEF QL!SentUnder, Owed
  <1>2. (QL!LedgerBalances /\ QL!RequestsWithinLimit /\ OwedIsUsed)'
    BY <1>1, LedgerStays
  <1>3. Hands'
    BY <1>1 DEF LedgerInv, Hands
  <1>4. LedgerTypes'
    BY DEF LedgerInv, LedgerTypes
  <1> QED  BY <1>2, <1>3, <1>4 DEF LedgerInv

LEMMA LedgerNext ==
    ASSUME QL!QuotaAssumption, LedgerInv, [QL!Next]_QL!vars PROVE LedgerInv'
  <1>1. ASSUME NEW w \in QuotaWorkers, QL!BeginCall(w) \/ QL!Restart(w) PROVE LedgerInv'
    <2>1. [QL!Idle EXCEPT !.pc = "reserving", !.current = now] \in QuotaCall
          /\ [QL!Idle EXCEPT !.pc = "reserving", !.current = now].pc \notin Holding
          /\ [QL!Idle EXCEPT !.pc = "reserving", !.current = now].attempts = 0
          /\ QL!Idle \in QuotaCall /\ QL!Idle.pc \notin Holding /\ QL!Idle.attempts = 0
      BY IdleIsCall, CallType DEF QL!Idle, Holding
    <2> QED  BY <1>1, <2>1, SweepKeeps DEF QL!BeginCall, QL!Restart
  <1>2. ASSUME QL!Tick PROVE LedgerInv'
    <2>1. now' \in QL!Instant /\ calls' = calls /\ windows' = windows /\ sent' = sent
          /\ reservations' = reservations /\ slips' = slips
      BY <1>2, ConstantsAre DEF QL!Tick, LedgerInv, LedgerTypes, QL!Instant
    <2> QED  BY <2>1, LedgerStutter
  <1>3. ASSUME UNCHANGED QL!vars PROVE LedgerInv'
    <2>1. now' \in QL!Instant /\ calls' = calls /\ windows' = windows /\ sent' = sent
          /\ reservations' = reservations /\ slips' = slips
      BY <1>3 DEF QL!vars, LedgerInv, LedgerTypes
    <2> QED  BY <2>1, LedgerStutter
  <1> QED  BY <1>1, <1>2, <1>3, ReserveKeeps, ReplyLostKeeps, SendKeeps, ReconcileKeeps, StepKeeps
           DEF QL!Next

-----------------------------------------------------------------------------
(* The composed specification. *)
Everything == <<part, vars, pc, mending, graphVars, taskVars, verifierVars, intakeVars, quotaVars>>

(* A step is one of the part that the behaviour is of; to the job it is one of *)
(* FoundryJobs in any case.                                                  *)
LEMMA PartsStep ==
    ASSUME [FoundryNext]_Everything
    PROVE  /\ part' = part /\ [Next]_vars
           /\ part = "graph" => [EG!Next]_EG!vars
           /\ part = "tasks" => [TF!Next]_TF!vars
           /\ part = "verifier" => [VC!Next]_VC!vars
           /\ part = "intake" => [FI!Next]_FI!vars
           /\ part = "quota" => [QL!Next]_QL!vars
  <1>1. CASE UNCHANGED Everything
    BY <1>1 DEF Everything, vars, graphVars, taskVars, verifierVars, intakeVars, quotaVars,
                EG!vars, TF!vars, VC!vars, FI!vars, QL!vars
  <1>2. CASE JobStep
    BY <1>2 DEF JobStep
  <1>3. CASE GraphStep
    BY <1>3 DEF GraphStep
  <1>4. CASE TaskStep
    BY <1>4 DEF TaskStep
  <1>5. CASE VerifierStep
    BY <1>5 DEF VerifierStep
  <1>6. CASE IntakeStep
    BY <1>6 DEF IntakeStep
  <1>7. CASE QuotaStep
    BY <1>7 DEF QuotaStep
  <1> QED  BY <1>1, <1>2, <1>3, <1>4, <1>5, <1>6, <1>7 DEF FoundryNext

LEMMA PartsInit ==
    ASSUME FoundryInit
    PROVE  /\ Init
           /\ part = "graph" => EG!Init
           /\ part = "tasks" => TF!Init
           /\ part = "verifier" => VC!Init
           /\ part = "intake" => FI!Init
           /\ part = "quota" => QL!Init
  BY DEF FoundryInit, NoJob

(* What the run of all parts does, seen from the job, is what FoundryJobs     *)
(* allows: the other parts leave the job alone.                             *)
THEOREM FoundryRefinesJobs == FoundrySpec => Spec
  <1>1. FoundryInit => Init
    BY PartsInit
  <1>2. [FoundryNext]_Everything => [Next]_vars
    BY PartsStep
  <1> QED  BY <1>1, <1>2, PTL DEF FoundrySpec, Spec, Everything

(* A paper that waits was not withdrawn by a record that the one replica has   *)
(* behind it, and is the newest that was offered, wherever it crashed.       *)
THEOREM QueueFollows == FoundrySpec => []QueueFollowsLog
  <1> DEFINE J == part = "intake" => IntakeInv
  <1>1. FoundryInit => J
    BY PartsInit, IntakeInit, FoundryAssumption
  <1>2. J /\ [FoundryNext]_Everything => J'
    BY PartsStep, IntakeNext, FoundryAssumption
  <1>3. J => QueueFollowsLog
    BY IntakeSays, FoundryAssumption DEF QueueFollowsLog
  <1> HIDE DEF J
  <1> QED  BY <1>1, <1>2, <1>3, PTL DEF FoundrySpec, Everything

(* A graph is valid at every step and what is returned has nothing that the   *)
(* critic rejected last; no critique of tasks is overruled.  This holds      *)
(* whatever the models answer.                                              *)
THEOREM AnswersChecked == FoundrySpec => []AnswersAreChecked
  <1> DEFINE J == (part = "graph" => GraphInv) /\ (part = "tasks" => TaskInv)
  <1>1. FoundryInit => J
    BY PartsInit, GraphInit, TaskInit, FoundryAssumption
  <1>2. J /\ [FoundryNext]_Everything => J'
    BY PartsStep, GraphNext, TaskNext, FoundryAssumption
  <1>3. J => AnswersAreChecked
    BY GraphSays, TaskSays, FoundryAssumption DEF AnswersAreChecked
  <1> HIDE DEF J
  <1> QED  BY <1>1, <1>2, <1>3, PTL DEF FoundrySpec, Everything

(* Every answer that gets the full reward of an accepted environment proves   *)
(* the values and nodes that the reference answer proved, but a node that is *)
(* all it commits itself to, for every task, answer and proposal.           *)
THEOREM RewardsAreEarned == FoundrySpec => []RewardIsEarned
  <1> DEFINE J == part = "verifier" => VerifierInv
  <1>1. FoundryInit => J
    BY PartsInit, VerifierInit, FoundryAssumption
  <1>2. J /\ [FoundryNext]_Everything => J'
    BY PartsStep, VerifierNext, FoundryAssumption
  <1>3. J => RewardIsEarned
    BY RewardHolds, FoundryAssumption DEF RewardIsEarned
  <1> HIDE DEF J
  <1> QED  BY <1>1, <1>2, <1>3, PTL DEF FoundrySpec, Everything

(* The windows of a quota add up to its reservations, for every number of     *)
(* calls, attempts, workers and faults.                                     *)
THEOREM QuotaBalances == FoundrySpec => []LedgerBalances
  <1> DEFINE J == part = "quota" => LedgerInv
  <1>1. FoundryInit => J
    BY PartsInit, LedgerInit, FoundryAssumption
  <1>2. J /\ [FoundryNext]_Everything => J'
    BY PartsStep, LedgerNext, FoundryAssumption
  <1>3. J => LedgerBalances
    BY LedgerSays, FoundryAssumption DEF LedgerBalances
  <1> HIDE DEF J
  <1> QED  BY <1>1, <1>2, <1>3, PTL DEF FoundrySpec, Everything

(* No window uses and reserves more requests than its limit, and what was      *)
(* sent under its reservations is at most what it shows.                     *)
THEOREM QuotaCovers == FoundrySpec => []ChargesCover
  <1> DEFINE J == part = "quota" => LedgerInv
  <1>1. FoundryInit => J
    BY PartsInit, LedgerInit, FoundryAssumption
  <1>2. J /\ [FoundryNext]_Everything => J'
    BY PartsStep, LedgerNext, FoundryAssumption
  <1>3. J => ChargesCover
    BY LedgerSays, FoundryAssumption DEF ChargesCover
  <1> HIDE DEF J
  <1> QED  BY <1>1, <1>2, <1>3, PTL DEF FoundrySpec, Everything
=============================================================================
