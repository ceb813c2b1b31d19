--------------------------- MODULE VerifierCompiler ---------------------------
(***************************************************************************)
(* How the pipeline decides whether a task becomes an RL environment        *)
(* (VerifierCompiler.compile in processor/foundry/verifier.py, then          *)
(* run_acceptance_suite in validation.py for each reference answer).        *)
(* A model proposes the predicates that grade answers, a second model        *)
(* criticises them, and the proposal is normalised to the task or replaced  *)
(* by predicates that follow from the task alone.  What models say is        *)
(* arbitrary.  An answer is modelled by what the predicates see of it, and   *)
(* a weight by whether it is positive.                                     *)
(***************************************************************************)
EXTENDS Integers, FiniteSets

CONSTANTS
    Nodes,          \* the nodes of the evidence graph
    Relations,      \* relations that may be claimed, as pairs of nodes
    Spans,          \* the spans a task shows
    Invented,       \* a span that no paper has
    Values,         \* the ids of expected values
    Tasks, Answers, \* bound: the tasks, and the reference answers of solvers
    Proposals       \* bound: the specifications that models propose

Report == {"empty", "bare", "full"}     \* full: it states the expected values

Answer == [report: Report, nodes: SUBSET Nodes, relations: SUBSET Relations,
           evidence: SUBSET (Spans \cup {Invented}), right: SUBSET Values,
           wrong: SUBSET Values]

(* The hidden targets of a task. *)
Task == [nodes: SUBSET Nodes, relations: SUBSET Relations,
         evidence: SUBSET SUBSET Spans, values: SUBSET Values]

Kind == {"nonempty", "manifest", "consistency", "nodes", "membership", "coverage",
         "relations"} \cup Values

(* What a predicate is good for: a hard gate, a part of the reward, both, or *)
(* neither; and a specification: the kinds that occur in it.                *)
Role == [required: BOOLEAN, weighted: BOOLEAN]
Gate == [required |-> TRUE, weighted |-> FALSE]
Outcome == [required |-> TRUE, weighted |-> TRUE]

VerifierAssumption ==
    /\ Tasks \subseteq Task /\ Answers \subseteq Answer /\ Relations \subseteq Nodes \X Nodes
    /\ Invented \notin Spans
    /\ \A p \in Proposals : DOMAIN p \subseteq Kind /\ \A k \in DOMAIN p : p[k] \in Role
    /\ Values \cap {"nonempty", "manifest", "consistency", "nodes", "membership", "coverage",
                   "relations"} = {}

VARIABLES
    task, answer,   \* the task, and a reference answer
    pc, mending,    \* whom the compiler asks, and whether for a repair of shape
    spec,           \* the specification so far
    origin          \* auxiliary: "model", or "task" for the deterministic one

vars == <<task, answer, pc, mending, spec, origin>>

Init ==
    /\ task \in Tasks /\ answer \in Answers
    /\ pc \in {"compiler", "sft"} /\ mending = FALSE /\ spec = [k \in {} |-> Gate] /\ origin = "model"

-----------------------------------------------------------------------------
(* normalize_spec: the kinds a task has no target for are dropped. *)
Applicable(k) ==
    CASE k = "nodes" -> task.nodes # {}
      [] k = "relations" -> task.relations # {}
      [] k \in Values -> k \in task.values
      [] OTHER -> TRUE

(* The hard gates that follow from the task. *)
Baseline ==
    {"nonempty", "manifest", "consistency"}
        \cup (IF task.nodes # {} THEN {"nodes"} ELSE {})
        \cup (IF task.evidence # {} THEN {"membership", "coverage"} ELSE {})
        \cup (IF task.relations # {} THEN {"relations"} ELSE {})

(* One kind of a set that gives the reward when nothing else does. *)
OutcomeOrder == <<"relations", "nodes", "coverage", "consistency", "manifest">>
FirstOutcome(S) ==
    LET i == CHOOSE i \in DOMAIN OutcomeOrder :
                /\ OutcomeOrder[i] \in S
                /\ \A j \in 1..(i - 1) : OutcomeOrder[j] \notin S
    IN  OutcomeOrder[i]

(* A proposal keeps its own predicates; a kind it has is not added again.   *)
Normalized(proposal) ==
    LET own == {k \in DOMAIN proposal : Applicable(k)}
        all == [k \in own \cup Baseline \cup task.values |->
                    IF k \in own THEN proposal[k] ELSE IF k \in Values THEN Outcome ELSE Gate]
    IN  IF \E k \in DOMAIN all : all[k].weighted THEN all
        ELSE LET k == FirstOutcome(DOMAIN all) IN [all EXCEPT ![k].weighted = TRUE]

(* deterministic_verifier *)
Deterministic == Normalized([k \in {} |-> Gate])

(* _evaluate_predicate *)
Committed(a) == a.nodes \cup {r[1] : r \in a.relations} \cup {r[2] : r \in a.relations}
                    \cup a.right \cup a.wrong

Holds(k, a) ==
    CASE k = "nonempty" -> a.report # "empty"
      [] k = "manifest" -> Committed(a) \cup a.evidence # {}
      [] k = "consistency" ->
            /\ a.report # "empty" /\ Committed(a) \cup a.evidence # {}
            /\ task.values # {} => a.report = "full"
      [] k = "nodes" -> task.nodes \subseteq Committed(a)
      [] k = "membership" -> a.evidence # {} /\ a.evidence \subseteq Spans
      [] k = "coverage" -> \E S \in task.evidence : S \subseteq a.evidence
      [] k = "relations" -> task.relations \subseteq a.relations
      [] OTHER -> k \in a.right

(* evaluate: the full reward takes every gate and every weighted predicate. *)
Passes(a) ==
    \A k \in DOMAIN spec : spec[k].required \/ spec[k].weighted => Holds(k, a)

-----------------------------------------------------------------------------
(* _adversarial_answers *)
CitesEvidence == DOMAIN spec \cap {"membership", "coverage"} # {}
Bare(a) == [a EXCEPT !.nodes = {}, !.relations = {}, !.evidence = {}, !.right = {}, !.wrong = {}]
Adversarial(a) ==
    {[Bare(a) EXCEPT !.report = "empty"], Bare(a), [a EXCEPT !.nodes = {}, !.relations = {}]}
        \cup (IF CitesEvidence THEN {[a EXCEPT !.evidence = {Invented}]} ELSE {})
        \cup (IF a.right \cup a.wrong # {} THEN {[a EXCEPT !.right = {}, !.wrong = a.right]} ELSE {})

OneOf(S) == IF S = {} THEN {} ELSE {CHOOSE x \in S : TRUE}

WithoutNode(a, n) ==
    [a EXCEPT !.nodes = @ \ {n}, !.relations = {r \in @ : n \notin {r[1], r[2]}},
              !.right = @ \ {n}, !.wrong = @ \ {n}]
WithoutValue(a, v) == [a EXCEPT !.right = @ \ {v}, !.wrong = @ \cup {v}]

(* _mutation_candidates: of the required relations one is taken out. *)
Mutated(a) ==
    {WithoutNode(a, n) : n \in task.nodes}
        \cup {WithoutValue(a, v) : v \in a.right}
        \cup (IF task.values # {} THEN {[a EXCEPT !.report = "bare"]} ELSE {})
        \cup (IF CitesEvidence
              THEN {[a EXCEPT !.evidence = (@ \ {s}) \cup {Invented}] : s \in OneOf(a.evidence)}
              ELSE {})
        \cup {[a EXCEPT !.relations = @ \ {r}] : r \in OneOf(a.relations \cap task.relations)}
        \cup (IF task.nodes = {} /\ a.evidence = {} THEN {Bare(a)} ELSE {})

(* _mutations: what leaves the answer as it is does not count. *)
Mutations(a) == Mutated(a) \ {a}

(* _metamorphic_variants: one more span that may be cited changes nothing. *)
Metamorphic(a) ==
    {[a EXCEPT !.evidence = @ \cup {s}] : s \in OneOf(Spans \ a.evidence)}

(* Mutant of SuitePasses: the suite of the other route decides. *)
SuitePassesSft(a) ==
    Passes(a) /\ ("membership" \in DOMAIN spec => \A b \in Metamorphic(a) : Passes(b))

(* run_acceptance_suite and suite_passes *)
SuitePasses(a) ==
    /\ Passes(a)
    /\ \A b \in Adversarial(a) \cup Mutations(a) : ~Passes(b)
    /\ Mutations(a) # {}
    /\ "membership" \in DOMAIN spec => \A b \in Metamorphic(a) : Passes(b)

-----------------------------------------------------------------------------
Ask(whom) == pc' = whom /\ mending' = FALSE
Use(new, from) == spec' = new /\ origin' = from

(* A proposal that cannot be normalised is replaced by the deterministic    *)
(* specification.                                                          *)
TakeSpec ==
    /\ pc \in {"compiler", "repair"}
    /\ \/ \E proposal \in Proposals : Use(Normalized(proposal), "model")
       \/ Use(Deterministic, "task")
    /\ Ask(IF pc = "compiler" THEN "critic" ELSE "recheck")
    /\ UNCHANGED <<task, answer>>

Suite == Ask(IF SuitePasses(answer)' THEN "accepted" ELSE "rejected")

(* A specification that two critics refuse is replaced. *)
Critique(accepted) ==
    IF pc = "critic" /\ ~accepted THEN Ask("repair") /\ UNCHANGED <<spec, origin>>
    ELSE /\ IF accepted THEN UNCHANGED <<spec, origin>> ELSE Use(Deterministic, "task")
         /\ Suite

(* _validate_critic: a critique of the wrong shape is repaired once, and     *)
(* counts as a refusal when it stays so.                                   *)
TakeCritique ==
    /\ pc \in {"critic", "recheck"} /\ UNCHANGED <<task, answer>>
    /\ \/ \E accepted \in BOOLEAN : Critique(accepted)
       \/ IF mending THEN Critique(FALSE)
          ELSE mending' = TRUE /\ UNCHANGED <<pc, spec, origin>>

(* deterministic_sft_verifier and sft_suite_passes: a supervised target needs *)
(* its answer, and no gate on the graph.                                    *)
SftSpec ==
    LET kinds == {"nonempty", "manifest", "consistency"} \cup task.values IN
    [k \in kinds |-> IF k \in task.values \/ (task.values = {} /\ k = "consistency")
                     THEN Outcome ELSE Gate]

GradeSft ==
    /\ pc = "sft" /\ UNCHANGED <<task, answer>>
    /\ Use(SftSpec, "task")
    /\ Ask(IF Passes(answer)' THEN "accepted_sft" ELSE "rejected")

Next == TakeSpec \/ TakeCritique \/ GradeSft
Spec == Init /\ [][Next]_vars
-----------------------------------------------------------------------------
TypeOK ==
    /\ task \in Tasks /\ answer \in Answers /\ mending \in BOOLEAN
    /\ pc \in {"compiler", "critic", "repair", "recheck", "sft", "accepted",
               "accepted_sft", "rejected"}
    /\ DOMAIN spec \subseteq Kind /\ \A k \in DOMAIN spec : spec[k] \in Role
    /\ origin \in {"model", "task"}

(* A node that is all the reference answer commits itself to.                *)
Sole(n) == Committed(WithoutNode(answer, n)) \cup answer.evidence = {}

(* What a reference answer of an accepted environment proves of nodes and    *)
(* values, every answer that gets the full reward proves, though a proposal *)
(* may weaken any predicate.  A node that is all the reference commits       *)
(* itself to is no part of this: an answer without it has an empty manifest, *)
(* and fails for that alone.  With the deterministic specification the other *)
(* answer has the relations and the evidence as well, and cites nothing      *)
(* invented.  An accepted trajectory has every expected value and states it. *)
RewardIsEarned ==
    /\ pc = "accepted_sft" =>
        /\ task.values \subseteq answer.right
        /\ answer.report # "empty" /\ (task.values # {} => answer.report = "full")
    /\ pc = "accepted" =>
        \A a \in Answer : Passes(a) =>
            /\ \A n \in task.nodes \cap Committed(answer) : n \in Committed(a) \/ Sole(n)
            /\ task.values \cap answer.right \subseteq a.right
            /\ origin = "task" =>
                  /\ task.relations \subseteq a.relations
                  /\ task.evidence # {} => Invented \notin a.evidence
                  /\ task.evidence # {} => \E S \in task.evidence : S \subseteq a.evidence
=============================================================================
