----------------------------- MODULE TaskFactory -----------------------------
(***************************************************************************)
(* TaskFactory (processor/foundry/tasking.py) for one paper: propose asks a *)
(* designer for tasks, twice more when none survives the deterministic      *)
(* checks, and a critic which of them can be answered; solve lets two       *)
(* solvers work on a selected task, with tools, and a critic judge their    *)
(* trajectories.  What a model answers is arbitrary; an answer of the       *)
(* wrong shape is repaired once, an incomplete critique completed once.     *)
(***************************************************************************)
EXTENDS Integers, Sequences, FiniteSets, FiniteSetsExt

CONSTANTS
    Tasks,          \* the tasks a designer may propose
    Resolved,       \* those whose spans, nodes and relations the paper has
    Worthwhile,     \* those that are no lookup and no exercise in format
    Checkable,      \* those a program can grade by their hidden targets
    Explanations,   \* those of the family grounded_explanation
    Family, Rank,   \* of a task: its family, and its place in the ranking
    FamilyLimit,    \* how many tasks of a family are selected
    PerPaper, AcceptedPerPaper,     \* tasks_per_paper, accepted_tasks_per_paper
    Requests,       \* the tool requests that fail
    MaxTurns        \* _MAX_SOLVER_TOOL_TURNS

(* A ranking has no ties: sorting keeps the order of the batch. *)
TaskAssumption ==
    /\ IsFiniteSet(Tasks) /\ Rank \in [Tasks -> Int]
    /\ \A s, t \in Tasks : Rank[s] = Rank[t] => s = t
    /\ FamilyLimit \in Nat /\ PerPaper \in Nat /\ AcceptedPerPaper \in Nat
    /\ MaxTurns \in Nat \ {0} /\ Tasks \cap (Tasks \X {"solver_a", "solver_b"}) = {}

Solvers == <<"solver_a", "solver_b">>
Solver == {"solver_a", "solver_b"}

VARIABLES
    pc, mending,    \* whom the factory asks, and whether for a repair of shape
    level,          \* 1: design, 2: deterministic repair, 3: fallback to SFT
    batch,          \* the tasks that passed the checks
    verdicts,       \* decisions of the critic, by task or by trajectory
    selected,       \* the tasks that were selected and are still to be solved
    turn, failed,   \* of a solver: its turn, the requests that failed
    working,        \* the solvers that are still to be asked
    trajectories,   \* the solvers that delivered one
    passed,         \* solved tasks, with the trajectories that are not blocked
    heard           \* auxiliary: whether the first critique about a task, or about
                    \* a trajectory of a task, lets it go on

vars == <<pc, mending, level, batch, verdicts, selected, turn, failed, working,
          trajectories, passed, heard>>

(* An answerability decision, answerable and free of leaks or not; and a     *)
(* TrajectoryGroundingDecision: whether it names a scientific error, its    *)
(* summary, and what its findings are about.                               *)
Grounding == [error: BOOLEAN, grounded: BOOLEAN, findings: {"format", "substance"}]

(* The functions from a subset of S to V: what a critic answers. *)
Partial(S, V) == UNION {[D -> V] : D \in SUBSET S}
NoVerdict == [x \in {} |-> FALSE]

Init ==
    /\ pc = "design" /\ mending = FALSE /\ level = 1
    /\ batch = {} /\ verdicts = NoVerdict /\ selected = {} /\ turn = 0 /\ failed = {}
    /\ working = <<>> /\ trajectories = {} /\ passed = NoVerdict /\ heard = NoVerdict

-----------------------------------------------------------------------------
(* The first n of a list of proposals: any set of at most n, as lists go.   *)
UpTo(n) == {B \in SUBSET Tasks : Cardinality(B) <= n}
Limit == IF level = 3 THEN Min({2, PerPaper}) ELSE PerPaper

Ask(whom) == pc' = whom /\ mending' = FALSE

(* _machine_verifiable and _task_quality_violations: what a family asks of   *)
(* difficulty, nodes, relations and expected values.                       *)
MachineVerifiable(t) == t \in Checkable
LowValue(t) == t \notin Worthwhile

(* _normalize_task: the route follows from the task, not from the designer. *)
Route(t) ==
    IF t \in Explanations THEN "sft"
    ELSE IF LowValue(t) THEN "reject"
    ELSE IF MachineVerifiable(t) THEN "rl" ELSE "sft"

(* validate_task *)
Validates(t) ==
    t \in Resolved /\ ~LowValue(t) /\ (Route(t) = "rl" => MachineVerifiable(t))

(* _normalize_and_validate_tasks *)
Survivors(B) == {t \in B : Route(t) # "reject" /\ Validates(t)}

(* propose: a batch of which something survives goes to the critic.  Three  *)
(* batches of which nothing does are a TaskOutputError.                    *)
TakeBatch ==
    /\ pc = "design"
    /\ \E B \in UpTo(Limit) :
          /\ batch' = Survivors(B)
          /\ IF Survivors(B) # {} THEN Ask("answerability") /\ UNCHANGED level
             ELSE IF level < 3 THEN Ask("design") /\ level' = level + 1
             ELSE Ask("failed") /\ UNCHANGED level
    /\ UNCHANGED <<verdicts, selected, turn, failed, working, trajectories, passed, heard>>

(* _merge_*_decisions: the first decision about a task or trajectory stays. *)
Merged(new) == [x \in DOMAIN verdicts \cup DOMAIN new |->
                    IF x \in DOMAIN verdicts THEN verdicts[x] ELSE new[x]]

(* What a critique says for the first time. *)
Hear(said) == [x \in DOMAIN said \cup DOMAIN heard |->
                   IF x \in DOMAIN heard THEN heard[x] ELSE said[x]]

Accepted(v) == {t \in batch \cap DOMAIN v : v[t]}

(* _select_diverse_tasks: RL first, the best of each family, up to the limit. *)
Before(s, t) ==
    IF Route(s) = Route(t) THEN Rank[s] < Rank[t] ELSE Route(s) = "rl"
Better(S, t) == {s \in S : Before(s, t)}
Select(S) ==
    LET diverse == {t \in S :
            Cardinality({s \in Better(S, t) : Family[s] = Family[t]}) < FamilyLimit}
    IN  {t \in diverse : Cardinality(Better(diverse, t)) < AcceptedPerPaper}

(* The answerability critic, and the completion of what it left out.  Of two  *)
(* decisions about one task in one answer the code keeps the last; v is what  *)
(* an answer comes to.                                                     *)
TakeAnswerability ==
    /\ pc \in {"answerability", "complete"}
    /\ \E v \in Partial(batch, BOOLEAN) :
          LET merged == Merged(v) IN
          /\ verdicts' = merged
          /\ heard' = Hear(v)
          /\ IF pc = "answerability" /\ batch \ DOMAIN v # {}
             THEN Ask("complete") /\ UNCHANGED selected
             ELSE Ask("next") /\ selected' = Select(Accepted(merged))
    /\ UNCHANGED <<level, batch, turn, failed, working, trajectories, passed>>

Current == CHOOSE t \in selected : \A s \in selected : ~Before(s, t)

(* process: the next task, or the end; a paper without a task is rejected.  *)
NextTask ==
    /\ pc = "next"
    /\ verdicts' = NoVerdict
    /\ IF selected = {} THEN Ask("done") /\ UNCHANGED working
       ELSE Ask("turn") /\ working' = Solvers
    /\ turn' = 0 /\ failed' = {} /\ trajectories' = {}
    /\ UNCHANGED <<level, batch, selected, passed, heard>>

(* What follows the attempt of one solver. *)
AfterSolver(delivered) ==
    /\ trajectories' = delivered /\ working' = Tail(working)
    /\ turn' = 0 /\ failed' = {}
    /\ IF Len(working) > 1 THEN Ask("turn") /\ UNCHANGED selected
       ELSE IF delivered # {} THEN Ask("grounding") /\ UNCHANGED selected
       ELSE Ask("next") /\ selected' = selected \ {Current}

(* A turn that asks for tools: a request that failed before ends the        *)
(* attempt, and so does the last turn.                                     *)
ToolTurn ==
    /\ pc = "turn"
    /\ \E R \in SUBSET Requests :
          IF R \cap failed # {} \/ turn + 1 >= MaxTurns
          THEN AfterSolver(trajectories)
          ELSE /\ failed' = failed \cup R /\ turn' = turn + 1 /\ Ask("turn")
               /\ UNCHANGED <<selected, working, trajectories>>
    /\ UNCHANGED <<level, batch, verdicts, passed, heard>>

(* A final turn that keeps the contract of the task, or is repaired once. *)
FinalTurn ==
    /\ pc \in {"turn", "contract"}
    /\ \/ AfterSolver(trajectories \cup {Head(working)})
       \/ IF pc = "turn" THEN Ask("contract") /\ UNCHANGED <<selected, turn, failed, working, trajectories>>
          ELSE AfterSolver(trajectories)
    /\ UNCHANGED <<level, batch, verdicts, passed, heard>>

(* _complete_grounding_decisions: what no critic spoke about is blocked. *)
Completed(v, x) ==
    IF x \in DOMAIN v THEN v[x] ELSE [error |-> TRUE, grounded |-> FALSE, findings |-> "substance"]

(* grounding_decision_blocks: an error counts more than the summary, and     *)
(* findings that are about the format alone do not block.                   *)
Blocks(d) == d.error \/ (~d.grounded /\ d.findings # "format")

(* The grounding critic, and the completion of what it left out; here too the *)
(* last decision of an answer about a trajectory stands.                     *)
TakeGrounding ==
    /\ pc \in {"grounding", "complete_grounding"}
    /\ \E v \in Partial(trajectories, Grounding) :
          LET merged == Merged(v) IN
          /\ verdicts' = merged
          /\ heard' = Hear([y \in {Current} \X DOMAIN v |-> ~Blocks(v[y[2]])])
          /\ IF pc = "grounding" /\ trajectories \ DOMAIN v # {}
             THEN Ask("complete_grounding") /\ UNCHANGED <<selected, passed>>
             ELSE /\ Ask("next") /\ selected' = selected \ {Current}
                  /\ passed' = [t \in DOMAIN passed \cup {Current} |->
                        IF t \in DOMAIN passed THEN passed[t]
                        ELSE {x \in trajectories : ~Blocks(Completed(merged, x))}]
    /\ UNCHANGED <<level, batch, turn, failed, working, trajectories>>

(* _validate_or_repair: the second answer of the wrong shape costs a solver *)
(* its attempt, a task its solution, or the paper its tasks.               *)
Malformed ==
    /\ pc \notin {"next", "contract", "done", "failed"}
    /\ IF ~mending
       THEN mending' = TRUE /\ UNCHANGED <<pc, selected, turn, failed, working, trajectories>>
       ELSE CASE pc = "turn" -> AfterSolver(trajectories)
              [] pc \in {"grounding", "complete_grounding"} ->
                    /\ Ask("next") /\ selected' = selected \ {Current}
                    /\ UNCHANGED <<turn, failed, working, trajectories>>
              [] OTHER -> Ask("failed") /\ UNCHANGED <<selected, turn, failed, working, trajectories>>
    /\ UNCHANGED <<level, batch, verdicts, passed, heard>>

Next ==
    \/ TakeBatch \/ TakeAnswerability \/ NextTask \/ ToolTurn \/ FinalTurn
    \/ TakeGrounding \/ Malformed

Spec == Init /\ [][Next]_vars
-----------------------------------------------------------------------------
TypeOK ==
    /\ pc \in {"design", "answerability", "complete", "next", "turn", "contract",
               "grounding", "complete_grounding", "done", "failed"}
    /\ mending \in BOOLEAN /\ level \in 1..3 /\ batch \subseteq Survivors(Tasks)
    /\ selected \subseteq batch /\ turn \in 0..(MaxTurns - 1) /\ failed \subseteq Requests
    /\ trajectories \subseteq Solver /\ DOMAIN passed \subseteq batch

(* No critique is overruled and none is assumed: a task is worked on only    *)
(* if the first critic to speak about it accepted it, a trajectory goes on  *)
(* only if a critic spoke about it and the first one did not block it, and  *)
(* no family has more tasks than it may.                                   *)
CritiquesStand ==
    /\ \A t \in selected \cup DOMAIN passed : t \in DOMAIN heard /\ heard[t]
    /\ \A t \in DOMAIN passed : \A x \in passed[t] :
          <<t, x>> \in DOMAIN heard /\ heard[<<t, x>>]
    /\ \A f \in {Family[t] : t \in Tasks} :
          Cardinality({t \in selected \cup DOMAIN passed : Family[t] = f}) <= FamilyLimit
=============================================================================
