------------------------------ MODULE MCFoundry ------------------------------
(***************************************************************************)
(* Six parts of the foundry that share no state, checked in one run: the    *)
(* initial state says which part a behaviour is of.  The constants of every  *)
(* part are constants here; the values that TLC takes are at the end and in  *)
(* MCFoundry.cfg.                                                          *)
(***************************************************************************)
EXTENDS FoundryJobs, TLC

VARIABLES
    part, pc, mending,
    graph, pass, round, critique,
    level, batch, verdicts, selected, turn, failed, working, trajectories, passed, heard,
    task, answer, spec, origin,
    log, running, row, admissions, next, stored, offered, missed, crashes, claims,
    now, windows, reservations, calls, sent, slips

graphVars == <<graph, pass, round, critique>>
taskVars == <<level, batch, verdicts, selected, turn, failed, working, trajectories,
              passed, heard>>
verifierVars == <<task, answer, spec, origin>>
intakeVars == <<log, running, row, admissions, next, stored, offered, missed, crashes, claims>>
quotaVars == <<now, windows, reservations, calls, sent, slips>>

(* The constants of the parts. *)
CONSTANTS
    Fates,                                                      \* of the tasks of a job
    Ids, GraphSpans, Unknown, GraphPasses, MaxNodes, Patches,   \* EvidenceGraph
    Designs, Resolved, Worthwhile, Checkable, Explanations,     \* TaskFactory
    Family, Rank, FamilyLimit, PerPaper, AcceptedPerPaper, Requests, MaxTurns,
    Nodes, Relations, Spans, Invented, Values,                  \* VerifierCompiler
    Targets, References, Proposals,
    Replicas, Logs, Identities, CrashLimit, ClaimLimit,         \* FoundryIntake
    QuotaWorkers, Attempts, Estimates, Usages, QuotaLimit,      \* QuotaLedger
    MinuteTicks, DayTicks, LeaseTicks, Horizon, CallLimit, QuotaFaults

EG == INSTANCE EvidenceGraph WITH
            Spans <- GraphSpans, Passes <- GraphPasses, Answers <- Patches
TF == INSTANCE TaskFactory WITH Tasks <- Designs
VC == INSTANCE VerifierCompiler WITH Tasks <- Targets, Answers <- References
FI == INSTANCE FoundryIntake
QL == INSTANCE QuotaLedger WITH
            Workers <- QuotaWorkers, Limit <- QuotaLimit, FaultLimit <- QuotaFaults,
            faults <- slips

ASSUME FoundryAssumption ==
    /\ EG!GraphAssumption /\ TF!TaskAssumption /\ VC!VerifierAssumption
    /\ FI!IntakeAssumption /\ QL!QuotaAssumption

-----------------------------------------------------------------------------
Unused(x) == x = 0
(* In the other parts the job is never begun. *)
NoJob == Init /\ fate = [t \in Tasks |-> "sound"]
NoGraph == Unused(graph) /\ Unused(pass) /\ Unused(round) /\ Unused(critique)
NoTasks == Unused(level) /\ Unused(batch) /\ Unused(verdicts) /\ Unused(selected)
           /\ Unused(turn) /\ Unused(failed) /\ Unused(working) /\ Unused(trajectories)
           /\ Unused(passed) /\ Unused(heard)
NoVerifier == Unused(task) /\ Unused(answer) /\ Unused(spec) /\ Unused(origin)
NoIntake == Unused(log) /\ Unused(running) /\ Unused(row) /\ Unused(admissions)
            /\ Unused(next) /\ Unused(stored) /\ Unused(offered) /\ Unused(missed)
            /\ Unused(crashes) /\ Unused(claims)
NoQuota == Unused(now) /\ Unused(windows) /\ Unused(reservations) /\ Unused(calls)
           /\ Unused(sent) /\ Unused(slips)

FoundryInit ==
    \/ /\ part = "job" /\ Init /\ fate \in Fates
       /\ Unused(pc) /\ Unused(mending) /\ NoGraph /\ NoTasks /\ NoVerifier /\ NoIntake /\ NoQuota
    \/ /\ part = "graph" /\ EG!Init
       /\ Unused(mending) /\ NoJob /\ NoTasks /\ NoVerifier /\ NoIntake /\ NoQuota
    \/ part = "tasks" /\ TF!Init /\ NoJob /\ NoGraph /\ NoVerifier /\ NoIntake /\ NoQuota
    \/ part = "verifier" /\ VC!Init /\ NoJob /\ NoGraph /\ NoTasks /\ NoIntake /\ NoQuota
    \/ /\ part = "intake" /\ FI!Init /\ Cardinality(running) = 1
       /\ Unused(mending) /\ NoJob /\ NoGraph /\ NoTasks /\ NoVerifier /\ NoQuota
    \/ /\ part = "quota" /\ QL!Init /\ NoJob
       /\ Unused(pc) /\ Unused(mending) /\ NoGraph /\ NoTasks /\ NoVerifier /\ NoIntake

JobStep ==
    /\ part = "job" /\ Next
    /\ UNCHANGED <<part, pc, mending, graphVars, taskVars, verifierVars, intakeVars, quotaVars>>
GraphStep ==
    /\ part = "graph" /\ EG!Next
    /\ UNCHANGED <<part, vars, mending, taskVars, verifierVars, intakeVars, quotaVars>>
TaskStep ==
    /\ part = "tasks" /\ TF!Next
    /\ UNCHANGED <<part, vars, graphVars, verifierVars, intakeVars, quotaVars>>
VerifierStep ==
    /\ part = "verifier" /\ VC!Next
    /\ UNCHANGED <<part, vars, graphVars, taskVars, intakeVars, quotaVars>>
IntakeStep ==
    /\ part = "intake" /\ FI!Next
    /\ UNCHANGED <<part, vars, mending, graphVars, taskVars, verifierVars, quotaVars>>
QuotaStep ==
    /\ part = "quota" /\ QL!Next
    /\ UNCHANGED <<part, vars, pc, mending, graphVars, taskVars, verifierVars, intakeVars>>

FoundryNext == JobStep \/ GraphStep \/ TaskStep \/ VerifierStep \/ IntakeStep \/ QuotaStep
FoundrySpec == FoundryInit /\ [][FoundryNext]_<<part, vars, pc, mending, graphVars, taskVars,
                                                verifierVars, intakeVars, quotaVars>>
-----------------------------------------------------------------------------
(* What the models answer is checked before it is used: a graph that is      *)
(* handed on is grounded (EvidenceGraph), and no critique of tasks or        *)
(* trajectories is overruled (TaskFactory).                                *)
AnswersAreChecked ==
    /\ part = "graph" => EG!TypeOK /\ EG!GraphIsGrounded
    /\ part = "tasks" => TF!TypeOK /\ TF!CritiquesStand

(* The reward of an accepted environment is earned, see VerifierCompiler. *)
RewardIsEarned == part = "verifier" => VC!TypeOK /\ VC!RewardIsEarned

(* The queue follows the log of curated papers, see FoundryIntake. *)
QueueFollowsLog == part = "intake" => FI!TypeOK /\ FI!QueueFollowsLog

(* The windows of a provider's quota add up to its reservations, and no       *)
(* order of calls, retries, lapsed leases and crashes exceeds a limit or     *)
(* charges less than was used, see QuotaLedger.                             *)
LedgerBalances == part = "quota" => QL!TypeOK /\ QL!LedgerBalances
ChargesCover == part = "quota" => QL!RequestsWithinLimit /\ QL!NeverUndercharged
-----------------------------------------------------------------------------
(* Values for TLC.  The job of a paper: another family enters the pool of t2; *)
(* both tasks come through, or neither.                                    *)
CONSTANTS t1, t2
Others == [p \in Pool |-> IF p = "rl" THEN 1 ELSE 0]
FatesOfTwo == {t1 :> "sound" @@ t2 :> "sound", t1 :> "unsound" @@ t2 :> "unsolved"}
Interchangeable == Permutations(Workers)

(* Two nodes, one span; of two nodes of a patch one is over the bound. *)
CONSTANTS n1, n2, span, stray
Cited(i, g, s) == [id |-> i, groundable |-> g, spans |-> s]
GraphNodes == {Cited(i, TRUE, s) : i \in {n1, n2}, s \in {{stray}, {span, stray}}}
                  \cup {Cited(n1, FALSE, {stray})}
PatchesOfTwo ==
    [nodes: {<<>>} \cup {<<a>> : a \in GraphNodes} \cup {<<a, b>> : a, b \in GraphNodes},
     edges: {{}, {<<n1, n2>>}, {<<n1, n2>>, <<n2, n1>>}}, drop: SUBSET {n1, n2},
     cut: {{}, {<<n1, n2>>}}]

(* Three tasks that survive, two of one family, the better one without a    *)
(* program to grade it; two that do not; batches of two; a request for a   *)
(* tool that fails.                                                        *)
CONSTANTS d1, d2, d3, d4, d5
Families5 == d1 :> "A" @@ d2 :> "A" @@ d3 :> "B" @@ d4 :> "C" @@ d5 :> "A"
Ranks5 == d1 :> 1 @@ d2 :> 2 @@ d3 :> 3 @@ d4 :> 4 @@ d5 :> 5

(* A task with values, one with a relation, one with both, one with a node   *)
(* and nothing else; complete answers, answers that lack something or cite   *)
(* more than they need, and one that commits itself to that node only.       *)
CONSTANTS s1, s2, v1
Precedes == {<<n1, n2>>}
Target(n, r, e, v) == [nodes |-> n, relations |-> r, evidence |-> e, values |-> v]
Targeted == {Target({n1}, {}, {{s1}}, {v1}), Target({n1, n2}, Precedes, {}, {}),
             Target({n1, n2}, Precedes, {{s1}, {s2}}, {v1}), Target({n1}, {}, {}, {})}
Complete == [report |-> "full", nodes |-> {n1, n2}, relations |-> Precedes, evidence |-> {s1},
             right |-> {v1}, wrong |-> {}]
GivenAnswers == {Complete, [Complete EXCEPT !.nodes = {}], [Complete EXCEPT !.evidence = {s1, s2}],
             [Complete EXCEPT !.nodes = {}, !.relations = {}], [Complete EXCEPT !.evidence = {}],
             [Complete EXCEPT !.right = {}, !.wrong = {v1}],
             [Complete EXCEPT !.nodes = {n1}, !.relations = {}, !.evidence = {}, !.right = {}]}
Weak == [required |-> FALSE, weighted |-> FALSE]
Strong == [required |-> TRUE, weighted |-> TRUE]
Drafts == UNION {[D -> {Weak, Strong}] :
                    D \in SUBSET {"nodes", "coverage", "membership", "relations", v1}}
              \cup {"nodes" :> Weak @@ "manifest" :> Strong}

(* Logs of four records, of two candidates, a withdrawal and an inactive     *)
(* one; what comes before the first candidate leaves the queue as it is.    *)
Entry(i, k) == [identity |-> i, kind |-> k]
Entries == {Entry("e1", "candidate"), Entry("e2", "candidate"), Entry("e2", "other"),
            Entry("e1", "inactive")}
LogsOfFour == {l \in [1..4 -> Entries] : l[1].kind = "candidate"}

(* A minute holds two calls of two attempts, a day the first attempt of a third. *)
Limits == [minute |-> [requests |-> 4, tokens |-> 6], day |-> [requests |-> 5, tokens |-> None]]
=============================================================================
