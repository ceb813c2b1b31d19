---------------------------- MODULE EvidenceGraph ----------------------------
(***************************************************************************)
(* EvidenceGraphCompiler.compile (processor/foundry/graph.py): a model adds *)
(* to a graph pass by pass, every patch is cut down to what the paper and   *)
(* the graph can carry, a second model criticises the result, at most two   *)
(* rounds of repair follow, and what stays invalid is taken out.  What a    *)
(* model answers is arbitrary; an answer of the wrong shape is repaired     *)
(* once.                                                                   *)
(***************************************************************************)
EXTENDS Integers, Sequences, FiniteSets, FiniteSetsExt

CONSTANTS
    Ids,            \* the ids of nodes a model may use
    Spans,          \* the stable spans of the paper
    Unknown,        \* a span id that the paper does not have
    Passes,         \* the compiler passes (six)
    MaxNodes,       \* _MAX_PATCH_NODES
    Answers         \* bound: the patches that models answer with

(* A node needs a source or not: claims, findings, limitations and method   *)
(* steps do.                                                               *)
Node == [id: Ids, groundable: BOOLEAN, spans: SUBSET (Spans \cup {Unknown})]
Edge == Ids \X Ids
Patch == [nodes: Seq(Node), edges: SUBSET Edge, drop: SUBSET Ids, cut: SUBSET Edge]
Critique == [accepted: BOOLEAN, invalid: SUBSET Ids, missing: BOOLEAN]

GraphAssumption ==
    Passes \in Nat \ {0} /\ MaxNodes \in Nat /\ Unknown \notin Spans /\ Answers \subseteq Patch

VARIABLES
    graph,          \* nodes and edges so far
    pc, pass, round,
    critique        \* the last critique

vars == <<graph, pc, pass, round, critique>>

NoCritique == [accepted |-> FALSE, invalid |-> {}, missing |-> FALSE]

Init ==
    /\ graph = [nodes |-> {}, edges |-> {}]
    /\ pc = "pass" /\ pass = 1 /\ round = 0 /\ critique = NoCritique

-----------------------------------------------------------------------------
IdsOf(nodes) == {n.id : n \in nodes}

(* _first_unique: of the entries with one id the first counts. *)
FirstUnique(s) == {i \in DOMAIN s : \A j \in 1..(i - 1) : s[j].id # s[i].id}

(* Mutant of Supported: the spans of a node are kept as they came. *)
SupportedAsCited(n) == n

(* Spans that the paper does not have are removed. *)
Supported(n) == [n EXCEPT !.spans = @ \cap Spans]

(* A node that must have a source has one left. *)
IsGrounded(n) == n.groundable => Supported(n).spans # {}

(* The nodes of a patch that are kept: a prefix of the usable ones. *)
KeptNodes(s) ==
    LET usable == {i \in FirstUnique(s) : IsGrounded(s[i])} IN
    {Supported(s[i]) : i \in {i \in usable : Cardinality({j \in usable : j <= i}) <= MaxNodes}}

(* The ids that exist once the patch is applied. *)
Known(p) == (IdsOf(graph.nodes) \ p.drop) \cup IdsOf(KeptNodes(p.nodes))

(* _normalize_bounded_patch: the edges that resolve. *)
Bounded(p) ==
    [nodes |-> KeptNodes(p.nodes), drop |-> p.drop, cut |-> p.cut,
     edges |-> {e \in p.edges : {e[1], e[2]} \subseteq Known(p)}]

Between(edges, nodes) == {e \in edges : {e[1], e[2]} \subseteq IdsOf(nodes)}

(* _merge_patch: removals first, then the nodes of the patch, then its edges. *)
Merge(b) ==
    LET gone == b.drop \cup IdsOf(b.nodes)
        nodes == {n \in graph.nodes : n.id \notin gone} \cup b.nodes
    IN  [nodes |-> nodes, edges |-> Between((graph.edges \cup b.edges) \ b.cut, nodes)]

(* validate_graph_against_bundle *)
Valid(g) ==
    /\ Cardinality(IdsOf(g.nodes)) = Cardinality(g.nodes)
    /\ \A n \in g.nodes : n.spans \subseteq Spans /\ (n.groundable => n.spans # {})
    /\ g.edges = Between(g.edges, g.nodes)

-----------------------------------------------------------------------------
Repairing == pc \in {"repair", "mend_repair"}

(* After a patch the next pass follows, or the critic. *)
Continue ==
    /\ pc' = IF Repairing \/ pass = Passes THEN "critic" ELSE "pass"
    /\ pass' = IF Repairing \/ pass = Passes THEN pass ELSE pass + 1

(* An answer to a pass or to a repair that has the right shape.  A graph    *)
(* that does not pass its validation ends the job.                         *)
TakePatch ==
    /\ pc \in {"pass", "mend_pass", "repair", "mend_repair"}
    /\ \E p \in Answers :
          /\ graph' = Merge(Bounded(p))
          /\ IF Valid(Merge(Bounded(p))) THEN Continue ELSE pc' = "failed" /\ UNCHANGED pass
    /\ UNCHANGED <<round, critique>>

(* _normalize_or_repair_patch: a second answer of the wrong shape is the end. *)
MalformedPatch ==
    /\ pc \in {"pass", "mend_pass", "repair", "mend_repair"}
    /\ pc' = CASE pc = "pass" -> "mend_pass" [] pc = "repair" -> "mend_repair"
               [] pc \in {"mend_pass", "mend_repair"} -> "failed"
    /\ UNCHANGED <<graph, pass, round, critique>>

(* A critique with findings accepts nothing, whatever it says. *)
Decided(c) == IF c.invalid # {} \/ c.missing THEN [c EXCEPT !.accepted = FALSE] ELSE c

(* graph_critic; a rejection leads to a repair, twice at most. *)
TakeCritique ==
    /\ pc \in {"critic", "mend_critic"}
    /\ \E c \in Critique :
          /\ critique' = Decided(c)
          /\ IF ~Decided(c).accepted /\ round < 2
             THEN pc' = "repair" /\ round' = round + 1
             ELSE pc' = "finish" /\ UNCHANGED round
    /\ UNCHANGED <<graph, pass>>

(* _normalize_or_repair_critique *)
MalformedCritique ==
    /\ pc \in {"critic", "mend_critic"}
    /\ pc' = IF pc = "critic" THEN "mend_critic" ELSE "failed"
    /\ UNCHANGED <<graph, pass, round, critique>>

(* What the last critique calls invalid is taken out, unless it accepts. *)
Pruned ==
    LET nodes == {n \in graph.nodes : critique.accepted \/ n.id \notin critique.invalid} IN
    [nodes |-> nodes, edges |-> Between(graph.edges, nodes)]

(* An empty graph is a ValueError. *)
EndCompile ==
    /\ pc = "finish"
    /\ graph' = Pruned
    /\ pc' = IF Pruned.nodes = {} THEN "failed" ELSE "done"
    /\ UNCHANGED <<pass, round, critique>>

Next ==
    \/ TakePatch \/ MalformedPatch \/ TakeCritique \/ MalformedCritique \/ EndCompile

Spec == Init /\ [][Next]_vars
-----------------------------------------------------------------------------
TypeOK ==
    /\ graph.nodes \subseteq Node /\ graph.edges \subseteq Edge
    /\ pc \in {"pass", "mend_pass", "critic", "mend_critic", "repair", "mend_repair",
               "finish", "done", "failed"}
    /\ pass \in 1..Passes /\ round \in 0..2 /\ critique \in Critique

(* Whatever the models answer, what normalisation lets through passes the    *)
(* validation, so a job never ends there; and a graph that is returned has   *)
(* a source for every claim, whole edges, and nothing that the critic       *)
(* rejected last.                                                          *)
GraphIsGrounded ==
    /\ Valid(graph)
    /\ pc = "done" =>
          /\ graph.nodes # {}
          /\ critique.invalid # {} => critique.invalid \cap IdsOf(graph.nodes) = {}
=============================================================================
