----------------------------- MODULE DocumentPages -----------------------------
(***************************************************************************)
(* The document list of the serving API (processor/duckdb_api.py): a reader  *)
(* walks page by page over a relation that changes under it, with a cursor    *)
(* that names the last row it was given; no cursor is the empty set.        *)
(***************************************************************************)
EXTENDS Integers, FiniteSets

CONSTANTS
    Docs,               \* the doc_ids, by their order
    Times, Scores,      \* valid_from or observed_at; quality
    PageSize,
    WriteLimit          \* bound

PageAssumption ==
    /\ Docs \subseteq Int /\ Times \subseteq Int /\ Scores \subseteq Int
    /\ PageSize \in Nat \ {0} /\ WriteLimit \in Nat

VARIABLES
    decisions,      \* revisions of decisions
    admissions,     \* refused admissions
    walk,           \* the reader: sort order, cursor and the rows it was given
    stable,         \* auxiliary: documents without a write since the walk began
    writes

vars == <<decisions, admissions, walk, stable, writes>>

Sorts == {"newest", "oldest", "quality_desc"}
Off == [pc |-> "off", sort |-> "newest", cursor |-> {},
        given |-> [d \in Docs |-> 0]]

Init ==
    /\ decisions = {} /\ admissions = {} /\ writes = 0
    /\ walk = Off /\ stable = {}

-----------------------------------------------------------------------------
Row(d, t, s) == [doc |-> d, at |-> t, score |-> s]

Write(d) ==
    /\ writes < WriteLimit /\ writes' = writes + 1
    /\ stable' = stable \ {d}
    /\ UNCHANGED walk

(* A decision of the curator, or another revision of one.                   *)
Decide(d, t, s) ==
    /\ Write(d) /\ Row(d, t, s) \notin decisions
    /\ decisions' = decisions \cup {Row(d, t, s)} /\ UNCHANGED admissions

(* A refused admission has no quality.                                      *)
Refuse(d, t) ==
    /\ Write(d) /\ Row(d, t, 0) \notin admissions
    /\ admissions' = admissions \cup {Row(d, t, 0)} /\ UNCHANGED decisions

-----------------------------------------------------------------------------
(* _latest_decisions_relation: one revision of a document, the last in time;  *)
(* versions and traces order those of one time.                             *)
Latest == {r \in decisions : \A q \in decisions : q.doc = r.doc =>
              q.at < r.at \/ (q.at = r.at /\ q.score <= r.score)}

(* The union of the list: admissions only of documents without a decision.   *)
Listing == Latest \cup {r \in admissions : \A q \in decisions : q.doc # r.doc}

(* Mutant of After: the cursor does not tell rows of one key apart.         *)
AfterTime(sort, r, c) ==
    CASE sort = "newest" -> r.at < c.at
      [] sort = "oldest" -> r.at > c.at
      [] OTHER -> r.score < c.score \/ (r.score = c.score /\ r.at < c.at)

(* The cursor's condition, and the order of the list: r comes behind c.      *)
After(sort, r, c) ==
    LET later == r.at < c.at \/ (r.at = c.at /\ r.doc > c.doc) IN
    CASE sort = "newest" -> later
      [] sort = "oldest" -> r.at > c.at \/ (r.at = c.at /\ r.doc > c.doc)
      [] OTHER -> r.score < c.score \/ (r.score = c.score /\ later)

Behind == {r \in Listing : \A c \in walk.cursor : After(walk.sort, r, c)}

(* The first rows of a set, one more than which has_more asks for.          *)
IsPage(page, rows) ==
    /\ Cardinality(page) = IF Cardinality(rows) < PageSize THEN Cardinality(rows) ELSE PageSize
    /\ \A r \in page, q \in rows \ page : ~After(walk.sort, r, q)
IsLast(r, page) == \A q \in page : ~After(walk.sort, q, r)

Begin(sort) ==
    /\ walk.pc # "reading"
    /\ walk' = [Off EXCEPT !.pc = "reading", !.sort = sort]
    /\ stable' = Docs
    /\ UNCHANGED <<decisions, admissions, writes>>

ReadPage ==
    /\ walk.pc = "reading"
    /\ \E page \in SUBSET Behind :
          /\ IsPage(page, Behind)
          /\ \E tail \in IF page = {} THEN {{}} ELSE {{r} : r \in page} :
                /\ \A r \in tail : IsLast(r, page)
                /\ walk' = [walk EXCEPT
                      !.pc = IF Behind = page THEN "done" ELSE "reading",
                      !.cursor = tail,
                      !.given = [d \in Docs |->
                          @[d] + Cardinality({r \in page : r.doc = d})]]
    /\ UNCHANGED <<decisions, admissions, stable, writes>>

Next ==
    \/ \E d \in Docs, t \in Times, s \in Scores : Decide(d, t, s)
    \/ \E d \in Docs, t \in Times : Refuse(d, t)
    \/ \E sort \in Sorts : Begin(sort)
    \/ ReadPage

Spec == Init /\ [][Next]_vars

-----------------------------------------------------------------------------
TypeOK ==
    /\ decisions \subseteq [doc : Docs, at : Times, score : Scores]
    /\ admissions \subseteq [doc : Docs, at : Times, score : {0}]
    /\ walk.pc \in {"off", "reading", "done"} /\ walk.sort \in Sorts
    /\ Cardinality(walk.cursor) <= 1 /\ stable \subseteq Docs
    /\ writes \in 0..WriteLimit

Decided(d) == \E r \in decisions : r.doc = d
Listed(d) == \E r \in Listing : r.doc = d

(* A walk to the end shows a document that was not written meanwhile,         *)
(* whatever comes, moves or goes around it, and one with a decision once.    *)
StableShownOnce ==
    walk.pc = "done" => \A d \in stable :
        /\ Listed(d) => walk.given[d] > 0
        /\ Decided(d) => walk.given[d] = 1

(* "The ranked relation above collapses them to one authoritative document"  *)
(* (duckdb_api.py:796): nothing is listed twice in a walk.  The code keeps it *)
(* for documents with a decision only.                                     *)
ShownOnce == walk.pc = "done" => \A d \in stable : walk.given[d] <= 1
=============================================================================
