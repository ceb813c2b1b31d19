-------------------------- MODULE CandidateCustody --------------------------
(***************************************************************************)
(* What the candidate queue promises to the worker fleet, without clocks,  *)
(* leases, phases or SQL: at most one paper is held, a paper leaves the    *)
(* hands of a task only by that task's own doing or after its grant has    *)
(* lapsed, a task whose grant was passed on changes nothing any more, and  *)
(* the revision of a held paper is frozen.                                 *)
(***************************************************************************)
CONSTANTS
    Docs, Workers, Revisions,
    Grants,         \* what identifies one period of custody
    None

VARIABLES
    stage,          \* "absent", "queued", "held" or "lapsed"
    revision,       \* the revision of each paper in custody
    grant,          \* the grant under which a paper is held or was last held
    task            \* the paper and grant each worker believes it works under

vars == <<stage, revision, grant, task>>

Task == [doc: Docs, grant: Grants]
Stage == {"absent", "queued", "held", "lapsed"}

Init ==
    /\ stage \in [Docs -> {"absent", "queued", "held"}]
    /\ \A d, e \in Docs : stage[d] = "held" /\ stage[e] = "held" => d = e
    /\ revision \in [Docs -> Revisions \cup {None}]
    /\ grant = [d \in Docs |-> None]
    /\ task = [w \in Workers |-> None]

Holds(w, d) ==
    /\ stage[d] = "held" /\ grant[d] # None
    /\ task[w] = [doc |-> d, grant |-> grant[d]]

(* A revision arrives for a paper that nobody works on. *)
Arrive(d, r) ==
    /\ stage[d] \in {"absent", "queued"}
    /\ stage' = [stage EXCEPT ![d] = "queued"]
    /\ revision' = [revision EXCEPT ![d] = r]
    /\ UNCHANGED <<grant, task>>

(* Waiting papers are withdrawn. *)
Withdraw(S) ==
    /\ \A d \in S : stage[d] = "queued"
    /\ stage' = [d \in Docs |-> IF d \in S THEN "absent" ELSE stage[d]]
    /\ revision' = [d \in Docs |-> IF d \in S THEN None ELSE revision[d]]
    /\ UNCHANGED <<grant, task>>

(* A worker is granted a waiting or lapsed paper while nothing is held. *)
Accept(w, d, g) ==
    /\ task[w] = None
    /\ stage[d] \in {"queued", "lapsed"}
    /\ \A e \in Docs : stage[e] # "held"
    /\ \A e \in Docs : grant[e] # g
    /\ \A v \in Workers : task[v] # None => task[v].grant # g
    /\ stage' = [stage EXCEPT ![d] = "held"]
    /\ grant' = [grant EXCEPT ![d] = g]
    /\ task' = [task EXCEPT ![w] = [doc |-> d, grant |-> g]]
    /\ UNCHANGED revision

(* The holder is done with the paper, or gives it back. *)
Complete(w, d) ==
    /\ Holds(w, d)
    /\ stage' = [stage EXCEPT ![d] = "absent"]
    /\ revision' = [revision EXCEPT ![d] = None]
    /\ grant' = [grant EXCEPT ![d] = None]
    /\ task' = [task EXCEPT ![w] = None]

GiveBack(w, d) ==
    /\ Holds(w, d)
    /\ stage' = [stage EXCEPT ![d] = "queued"]
    /\ grant' = [grant EXCEPT ![d] = None]
    /\ task' = [task EXCEPT ![w] = None]
    /\ UNCHANGED revision

(* A worker abandons its task, holding it or not; custody is unchanged. *)
Abandon(w) ==
    /\ task[w] # None
    /\ task' = [task EXCEPT ![w] = None]
    /\ UNCHANGED <<stage, revision, grant>>

(* Grants run out, and papers under them return to the queue. *)
Lapse(S) ==
    /\ \A d \in S : stage[d] = "held"
    /\ stage' = [d \in Docs |-> IF d \in S THEN "lapsed" ELSE stage[d]]
    /\ UNCHANGED <<revision, grant, task>>

Reap(S) ==
    /\ \A d \in S : stage[d] = "lapsed" \/ (stage[d] = "held" /\ grant[d] = None)
    /\ stage' = [d \in Docs |-> IF d \in S THEN "queued" ELSE stage[d]]
    /\ grant' = [d \in Docs |-> IF d \in S THEN None ELSE grant[d]]
    /\ UNCHANGED <<revision, task>>

Next ==
    \/ \E d \in Docs, r \in Revisions : Arrive(d, r)
    \/ \E S \in SUBSET Docs : Withdraw(S) \/ Lapse(S) \/ Reap(S)
    \/ \E w \in Workers :
          \/ Abandon(w)
          \/ \E d \in Docs : Complete(w, d) \/ GiveBack(w, d) \/ \E g \in Grants : Accept(w, d, g)

Spec == Init /\ [][Next]_vars
=============================================================================
