------------------------------ MODULE DupIndex ------------------------------
(***************************************************************************)
(* What the near-duplicate index promises to the curator replicas: each    *)
(* observation takes effect in one instant, and what it answers is what    *)
(* the index of that instant says, although the replicas share it and     *)
(* connections are lost.                                                   *)
(***************************************************************************)
EXTENDS LSHIndex

CONSTANTS
    Workers,
    LegacyTables    \* the band tables a deployment may start from

VARIABLES
    index,
    task,           \* the submission each worker waits for
    reply           \* the last answer each worker got

vars == <<index, task, reply>>

Reply == {"unique", "duplicate"}

Init ==
    /\ index \in {EmptyIndex(t) : t \in LegacyTables}
    /\ task = [w \in Workers |-> None]
    /\ reply = [w \in Workers |-> None]

Submit(w, s) ==
    /\ task[w] = None
    /\ task' = [task EXCEPT ![w] = s]
    /\ reply' = [reply EXCEPT ![w] = None]
    /\ UNCHANGED index

Answer(w) ==
    /\ task[w] # None
    /\ index' = Observed(index, task[w])
    /\ reply' = [reply EXCEPT ![w] = IF IsNearDuplicate(index, task[w]) THEN "duplicate" ELSE "unique"]
    /\ task' = [task EXCEPT ![w] = None]

(* The answer is lost with the connection, the effect may not be; the       *)
(* observation is repeated, or the worker gives up.                        *)
LoseAnswer(w) ==
    /\ task[w] # None
    /\ index' \in {index, Observed(index, task[w])}
    /\ task' \in {task, [task EXCEPT ![w] = None]}
    /\ UNCHANGED reply

Next == \E w \in Workers : Answer(w) \/ LoseAnswer(w) \/ \E s \in Submission : Submit(w, s)

Spec == Init /\ [][Next]_vars
=============================================================================
