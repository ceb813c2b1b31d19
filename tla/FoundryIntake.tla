----------------------------- MODULE FoundryIntake -----------------------------
(***************************************************************************)
(* How records of docs.curated become candidates (WorkerRuntime.process in  *)
(* processor/foundry/worker.py), for one paper.  Every replica reads the    *)
(* whole log from a frontier of its own and reads records again after a     *)
(* crash; the queue and the admissions are shared tables (store.py).        *)
(***************************************************************************)
EXTENDS Integers, FiniteSets, Sequences

CONSTANTS
    Replicas,
    Logs,           \* bound: the records of the paper, in the order of the log
    Identities,     \* evidence, classifier and generation of a record, hashed
    CrashLimit, ClaimLimit      \* bounds

(* A record is a candidate, of another route, or outside active generation. *)
Record == [identity: Identities, kind: {"candidate", "other", "inactive"}]

IntakeAssumption ==
    Logs \subseteq Seq(Record) /\ CrashLimit \in Nat /\ ClaimLimit \in Nat

VARIABLES
    log, running,   \* the records, and the replicas that run
    row,            \* candidate_queue: the record it holds, its state
    admissions,     \* candidate_admissions
    next, stored,   \* of a replica: records behind it, and in its recovery store
    pc,             \* of a replica: what it does with the record after those
    offered,        \* auxiliary: records that were upserted
    missed,         \* auxiliary: records that found the paper being processed
    crashes, claims

vars == <<log, running, row, admissions, next, stored, pc, offered, missed, crashes, claims>>

NoRow == [rev |-> 0, state |-> "none"]

Init ==
    /\ log \in Logs /\ running \in (SUBSET Replicas) \ {{}}
    /\ row = NoRow /\ admissions = {}
    /\ next = [r \in Replicas |-> 0] /\ stored = next
    /\ pc = [r \in Replicas |-> "read"]
    /\ offered = {} /\ missed = {} /\ crashes = 0 /\ claims = 0

-----------------------------------------------------------------------------
Position(r) == next[r] + 1
Current(r) == log[Position(r)]
Read(r) == r \in running /\ pc[r] = "read" /\ Position(r) \in DOMAIN log
Goto(r, p) == pc' = [pc EXCEPT ![r] = p] /\ UNCHANGED next
Done(r) == pc' = [pc EXCEPT ![r] = "read"] /\ next' = [next EXCEPT ![r] = @ + 1]

(* remove_queued_candidate *)
Removed == IF row.state = "queued" THEN NoRow ELSE row

Missing(i) == IF row.state \in {"none", "queued"} THEN missed ELSE missed \cup {i}

(* A paper of another route or source leaves the queue. *)
Withdraw(r) ==
    /\ Read(r) /\ Current(r).kind = "other"
    /\ row' = Removed /\ Done(r) /\ missed' = Missing(Position(r))
    /\ UNCHANGED <<log, running, admissions, stored, offered, crashes, claims>>

(* outside_active_candidate_generation, and already_observed_candidate. *)
Observed(r) == Current(r).kind = "inactive" \/ Current(r).identity \in admissions
PassOver(r) ==
    /\ Read(r) /\ Current(r).kind # "other" /\ Observed(r)
    /\ Done(r)
    /\ UNCHANGED <<log, running, row, admissions, stored, offered, missed, crashes, claims>>

(* The evidence is there or is not; the queue keeps that of its own record. *)
LoadEvidence(r) ==
    /\ Read(r) /\ Current(r).kind = "candidate" /\ ~Observed(r)
    /\ \/ Goto(r, "enqueue")
       \/ row.rev # Position(r) /\ Goto(r, "refuse")
    /\ UNCHANGED <<log, running, row, admissions, stored, offered, missed, crashes, claims>>

(* Mutant of Upserted: a paper that is queued stays as it is. *)
UpsertedOnce(i) == IF row.state = "none" THEN [rev |-> i, state |-> "queued"] ELSE row

(* enqueue_candidate: only a queued row takes another record. *)
Upserted(i) ==
    IF row.state \in {"none", "queued"} THEN [rev |-> i, state |-> "queued"] ELSE row

Enqueue(r) ==
    /\ pc[r] = "enqueue"
    /\ row' = Upserted(Position(r)) /\ offered' = offered \cup {Position(r)}
    /\ missed' = Missing(Position(r))
    /\ Goto(r, "admit")
    /\ UNCHANGED <<log, running, admissions, stored, crashes, claims>>

(* record_candidate_admission, which ends a record or comes before a removal. *)
RecordAdmission(r) ==
    /\ pc[r] \in {"admit", "refuse"}
    /\ admissions' = admissions \cup {Current(r).identity}
    /\ IF pc[r] = "admit" THEN Done(r) ELSE Goto(r, "remove")
    /\ UNCHANGED <<log, running, row, stored, offered, missed, crashes, claims>>

RemoveQueued(r) ==
    /\ pc[r] = "remove"
    /\ row' = Removed /\ Done(r)
    /\ UNCHANGED <<log, running, admissions, stored, offered, missed, crashes, claims>>

Snapshot(r) ==
    /\ pc[r] = "read" /\ stored[r] < next[r]
    /\ stored' = [stored EXCEPT ![r] = next[r]]
    /\ UNCHANGED <<log, running, row, admissions, next, pc, offered, missed, crashes, claims>>

(* A crash, or an exception of a store or of the object store: the flow ends *)
(* and starts again from its recovery store.                               *)
Crash(r) ==
    /\ r \in running /\ crashes < CrashLimit /\ crashes' = crashes + 1
    /\ next' = [next EXCEPT ![r] = stored[r]] /\ pc' = [pc EXCEPT ![r] = "read"]
    /\ UNCHANGED <<log, running, row, admissions, stored, offered, missed, claims>>

-----------------------------------------------------------------------------
(* The drain loop, as in FoundryQueue. *)
Claim ==
    /\ row.state = "queued" /\ claims < ClaimLimit /\ claims' = claims + 1
    /\ row' = [row EXCEPT !.state = "processing"]
    /\ UNCHANGED <<log, running, admissions, next, stored, pc, offered, missed, crashes>>

EndClaim ==
    /\ row.state = "processing"
    /\ \E s \in {"queued", "done"} : row' = [row EXCEPT !.state = s]
    /\ UNCHANGED <<log, running, admissions, next, stored, pc, offered, missed, crashes, claims>>

Next ==
    \/ \E r \in Replicas :
          \/ Withdraw(r) \/ PassOver(r) \/ LoadEvidence(r) \/ Enqueue(r)
          \/ RecordAdmission(r) \/ RemoveQueued(r) \/ Snapshot(r) \/ Crash(r)
    \/ Claim \/ EndClaim

Spec == Init /\ [][Next]_vars
-----------------------------------------------------------------------------
TypeOK ==
    /\ log \in Logs /\ running \subseteq Replicas /\ admissions \subseteq Identities
    /\ row \in [rev: DOMAIN log \cup {0}, state: {"none", "queued", "processing", "done"}]
    /\ \A r \in Replicas : stored[r] <= next[r] /\ next[r] \in {0} \cup DOMAIN log
    /\ pc \in [Replicas -> {"read", "enqueue", "admit", "refuse", "remove"}]
    /\ missed \cup offered \subseteq DOMAIN log
    /\ crashes \in 0..CrashLimit /\ claims \in 0..ClaimLimit

(* With one replica the queue follows the log through crashes and records    *)
(* that are read again: a paper that waits was not withdrawn by a record    *)
(* the replica has behind it, and it is the newest record that was offered, *)
(* but for those that found the paper being processed.                     *)
QueueFollowsLog ==
    \A r \in Replicas : running = {r} /\ row.state = "queued" =>
        \A i \in (row.rev + 1)..next[r] : i \in missed \/ (log[i].kind # "other" /\ i \notin offered)
=============================================================================
