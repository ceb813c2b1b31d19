---------------------------- MODULE FoundryOutbox ----------------------------
(***************************************************************************)
(* How the records of a job reach the lakehouse.  The coordination database *)
(* is the outbox (jobs.lakehouse_published_at in processor/foundry/store.py); *)
(* each worker stages events and artifacts in the buffers of a             *)
(* FoundryLakehouseSink (lakehouse.py), appends a batch to two Iceberg     *)
(* tables and then marks the jobs of the batch as published (worker.py).   *)
(*                                                                         *)
(* The queue decides who works on a job: here a claim is the variable      *)
(* owner, and a worker that has lost it goes on until it asks.             *)
(***************************************************************************)
EXTENDS Integers, FiniteSets, FiniteSetsExt

CONSTANTS
    Workers,
    Jobs,
    None,
    Events,         \* the events of a job
    Artifacts,      \* the artifacts of a job
    BatchSize,      \* S2P_FOUNDRY_ICEBERG_BATCH_SIZE
    Attempts,       \* attempts of _append_unique
    ClaimLimit,     \* bound: claims
    FaultLimit      \* bound: workers killed, records that Kafka refuses, and other
                    \* failures of a table, the store or a pipeline

Kinds == Events \cup Artifacts
Record == Jobs \X Kinds
Table == {"events", "artifacts"}
TableOf(r) == IF r[2] \in Events THEN "events" ELSE "artifacts"

OutboxAssumption ==
    /\ Events # {} /\ Events \cap Artifacts = {} /\ None \notin Jobs \cup Workers
    /\ BatchSize \in Nat \ {0} /\ Attempts \in Nat \ {0}
    /\ ClaimLimit \in Nat /\ FaultLimit \in Nat

VARIABLES
    stored,         \* the events and artifacts tables of the coordination database
    published,      \* jobs whose lakehouse_published_at is set
    finished,       \* jobs whose candidate has left the queue
    owner,          \* the worker whose claim of the job is valid
    at,             \* the point each worker has reached
    sink,           \* the FoundryLakehouseSink of each worker
    rows,           \* the Iceberg tables: how many rows a record has
    claims, crashes, refusals, faults

vars == <<stored, published, finished, owner, at, sink, rows, claims, crashes, refusals, faults>>

(* pc: the call the worker is in; todo: what the loop of _flush_job_outbox  *)
(* or of the recovery has still to stage; then: where a flush returns to;   *)
(* ids, try: the variables known and attempt of _append_unique.            *)
Point == [pc: {"idle", "pipeline", "staging", "restaging", "delivering", "events",
               "artifacts", "marking", "recovering", "down"},
          job: Jobs \cup {None}, todo: SUBSET Record,
          then: {"idle", "pipeline", "restaging", "delivering", "recovering"},
          ids: (SUBSET Record) \cup {None}, try: 1..Attempts]

(* buffer: the two lists; jobs: _buffered_job_ids; known: the ids of a table *)
(* that were read, or None; written: auxiliary, what this process has       *)
(* appended; twice: auxiliary, that it did so again; unsure: auxiliary, that *)
(* it gave up a flush whose rows are, or may be, in a table already.        *)
EmptySink == [buffer |-> {}, jobs |-> {}, known |-> [t \in Table |-> None],
              written |-> {}, twice |-> FALSE, unsure |-> FALSE]
Idle == [pc |-> "idle", job |-> None, todo |-> {}, then |-> "idle", ids |-> None, try |-> 1]

Init ==
    /\ stored = {} /\ published = {} /\ finished = {}
    /\ owner = [j \in Jobs |-> None]
    /\ at = [w \in Workers |-> Idle]
    /\ sink = [w \in Workers |-> EmptySink]
    /\ rows = [r \in Record |-> 0]
    /\ claims = 0 /\ crashes = 0 /\ refusals = 0 /\ faults = 0

-----------------------------------------------------------------------------
Fails == crashes + refusals + faults < FaultLimit

Of(j) == {r \in stored : r[1] = j}

(* The claim: a job nobody holds.  A lease that runs out is Lapse. *)
Take(w, j) ==
    /\ at[w].pc = "idle" /\ j \notin finished /\ owner[j] = None
    /\ claims < ClaimLimit /\ claims' = claims + 1
    /\ owner' = [owner EXCEPT ![j] = w]
    /\ at' = [at EXCEPT ![w] = [Idle EXCEPT !.pc = "pipeline", !.job = j]]
    /\ UNCHANGED <<stored, published, finished, sink, rows, crashes, refusals, faults>>

Lapse(j) ==
    /\ owner[j] # None
    /\ owner' = [owner EXCEPT ![j] = None]
    /\ UNCHANGED <<stored, published, finished, at, sink, rows, claims, crashes, refusals, faults>>

(* The row of the record is committed before anybody else is told. *)
Recorded(r) == stored \cup {r}

(* append_event and record_artifact, by whoever runs the pipeline.  An event *)
(* that exists is returned as it is and the mark stays; an artifact is      *)
(* written again and takes the mark off.                                   *)
Append(w, k) ==
    LET j == at[w].job  r == <<at[w].job, k>> IN
    /\ at[w].pc = "pipeline"
    /\ stored' = Recorded(r)
    /\ published' = IF r \in stored /\ k \in Events THEN published ELSE published \ {j}
    /\ at' = [at EXCEPT ![w].pc = "staging", ![w].todo = {r}]
    /\ UNCHANGED <<finished, owner, sink, rows, claims, crashes, refusals, faults>>

(* The entry of a flush: _append_unique starts from the ids of the sink. *)
Flushing(p, s, then) ==
    [p EXCEPT !.pc = "events", !.then = then, !.ids = s.known["events"], !.try = 1]

(* add_event and add_artifact: stage the record, flush a full batch. *)
Stage(w, r, then) ==
    LET s == [sink[w] EXCEPT !.buffer = @ \cup {r}, !.jobs = @ \cup {r[1]}]
        p == [at[w] EXCEPT !.todo = @ \ {r}, !.pc = then]
    IN  /\ sink' = [sink EXCEPT ![w] = s]
        /\ at' = [at EXCEPT ![w] =
                     IF Cardinality(s.buffer) >= BatchSize THEN Flushing(p, s, then) ELSE p]

(* _event and _artifact, after Kafka has taken the record. *)
Emit(w) ==
    /\ at[w].pc = "staging"
    /\ \E r \in at[w].todo : Stage(w, r, "pipeline")
    /\ UNCHANGED <<stored, published, finished, owner, rows, claims, crashes, refusals, faults>>

(* The pipeline is through: the claim is asserted and what was recorded of   *)
(* the job is read to be staged again.                                     *)
BeginOutbox(w) ==
    LET j == at[w].job IN
    /\ at[w].pc = "pipeline" /\ Of(j) # {}
    /\ at' = [at EXCEPT ![w] = IF owner[j] = w
                               THEN [@ EXCEPT !.pc = "restaging", !.todo = Of(j)] ELSE Idle]
    /\ UNCHANGED <<stored, published, finished, owner, sink, rows, claims, crashes, refusals, faults>>

(* The loops of _flush_job_outbox and of the recovery: events first. *)
FirstOf(todo) == LET e == {r \in todo : r[2] \in Events} IN IF e # {} THEN e ELSE todo

Restage(w) ==
    /\ at[w].pc \in {"restaging", "recovering"} /\ at[w].todo # {}
    /\ \E r \in FirstOf(at[w].todo) : Stage(w, r, at[w].pc)
    /\ UNCHANGED <<stored, published, finished, owner, rows, claims, crashes, refusals, faults>>

(* The flush at their end.  After a job it appends a batch that is not full *)
(* only when the interval has passed; the recovery forces it.              *)
EndRestage(w) ==
    /\ at[w].pc \in {"restaging", "recovering"} /\ at[w].todo = {}
    /\ LET after == IF at[w].pc = "restaging" THEN "delivering" ELSE "recovering" IN
       \/ /\ sink[w].buffer # {}
          /\ at' = [at EXCEPT ![w] = Flushing(@, sink[w], after)]
       \/ /\ at[w].pc = "restaging"
          /\ at' = [at EXCEPT ![w].pc = "delivering"]
       \/ /\ at[w].pc = "recovering" /\ sink[w].buffer = {}
          /\ at' = [at EXCEPT ![w] = Idle]
    /\ UNCHANGED <<stored, published, finished, owner, sink, rows, claims, crashes, refusals, faults>>

(* The claim is given back, if it still is the worker's. *)
Released(w) ==
    IF at[w].job = None THEN owner
    ELSE [owner EXCEPT ![at[w].job] = IF @ = w THEN None ELSE @]

(* finish_candidate, fenced by the claim. *)
Finish(w) ==
    LET j == at[w].job IN
    /\ at[w].pc = "delivering"
    /\ finished' = IF owner[j] = w THEN finished \cup {j} ELSE finished
    /\ owner' = Released(w)
    /\ at' = [at EXCEPT ![w] = Idle]
    /\ UNCHANGED <<stored, published, sink, rows, claims, crashes, refusals, faults>>

(* _queue_iteration flushes what has waited long enough; close flushes all. *)
FlushDue(w) ==
    /\ at[w].pc = "idle" /\ sink[w].buffer # {}
    /\ at' = [at EXCEPT ![w] = Flushing(@, sink[w], "idle")]
    /\ UNCHANGED <<stored, published, finished, owner, sink, rows, claims, crashes, refusals, faults>>

-----------------------------------------------------------------------------
InTable(t) == {r \in Record : TableOf(r) = t /\ rows[r] > 0}
Buffered(w, t) == {r \in sink[w].buffer : TableOf(r) = t}
Ids(w, t) == IF at[w].ids = None THEN InTable(t) ELSE at[w].ids
Pending(w, t) == Buffered(w, t) \ Ids(w, t)

Appended(w, t) == [r \in Record |-> rows[r] + IF r \in Pending(w, t) THEN 1 ELSE 0]
Noted(w, t) ==
    [sink[w] EXCEPT !.written = @ \cup Pending(w, t),
                    !.twice = @ \/ Pending(w, t) \cap sink[w].written # {}]

(* Mutant of Cleared: a commit of events empties both lists. *)
ClearedBoth(w, t) == {}

(* _flush_events and _flush_artifacts clear their own list. *)
Cleared(w, t) == sink[w].buffer \ Buffered(w, t)

(* What the sink knows of a table after it; an empty list is not looked at. *)
Learned(w, t) ==
    IF Buffered(w, t) = {} THEN sink[w].known[t] ELSE Ids(w, t) \cup Pending(w, t)

(* An attempt of _append_unique that succeeds: the table is loaded, the ids  *)
(* are read unless they are known, what is new is appended.  This is one    *)
(* step, since an append fails when another commit has come between.        *)
AppendUnique(w, t) ==
    /\ at[w].pc = t
    /\ rows' = Appended(w, t)
    /\ sink' = [sink EXCEPT ![w] = [Noted(w, t) EXCEPT
                    !.buffer = Cleared(w, t), !.known[t] = Learned(w, t)]]
    /\ at' = [at EXCEPT ![w] = IF t = "events"
          THEN [@ EXCEPT !.pc = "artifacts", !.ids = sink[w].known["artifacts"], !.try = 1]
          ELSE [@ EXCEPT !.pc = "marking", !.ids = None, !.try = 1]]
    /\ UNCHANGED <<stored, published, finished, owner, claims, crashes, refusals, faults>>

(* Mutant of Retried: what the process knew before the conflict is kept.     *)
RetriedKnowing(w) == [at EXCEPT ![w].try = @ + 1]

(* The ids are read again in the next attempt. *)
Retried(w) == [at EXCEPT ![w].try = @ + 1, ![w].ids = None]

(* CommitFailed, or CommitStateUnknown, after which the rows may be there. *)
CommitConflict(w, t) ==
    /\ at[w].pc = t /\ Buffered(w, t) # {}
    /\ at[w].try < Attempts /\ Fails
    /\ faults' = faults + 1
    /\ \/ rows' = Appended(w, t) /\ sink' = [sink EXCEPT ![w] = Noted(w, t)]
       \/ UNCHANGED <<rows, sink>>
    /\ at' = Retried(w)
    /\ UNCHANGED <<stored, published, finished, owner, claims, crashes, refusals>>

(* mark_lakehouse_published of the jobs that flush returns. *)
MarkPublished(w) ==
    /\ at[w].pc = "marking"
    /\ published' = published \cup sink[w].jobs
    /\ sink' = [sink EXCEPT ![w].jobs = {}]
    /\ at' = [at EXCEPT ![w].pc = at[w].then]
    /\ UNCHANGED <<stored, finished, owner, rows, claims, crashes, refusals, faults>>

-----------------------------------------------------------------------------
(* An exception that ends the attempts of a flush, whose rows may be there   *)
(* nevertheless, or one of the store when the jobs are marked.  The buffers *)
(* and the ids of the sink stay as they were.  A recovery that fails is the *)
(* end of its process.                                                     *)
GivenUp(w, s) ==
    /\ owner' = Released(w)
    /\ IF at[w].then = "recovering"
       THEN /\ at' = [at EXCEPT ![w] = [Idle EXCEPT !.pc = "down"]]
            /\ sink' = [sink EXCEPT ![w] = EmptySink]
       ELSE /\ at' = [at EXCEPT ![w] = Idle]
            /\ sink' = [sink EXCEPT ![w] = s]

AppendFails(w, t) ==
    /\ at[w].pc = t /\ Buffered(w, t) # {} /\ Fails
    /\ faults' = faults + 1
    /\ \/ UNCHANGED rows /\ GivenUp(w, [sink[w] EXCEPT !.unsure = @ \/ at[w].try > 1])
       \/ /\ rows' = Appended(w, t)
          /\ GivenUp(w, [Noted(w, t) EXCEPT !.unsure = TRUE])
    /\ UNCHANGED <<stored, published, finished, claims, crashes, refusals>>

MarkFails(w) ==
    /\ at[w].pc = "marking" /\ Fails
    /\ faults' = faults + 1
    /\ GivenUp(w, [sink[w] EXCEPT !.jobs = {}])
    /\ UNCHANGED <<stored, published, finished, rows, claims, crashes, refusals>>

(* A provider, the store or a package fails: the candidate is released. *)
PipelineFails(w) ==
    /\ at[w].pc = "pipeline" /\ Fails
    /\ faults' = faults + 1
    /\ owner' = Released(w)
    /\ at' = [at EXCEPT ![w] = Idle]
    /\ UNCHANGED <<stored, published, finished, sink, rows, claims, crashes, refusals>>

(* Kafka refuses a record that was committed: it is not staged. *)
EmitFails(w) ==
    /\ at[w].pc = "staging" /\ Fails
    /\ refusals' = refusals + 1
    /\ owner' = Released(w)
    /\ at' = [at EXCEPT ![w] = Idle]
    /\ UNCHANGED <<stored, published, finished, sink, rows, claims, crashes, faults>>

Crash(w) ==
    /\ at[w].pc # "down" /\ Fails
    /\ crashes' = crashes + 1
    /\ at' = [at EXCEPT ![w] = [Idle EXCEPT !.pc = "down"]]
    /\ sink' = [sink EXCEPT ![w] = EmptySink]
    /\ UNCHANGED <<stored, published, finished, owner, rows, claims, refusals, faults>>

(* pending_lakehouse_job_ids: the jobs without a mark, finished or not. *)
Recoverable == {r \in stored : r[1] \notin published}

(* _recover_lakehouse_outbox of a starting worker. *)
Restart(w) ==
    /\ at[w].pc = "down"
    /\ at' = [at EXCEPT ![w] = [Idle EXCEPT !.pc = "recovering", !.todo = Recoverable]]
    /\ UNCHANGED <<stored, published, finished, owner, sink, rows, claims, crashes, refusals, faults>>

Next ==
    \/ \E j \in Jobs : Lapse(j)
    \/ \E w \in Workers :
          \/ \E j \in Jobs : Take(w, j)
          \/ \E k \in Kinds : Append(w, k)
          \/ Emit(w) \/ BeginOutbox(w) \/ Restage(w) \/ EndRestage(w) \/ Finish(w)
          \/ FlushDue(w) \/ MarkPublished(w)
          \/ \E t \in Table : AppendUnique(w, t) \/ CommitConflict(w, t) \/ AppendFails(w, t)
          \/ MarkFails(w) \/ PipelineFails(w) \/ EmitFails(w) \/ Crash(w) \/ Restart(w)

Spec == Init /\ [][Next]_vars
-----------------------------------------------------------------------------
(* Type correctness; only what is recorded is staged or has rows. *)
TypeOK ==
    /\ stored \subseteq Record /\ published \subseteq Jobs /\ finished \subseteq Jobs
    /\ owner \in [Jobs -> Workers \cup {None}]
    /\ at \in [Workers -> Point]
    /\ rows \in [Record -> Nat] /\ {r \in Record : rows[r] > 0} \subseteq stored
    /\ \A w \in Workers : sink[w].buffer \cup at[w].todo \subseteq stored

(* Where a record is, or may still be taken from. *)
Staged(r) == \E w \in Workers : r \in sink[w].buffer \cup at[w].todo
Safe(r) == rows[r] > 0 \/ Staged(r) \/ r[1] \notin published

(* While no process is killed and no record is cut off from its buffer, a    *)
(* job that carries the mark has every record in the tables or in a buffer, *)
(* however batches, conflicts, lost claims and failed flushes cut it up.    *)
NothingStranded == crashes + refusals = 0 => \A r \in stored : Safe(r)

(* A process does not append a record again that it has appended, after any   *)
(* conflict or commit of unknown outcome, unless it has given up a flush     *)
(* whose rows were, or might have been, in the table.                      *)
WrittenOnce == \A w \in Workers : sink[w].twice => sink[w].unsure

(* docs/POSTTRAIN_FOUNDRY.md:536: publication "can be replayed idempotently   *)
(* after a worker or storage failure".  (Broken: a flush that is given up    *)
(* leaves the ids of the sink as they were, and the next one appends what is *)
(* there already.)                                                         *)
ReplaysIdempotently == \A w \in Workers : ~sink[w].twice

(* worker.py:492: the database is the durable outbox, and a restart cannot   *)
(* strand an accepted artifact.  (Broken: a worker that worked on the job    *)
(* before flushes its part and sets the mark, while the rest is only in the *)
(* memory of the worker that finished the job.)                            *)
RestartStrandsNothing == \A r \in stored : r[1] \in finished => Safe(r)
=============================================================================
