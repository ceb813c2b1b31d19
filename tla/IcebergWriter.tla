----------------------------- MODULE IcebergWriter -----------------------------
(***************************************************************************)
(* IcebergWriter (processor/iceberg_writer.py): records of a topic are      *)
(* collected into batches, and a batch is appended to the table of all      *)
(* decisions first and to the Gold table of clean documents then, each time  *)
(* without the keys that the table has.  Iceberg refuses an append to a      *)
(* table that has moved on since it was read.  A replica keeps its place in *)
(* the topic, and what it has collected, in a recovery store of its own;    *)
(* everything else is lost when the flow ends.  LicenseAdmissionWriter is   *)
(* the same with one table, that of the decisions.                          *)
(***************************************************************************)
EXTENDS Integers, Sequences, FiniteSets

CONSTANTS
    Replicas,
    Keys,           \* doc_id, scoring_version, classifier and policy revision
    Logs,           \* bound: the records of the topic
    BatchSize,      \* flush_records
    FaultLimit      \* bound: crashes and appends that end unclearly

(* A record that is no decision, a rejection, or a document fit for training. *)
Record == [key: Keys, kind: {"invalid", "rejected", "clean"}]

ASSUME WriterAssumption ==
    Logs \subseteq Seq(Record) /\ BatchSize \in Nat \ {0} /\ FaultLimit \in Nat

Tables == {"decisions", "gold"}

VARIABLES
    log,            \* the topic
    rows, version,  \* of a table: how many rows a record has, and the commits
    next, held,     \* of a replica: records it has read, and those collected
    stored,         \* of a replica: next and held in its recovery store
    batch, stage,   \* of a replica: the batch it writes, and to which table
    seen, known,    \* of a replica: the commits and keys the table had when read
    dead,           \* records that were written off as undecodable
    faults

table == <<rows, version>>
source == <<next, held>>
flush == <<batch, stage, seen, known>>
vars == <<log, table, source, stored, flush, dead, faults>>

Position == DOMAIN log
Unread == -1

Init ==
    /\ log \in Logs
    /\ rows = [t \in Tables |-> [i \in Position |-> 0]] /\ version = [t \in Tables |-> 0]
    /\ next = [r \in Replicas |-> 0] /\ held = [r \in Replicas |-> {}]
    /\ stored = [r \in Replicas |-> [next |-> 0, held |-> {}]]
    /\ batch = [r \in Replicas |-> {}] /\ stage = [r \in Replicas |-> "read"]
    /\ seen = [r \in Replicas |-> Unread] /\ known = [r \in Replicas |-> {}]
    /\ dead = {} /\ faults = 0

-----------------------------------------------------------------------------
Reading(r) == stage[r] = "read"

KeysOf(S) == {log[i].key : i \in S}
RowsOf(t) == {i \in Position : rows[t][i] > 0}

(* The collected records become a batch of the writer. *)
Flush(r, more) ==
    /\ batch' = [batch EXCEPT ![r] = more] /\ stage' = [stage EXCEPT ![r] = "decisions"]
    /\ held' = [held EXCEPT ![r] = {}]

(* The source, decoding and collect: a full batch goes to the writer. *)
Read(r) ==
    LET i == next[r] + 1  more == held[r] \cup {i} IN
    /\ Reading(r) /\ i \in Position
    /\ next' = [next EXCEPT ![r] = i]
    /\ IF log[i].kind = "invalid"
       THEN dead' = dead \cup {i} /\ UNCHANGED <<held, batch, stage>>
       ELSE /\ IF Cardinality(more) >= BatchSize THEN Flush(r, more)
               ELSE held' = [held EXCEPT ![r] = more] /\ UNCHANGED <<batch, stage>>
            /\ UNCHANGED dead
    /\ UNCHANGED <<log, table, stored, seen, known, faults>>

(* The timeout of collect. *)
FlushDue(r) ==
    /\ Reading(r) /\ held[r] # {}
    /\ Flush(r, held[r])
    /\ UNCHANGED <<log, table, next, stored, seen, known, dead, faults>>

(* _is_trainable_gold *)
Trainable(i) == log[i].kind = "clean"
RowsFor(r) == IF stage[r] = "gold" THEN {i \in batch[r] : Trainable(i)} ELSE batch[r]

(* _uncommitted_rows: of the rows with one key the first is kept. *)
Uncommitted(S, existing) ==
    {i \in S : /\ log[i].key \notin existing
               /\ \A j \in S : j < i => log[j].key # log[i].key}

Pending(r) == Uncommitted(RowsFor(r), known[r])

(* _load_existing_keys: the table is loaded, or created, and its keys read.  *)
LoadKeys(r) ==
    /\ ~Reading(r) /\ seen[r] = Unread
    /\ seen' = [seen EXCEPT ![r] = version[stage[r]]]
    /\ known' = [known EXCEPT ![r] = KeysOf(RowsOf(stage[r]))]
    /\ UNCHANGED <<log, table, source, stored, batch, stage, dead, faults>>

(* The next table, or the end of the batch. *)
Written(r) ==
    /\ IF stage[r] = "decisions"
       THEN stage' = [stage EXCEPT ![r] = "gold"] /\ UNCHANGED batch
       ELSE stage' = [stage EXCEPT ![r] = "read"] /\ batch' = [batch EXCEPT ![r] = {}]
    /\ seen' = [seen EXCEPT ![r] = Unread] /\ known' = [known EXCEPT ![r] = {}]

NothingPending(r) ==
    /\ ~Reading(r) /\ seen[r] # Unread /\ Pending(r) = {}
    /\ Written(r)
    /\ UNCHANGED <<log, table, source, stored, dead, faults>>

(* What was read is still the head of the table. *)
AtHead(r) == seen[r] = version[stage[r]]

(* The data file of a batch becomes part of the table with one commit. *)
Commit(r) ==
    /\ rows' = [rows EXCEPT ![stage[r]] =
                    [i \in Position |-> IF i \in Pending(r) THEN @[i] + 1 ELSE @[i]]]
    /\ version' = [version EXCEPT ![stage[r]] = @ + 1]

AppendRows(r) ==
    /\ ~Reading(r) /\ seen[r] # Unread /\ AtHead(r) /\ Pending(r) # {}
    /\ Commit(r)
    /\ Written(r)
    /\ UNCHANGED <<log, source, stored, dead, faults>>

(* Mutant of Reload: the table is loaded again, the keys are not. *)
ReloadTable(r) == seen' = [seen EXCEPT ![r] = version'[stage[r]]] /\ UNCHANGED known

(* The next attempt reads table and keys again. *)
Reload(r) == seen' = [seen EXCEPT ![r] = Unread] /\ known' = [known EXCEPT ![r] = {}]

(* CommitFailedException *)
CommitConflict(r) ==
    /\ ~Reading(r) /\ seen[r] # Unread /\ ~AtHead(r) /\ Pending(r) # {}
    /\ UNCHANGED table
    /\ Reload(r)
    /\ UNCHANGED <<log, source, stored, batch, stage, dead, faults>>

(* CommitStateUnknownException: the append counts or does not. *)
CommitUnknown(r) ==
    /\ ~Reading(r) /\ seen[r] # Unread /\ AtHead(r) /\ Pending(r) # {}
    /\ faults < FaultLimit /\ faults' = faults + 1
    /\ Commit(r) \/ UNCHANGED table
    /\ Reload(r)
    /\ UNCHANGED <<log, source, stored, batch, stage, dead>>

(* A snapshot of the flow is taken between two batches. *)
Snapshot(r) ==
    /\ Reading(r)
    /\ stored' = [stored EXCEPT ![r] = [next |-> next[r], held |-> held[r]]]
    /\ UNCHANGED <<log, table, source, flush, dead, faults>>

(* The process dies, or an exception ends the flow: the catalog fails, the   *)
(* attempts are used up, or an append shows no snapshot.                   *)
Crash(r) ==
    /\ faults < FaultLimit /\ faults' = faults + 1
    /\ next' = [next EXCEPT ![r] = stored[r].next]
    /\ held' = [held EXCEPT ![r] = stored[r].held]
    /\ batch' = [batch EXCEPT ![r] = {}] /\ stage' = [stage EXCEPT ![r] = "read"]
    /\ seen' = [seen EXCEPT ![r] = Unread] /\ known' = [known EXCEPT ![r] = {}]
    /\ UNCHANGED <<log, table, stored, dead>>

Next ==
    \E r \in Replicas :
        \/ Read(r) \/ FlushDue(r) \/ LoadKeys(r) \/ NothingPending(r) \/ AppendRows(r)
        \/ CommitConflict(r) \/ CommitUnknown(r) \/ Snapshot(r) \/ Crash(r)

Spec == Init /\ [][Next]_vars
-----------------------------------------------------------------------------
TypeOK ==
    /\ log \in Logs /\ dead \subseteq Position /\ faults \in 0..FaultLimit
    /\ rows \in [Tables -> [Position -> Nat]] /\ version \in [Tables -> Nat]
    /\ next \in [Replicas -> Position \cup {0}] /\ held \in [Replicas -> SUBSET Position]
    /\ stored \in [Replicas -> [next: Position \cup {0}, held: SUBSET Position]]
    /\ batch \in [Replicas -> SUBSET Position] /\ stage \in [Replicas -> Tables \cup {"read"}]
    /\ seen \in [Replicas -> Nat \cup {Unread}] /\ known \in [Replicas -> SUBSET Keys]

(* What a replica will not read again. *)
Settled(r) == 1..stored[r].next \ stored[r].held

(* A record has its key in every table it belongs to, or is no decision. *)
Kept(i) ==
    \/ i \in dead
    \/ /\ log[i].key \in KeysOf(RowsOf("decisions"))
       /\ Trainable(i) => log[i].key \in KeysOf(RowsOf("gold"))

(* iceberg_writer.py:503-505, process memory is never the source of truth:   *)
(* whatever crashes, conflicts and unknown outcomes interrupt the writers,   *)
(* a key has one row in a table.                                           *)
KeyOnce ==
    \A t \in Tables : \A i \in RowsOf(t) :
        rows[t][i] = 1 /\ \A j \in RowsOf(t) : log[i].key = log[j].key => i = j

(* Nothing is acknowledged before it is durable: a document of the Gold      *)
(* table has a decision in the other one, and a record that a replica will   *)
(* not read again has its key in every table it belongs to.                *)
NothingLost ==
    /\ KeysOf(RowsOf("gold")) \subseteq KeysOf(RowsOf("decisions"))
    /\ \A r \in Replicas : \A i \in Settled(r) : Kept(i)

(* Both, and the variables keep their types. *)
RowsOnce == TypeOK /\ KeyOnce /\ NothingLost

(* iceberg_writer.py:984, "Persist the authoritative decision stream and     *)
(* accepted Gold subset": a document of the Gold table was accepted by the  *)
(* decision that stands for its key.                                       *)
GoldIsAccepted ==
    \A g \in RowsOf("gold") : \A d \in RowsOf("decisions") :
        log[g].key = log[d].key => Trainable(d)
=============================================================================
