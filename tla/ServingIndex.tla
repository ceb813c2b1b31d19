----------------------------- MODULE ServingIndex -----------------------------
(***************************************************************************)
(* ServingIndex (processor/serving_index.py): a file of current rows for    *)
(* the monitoring API, kept up to date from two topics.  It is built once    *)
(* from the Iceberg tables and given a consumer group of its own, which     *)
(* reads the topics from their start; two threads apply messages and commit *)
(* their offsets afterwards.  The file outlives the process.  Of the        *)
(* decisions with one key the one with the smallest trace is shown, of the   *)
(* licence admissions the last.  A topic is a single partition.             *)
(***************************************************************************)
EXTENDS Integers, Sequences, FiniteSets, FiniteSetsExt

CONSTANTS
    Keys, Logs,     \* bound: the messages of each topic
    BatchLimit,     \* S2P_SERVING_INDEX_BATCH_SIZE
    FaultLimit      \* bound: failures, crashes and changes of the schema

Topics == {"decision", "admission"}
Message == [key: Keys, trace: Nat, valid: BOOLEAN]

IndexAssumption ==
    /\ Logs \subseteq [Topics -> Seq(Message)]
    /\ BatchLimit \in Nat /\ FaultLimit \in Nat

VARIABLES
    log,
    arrived, durable, low,  \* of a topic: messages sent, messages that are in the
                            \* Iceberg table, and messages that have expired
    index,          \* "none", or "built" for the current schema revision
    shown,          \* of a topic and a key: the message that is shown, or 0
    committed,      \* of a topic: the offset of the consumer group, or NoOffset
    process,        \* "down", "dropped" (a rebuild is under way), or "up"
    thread,         \* of a topic: what its consumer does
    batch,          \* of a topic: the messages that were polled
    target, progress, caught,   \* of a topic: target_offsets, progress_offsets,
                                \* and whether it has caught up
    baseline,       \* auxiliary: what the rebuild found, by topic, and what had
                    \* expired by then
    faults

outside == <<log, arrived, durable, low>>
file == <<index, shown, baseline>>
consumer == <<thread, batch, target, progress, caught>>
vars == <<outside, file, committed, process, consumer, faults>>

NoOffset == -1
All(x) == [t \in Topics |-> x]

Init ==
    /\ log \in Logs
    /\ arrived = All(0) /\ durable = All(0) /\ low = All(0)
    /\ index = "none" /\ shown = [t \in Topics |-> [k \in Keys |-> 0]]
    /\ committed = All(NoOffset) /\ process = "down" /\ thread = All("off")
    /\ batch = All({}) /\ target = All(NoOffset) /\ progress = All(NoOffset) /\ caught = All(FALSE)
    /\ baseline = All([durable |-> 0, low |-> 0]) /\ faults = 0

-----------------------------------------------------------------------------
Fails == faults < FaultLimit /\ faults' = faults + 1

Of(t, k, S) == {i \in S : log[t][i].valid /\ log[t][i].key = k}
Trace(t, i) == log[t][i].trace

(* The world: messages arrive, IcebergWriter commits them, and messages that *)
(* are durable, and that no group still has to read, expire.               *)
Publish(t) ==
    /\ arrived[t] + 1 \in DOMAIN log[t]
    /\ arrived' = [arrived EXCEPT ![t] = @ + 1]
    /\ UNCHANGED <<log, durable, low, file, committed, process, consumer, faults>>

CommitIceberg(t) ==
    /\ durable[t] < arrived[t]
    /\ durable' = [durable EXCEPT ![t] = @ + 1]
    /\ UNCHANGED <<log, arrived, low, file, committed, process, consumer, faults>>

(* Retention, which stays behind the consumer group of an index.             *)
Expire(t) ==
    /\ low[t] < durable[t] /\ (index = "built" => low[t] < committed[t])
    /\ low' = [low EXCEPT ![t] = @ + 1]
    /\ UNCHANGED <<log, arrived, durable, file, committed, process, consumer, faults>>

(* IcebergWriter keeps the first row of a key. *)
InTable(t, k) ==
    LET S == Of(t, k, 1..durable[t]) IN IF S = {} THEN 0 ELSE Min(S)

-----------------------------------------------------------------------------
(* _initialize: a file of another schema revision is emptied first.         *)
DropIndex ==
    /\ process = "down" /\ index = "none"
    /\ process' = "dropped"
    /\ shown' = [t \in Topics |-> [k \in Keys |-> 0]]
    /\ UNCHANGED <<outside, index, baseline, committed, consumer, faults>>

(* The copy, the schema revision and a new consumer group are one           *)
(* transaction; a new group has no offsets.                                *)
CopyTables ==
    /\ process = "dropped"
    /\ shown' = [t \in Topics |-> [k \in Keys |-> InTable(t, k)]]
    /\ index' = "built" /\ committed' = All(NoOffset)
    /\ baseline' = [t \in Topics |-> [durable |-> durable[t], low |-> low[t]]]
    /\ process' = "up" /\ thread' = All("assign")
    /\ UNCHANGED <<outside, batch, target, progress, caught, faults>>

OpenIndex ==
    /\ process = "down" /\ index = "built"
    /\ process' = "up" /\ thread' = All("assign")
    /\ UNCHANGED <<outside, file, committed, batch, target, progress, caught, faults>>

(* _mark_caught_up: once set, the event stays set. *)
Caught(t, goal, reached) == [caught EXCEPT ![t] = @ \/ reached >= goal]

(* assigned, once in a process: from the committed offset, or from the start. *)
Assign(t) ==
    LET offset == IF committed[t] # NoOffset THEN committed[t] ELSE low[t] IN
    /\ thread[t] = "assign"
    /\ thread' = [thread EXCEPT ![t] = "poll"]
    /\ target' = [target EXCEPT ![t] = arrived[t]]
    /\ progress' = [progress EXCEPT ![t] = offset]
    /\ caught' = Caught(t, arrived[t], offset)
    /\ UNCHANGED <<outside, file, committed, process, batch, faults>>

Poll(t) ==
    /\ thread[t] = "poll"
    /\ \E n \in 1..BatchLimit :
          /\ progress[t] + n <= arrived[t]
          /\ batch' = [batch EXCEPT ![t] = (progress[t] + 1)..(progress[t] + n)]
    /\ thread' = [thread EXCEPT ![t] = "apply"]
    /\ UNCHANGED <<outside, file, committed, process, target, progress, caught, faults>>

(* Mutant of ChosenDecision: the last one delivered is shown. *)
LastDecision(k, S) ==
    IF S = {} THEN shown["decision"][k] ELSE Max(S)

(* apply_decisions with _replace_batch: the smallest trace wins, in the      *)
(* batch and against the row that is shown.                                *)
ChosenDecision(k, S) ==
    LET old == shown["decision"][k]
        all == S \cup ({old} \ {0})
        least == {i \in all : \A j \in all : Trace("decision", i) <= Trace("decision", j)}
    IN  IF S = {} \/ old \in least THEN old ELSE Min(least)

(* apply_admissions *)
ChosenAdmission(k, S) ==
    IF S = {} THEN shown["admission"][k] ELSE Max(S)

(* One transaction, with the overview; undecodable messages are skipped.    *)
ApplyBatch(t) ==
    /\ thread[t] = "apply"
    /\ shown' = [shown EXCEPT ![t] = [k \in Keys |->
            IF t = "decision" THEN ChosenDecision(k, Of(t, k, batch[t]))
            ELSE ChosenAdmission(k, Of(t, k, batch[t]))]]
    /\ thread' = [thread EXCEPT ![t] = "commit"]
    /\ UNCHANGED <<outside, index, baseline, committed, process, batch, target, progress,
                   caught, faults>>

(* The offsets are committed, then progress is noted. *)
CommitOffsets(t) ==
    /\ thread[t] = "commit"
    /\ committed' = [committed EXCEPT ![t] = Max(batch[t])]
    /\ progress' = [progress EXCEPT ![t] = Max(batch[t])]
    /\ caught' = Caught(t, target[t], Max(batch[t]))
    /\ batch' = [batch EXCEPT ![t] = {}] /\ thread' = [thread EXCEPT ![t] = "poll"]
    /\ UNCHANGED <<outside, file, process, target, faults>>

(* An exception ends a thread, and the API is no longer alive. *)
ConsumerFails(t) ==
    /\ thread[t] \in {"assign", "poll", "apply", "commit"} /\ Fails
    /\ thread' = [thread EXCEPT ![t] = "failed"]
    /\ UNCHANGED <<outside, file, committed, process, batch, target, progress, caught>>

(* The process ends, and may start as a version with another schema. *)
Stop ==
    /\ process # "down" /\ Fails
    /\ process' = "down" /\ thread' = All("off")
    /\ batch' = All({}) /\ target' = All(NoOffset) /\ progress' = All(NoOffset) /\ caught' = All(FALSE)
    /\ index' \in {index, "none"}
    /\ UNCHANGED <<outside, shown, baseline, committed>>

Next ==
    \/ DropIndex \/ CopyTables \/ OpenIndex \/ Stop
    \/ \E t \in Topics :
          \/ Publish(t) \/ CommitIceberg(t) \/ Expire(t) \/ Assign(t) \/ Poll(t)
          \/ ApplyBatch(t) \/ CommitOffsets(t) \/ ConsumerFails(t)

Spec == Init /\ [][Next]_vars
-----------------------------------------------------------------------------
TypeOK ==
    /\ log \in Logs /\ index \in {"none", "built"} /\ process \in {"down", "dropped", "up"}
    /\ \A t \in Topics :
          /\ low[t] <= durable[t] /\ durable[t] <= arrived[t] /\ arrived[t] <= Cardinality(DOMAIN log[t])
          /\ committed[t] \in {NoOffset} \cup 0..arrived[t]
          /\ thread[t] \in {"off", "assign", "poll", "apply", "commit", "failed"}
          /\ batch[t] \subseteq 1..arrived[t] /\ target[t] <= arrived[t] /\ progress[t] <= arrived[t]
          /\ \A k \in Keys : shown[t][k] \in {0} \cup Of(t, k, DOMAIN log[t])
    /\ faults \in 0..FaultLimit

(* ServingIndex.ready: both threads run and have caught up. *)
Running == \A t \in Topics : thread[t] \in {"assign", "poll", "apply", "commit"}
Ready == Running /\ \A t \in Topics : caught[t]

(* A message is shown, or one that the rule of its topic prefers. *)
Shows(t, i) ==
    LET s == shown[t][log[t][i].key] IN
    /\ s # 0
    /\ i > baseline[t].low => IF t = "decision" THEN Trace(t, s) <= Trace(t, i) ELSE s >= i

(* serving_index.py:98-101: what the API is ready with, and what a consumer  *)
(* group will not read again, holds every message up to the marks that were *)
(* taken at assignment, in the tables it was built from or from the topics, *)
(* through rebuilds, failures and redelivery: the smallest trace, or the     *)
(* latest admission.                                                       *)
ReadyIsComplete ==
    /\ Ready => \A t \in Topics : \A i \in 1..target[t] :
            log[t][i].valid => Shows(t, i)
    /\ index = "built" =>
        \A t \in Topics : \A i \in 1..Max({committed[t], baseline[t].durable}) :
            log[t][i].valid => shown[t][log[t][i].key] # 0
                /\ (i > baseline[t].low /\ i <= committed[t] => Shows(t, i))

(* serving_index.py:177-179, "This is also exact Iceberg parity: the         *)
(* smallest trace_id wins for one scoring identity": when all messages have *)
(* been applied and written, the decision shown is the one in the table.    *)
IcebergParity ==
    Ready /\ arrived["decision"] = durable["decision"]
          /\ committed["decision"] = arrived["decision"] =>
        \A k \in Keys : shown["decision"][k] = InTable("decision", k)
=============================================================================
