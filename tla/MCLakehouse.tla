------------------------------ MODULE MCLakehouse ------------------------------
(***************************************************************************)
(* Six parts of the lakehouse that share no state, checked in one run: the  *)
(* initial state says which part a behaviour is of.  The constants of every  *)
(* part are constants here; the values that TLC takes are at the end and in  *)
(* MCLakehouse.cfg.                                                        *)
(***************************************************************************)
EXTENDS IcebergWriter, TLC

VARIABLES
    part,
    topic, arrived, durable, low, index, shown, committed, process, thread, polled, target,
    progress, caught, baseline,
    clock, metadata, catalog, objects, writer, job, reader, appends, replaced,
    recorded, published, finished, owner, at, sink, filed, claims, crashes, refusals,
    decisions, admissions, walk, stable, writes,
    mishaps         \* the failures of every part but the writer

indexVars == <<topic, arrived, durable, low, index, shown, committed, process, thread, polled,
               target, progress, caught, baseline>>
upkeepVars == <<clock, metadata, catalog, objects, writer, job, reader, appends, replaced>>
outboxVars == <<recorded, published, finished, owner, at, sink, filed, claims, crashes,
                refusals>>
pageVars == <<decisions, admissions, walk, stable, writes>>

(* The constants of the parts. *)
CONSTANTS
    IndexLogs, IndexBatch, IndexFaults,                         \* ServingIndex
    MinAge, Retention, MinimumToKeep, Versions, CommitDelay,    \* SnapshotMaintenance
    AppendLimit, VersionLimit, ClockLimit, UpkeepFaults,
    None, Jobs, Artifacts, SinkBatch, Attempts, ClaimLimit,     \* FoundryOutbox, with two sets
    OutboxWorkers, OutboxEvents, OutboxFaults,                  \* of workers and events
    SinkWorkers, SinkEvents, SinkFaults,
    Docs, Times, Scores, PageSize, WriteLimit                   \* DocumentPages

Index == INSTANCE ServingIndex WITH
        Logs <- IndexLogs, BatchLimit <- IndexBatch, FaultLimit <- IndexFaults,
        log <- topic, batch <- polled, faults <- mishaps
Upkeep == INSTANCE SnapshotMaintenance WITH FaultLimit <- UpkeepFaults, faults <- mishaps
Outbox == INSTANCE FoundryOutbox WITH
        Workers <- OutboxWorkers, Events <- OutboxEvents, BatchSize <- SinkBatch,
        FaultLimit <- OutboxFaults, stored <- recorded, rows <- filed, faults <- mishaps
Sink == INSTANCE FoundryOutbox WITH
        Workers <- SinkWorkers, Events <- SinkEvents, BatchSize <- SinkBatch,
        FaultLimit <- SinkFaults, stored <- recorded, rows <- filed, faults <- mishaps
Pages == INSTANCE DocumentPages

ASSUME LakehouseAssumption ==
    /\ Index!IndexAssumption /\ Upkeep!MaintenanceAssumption
    /\ Outbox!OutboxAssumption /\ Sink!OutboxAssumption /\ Pages!PageAssumption

-----------------------------------------------------------------------------
Unused(x) == x = 0
NoIndex == Unused(topic) /\ Unused(arrived) /\ Unused(durable) /\ Unused(low) /\ Unused(index)
           /\ Unused(shown) /\ Unused(committed) /\ Unused(process) /\ Unused(thread)
           /\ Unused(polled) /\ Unused(target) /\ Unused(progress) /\ Unused(caught)
           /\ Unused(baseline)
NoUpkeep == Unused(clock) /\ Unused(metadata) /\ Unused(catalog) /\ Unused(objects)
            /\ Unused(writer) /\ Unused(job) /\ Unused(reader) /\ Unused(appends)
            /\ Unused(replaced)
NoOutbox == Unused(recorded) /\ Unused(published) /\ Unused(finished) /\ Unused(owner)
            /\ Unused(at) /\ Unused(sink) /\ Unused(filed) /\ Unused(claims)
            /\ Unused(crashes) /\ Unused(refusals)
NoPages == Unused(decisions) /\ Unused(admissions) /\ Unused(walk) /\ Unused(stable)
           /\ Unused(writes)

(* A writer that does nothing has one log. *)
Idling == log = CHOOSE l \in Logs : TRUE

LakehouseInit ==
    /\ Init
    /\ \/ part = "writer" /\ NoIndex /\ NoUpkeep /\ NoOutbox /\ NoPages /\ Unused(mishaps)
       \/ part = "index" /\ Idling /\ Index!Init /\ NoUpkeep /\ NoOutbox /\ NoPages
       \/ part = "upkeep" /\ Idling /\ Upkeep!Init /\ NoIndex /\ NoOutbox /\ NoPages
       \/ part = "outbox" /\ Idling /\ Outbox!Init /\ NoIndex /\ NoUpkeep /\ NoPages
       \/ part = "sink" /\ Idling /\ Sink!Init /\ NoIndex /\ NoUpkeep /\ NoPages
       \/ /\ part = "pages" /\ Idling /\ Pages!Init
          /\ NoIndex /\ NoUpkeep /\ NoOutbox /\ Unused(mishaps)

WriterStep ==
    /\ part = "writer" /\ Next
    /\ UNCHANGED <<part, indexVars, upkeepVars, outboxVars, pageVars, mishaps>>
IndexStep ==
    /\ part = "index" /\ Index!Next
    /\ UNCHANGED <<part, vars, upkeepVars, outboxVars, pageVars>>
UpkeepStep ==
    /\ part = "upkeep" /\ Upkeep!Next
    /\ UNCHANGED <<part, vars, indexVars, outboxVars, pageVars>>
OutboxStep ==
    /\ \/ part = "outbox" /\ Outbox!Next
       \/ part = "sink" /\ Sink!Next
    /\ UNCHANGED <<part, vars, indexVars, upkeepVars, pageVars>>
PagesStep ==
    /\ part = "pages" /\ Pages!Next
    /\ UNCHANGED <<part, vars, indexVars, upkeepVars, outboxVars, mishaps>>

LakehouseNext == WriterStep \/ IndexStep \/ UpkeepStep \/ OutboxStep \/ PagesStep
LakehouseSpec ==
    /\ LakehouseInit
    /\ [][LakehouseNext]_<<part, vars, indexVars, upkeepVars, outboxVars, pageVars, mishaps>>
-----------------------------------------------------------------------------
(* A job that carries the mark has its records in the tables or a buffer, and *)
(* a process appends nothing twice that it could know of, see FoundryOutbox. *)
NothingStranded ==
    /\ part = "outbox" => Outbox!TypeOK /\ Outbox!NothingStranded /\ Outbox!WrittenOnce
    /\ part = "sink" => Sink!TypeOK /\ Sink!NothingStranded /\ Sink!WrittenOnce

(* What the monitoring API shows when it is ready, see ServingIndex. *)
ReadyIsComplete == part = "index" => Index!TypeOK /\ Index!ReadyIsComplete

(* The upkeep of a table deletes nothing that the table or a scan of it still *)
(* needs, see SnapshotMaintenance.                                         *)
NothingNeededIsRemoved ==
    part = "upkeep" => Upkeep!TypeOK /\ Upkeep!TableIsReadable /\ Upkeep!ScanCanFinish

(* A walk over the document list shows a document that stays as it is once,   *)
(* see DocumentPages.                                                      *)
StableShownOnce == part = "pages" => Pages!TypeOK /\ Pages!StableShownOnce

(* What the documentation says and the code does not do: Gold rows have an    *)
(* accepted decision (IcebergWriter), the index equals the tables            *)
(* (ServingIndex), a replay appends nothing again (FoundryOutbox).          *)
WriterGoldIsAccepted == part = "writer" => GoldIsAccepted
IndexParity == part = "index" => Index!IcebergParity
SinkIsIdempotent == part = "sink" => Sink!ReplaysIdempotently
-----------------------------------------------------------------------------
(* Values for TLC.  Three records over two keys: a rejection before or after  *)
(* an acceptance with the same key, acceptances that share one, an           *)
(* undecodable record.                                                     *)
CONSTANTS k1, k2
Decided(k, kind) == [key |-> k, kind |-> kind]
Decisions == {<<Decided(k1, "rejected"), Decided(k1, "clean"), Decided(k2, "clean")>>,
              <<Decided(k2, "clean"), Decided(k1, "clean"), Decided(k1, "rejected")>>,
              <<Decided(k1, "clean"), Decided(k2, "rejected"), Decided(k1, "clean")>>,
              <<Decided(k1, "clean"), Decided(k1, "clean"), Decided(k1, "clean")>>,
              <<Decided(k1, "invalid"), Decided(k1, "clean"), Decided(k2, "clean")>>}
Interchangeable == Permutations(Replicas)

(* Two decisions with one key, and one that is undecodable; two admissions  *)
(* of one source.                                                          *)
Sent(k, t) == [key |-> k, trace |-> t, valid |-> TRUE]
Undecodable == [key |-> k1, trace |-> 0, valid |-> FALSE]
Sendings == [decision: {<<Sent(k1, 1), Sent(k1, 2)>>, <<Sent(k2, 2), Undecodable>>},
             admission: {<<Sent(k1, 1), Sent(k1, 2)>>}]
=============================================================================
