-------------------------- MODULE SnapshotMaintenance --------------------------
(***************************************************************************)
(* The upkeep of one Iceberg table (processor/iceberg_maintenance.py): a    *)
(* job that runs beside the writer drops old snapshots and deletes old       *)
(* objects that no retained snapshot reaches, while readers scan a snapshot *)
(* they have opened; and a hook that registers a table again which the       *)
(* catalog has lost.  Rows are only appended, so a snapshot reaches the data *)
(* of every commit before it.  Every commit writes metadata of its own.     *)
(***************************************************************************)
EXTENDS Integers, FiniteSets, FiniteSetsExt

CONSTANTS
    MinAge,         \* metadata_minimum_age_hours
    Retention,      \* snapshot_retention_hours
    MinimumToKeep,  \* minimum_snapshots_to_keep
    Versions,       \* write.metadata.previous-versions-max
    CommitDelay,    \* what a writer takes from its data file to its commit, below MinAge
    AppendLimit, VersionLimit, ClockLimit, FaultLimit    \* bounds

(* The hours and the floor are refused below 1 (lines 448-456). *)
MaintenanceAssumption ==
    /\ MinAge \in Nat \ {0} /\ Retention \in Nat \ {0} /\ MinimumToKeep \in Nat \ {0}
    /\ Versions \in Nat /\ CommitDelay \in Nat /\ CommitDelay < MinAge
    /\ {AppendLimit, VersionLimit, ClockLimit, FaultLimit} \subseteq Nat

VARIABLES
    clock,
    metadata,       \* the metadata that was ever written, by version
    catalog,        \* the version the catalog points to, or Lost
    objects,        \* the objects of the table's root, with their age
    writer,         \* the append under way
    job,            \* the maintenance job
    reader,         \* the snapshot that a scan has opened, or 0, and at which version
    appends, replaced, faults   \* replaced: the writer created the table anew

vars == <<clock, metadata, catalog, objects, writer, job, reader, appends, replaced, faults>>

Lost == 0
Current == metadata[catalog]
Versioned == DOMAIN metadata

Data(n) == <<"data", n>>        \* the data file and the manifest of append n
List(n) == <<"list", n>>        \* the manifest list of snapshot n
Metadata(v) == <<"metadata", v>>

NoAppend == [n |-> 0, at |-> 0, seen |-> 0]
NoJob == [pc |-> "off", at |-> 0, seen |-> 0, protected |-> {}, doomed |-> {}]
NoScan == [snapshot |-> 0, begun |-> 0]

Init ==
    /\ clock = 0 /\ catalog = 1 /\ objects = {<<Metadata(1), 0>>}
    /\ metadata = <<[time |-> 0, snapshots |-> {}, data |-> {}, history |-> {}]>>
    /\ writer = NoAppend /\ job = NoJob /\ reader = NoScan
    /\ appends = 0 /\ replaced = FALSE /\ faults = 0

-----------------------------------------------------------------------------
Snapshots(m) == {s.id : s \in m.snapshots}

(* What a table needs: its metadata and those before it, the manifest list of *)
(* every snapshot, and the data that these reach.                          *)
Reaches(m, n) == {List(n)} \cup {Data(d) : d \in {d \in m.data : d <= n}}
ReachedBy(m) == UNION {Reaches(m, n) : n \in Snapshots(m)}
Protected(v) ==
    {Metadata(u) : u \in metadata[v].history \cup {v}} \cup ReachedBy(metadata[v])

Newest(S, k) == {v \in S : Cardinality({u \in S : u > v}) < k}

(* A commit replaces the version the catalog points to. *)
Commit(snapshots, data) ==
    LET v == Max(Versioned) + 1 IN
    /\ v <= VersionLimit
    /\ metadata' = [u \in Versioned \cup {v} |->
            IF u \in Versioned THEN metadata[u]
            ELSE [time |-> clock, snapshots |-> snapshots, data |-> data,
                  history |-> Newest(Current.history \cup {catalog}, Versions)]]
    /\ catalog' = v

Wrote(new) == objects \cup {<<o, clock>> : o \in new}

Tick ==
    /\ clock < ClockLimit /\ (writer # NoAppend => clock < writer.at + CommitDelay)
    /\ clock' = clock + 1
    /\ UNCHANGED <<metadata, catalog, objects, writer, job, reader, appends, replaced, faults>>

(* The writer: table, data file, commit. *)
BeginAppend ==
    /\ writer = NoAppend /\ appends < AppendLimit /\ catalog # Lost
    /\ appends' = appends + 1
    /\ writer' = [n |-> appends + 1, at |-> clock, seen |-> catalog]
    /\ objects' = Wrote({Data(appends + 1), List(appends + 1)})
    /\ UNCHANGED <<clock, metadata, catalog, job, reader, replaced, faults>>

CommitAppend ==
    /\ writer # NoAppend /\ writer.seen = catalog
    /\ Commit(Current.snapshots \cup {[id |-> writer.n, time |-> clock]},
              Current.data \cup {writer.n})
    /\ objects' = Wrote({Metadata(catalog')})
    /\ writer' = NoAppend
    /\ UNCHANGED <<clock, job, reader, appends, replaced, faults>>

(* The table has moved on, or the process ends: the file is an orphan. *)
AppendFails ==
    /\ writer # NoAppend
    /\ \/ writer.seen # catalog /\ UNCHANGED faults
       \/ faults < FaultLimit /\ faults' = faults + 1
    /\ writer' = NoAppend
    /\ UNCHANGED <<clock, metadata, catalog, objects, job, reader, appends, replaced>>

(* _create_table_or_load of a writer that finds no table. *)
CreateTable ==
    LET v == Max(Versioned) + 1 IN
    /\ catalog = Lost /\ writer = NoAppend /\ v <= VersionLimit
    /\ metadata' = [u \in Versioned \cup {v} |-> IF u \in Versioned THEN metadata[u]
            ELSE [time |-> clock, snapshots |-> {}, data |-> {}, history |-> {}]]
    /\ catalog' = v /\ objects' = Wrote({Metadata(v)}) /\ replaced' = TRUE
    /\ UNCHANGED <<clock, writer, job, reader, appends, faults>>

LoseCatalog ==
    /\ catalog # Lost /\ faults < FaultLimit /\ faults' = faults + 1
    /\ catalog' = Lost
    /\ UNCHANGED <<clock, metadata, objects, writer, job, reader, appends, replaced>>

(* _load_or_register_table with register_missing: the latest metadata JSON. *)
RegisterMissing ==
    LET found == {v \in Versioned : \E t \in 0..clock : <<Metadata(v), t>> \in objects} IN
    /\ catalog = Lost /\ found # {}
    /\ catalog' = Max(found)
    /\ UNCHANGED <<clock, metadata, objects, writer, job, reader, appends, replaced, faults>>

-----------------------------------------------------------------------------
(* _maintain_table, one job at a time: the cutoffs are taken first. *)
Fails == job' = NoJob
StartJob ==
    /\ job.pc = "off" /\ catalog # Lost
    /\ job' = [NoJob EXCEPT !.pc = "expire", !.at = clock, !.seen = catalog]
    /\ UNCHANGED <<clock, metadata, catalog, objects, writer, reader, appends, replaced, faults>>

(* Mutant of ToExpire: the floor of the newest snapshots is not applied. *)
ToExpireAged(m) ==
    {s \in m.snapshots : s.time < job.at - Retention /\ s.id # Max(Snapshots(m))}

(* _snapshot_ids_to_expire; the newest is the head of the main branch. *)
ToExpire(m) ==
    {s \in m.snapshots : /\ s.time < job.at - Retention
                         /\ s.id \notin Newest(Snapshots(m), MinimumToKeep)}

(* A commit that fails ends the job. *)
Expire ==
    /\ job.pc = "expire"
    /\ LET old == ToExpire(metadata[job.seen]) IN
       IF old = {}
       THEN job' = [job EXCEPT !.pc = "list"] /\ UNCHANGED <<metadata, catalog, objects>>
       ELSE IF job.seen = catalog
       THEN /\ Commit(Current.snapshots \ old, Current.data)
            /\ objects' = Wrote({Metadata(catalog')})
            /\ job' = [job EXCEPT !.pc = "list", !.seen = catalog']
       ELSE Fails /\ UNCHANGED <<metadata, catalog, objects>>
    /\ UNCHANGED <<clock, writer, reader, appends, replaced, faults>>

(* _cleanup_candidates *)
Removable(found, protected, cutoff) ==
    {e \in found : e[1] \notin protected /\ e[2] < cutoff}

(* The retained snapshots are walked, and the objects listed after that. *)
ListObjects ==
    /\ job.pc = "list"
    /\ LET kept == Protected(job.seen) IN
       job' = [job EXCEPT !.pc = "reload", !.protected = kept,
                          !.doomed = Removable(objects, kept, job.at - MinAge)]
    /\ UNCHANGED <<clock, metadata, catalog, objects, writer, reader, appends, replaced, faults>>

(* A newer version protects what it reaches as well. *)
ReloadTable ==
    /\ job.pc = "reload" /\ catalog # Lost
    /\ LET kept == job.protected \cup Protected(catalog) IN
       job' = [job EXCEPT !.pc = "delete", !.seen = catalog, !.protected = kept,
                          !.doomed = Removable(job.doomed, kept, job.at - MinAge)]
    /\ UNCHANGED <<clock, metadata, catalog, objects, writer, reader, appends, replaced, faults>>

TableGone ==
    /\ job.pc = "reload" /\ catalog = Lost
    /\ Fails
    /\ UNCHANGED <<clock, metadata, catalog, objects, writer, reader, appends, replaced, faults>>

(* _delete_objects: everything, or some of it when the job fails or dies. *)
DeleteObjects ==
    /\ job.pc = "delete"
    /\ \E gone \in SUBSET job.doomed :
          /\ objects' = objects \ gone
          /\ \/ gone = job.doomed /\ UNCHANGED faults
             \/ gone # job.doomed /\ faults < FaultLimit /\ faults' = faults + 1
    /\ job' = NoJob
    /\ UNCHANGED <<clock, metadata, catalog, writer, reader, appends, replaced>>

-----------------------------------------------------------------------------
(* A scan holds on to the snapshot that was current when it began. *)
OpenSnapshot ==
    /\ reader = NoScan /\ catalog # Lost /\ Current.snapshots # {}
    /\ reader' = [snapshot |-> Max(Snapshots(Current)), begun |-> catalog]
    /\ UNCHANGED <<clock, metadata, catalog, objects, writer, job, appends, replaced, faults>>

EndScan ==
    /\ reader # NoScan
    /\ reader' = NoScan
    /\ UNCHANGED <<clock, metadata, catalog, objects, writer, job, appends, replaced, faults>>

Next ==
    \/ Tick \/ BeginAppend \/ CommitAppend \/ AppendFails \/ CreateTable \/ LoseCatalog
    \/ RegisterMissing \/ StartJob \/ Expire \/ ListObjects \/ ReloadTable
    \/ TableGone \/ DeleteObjects \/ OpenSnapshot \/ EndScan

Spec == Init /\ [][Next]_vars
-----------------------------------------------------------------------------
TypeOK ==
    /\ clock \in 0..ClockLimit /\ catalog \in {Lost} \cup Versioned
    /\ Versioned = 1..Cardinality(Versioned)
    /\ \A v \in Versioned : metadata[v].history \subseteq 1..(v - 1)
                            /\ Snapshots(metadata[v]) \subseteq metadata[v].data
    /\ \A e \in objects : e[2] <= clock
    /\ writer.n <= appends /\ reader.snapshot <= appends /\ appends <= AppendLimit
    /\ job.pc \in {"off", "expire", "list", "reload", "delete"}
    /\ replaced \in BOOLEAN /\ faults \in 0..FaultLimit

Present == {e[1] : e \in objects}

(* iceberg_maintenance.py:3-6: whatever commits beside the job, and wherever *)
(* the job stops, every retained snapshot can be read, and the latest        *)
(* metadata is there to be registered when the catalog has lost the table.  *)
TableIsReadable ==
    /\ catalog # Lost => Protected(catalog) \subseteq Present
    /\ Protected(Max(Versioned)) \subseteq Present

(* iceberg_maintenance.py:271-276, the floor of recent snapshots: a scan can  *)
(* be finished unless that many commits have been made since it began, also *)
(* when its snapshot was an old one already.                              *)
ScanCanFinish ==
    /\ reader # NoScan /\ ~replaced
    /\ LET now == metadata[Max(Versioned)].data IN
       Cardinality({n \in now : n > reader.snapshot}) < MinimumToKeep
    => Reaches(metadata[reader.begun], reader.snapshot) \subseteq Present
=============================================================================
