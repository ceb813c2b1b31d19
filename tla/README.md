# Stream2Pretrain in TLA+

Specifications, model checking and proofs for the coordination logic of
Stream2Pretrain, a streaming pipeline that discovers papers and model cards,
admits them by licence, curates them into a pretraining corpus in Iceberg, and
turns suitable papers into post-training packages in a "foundry". Everything
here is translated from the Python under `processor/`, `ingest/` and `scripts/`.
`PROJECT.json` names, for each definition, the source lines it stands for.

Chapter 1 lists the parts of the system, chapter 2 the modules, chapters 3 to 12
go through them, chapter 13 has the runs with their bounds and fairness, chapter
14 the proofs, chapter 15 the disagreements between text and code, chapter 16
what is left out.

## 1. Inventory of the system

Bytewax and plain Python processes exchange records over Redpanda topics, at
least once; PostgreSQL (SQLite on one machine) holds the shared coordination
state; MinIO holds bodies and packages; Iceberg tables hold the results.

| Component | State it keeps | Operations | What is hard | What makes it correct |
|---|---|---|---|---|
| Candidate queue (`foundry/store.py`, `foundry/worker.py`) | `candidate_queue` rows with state, payload, retry time, owner, token, lease; the claim each worker holds | enqueue, claim, renew, cache, finish, release, defer, remove, recover, reset | several replicas, expiring leases, clocks, crashes, a heartbeat thread beside the queue thread | one active paper; a stale owner changes nothing; no paper is pinned or lost |
| Foundry runs (same files) | `daily_runs`, `daily_run_candidates`, `manual_runs` | start, supersede, finish, count; request, claim, expire manual runs | the loop reads and then acts in separate transactions, replicas run the same loop | a committed cohort is frozen, is worked off, and counts each paper once |
| Intake (`WorkerRuntime.process`) | `candidate_admissions` | admit, enqueue, withdraw | redelivery, a revision arriving while its paper is processed | the queue holds the newest record that was offered, and no withdrawn paper |
| Quota ledger (`foundry/quota.py`, `control.py`) | windows of each provider, reservations | reserve, renew, reconcile, reconcile abandoned | concurrent calls, lost leases, late answers | reserved counters equal the live reservations; each is settled once |
| Job store and outbox (`store.py`, `pipeline.py`, `lakehouse.py`) | jobs, events, artifacts, published marks; the sink's buffers and known ids | append, record, publish, acknowledge, recover | commit conflicts, unknown outcomes, stale caches, two replicas | every artifact reaches the lakehouse, once |
| Curator (`curate.py`, `decision_cache.py`, `operators/lshbloom.py`) | near-duplicate index, decision cache, Kafka frontier | probe, observe, decide, cache, retry, expire | replay after a crash, races between replicas | replay returns the same decision; one member of a cluster is kept |
| Iceberg writer (`iceberg_writer.py`) | buffers, known keys, two tables | add, flush, commit | optimistic conflicts, commits of unknown outcome, two tables | no decision twice, none lost |
| Pollers (`ingest/*_poller`, `common/state.py`) | cursors, seen sets, cursor lease | poll, emit, advance | crash between emit and advance, two replicas | nothing discovered is lost |
| Body fetcher (`arxiv_html_fetcher`, `bronze_pipeline.py`) | consumer offsets | consume, admit, fetch, publish, commit | errors of the transport, redelivery | no discovery acknowledged without a body, a stub or a refusal |
| Normaliser and PDF worker (`processor/fetcher.py`, `pdf_worker.py`) | read position and snapshot; a child process behind a pipe | normalise, record a failure, skip, convert | objects that are gone, children that die or answer late | the partition moves, a document gets its own text |
| Serving index and API (`serving_index.py`, `duckdb_api.py`) | a DuckDB file, offsets of a consumer group | copy, tail, rebuild, page | restarts between applying and committing, tables behind topics, writes between pages | ready means complete; a document is listed once |
| Table maintenance (`iceberg_maintenance.py`) | snapshots, metadata, objects | expire, delete orphans, register again | a writer and a reader at work | nothing needed is deleted |
| Graph, task and verifier construction (`graph.py`, `tasking.py`, `verifier.py`) | the state of one compilation | patch, criticise, repair, solve, grade | model answers of any shape | no critique is overruled, no reward unearned |
| Cut-over of the curator's stores (`scripts/migrate_curator_state_to_postgres.py`) | local databases, snapshots, tables | copy, validate, import, reuse | crashes, repetition, curators that run too early | one import, nothing lost, nothing admitted twice |
| Model service and clients | waiting priorities, circuit state | admit, call, retry | starvation, timeouts | bounded retries |
| Source controller | resources | reconcile | restart | converges on the specification |
| Packaging, quality operators, UI, charts | none that is shared | pure functions and I/O | text and code as data | outside a model checker's reach |

The components interact through the topics (`arxiv.discovery`, `raw.fetched`,
`docs.normalized`, `docs.curated`, ...), and, among the replicas of one component, through rows
in PostgreSQL and commits in Iceberg. The foundry's replicas share everything:
that is where the code's own protocol is, so the project starts there.

## 2. Modules

| | Modules | Promise | State |
|---|---|---|---|
| 1 | `FoundryQueue` | `CandidateCustody`, an abstract specification | checked, proved |
| 2 | `FoundryRuns` | frozen cohorts, counted once | checked, type and cohort properties proved |
| 3 | `QuotaLedger` | the ledger balances and charges what was used | checked, proved |
| 4 | `NearDup` on `LSHIndex` | `DupIndex`, an atomic index | checked, proved |
| 5 | `Curator` on `LSHIndex` | replay is identical, nothing is skipped, what is accepted is anchored | checked, proved |
| 6 | `FoundryIntake` | the queue follows the log | checked, proved |
| 7 | `FoundryJobs`, with `EvidenceGraph`, `TaskFactory`, `VerifierCompiler` for its stages | paid once, backed by artifacts, checked answers, earned rewards | checked, proved |
| 8 | `FoundryOutbox` | no record of a published job is missing | checked, proved |
| 9 | `IcebergWriter`, `SnapshotMaintenance` | one row for a key, none lost; nothing needed is deleted | checked, proved |
| 10 | `ServingIndex`, `DocumentPages` | ready is complete; stable documents are listed once | checked, proved |
| 11 | `HubScan`, `OaiWindow`, `RssFeed`, `CursorLease` | nothing a feed shows is missed; one owner of a cursor | checked, proved |
| 12 | `PaperPath`, `PdfWorker` | no paper vanishes; own answers; no standstill | checked; all but the last proved |
| 13 | `CuratorCutover` on `LSHIndex` | one import, nothing lost or readmitted | checked |

`CandidateCustody` is the interface between 1 and 2: `FoundryQueue` is shown to
implement it, and `FoundryRuns` uses rows that are waiting, held or lapsed and
leaves tokens, clocks and heartbeats to it. `DupIndex` is the interface between
4 and 5 in the same way: `NearDup` is shown to implement it, and in `Curator`
an observation is one step. `LSHIndex` is what the tables mean, for `NearDup`,
`Curator` and `CuratorCutover` alike. `FoundryJobs`, `FoundryIntake` and
`FoundryOutbox` see a claim as the row's owner, which may change under a worker
that goes on: this is what `FencedMutation` leaves of a claim.

Three MC modules hold parts that share no state: `MCFoundry` (the job, the graph,
the tasks, the verifier, the intake, the quota), `MCLakehouse` (the writer, the
outbox, the maintenance, the index, the pages) and `MCPaper` (the pollers, the
cut-over, the body of a paper, the PDF worker, the queue). Each extends the module
of one part and instantiates the others; the variable `part` is set in the initial
state, and every property says of which part it speaks. The state spaces add up and
do not multiply. A variable that belongs to no part in play is 0; some variables
carry the same name, and are used, in several parts. Their constants are those of
the parts, given in the `.cfg`, so that the theorems about the composed
specifications hold for every value of them. `MCPaper` has two specifications:
`IngestSpec` of the pollers and the cut-over, `PathSpec`, with fairness, of the rest.

Left to TLC alone are liveness and the cut-over, `CutoverLosesNothing`.

## 3. The candidate queue

`FoundryQueue` has one record for each row of `candidate_queue` and, for each
replica, the stage of its queue thread (`phase`), the `CandidateClaim` it works
under and the `_lost` flag of its heartbeat.

| Code | Model |
|---|---|
| `enqueue_candidate`, `remove_queued_candidate`, `cache_candidate_scientific` | `Enqueue`, `DropQueued`, `CacheEvidence` |
| `_claim_candidate` with its serial clause and the takeover of expired rows | `ClaimCandidate`: `Claimable`, `Claimed` |
| `assert_owned` before publication, before deletion, before deferral | `AssertBeforePublish`, `AssertBeforeFinish`, `AssertBeforeDefer` |
| `finish_candidate`, `release_candidate`, `defer_candidate` | actions of the same names, each behind `Fence` |
| `CandidateLeaseHeartbeat._run` | `Heartbeat`, at any time while a claim is held |
| `recover_expired_candidates`, the one-time queue generation reset | `RecoverExpired`, `OpenStore` |
| `_queue_loop` catching everything; a dead process | `StoreUnavailable`, `Crash` |

A transaction is one action; a worker is interrupted between any two of its
transactions. Instants are the ticks left (a lease, a retry time), so the state
space needs no horizon. Each statement takes its own reading of the clock, off
by at most `Skew`: the code computes `now` in Python before it waits for locks.
Retry times are read without skew; nothing depends on their exactness. `defer`
makes a SELECT and an UPDATE of which both are fenced; they are one step. A
token is drawn afresh only from tokens no row or worker still has; a uuid4
never returns, and no property could tell.

## 4. The runs

`FoundryRuns` models `daily_runs` with `daily_run_candidates`, `manual_runs` and
the stages of `_queue_iteration`, `_run_daily_snapshot`, `_run_manual_snapshot`
and `_drain_one_locked` at which one transaction ends and another has not begun.
`at[w]` holds what the thread has read and will use later: the day, the cutoff,
the manual run, the paper. `Offset` is the configured boundary hour of each
replica and may differ between them; the runs and the theorems about cohorts
give all replicas the same hour. `candidate_limit` is not modelled, the ranking
is a constant order, a retry delay is one tick. Rows of older releases and the
generation reset are in `FoundryQueue` only.

## 5. The quota ledger

`QuotaLedger` models one provider: `quota_windows`, `quota_reservations`, and
for each worker the point of `ProviderControlPlane.call`: reserve (with the
sweep of abandoned reservations that comes first), send attempts, renew, fail or
answer, reconcile in the `finally` clause. `SKIP LOCKED` lets the sweep settle
any subset of the lapsed rows. `StoreUnavailable` is a transaction that fails,
`ReplyLost` one that commits while its caller sees an exception. `sent` is not
in the program: it counts what the provider received. `LedgerBalances` compares the counters
of each window with its reservations; `ChargesCover` says that requests stay
within the limits and that no window is charged less than was sent in it. Both are
sums over the reservations of a window, written with the folds of the community
modules.

## 6. The near-duplicate index

`LSHIndex` says what the three tables of `PostgresLSHIndex` mean for a
submission (a document with its signature): candidate clusters, matches, the
verdict, what is inserted. `NearDup` is `observe`: one action for each advisory
lock in sorted order, one for the reads under the locks, one for the commit,
and the lost connection, which `_with_reconnect` answers with one repetition. A
commit whose reply is lost may or may not have happened; the locks of the dying
session keep everybody, the repetition too, from seeing it undecided, so the
outcome is drawn when the connection goes. Lock ids are 64-bit hashes and
assumed distinct. A signature's buckets, the similarity of two signatures and
the order of cluster ids are constants, and the theorems hold for all of them.

What `ClustersApart` does not say: each bucket has one owner, so a cluster whose
buckets all belong to dissimilar anchors cannot be found by anybody, and a
revision of an anchor document is accepted without its new signature being
registered. Both follow from the table design; README.md:81 ("the durable index
of all previously processed documents") holds up to them.

## 7. The curator

`Curator` is `process_silver_decision_payloads` and the dataflow around it, for
one partition and its process. `log` is the partition, `frontier` what the last
recovery snapshot saved, `proc` what is in memory. A batch is looked up
(`Read`), prefetched with a retry loop (`Prefetch`), decided in input order
(`DropExpired`, `TakeCached`, `CurateOne`, `CacheDecision`, `FailDocument`,
`FailHandoff`), returned and published message by message in any order of the
three topics. `Crash` is possible at every step and resumes from `frontier`.
Gates and models are constants of a payload: `Hard` (a deterministic gate,
KenLM included), `Incomplete`, `Good`, `Unscorable`. Processes of other
partitions write the shared index at any time (`ObserveElsewhere`), one
observation a step, which is what `NearDup` proves. Tombstones, unreadable
messages and oversized decisions are left out. The prefetch's speculative probe
has no effect and is part of `Skips`.

## 8. From a record to an artifact

`FoundryIntake` is `WorkerRuntime.process` over the log of curated papers, for
one paper and each replica with a frontier of its own: `Withdraw` and
`RemoveQueued` are two transactions, as are `Enqueue` and `RecordAdmission`;
`LoadEvidence` may find the evidence gone; `Crash` resumes from the last
snapshot. The queue thread appears as `Claim` and `EndClaim`. `QueueFollowsLog`
holds for one running replica. Two that read their own frontiers can bring a
withdrawn paper back or put an older record over a newer one, and a revision
that arrives while its paper is processed is missed: the property excludes
these (`missed`), since no text promises more.

`FoundryJobs` is `FoundryPipeline.process` for one paper with the control plane's
calls: the durable call key (`PlanCall`, `RecordResult`), its events, quota
refusals, failed attempts, the split of a family (`AssignPoolSplit`, the ordinal
drawn with the row), packaging, artifacts and the terminal transitions. `Lapse`
takes the paper from a worker that then goes on beside its successor. `paid`
counts answers per call. `PaidOnce` and `OutcomeIsBacked` hold unless a lease is
lost at work; `OneSplit` holds always. A crash between the two last transitions
leaves an accepted environment reported as a trajectory, which the property
grants.

`EvidenceGraph`, `TaskFactory` and `VerifierCompiler` unfold the stages of a job.
What a model answers is arbitrary: patches, batches, verdicts, trajectories and
specifications are quantified over sets (`Answers`, subsets of `Tasks`,
`Proposals`), a malformed answer is repaired once and then ends the stage.
`GraphIsGrounded`, `CritiquesStand` and `RewardIsEarned` relate the outcome to
what the critics said, or to what the deterministic predicates guarantee. That no
critique is overruled is said across answers: of several decisions about one task or
trajectory in one answer the code keeps the last (tasking.py:353, 663), and an answer of
the model is what it comes to. A
proposed predicate may replace the hard gate of its kind with a weak one
(verifier.py:549); `RewardIsEarned` says what is left: what the reference answer
proved of nodes and values. It quantifies over all answers of the instance. One
node is excepted (`Sole`): when it is all that the reference answer commits itself
to, the answer without it has an empty manifest (`WithoutNode`), so that the
mutated answer fails for being empty, and nothing shows that a predicate asks for
the node.

`FoundryOutbox` has the buffers of each worker's sink, the two tables, the known
ids and the mark `lakehouse_published_at`. `Append` is the commit of a record,
`Emit` what follows when Kafka has taken it, `EmitFails` when not; `BeginOutbox`,
`Restage`, `EndRestage` are `_flush_job_outbox`; `AppendUnique`, `CommitConflict` and
`AppendFails` are the attempts of `_append_unique`, `MarkPublished` and `MarkFails` the
acknowledgement, `Restart` the recovery of a starting worker. An exception ends the
flush (`GivenUp`): the buffers and the known ids stay as they were, although the
rows may be in the table. `NothingStranded` holds while no process is killed and
Kafka refuses nothing; with a crash it does not, see `stranded` in chapter 15.
`WrittenOnce` says that a process appends no record a second time, after conflicts
and commits of unknown outcome, unless it gave a flush up whose rows were, or might
have been, there (`unsure`); that proviso is needed, see `SinkIsIdempotent` in
chapter 15.

## 9. The lakehouse

`IcebergWriter`: each replica collects `held` records, reads the keys of a table
(`LoadKeys`), appends what is new (`AppendRows`) to the decisions and then to
Gold. Iceberg refuses a commit to a table that has moved on (`CommitConflict`);
a commit may end unknown (`CommitUnknown`), and then either happened or did not.
`Snapshot` and `Crash` are Bytewax recovery. `RowsOnce` is `KeyOnce` and
`NothingLost`: one row for a key in a table, and no record acknowledged that is
not in its tables.

`SnapshotMaintenance`: the job expires snapshots, lists objects, reloads the
table and deletes what is old and unreferenced, while a writer has written a
data file whose commit is to come and a reader scans a snapshot. Ages are ticks.
`TableIsReadable` rests on the age floor alone: the writer's commit must come
within `MinAge` (`CommitDelay < MinAge`). It holds of the latest version also while the
catalog has lost the table, so that the registration hook finds it. A writer that
runs before the hook creates an empty table at the same place and the job then
deletes the old data: `ScanCanFinish` excludes it (`replaced`).

`ServingIndex`: `CopyTables` builds the file from the tables, which are behind the
topics; two threads apply messages and commit offsets afterwards; `Stop`,
`ConsumerFails` may come anywhere, and so may `Expire` (retention) as long as it stays
behind the consumer group of a built index. A process is assigned its partitions once: a
second assignment, which raises the marks while the event of having caught up stays
set (serving_index.py:517, 580), is left out with the moves of partitions. `ReadyIsComplete`
says that a ready index shows every key up to the marks its consumers took at
their assignment, from the tables or the topics, and of what the topics still
held at the copy the smallest trace of a decision and the latest admission; and
that the same holds of what the consumer group will not read again. `DocumentPages` walks
the document list with the keyset cursor while decisions and refusals are
written. `StableShownOnce`: a document that nobody writes meanwhile is shown, and
once if it has a decision.

## 10. The pollers

`HubScan`: the catalogue is listed last modified first, in pages; the scan stops
at the watermark, remembers every README, and stores where it stands after each
item. `Touch` moves repositories to the head and shifts pages. Two pollers may be
at work when a lease has run out. `NothingSkipped`: the watermark never covers a
revision that was not handled, but for what a scan without a watermark left behind
(`before`: the first one lists one page); `BlobOnce` allows one repetition for each
failure. Left out is a README that answers HEAD and is gone at the GET behind it
(hf_poller/poller.py:497) while its repository stays as it is: the item is done without an
emission, as one without a README is. The checkpoint of a README and the state of the
scan are two puts (lines 536 and 653), one step here. `OaiWindow` and `RssFeed` have the
windows with their tokens, and the ETag that is stored only after all entries
were published. `CursorLease` is the Lease object with its versions, renewal,
takeover and release; `OneOwner` grants a second worker only when one of the two
has not renewed for `Duration`. All pods read one clock there; a skew between two of
them would have to be added to `Duration`.

What these pollers do not do is recorded as a hazard without a property: a
README that cannot be verified, a resume address that the Hub no longer accepts,
an expired OAI token or an RSS link that is no arXiv paper makes every later pass
fail at the same place. No liveness is claimed of a feed.

## 11. The way of a paper

`PaperPath` has two topics, as the chart joins them: `arxiv.discovery`, to which the
pollers publish and which the body fetcher reads (ingest-arxiv-html.yaml:51), and
`raw.fetched` (`topic`), to which the fetcher and the curator publish and which the
normaliser reads. `Fetch` goes through lookup, admission, body, object,
emission and commit, one step each, and `FetcherDies` between any two; a lookup
that fails gives unknown rights; a discovery of a feed whose name the fetcher does not
know (a category other than cs, which the values may add) is committed unread (`Ignore`).
`Normal` reads, checks the age, gets the object,
publishes, and saves its position now and then; an object that is gone goes to
the ledger of failures (`IsMissing`) and does not hold up what is behind it, a
request that fails is repeated. `NothingVanishes` follows a record through
the stages, by the offset it is from (`from`, `raw`), which the code does not keep.
`Curate` asks for another extraction of an incomplete document
with a retry envelope on `raw.fetched`. The normaliser skips it, as its comment says, and
nobody else reads it: `RetriesConsumed` fails, see `MCPaperRetried.cfg` in chapter 15. The code
with which the fetcher would serve such an envelope (`force_pdf`, the attempt in the
pipeline, fetcher.py:499-506, 720-723) is never reached on its topic and is left out.

`PdfWorker` is the parent and its child: `Parent` sends, waits, times
out and recycles. Messages carry no number, so `OwnAnswer` rests on ending the
child, its pipe with it, at any doubt. The model's child stops between
messages: `send` and `recv_bytes` have no deadline, and a child that stops in the
middle of one blocks its parent, which `NormaliserMoves` does not cover.

## 12. The cut-over of the curator

`CuratorCutover` has the stores of the single curator (the index of
`LSHBloomIndex` with owners, anchors and signatures for each generation, and its
decisions), snapshots copied file by file, the command in two runs at a time,
the PostgreSQL tables with their schema, and an old and a new curator that go on
observing when they should not. That the old one is down while files are copied
(`Quiesced`, `OldStart`) the command finds out from the lock of a LevelDB
(migrate_curator_state_to_postgres.py:361); with the other backend, to which a curator that
finds the lock held also turns (lshbloom.py:140), it is the promise of who runs the
command. `MayImport` has the conditions under which an import
is refused, `AnchorOf` and `IndexOf` how a cluster's anchor is found. An
import is one transaction under an advisory lock. `OneSource` says that the
tables are one import and what the new curator wrote since; `NothingReadmitted`
that every document the old curator would have rejected is rejected by the new
one, provided that the snapshot was copied to its end (`origin.claim`). Without
that proviso it fails, see `NoPartialImport` in chapter 15. Two more things the
code does there: an observation all of whose keys are owned leaves an anchor
that owns nothing, and the command refuses such an index; and the reconstruction
of signatures (lines 801-815) is never reached, since generations that need it
are refused before.

## 13. Runs

| Run | Module, distinct states | Question |
|---|---|---|
| `queue` | `MCFoundryQueue`, 421 457 | One active paper, losses are final, every step is one of `CandidateCustody`; clocks agree, a crash |
| `queue_skew` | `MCFoundryQueue`, 739 210 | What tokens alone guarantee when clocks disagree and replicas share a name |
| `runs` | `MCFoundryRuns`, 1 998 023 | Cohorts are frozen, papers are fresh and counted once |
| `runs_end` | `MCFoundryRuns`, 411 969 | Daily and manual runs end |
| `neardup` | `MCNearDup`, 58 820 | Similar clusters stay apart, replays are unique, observations end and are atomic |
| `curator` | `MCCurator`, 987 763 | Replay is identical, nothing is skipped, the corpus is anchored, the partition is read |
| `foundry` | `MCFoundry`, 945 217 | Jobs, graphs, tasks, verifiers, intake, quota |
| `lakehouse` | `MCLakehouse`, 1 161 410 | Writer, outbox, maintenance, serving index, pages |
| `paper` | `MCPaper` (`PathSpec`), 283 981 | Papers come through, answers belong to their requests, the normaliser and the candidate queue move |
| `ingest` | `MCPaper` (`IngestSpec`), 1 760 828 | Pollers, cursor lease, cut-over |
| `stranded`, `refused` | `MCFoundryOutbox`, `MCPaper` | Two sentences of the repository that the code does not keep (chapter 15) |

Five more configurations are not among the runs; each shows in seconds that
the code violates a sentence of chapter 15: `MCFoundryQueueStale.cfg`,
`MCFoundryRunsExhausted.cfg`, `MCNearDupMigrated.cfg`, `MCCuratorUnscored.cfg`,
`MCPaperRetried.cfg`.

Bounds, and why they are enough:

- Queue: two papers and two workers, since every conflict in the code is between
  two claims or two rows; one token more than can be on rows and in hands at
  once; a lease of two ticks (three with skew), so that it can be renewed, be
  late and run out; one crash.
- Runs: two days of two ticks, so that boundaries fall between all stages; two
  papers, three arrivals (a revision and a late paper); one fault.
- `runs_end`: one paper, a revision of it, and a manual run beside the daily one,
  on two replicas.
- Near duplicates: two bands of two buckets and three signatures in a chain, the
  middle one similar to both others and sharing a bucket with each; two documents,
  so that replays, revisions and copies occur; a new and a migrated table; two
  faults, the second of which hits a repetition.
- Curator: three messages in batches of at most two, four payloads among which
  are two revisions of one document, a copy of it and one that models cannot
  score, the first message being one of the revisions; a maximum age of one tick;
  one crash.
- `foundry`. Job: two workers, a task for each route, one other family in a pool
  whose benchmark takes every second one, both tasks sound or neither (one rejected,
  one unsolved), one crash, one lost lease or one failure.
  Graph: patches of up to two nodes of which one is over the bound, with known and
  unknown spans, two passes, two rounds of repair. Tasks: five, chosen so that each
  filter takes one, two share a family, in batches of two; three tool turns. Verifier: three tasks,
  six reference answers, every subset of five predicates weak or strong. Intake:
  logs of four records that begin with a candidate (what comes before it leaves the
  queue as it is), one replica, of which alone the property speaks, a crash, a
  claim. Quota: a minute of two ticks and a day of two minutes, leases of one tick,
  three calls of two attempts against limits that two calls fill, one fault.
- `lakehouse`. Writer: three records over two keys in batches of two, two replicas,
  one fault; a conflict needs two writers, an unknown outcome one. Outbox:
  two workers with one job of an event and an artifact, two claims and one failure
  (two workers can only disturb each other through the tables and the mark), and
  one worker with two events, an artifact and two failures, so that it may know of
  one event when it appends the other. Maintenance: cutoffs of one and two ticks
  within four, two appends, five versions, one fault, a floor of two snapshots.
  Index: logs of two messages with one key or one undecodable. Pages: three
  documents read one by one, three writes.
- `paper`: one paper that states no rights or refuses (open rights that are found take
  the way of none, and those that a lookup misses conflict with the page like closed
  ones), discovered twice, so that its second body replaces the object of the first
  and may come after its refusal; retries up to the two of the chart, one failure; the
  PDF worker with two documents, four calls, two deaths, so that an answer of an
  abandoned call can meet a later one; the candidate queue with two papers, one worker
  and one crash, since who recovers a dead claim is a restarted replica. Which rights
  a paper may state is the constant `StatedRights`.
- `ingest`. Hub: two repositories on pages of one, two changes, two pollers, one
  failure. Lease: two ticks in five, two pollers. Windows: two records, three days;
  feed: three entries in three versions. Cut-over: two generations, two
  signatures that share a bucket, two documents; two runs of the command over two
  snapshots; a crash and a rollback; claims with and without a former generation,
  and with anchors, bands or signatures only.

Fairness. `runs_end` and the queue of `paper` assume that time passes (`Tick`), that
each replica's loop, a daemon thread which catches every exception, takes its next
step (`Drain`, `Loop`), which includes the restart of a dead process by Kubernetes,
and that a lease nobody renews runs out (`LapseOrphaned`). Arrivals, renewals and
faults need not happen. In `neardup` PostgreSQL queues the waiters of a lock and
grants it in turn, hence strong fairness of `Lock`; a transaction that has its locks
goes on. In `curator` the process runs, epochs are saved and time passes; that the
models ever answer is not assumed, a failed attempt is a step (`retry` flips). In
`paper` each of the three processes takes its next step, again with restarts, but no
record need grow too old or be undoable for the partition to move; and the parent of
the PDF worker goes on, since every wait of it but the two named in chapter 11 has a
deadline; nothing is assumed of the child. There is no fairness for a single paper: a
paper ranked behind another that always fails may wait until the boundary, and no
property says otherwise. `NormaliserMoves` and `QueueMoves` say that the good state
comes again and again; for a topic of bounded length, whose committed positions never
go back, this is to stay at its end.

Deadlock is checked in the runs of the queue, of the foundry's runs and of the
index. The others come to rest at the end of their bounds.

Every property of a passing run has a mutant of a mapped definition that breaks
it; mutants stand in the modules before the definition they replace and are
marked as such.

## 14. Theorems

All theorems hold for every number of papers, workers, tokens, documents,
signatures and so on. The assumptions are on constants only: the named ASSUMEs of
the modules (`QueueAssumption`, `RunsAssumption`, `JobsAssumption`,
`NearDupAssumption`, `CuratorAssumption`, `WriterAssumption`, ...), which TLC
evaluates in every run, and, for a module that appears as an instance only, a
definition of that kind (`GraphAssumption`, `TaskAssumption`, `VerifierAssumption`,
`IntakeAssumption`, `QuotaAssumption`; `IndexAssumption`, `MaintenanceAssumption`,
`OutboxAssumption`, `PageAssumption`; `HubAssumption`, `LeaseAssumption`,
`WindowAssumption`, `FeedAssumption`, `PaperAssumption`, `PdfAssumption`), which the
composed modules assume as `FoundryAssumption`, `LakehouseAssumption` and
`PaperWayAssumption`. They say that bounds and ages are naturals, that a page or a
batch has room, that sets to be counted are finite and that stand-ins for "nothing"
are nothing else.

The parts of the composed modules are proved in three places: `MCPaper_proofs` has the
queue, the pollers and the way of a paper, `MCFoundry_proofs` the parts of the foundry
but the job, `MCLakehouse_proofs` those of the lakehouse but the outbox, whose invariant
it takes over for its two instances. In each the invariant of a part is shown for the
part's own Init and Next, and a short theorem at the end says that the composed
specification keeps it, since a step of it is a step of one part.

**Queue** (`MCPaper_proofs`). `TypeCorrect`; for any clock skew
`TokensIdentify`, `MutationsFenced`, `PayloadFrozen`; with `Skew = 0` `OneActive`,
`LossIsFinal` and `CustodyImplemented`. The type invariant ties the claim columns of
a row to each other and is inductive as it stands; tokens are unique because a
fresh one is on no row and in no hand; everything about custody follows from the
uniqueness of tokens and the fence. `Skew = 0` idealises more than agreeing clocks:
it also says that no time passes between a reading and its commit. `queue_skew` and
the first group show what is left without it.

**Runs** (`FoundryRuns_proofs`). `RunsTypeCorrect` for any boundary hours;
`CohortsFrozen`, `WorkIsFresh` and `PapersCountedOnce` when the replicas share one
hour. `CountedOnce` is not inductive: it needs that boundaries are those of the day
(`BoundariesOK`), that cutoffs a worker holds are those of its run (`CutoffsOK`), that
what is left of a cohort arrived in its 24 hours (`LeftFresh`) and that a paper in
work under a daily run is one of these (`WorkOK`). The actions are first reduced to
what they may do to a day, a row or a worker (`DailyStep`, `RowStep`, `WorkerStep`), and
the invariant is proved from that.

**Jobs** (`FoundryJobs_proofs`). `JobsTypeCorrect` and `SplitsAreOne` without any
condition; `JobsPayOnce` and `JobsAreBacked`, which speak of jobs whose lease is not
lost at work, for any number of workers, tasks, crashes and failures. The
invariant is `JobInv`. `Placed` says of a worker at a point of the pipeline which
calls have their results by then, and `Recording` adds that an accepted artifact was
earned and is in the split of its family. Without a lapse the paper is with the one
worker that is at work (`Owned`), so a call is made only for a key without a result
(`Counted`) and a terminal state says what the artifacts are (`Ended`, `Backed`); without
a crash an accepted environment is reported (`Reported`) and every call that was
planned, the attempt that was refused its quota included, has a worker or an end
(`Logged`). That is where the ordinal of an attempt matters: an attempt without
a quota is the next one's (`NextAttempt`).

**Near duplicates** (`NearDup_proofs`). `NearDupTypeCorrect`, `KeptApart`,
`ReplayUnique`, `DupIndexImplemented`. The inductive invariant says beside
`ClustersApart` that an answering worker holds the locks of all its buckets
(`Locked`), that a registered cluster finds all its buckets owned (`Filled`),
that what a worker has probed is what the index says now (`Pending`) and that a
repeated observation whose write went through finds its cluster (`Done`). The
step that matters is `RegisteredElsewhere`: a registration says nothing new to
a signature that shares no bucket with it, so disjoint locks keep `Pending`.

`NearDupTypeCorrect` proves the type invariant of the index, which the run
leaves to the proof.

**Curator** (`Curator_proofs`). `CuratorTypeCorrect`, `ReplaysAreIdentical`,
`SkipsNothing` and `AcceptedAreAnchored`, for any log, batch size, age limit, number of
crashes and observations of other partitions. `ReplayIsIdentical` needs the whole
invariant `CuratorInv`: the decisions of a batch are those of the cache (`BatchOK`),
the decision about to be cached is the first of its payload, and its document is
anchored if it is accepted (`CachingOK`), what was sent or waits carries the cached
decision (`SentOK`), and what is behind the process went out in all its topics or
was dropped (`ReadOK`). All of it survives a crash because the cache and the index
only grow (`Growth`), and an observation of another partition cannot take a
document's buckets (`Observing`).

**Iceberg writer** (`MCLakehouse_proofs`). `WriterRowsOnce`, with its parts
`WriterTypeCorrect`, `WriterKeyOnce` and `WriterLosesNothing`, and `LakehouseRowsOnce` of
the composition, for any number of replicas and of crashes, conflicts and unclear
appends. The
inductive invariant `WriterInv` adds for a replica that the keys it knows are in
the table, and are all of them while the table has not moved on (`Fresh`); that a
batch which goes to the Gold table has its decisions (`GoldAfter`); that what it
has read it holds, writes or need not read again (`Progressed`); and that it has
no batch when it reads, which is when its recovery store is written
(`BetweenBatches`). An append goes through only at the head of the table, where
`Fresh` says that no key is missing from the known ones, and the rows of one
commit repeat no key (`FirstOfKey` is the least-number principle behind "of the
rows with one key the first is kept"). What is not proved, since it is not true,
is that a Gold document was accepted by the decision that stands for its key
(chapter 15).

**Outbox** (`FoundryOutbox_proofs`). `OutboxTypeCorrect`, `NothingIsStranded` and
`RecordsWrittenOnce`, and `OutboxStrandsNothing` of the composition
(`MCLakehouse_proofs`), for any number of workers, jobs, records, attempts and
failures and any batch size, under `OutboxAssumption`. A step moves one worker's
point and sink, and rows are only added, so `Good` is stated of a point, a sink and
the set of records with rows, and grows with that set: the ids a sink knows are in
the table, and include what it has appended itself unless it is unsure (`Cache`); in
a flush the ids of the attempt do, and a repeated attempt has none and so reads them
again (`Trying`). `Kept` adds for an outbox without crash and refusal that a record
has a row or is in the hands of a worker (`Holds`): a list is cleared only by the
append of its rows, and nobody is in a recovery (`Awake`), whose `todo` would be a
copy and no custody.

**Maintenance** (`MCLakehouse_proofs`). `UpkeepTypeCorrect`, `TableStaysReadable`,
`ScansCanFinish`, and `NothingNeededGoes` of the composition, for any ages, floor, number of versions kept
and faults, under `MaintenanceAssumption`, which is what the command line refuses
otherwise and `CommitDelay < MinAge`. The catalog points to the latest version or has
lost the table (`Tables`), since what is registered again is the latest metadata and
that is never deleted; the files of an append under way are younger than `CommitDelay`
and so too young to be listed (`TooYoung`); the newest snapshot reaches all data, so a
commit may drop every other snapshot, which needs a floor of one; and what a
job is about to delete is outside of what the latest version protects, also when
that is a version later than the one it has walked (`Deleting`, `CommitAppendKeeps`). A
scan's snapshot is retained while fewer commits than the floor were made
(`Scanning`): each of them is a snapshot, so that it is among the newest.

**Serving index** (`MCLakehouse_proofs`). `IndexIsComplete` and, of the composition,
`IndexReadyIsComplete`, for any logs, batch limit and faults. Complete is what lies
before the place from where a consumer reads on (`From`), and that is the committed
offset or what retention had left at the copy: `Covered` says that every message there, or in
the tables of the copy, is shown, or one that the rule of the topic prefers (`Best`).
A consumer's batch continues where its file stands (`IndexReading`), and nothing
expires between the copy and the first commit (`Built`); applying a batch takes the least
trace or the last index of finite sets, whose existence is proved from the
well-foundedness of the naturals.

**Document pages** (`MCLakehouse_proofs`). `StableIsShownOnce`, for any documents, scores,
times, page size and writes. `PagesInv`: for a document that nobody writes, the rows a reader
was given and those behind its cursor are together as many as its rows in the list. The
keyset order is total on rows (`RowIsInt` and what follows), so a page cuts the list in two
whatever is inserted, and rows of other documents do not count.

**Graph, tasks, verifier** (`MCFoundry_proofs`). `AnswersChecked` is about the graph and the
tasks, `RewardsAreEarned` about the verifier, whatever the models answer. `GraphInv` keeps
nodes apart by their ids and sourced, and edges whole, so that counting ids is counting
nodes; a graph is only returned when its last critique names none of its nodes. `TaskInv`
ties what was heard of a task or a trajectory first (`heard`) to the verdicts that the
selection reads (`Unselected`, `Judged`). `VerifierInv` says that what was accepted passed the
suite: the argument is then that the mutated and the adversarial answers were graded by the
same predicates, so that a predicate which lets one of them pass would have failed the suite.

**Intake** (`MCFoundry_proofs`). `QueueFollows`, for every log and any crashes of the one
replica that runs. What it knows (`Alone`): a record that is not admitted is the last it has
offered, and what is not in the row was missed; the frontier only says from where it
reads again, and `AdmittedBefore` makes what it reads again harmless.

**Quota** (`MCFoundry_proofs`). `QuotaBalances` and `QuotaCovers`, for any number of workers,
calls, attempts and faults and any length of the windows. `LedgerInv`: a reservation that is
not settled is in the hands of at most one worker, which counts what it sends (`Hands`);
what is settled, or past its lease, is charged (`OwedIsUsed`). Sums are compared term by term: a
set of reservations with the smallest size at which two sums differ has none (`LeastSubset`,
from the well-foundedness of strict inclusion of finite sets), so no induction is needed.

**The composed foundry** (`MCFoundry_proofs`). `FoundryRefinesJobs`: seen from the job,
`MCFoundry` implements `FoundryJobs`, so the theorems of `FoundryJobs_proofs` are theorems
about it.

**Pollers** (`MCPaper_proofs`). `NothingIsMissed` for any catalogue, page size, number of
processes, windows, feeds and faults; `ReadmesAreOnce`; `CursorHasOneOwner`. `HubInv`: every
stored or held watermark covers only what was handled or left behind (`GoodMark`), and
whatever the head of a scan covers is handled, known, in the items in hand or still to be
listed (`GoodScan`, `GoodPage`); a touched repository moves to the head, where no mark covers it
(`TouchKeeps`), and every process keeps its own copy of the state, so that the
invariant is one of records (`Sound`), whoever's they are. `BlobInv` counts, for a README, what
was emitted against the failures and the passes in flight with it (`InFlight`).
`LeaseInv`: a process that read the present version of the object knows when it was renewed and
by whom (`Fresh`), and who works is the holder as of its last renewal or has let it run out
(`Backed`). `WindowInv` says that a record stamped before the cursor, or in a page behind the
resumption token, was found; `FeedInv` that a pass of the present ETag has published what
it has not left over, unless an entry of it failed.

**The way of a paper** (`MCPaper_proofs`). `PapersComeThrough` for any number of papers,
discoveries, retries and faults, `AnswersAreOwn` for any documents, calls and deaths.
`PaperInv`: both topics only grow (`Grows`), so that what a discovery came to stays
(`FetchedStays`); what the fetcher has in hand is from the discovery it has not
committed (`InHand`, `Answers`); a body on the topic has rights under which it may be
fetched, so that the normaliser does not skip it for these (`Fine`); and the
normaliser has dealt with everything before its next offset, saved or not
(`NormalInv`). `PdfInv`: the pipe holds one message at most and, while the parent
waits, it is the request or the answer of the document the parent asked for, or the
child is at work on that document, or dead.

Only model-checked: liveness (`QueueMoves`, `RunsEnd`, `ObservationsEnd`,
`PartitionIsRead`, `NormaliserMoves`), since fairness and ENABLED are beyond the
prover; and `CutoverLosesNothing`, whose import compares whole indexes that an old
program wrote in an order nobody kept: the run fixes the inherited states, and an
invariant for all of them was not found. `RestartStrandsNothing` and the other sentences of
chapter 15 are false and have no theorem.

## 15. Where text and code disagree

With a run:

- `stranded`: worker.py:492 says that restaging means a restart "cannot strand an
  accepted artifact". A job is marked published without asking whether a record
  was appended since its records were read, and events are written without the
  claim token: a former worker flushes its part and sets the mark while the rest
  is in the memory of the one that finished the job; when that one restarts,
  nothing restages the job.
- `refused`: schemas/license_admission.py:5 says "explicit incompatible rights never
  reach extraction or curation". A refusal is written and not read again; after a
  redelivery a failing lookup gives unknown rights, for which the body is fetched
  (fetcher.py:681).

With a configuration of its own:

- `MCFoundryQueueStale.cfg`: docs/POSTTRAIN_FOUNDRY.md:112 says a stale owner "can no
  longer publish". `assert_owned` runs once at worker.py:496 and the outbox is then
  published record by record; the lease may run out in between.
- `MCFoundryRunsExhausted.cfg`: docs/POSTTRAIN_FOUNDRY.md:228 says a cohort stays
  "resumable while it is still current". A claim that finds nothing and the query
  for the next retry time (worker.py:381) are two transactions; a paper released
  between them has no retry time, is not seen by either, and the run completes
  over it.
- `MCNearDupMigrated.cfg`: lshbloom.py:651 calls the repeated operation idempotent. On
  migrated band tables the repetition of an observation that was committed finds
  the bands of the first attempt and calls the document a duplicate of itself.
- `MCCuratorUnscored.cfg`: curate.py:528 says that skipping a model call "cannot create
  a new acceptance or rejection rule". The skips are kept by `doc_id`
  (curate.py:780); when two revisions of a document share a batch, the reason to
  skip the one also skips the quality gate of the other.
- `MCPaperRetried.cfg`: curate.py:1591 says of the envelope that asks for another
  extraction "The arXiv fulltext worker consumes it and deliberately refetches the
  PDF", and docs/PIPELINE_IMPLEMENTATION_REFERENCE.md:318 speaks of "at most two
  alternate attempts". It goes to `raw.fetched` (curate.py:1633,
  processor-curate.yaml:209); the worker reads `arxiv.discovery`. The paper keeps its
  decision "retry" and is never extracted again. (The worker's own default,
  `raw.fetched`, would bring it the retries and no discoveries.)

Stated in a module, and violated when TLC is asked for it:

- `NoPartialImport` (`CuratorCutover`): reuse_snapshot opens "a complete retained
  snapshot" (migrate_curator_state_to_postgres.py:400) by the existence of one file.
  A copy that broke off between two databases is imported without the rest.
- `WriterGoldIsAccepted` (`MCLakehouse`): iceberg_writer.py:984 calls Gold the "accepted
  Gold subset" of the decisions. The key has no content revision: when a rejection
  and an acceptance share it, the decisions table keeps one and Gold has the other.
- `IndexParity` (`MCLakehouse`): serving_index.py:178 claims "exact Iceberg parity". The
  index keeps the smallest trace of a key, across polls too (line 266), while the
  writer keeps the row it committed first, whatever its trace.
- `SinkIsIdempotent` (`MCLakehouse`, `ReplaysIdempotently` of `FoundryOutbox`):
  docs/POSTTRAIN_FOUNDRY.md:536 says that publication "can be replayed idempotently
  after a worker or storage failure". A flush that is given up after a commit of
  unknown outcome leaves the known ids as they were (lakehouse.py:96), and the next
  flush appends the rows that are there a second time.
- `ShownOnce` (`DocumentPages`): duckdb_api.py:796 says the relation "collapses them to
  one authoritative document". Refused admissions are joined unranked; a document
  with several is listed and counted several times.

## 16. What is not modelled

`PROJECT.json` lists every component with what is left out of it. Packaging,
numeric oracles and the execution of generated code, the quality operators,
parsing, extraction and the cockpit are functions of text and code, without
shared state of their own. HTTP clients, object storage, Kafka and S3 plumbing are
seen through their outcomes. The model service and its priority gate are
stateless between calls; the source controller reconciles one object at a time
against the Kubernetes API; the foundry's API and the other queries of the serving
API read. Database connections and SQL dialects are the atomicity of the actions;
deadlocks that PostgreSQL resolves by aborting a transaction are
`StoreUnavailable`. The index of a single curator process appears in
`CuratorCutover` only, without its Bloom filter, which saves reads. The move of the
foundry's SQLite file to PostgreSQL copies rows into an empty database. Consumer
groups that move partitions between running replicas, schema evolution of the
Iceberg tables and the tables of licence names are left out. The heartbeat thread
may finish one renewal after it was told to stop; the renewal passes the same
fence and is left out.
