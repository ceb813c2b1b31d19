---------------------------- MODULE CuratorCutover ----------------------------
(***************************************************************************)
(* scripts/migrate_curator_state_to_postgres.py: the decisions and the      *)
(* near-duplicate index of the single curator (LSHBloomIndex, a local       *)
(* database for each scoring generation) become the PostgreSQL tables of     *)
(* the curators that replace it.  A run of the command copies the files to   *)
(* a snapshot, proves the anchors of what it copied and imports it in one    *)
(* transaction; it may die anywhere, run twice at a time, or be run again    *)
(* over the snapshot that an earlier run retained.                         *)
(*                                                                         *)
(* As in LSHIndex a cluster id is the submission that minted it.  Every      *)
(* decision was made with the MinHash contract of the target.              *)
(***************************************************************************)
EXTENDS LSHIndex, FiniteSets

CONSTANTS
    Payloads,               \* the submissions the curators are given
    Generations, Current,   \* numbered in the order of their directories
    Inherited,              \* what earlier programs left on the claim
    Earlier,                \* what an earlier command left in PostgreSQL
    Jobs, Dirs,             \* runs of the command, and --snapshot-dir
    CrashLimit, RollbackLimit   \* bounds

VARIABLES
    local,      \* the claim of the single curator
    old, new,   \* the single curator and its replacement
    snap,       \* the snapshot directories; claim is what a copy that ended was of
    job,        \* the runs of the command
    tables, schema,             \* PostgreSQL
    origin, written,            \* what was imported, and what new wrote since
    faults

vars == <<local, old, new, snap, job, tables, schema, origin, written, faults>>

Decision == [gen: Generations, sub: Submission, cluster: Submission, dup: BOOLEAN]
Database == [owner: [Keys -> Submission \cup {None}],    \* cluster:<key>
             anchored: SUBSET Submission,                \* anchor:<id>
             signed: SUBSET Submission]                  \* signature:<id>
Content == [decisions: SUBSET Decision, lsh: [Generations -> Database \cup {None}]]
Rows == [decisions: SUBSET Decision, index: [Generations -> Index]]

NoKeys == [k \in Keys |-> None]
NewDatabase == [owner |-> NoKeys, anchored |-> {}, signed |-> {}]
NoRows == [decisions |-> {}, index |-> [g \in Generations |-> EmptyIndex({})]]
NoCopy == [made |-> FALSE, decisions |-> None, lsh |-> [g \in Generations |-> None],
           claim |-> None, manifest |-> FALSE]
NoJob == [pc |-> "off", dir |-> None]

Init ==
    /\ local \in Inherited
    /\ old = [up |-> TRUE, pending |-> None] /\ new = [up |-> FALSE, pending |-> None]
    /\ snap = [d \in Dirs |-> NoCopy] /\ job = [j \in Jobs |-> NoJob]
    /\ \/ schema = "absent" /\ tables = NoRows
       \/ schema = "legacy" /\ tables \in Earlier
    /\ origin = None /\ written = [decisions |-> {}, subs |-> {}]
    /\ faults = [crashes |-> 0, rollbacks |-> 0]

-----------------------------------------------------------------------------
(* LSHBloomIndex.  The owners of the keys are asked in the order of the       *)
(* bands; an anchor without a signature matches only its own document.      *)
OwnersOf(l, s) == {l.owner[k] : k \in KeysOf[s.sig]} \ {None}
Replays(l, s, c) == c \in l.anchored /\ c.doc = s.doc
Hits(l, s) ==
    {c \in OwnersOf(l, s) :
        Replays(l, s, c) \/ (c \in l.signed /\ <<s.sig, c.sig>> \in Similar)}
FirstKey(l, s, c) ==
    CHOOSE k \in KeysOf[s.sig] :
        l.owner[k] = c /\ \A m \in KeysOf[s.sig] : l.owner[m] = c => k <= m
FirstHit(l, s) ==
    CHOOSE c \in Hits(l, s) :
        \A e \in Hits(l, s) : FirstKey(l, s, c) <= FirstKey(l, s, e)

(* _db_put_many, one transaction: a cluster that found no empty bucket has    *)
(* an anchor and a signature and is owner of nothing.                      *)
Founded(l, s) ==
    [owner |-> [k \in Keys |-> IF k \in KeysOf[s.sig] /\ l.owner[k] = None
                               THEN s ELSE l.owner[k]],
     anchored |-> l.anchored \cup {s}, signed |-> l.signed \cup {s}]

Decided(s, c, dup) == [gen |-> Current, sub |-> s, cluster |-> c, dup |-> dup]
IsDecided(D, s) == \E d \in D : d.gen = Current /\ d.sub = s

(* The single curator observes a document, and then caches its decision.    *)
OldObserve(s) ==
    /\ old.up /\ old.pending = None /\ ~IsDecided(local.decisions, s)
    /\ LET l == IF local.lsh[Current] = None THEN NewDatabase ELSE local.lsh[Current] IN
       IF Hits(l, s) # {}
       THEN /\ local' = [local EXCEPT !.lsh[Current] = l]
            /\ old' = [old EXCEPT !.pending = Decided(s, FirstHit(l, s),
                                                      ~Replays(l, s, FirstHit(l, s)))]
       ELSE /\ local' = [local EXCEPT !.lsh[Current] = Founded(l, s)]
            /\ old' = [old EXCEPT !.pending = Decided(s, s, FALSE)]
    /\ UNCHANGED <<new, snap, job, tables, schema, origin, written, faults>>

OldCache ==
    /\ old.up /\ old.pending # None
    /\ local' = [local EXCEPT !.decisions = @ \cup {old.pending}]
    /\ old' = [old EXCEPT !.pending = None]
    /\ UNCHANGED <<new, snap, job, tables, schema, origin, written, faults>>

(* It is stopped, between any two steps. *)
OldStop ==
    /\ old.up
    /\ old' = [up |-> FALSE, pending |-> None]
    /\ UNCHANGED <<local, new, snap, job, tables, schema, origin, written, faults>>

(* The cut-over is called off for now.  Not while its files are copied: the   *)
(* lock on the LevelDB keeps the old curator from it, though not from another *)
(* backend.                                                                *)
OldStart ==
    /\ ~old.up /\ ~new.up /\ faults.rollbacks < RollbackLimit
    /\ \A j \in Jobs : job[j].pc # "copying"
    /\ old' = [old EXCEPT !.up = TRUE]
    /\ faults' = [faults EXCEPT !.rollbacks = @ + 1]
    /\ UNCHANGED <<local, new, snap, job, tables, schema, origin, written>>

-----------------------------------------------------------------------------
(* snapshot_sources.  A LevelDB that another process has locked is refused,   *)
(* and so is a directory that exists; that the old curator is down is else    *)
(* the promise of the operator.                                            *)
Quiesced == ~old.up
Sources == {g \in Generations : local.lsh[g] # None}

Begin(j, d) ==
    /\ job[j].pc = "off" /\ Quiesced /\ Sources # {} /\ ~snap[d].made
    /\ snap' = [snap EXCEPT ![d].made = TRUE]
    /\ job' = [job EXCEPT ![j] = [pc |-> "copying", dir |-> d]]
    /\ UNCHANGED <<local, old, new, tables, schema, origin, written, faults>>

CopyDecisions(j) ==
    LET d == job[j].dir IN
    /\ job[j].pc = "copying" /\ snap[d].decisions = None
    /\ snap' = [snap EXCEPT ![d].decisions = local.decisions]
    /\ UNCHANGED <<local, old, new, job, tables, schema, origin, written, faults>>

(* The next database in the order of the directories. *)
CopyDatabase(j) ==
    LET d == job[j].dir
        left == {g \in Sources : snap[d].lsh[g] = None}
    IN
    /\ job[j].pc = "copying" /\ snap[d].decisions # None
    /\ \E g \in left :
          /\ \A h \in left : g <= h
          /\ snap' = [snap EXCEPT ![d].lsh[g] = local.lsh[g],
                                  ![d].claim = IF left = {g} THEN local ELSE None]
          /\ job' = [job EXCEPT ![j].pc = IF left = {g} THEN "opened" ELSE @]
    /\ UNCHANGED <<local, old, new, tables, schema, origin, written, faults>>

(* reuse_snapshot: there are decisions, a database and no manifest. *)
Reuse(j, d) ==
    /\ job[j].pc = "off"
    /\ ~snap[d].manifest /\ snap[d].decisions # None
    /\ \E g \in Generations : snap[d].lsh[g] # None
    /\ job' = [job EXCEPT ![j] = [pc |-> "opened", dir |-> d]]
    /\ UNCHANGED <<local, old, new, snap, tables, schema, origin, written, faults>>

-----------------------------------------------------------------------------
(* read_lsh_state and _validate_anchor_minhash_contract. *)
Referenced(l) == {l.owner[k] : k \in Keys} \ {None}
IsBandOnly(l) == Referenced(l) # {} /\ Referenced(l) \cap l.signed = {}
Decides(x, g) == \E d \in x.decisions : d.gen = g

Evidence(x, g, c) ==
    {d.sub : d \in {e \in x.decisions : e.gen = g /\ e.cluster = c /\ ~e.dup}}
Fitting(x, g, c) ==
    {s \in Evidence(x, g, c) : s.sig = c.sig /\ (c \in x.lsh[g].anchored => s.doc = c.doc)}

IsProven(x, g) ==
    LET l == x.lsh[g] IN
    /\ l.anchored \cup l.signed \subseteq Referenced(l)
    /\ Referenced(l) # {} => Decides(x, g)
    /\ \/ IsBandOnly(l)
       \/ /\ Referenced(l) \subseteq l.signed
          /\ \A c \in Referenced(l) :
                IF Evidence(x, g, c) = {} THEN c \in l.anchored
                ELSE Cardinality(Fitting(x, g, c)) = 1

(* The anchor that is missing is the one document that was accepted into     *)
(* the cluster with its signature.                                         *)
AnchorOf(x, g, c) ==
    IF c \in x.lsh[g].anchored THEN c
    ELSE [doc |-> (CHOOSE s \in Fitting(x, g, c) : TRUE).doc, sig |-> c.sig]

IndexOf(x, g) ==
    LET l == x.lsh[g] IN
    IF l = None THEN EmptyIndex({})
    ELSE IF IsBandOnly(l) THEN EmptyIndex({k \in Keys : l.owner[k] # None})
    ELSE [clusters |-> {AnchorOf(x, g, c) : c \in Referenced(l)},
          owner |-> [k \in Keys |-> IF l.owner[k] = None THEN None
                                    ELSE AnchorOf(x, g, l.owner[k])],
          legacy |-> {}]

Imported(x) ==
    [decisions |-> x.decisions, index |-> [g \in Generations |-> IndexOf(x, g)]]

(* A table of legacy bands came with the current schema. *)
InLegacySchema(r) == [r EXCEPT !.index = [g \in Generations |-> [@[g] EXCEPT !.legacy = {}]]]

(* Mutant of MayImport: only the decisions are looked at. *)
MayImportUndecided(r) ==
    tables = r \/ tables.decisions = {} \/ (schema = "legacy" /\ tables = InLegacySchema(r))

(* _target_is_pristine, or an import of the same rows. *)
MayImport(r) ==
    tables = r \/ tables = NoRows \/ (schema = "legacy" /\ tables = InLegacySchema(r))

ContentOf(d) == [decisions |-> snap[d].decisions, lsh |-> snap[d].lsh]

(* import_verified_state, one transaction. *)
Import(j) ==
    LET x == ContentOf(job[j].dir) IN
    /\ job[j].pc = "opened"
    /\ \A g \in Generations : x.lsh[g] # None => IsProven(x, g)
    /\ MayImport(Imported(x))
    /\ tables' = Imported(x) /\ schema' = "current"
    /\ origin' = IF origin = None /\ written.subs = {}
                 THEN [content |-> x, claim |-> snap[job[j].dir].claim] ELSE origin
    /\ job' = [job EXCEPT ![j].pc = "imported"]
    /\ UNCHANGED <<local, old, new, snap, written, faults>>

(* It is refused, or the tables are locked by someone else. *)
Refuse(j) ==
    /\ job[j].pc = "opened"
    /\ job' = [job EXCEPT ![j] = NoJob]
    /\ UNCHANGED <<local, old, new, snap, tables, schema, origin, written, faults>>

WriteManifest(j) ==
    /\ job[j].pc = "imported"
    /\ snap' = [snap EXCEPT ![job[j].dir].manifest = TRUE]
    /\ job' = [job EXCEPT ![j] = NoJob]
    /\ UNCHANGED <<local, old, new, tables, schema, origin, written, faults>>

Crash(j) ==
    /\ job[j].pc # "off" /\ faults.crashes < CrashLimit
    /\ job' = [job EXCEPT ![j] = NoJob]
    /\ faults' = [faults EXCEPT !.crashes = @ + 1]
    /\ UNCHANGED <<local, old, new, snap, tables, schema, origin, written>>

-----------------------------------------------------------------------------
(* PostgresLSHIndex creates the tables that are not there, and fails on those *)
(* of the legacy schema, at the first read or write.                         *)
NewStart ==
    /\ ~old.up /\ ~new.up /\ schema # "legacy"
    /\ new' = [new EXCEPT !.up = TRUE] /\ schema' = "current"
    /\ UNCHANGED <<local, old, snap, job, tables, origin, written, faults>>

NewObserve(s) ==
    LET i == tables.index[Current] IN
    /\ new.up /\ new.pending = None /\ ~IsDecided(tables.decisions, s)
    /\ tables' = [tables EXCEPT !.index[Current] = Observed(i, s)]
    /\ written' = [written EXCEPT !.subs = IF IsNew(i, s) THEN @ \cup {s} ELSE @]
    /\ \E c \in Matches(i, s) \cup {s} :
          /\ Matches(i, s) # {} => First(c, Matches(i, s))
          /\ new' = [new EXCEPT !.pending = Decided(s, c, IsNearDuplicate(i, s))]
    /\ UNCHANGED <<local, old, snap, job, schema, origin, faults>>

NewCache ==
    /\ new.up /\ new.pending # None
    /\ tables' = [tables EXCEPT !.decisions = @ \cup {new.pending}]
    /\ written' = [written EXCEPT !.decisions = @ \cup {new.pending}]
    /\ new' = [new EXCEPT !.pending = None]
    /\ UNCHANGED <<local, old, snap, job, schema, origin, faults>>

Next ==
    \/ \E s \in Payloads : OldObserve(s) \/ NewObserve(s)
    \/ OldCache \/ OldStop \/ OldStart \/ NewStart \/ NewCache
    \/ \E j \in Jobs :
          \/ \E d \in Dirs : Begin(j, d) \/ Reuse(j, d)
          \/ CopyDecisions(j) \/ CopyDatabase(j)
          \/ Import(j) \/ Refuse(j) \/ WriteManifest(j) \/ Crash(j)

Spec == Init /\ [][Next]_vars
-----------------------------------------------------------------------------
TypeOK ==
    /\ local \in Content /\ tables \in Rows /\ schema \in {"absent", "legacy", "current"}
    /\ \A d \in Dirs :
          /\ snap[d].decisions # None => snap[d].decisions \subseteq Decision
          /\ snap[d].lsh \in [Generations -> Database \cup {None}]
    /\ \A j \in Jobs : job[j].pc \in {"off", "copying", "opened", "imported"}
    /\ written.decisions \subseteq Decision /\ written.subs \subseteq Submission

(* What the tables held before the new curator wrote. *)
Base ==
    IF origin # None THEN Imported(origin.content)
    ELSE IF schema = "legacy" THEN tables ELSE NoRows

(* migrate_curator_state_to_postgres.py:8-9: the tables hold what one import   *)
(* brought and what the new curator wrote since, and nothing of either is     *)
(* lost, mixed with another snapshot or brought twice, in whatever order the   *)
(* command, its repetitions and the new curator come.                       *)
OneSource ==
    /\ tables.decisions = Base.decisions \cup written.decisions
    /\ \A g \in Generations :
          LET i == tables.index[g]
              b == Base.index[g]
              more == IF g = Current THEN written.subs ELSE {}
          IN
          /\ i.clusters = b.clusters \cup (IF UsesLegacyBands(i) THEN {} ELSE more)
          /\ \A k \in Keys : i.owner[k] = b.owner[k] \/ (b.owner[k] = None /\ i.owner[k] \in more)
          /\ i.legacy \ b.legacy \subseteq UNION {KeysOf[s.sig] : s \in more}
          /\ b.legacy \subseteq i.legacy

(* The rule of the single curator: of a generation with signatures, or of     *)
(* one that has only bands.                                                *)
OldRejects(l, s) ==
    IF IsBandOnly(l) THEN \A k \in KeysOf[s.sig] : l.owner[k] # None
    ELSE Hits(l, s) # {} /\ \A c \in Hits(l, s) : c.doc # s.doc

(* migrate_curator_state_to_postgres.py:4-6: when a snapshot that was copied    *)
(* to its end is imported, every decision of the previous curator is kept,     *)
(* every anchor is the one that founded its cluster, and no document is        *)
(* admitted that the previous curator would have rejected for a cluster of     *)
(* another document.                                                       *)
NothingReadmitted ==
    origin # None /\ origin.claim # None =>
        /\ origin.claim.decisions \subseteq tables.decisions
        /\ \A g \in Generations :
              LET l == origin.claim.lsh[g]
                  i == tables.index[g]
              IN
              l # None =>
                  /\ IsBandOnly(l) \/ Referenced(l) \subseteq i.clusters
                  /\ \A s \in Payloads :
                        OldRejects(l, s) /\ (IsBandOnly(l) \/ s \notin i.clusters)
                        => IsNearDuplicate(i, s)

(* The words of reuse_snapshot, "a complete retained snapshot": violated by    *)
(* the code, see Reuse.                                                    *)
NoPartialImport == origin # None => origin.claim # None
=============================================================================
