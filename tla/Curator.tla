------------------------------ MODULE Curator ------------------------------
(***************************************************************************)
(* A curator process on one partition of the normalized documents          *)
(* (processor/curate.py): it reads a batch, looks up decided payloads,     *)
(* asks the models once for the rest, and then decides in input order,     *)
(* writing the near-duplicate index and the decision cache as it goes.     *)
(* Only then is the batch published; the source frontier is saved with     *)
(* the next recovery snapshot, and after a crash reading resumes there.    *)
(*                                                                         *)
(* The index is shared with the processes of other partitions, whose       *)
(* observations are atomic (NearDup); the other tables are keyed by        *)
(* payloads of this partition.  What the gates and the models say of a     *)
(* payload is a constant.                                                  *)
(***************************************************************************)
EXTENDS LSHIndex, Sequences

CONSTANTS
    Payloads,
    DocOf, SigOf, FetchedAt,
    Hard,           \* rejected by a deterministic gate
    Incomplete,     \* among them those whose extraction can be run again
    Good,           \* would pass the quality gate
    Unscorable,     \* make a model call raise ValueError
    Elsewhere,      \* what the processes of other partitions may observe
    MaxAge,         \* S2P_PRETRAIN_MAX_WORK_AGE_SECONDS
    BatchSize,      \* S2P_CURATOR_DOCUMENT_BATCH_SIZE
    LogLength,      \* bound: messages of the partition
    Horizon,        \* bound: the last tick
    CrashLimit      \* bound: crashes of the process

ASSUME CuratorAssumption ==
    /\ DocOf \in [Payloads -> Docs] /\ SigOf \in [Payloads -> Signatures]
    /\ FetchedAt \in [Payloads -> Nat]
    /\ Incomplete \subseteq Hard /\ Hard \cup Good \cup Unscorable \subseteq Payloads
    /\ Elsewhere \subseteq Submission
    /\ MaxAge \in Nat \ {0} /\ BatchSize \in Nat \ {0}
    /\ LogLength \in Nat /\ CrashLimit \in Nat
    /\ Horizon \in Nat /\ \A p \in Payloads : FetchedAt[p] + MaxAge <= Horizon

VARIABLES
    now,            \* the clock
    log,            \* the partition of docs.normalized
    frontier,       \* offset of the last recovery snapshot
    index,          \* the near-duplicate index
    cache,          \* the decision cache
    proc,           \* what the process keeps in memory
    published,      \* the messages of the output topics
    dropped         \* messages left out: expired, or recorded as failures

vars == <<now, log, frontier, index, cache, proc, published, dropped>>

Offset == 1..LogLength
Decision == [route: {"pretrain", "quarantine", "retry"}, scored: BOOLEAN]
Aged == [route |-> "expired", scored |-> FALSE]
Failed == [route |-> "failed", scored |-> FALSE]
Dropped == {Aged, Failed}
Message == [topic: {"decisions", "curated", "raw"}, offset: Offset, decision: Decision]

(* A row without a decision is NULL. *)
ASSUME NoDecisionAssumption == None \notin Decision \cup Dropped

(* read, upto: the batch is read+1..upto.  skips: the documents that the    *)
(* prefetch found no reason to score; None when it gave up on the batch.   *)
(* retry: the number of the attempt at it, modulo 2.                       *)
Process == [pc: {"idle", "prefetching", "deciding", "caching", "publishing"},
            read: 0..LogLength, upto: 0..LogLength,
            results: [Offset -> Decision \cup Dropped \cup {None}],
            skips: (SUBSET Docs) \cup {None},
            decision: Decision \cup {None},
            retry: {0, 1},
            outbox: SUBSET Message,
            crashes: 0..CrashLimit]

NoResults == [o \in Offset |-> None]
Resumed(offset, crashes) ==
    [pc |-> "idle", read |-> offset, upto |-> offset, results |-> NoResults,
     skips |-> None, decision |-> None, retry |-> 0, outbox |-> {}, crashes |-> crashes]

Init ==
    /\ now = 0
    /\ log \in [Offset -> Payloads]
    /\ frontier = 0
    /\ index = EmptyIndex({})
    /\ cache = [p \in Payloads |-> None]
    /\ proc = Resumed(0, 0)
    /\ published = {}
    /\ dropped = [o \in Offset |-> None]

-----------------------------------------------------------------------------
Observation(p) == [doc |-> DocOf[p], sig |-> SigOf[p]]
Expired(p) == now >= FetchedAt[p] + MaxAge
Batch == (proc.read + 1)..proc.upto
Undecided == {o \in Batch : proc.results[o] = None}

(* Mutant: the age of what waits for the models is not looked at again. *)
AgeIgnored == proc.results

(* The results of a pass over the batch that looks at age, or cache as well. *)
AgeChecked == [o \in Offset |-> IF o \in Undecided /\ Expired(log[o]) THEN Aged
                                ELSE proc.results[o]]
LookedUp(batch) == [o \in Offset |-> IF o \notin batch THEN None
                                     ELSE IF Expired(log[o]) THEN Aged ELSE cache[log[o]]]

(* The process takes the next messages; decided ones are not decided again. *)
Read ==
    /\ proc.pc = "idle"
    /\ \E upto \in (proc.read + 1)..LogLength :
          /\ upto <= proc.read + BatchSize
          /\ proc' = [proc EXCEPT !.pc = "prefetching", !.upto = upto,
                                  !.results = LookedUp((proc.read + 1)..upto)]
    /\ UNCHANGED <<now, log, frontier, index, cache, published, dropped>>

(* _prefetched_curate_state: documents that cannot be accepted are not scored. *)
Skips(P) == {DocOf[p] : p \in {q \in P : q \in Hard \/ IsNearDuplicate(index, Observation(q))}}

(* A turn of the retry loop: what has expired meanwhile is dropped, for the *)
(* rest the models answer, or are unavailable and asked again, or raise a  *)
(* ValueError that cannot be attributed to a document.                     *)
Prefetch ==
    /\ proc.pc = "prefetching"
    /\ LET results == AgeChecked
           pending == {log[o] : o \in {b \in Batch : results[b] = None}}
       IN  \/ proc' = [proc EXCEPT !.pc = "deciding", !.results = results, !.retry = 0,
                                      !.skips = Skips(pending)]
              /\ pending \cap Unscorable = {}
           \/ proc' = [proc EXCEPT !.results = results, !.retry = 1 - @] /\ pending # {}
           \/ proc' = [proc EXCEPT !.pc = "deciding", !.results = results, !.retry = 0]
              /\ pending \cap Unscorable # {}
    /\ UNCHANGED <<now, log, frontier, index, cache, published, dropped>>

-----------------------------------------------------------------------------
(* The loop over the batch in input order. *)
Current(o) == proc.pc = "deciding" /\ o \in Undecided /\ \A b \in Undecided : o <= b
Settle(o, result) == proc' = [proc EXCEPT !.results[o] = result, !.pc = "deciding", !.decision = None]

DropExpired(o) ==
    /\ Current(o) /\ Expired(log[o])
    /\ Settle(o, Aged)
    /\ UNCHANGED <<now, log, frontier, index, cache, published, dropped>>

(* An identical payload earlier in the batch was decided meanwhile. *)
TakeCached(o) ==
    /\ Current(o) /\ ~Expired(log[o]) /\ cache[log[o]] # None
    /\ Settle(o, cache[log[o]])
    /\ UNCHANGED <<now, log, frontier, index, cache, published, dropped>>

(* Without a prefetch each document is prefetched on its own. *)
SkipsOf(p) == IF proc.skips = None THEN Skips({p}) ELSE proc.skips
Scored(p) == p \notin Hard /\ DocOf[p] \notin SkipsOf(p)

Route(p) ==
    IF \/ IsNearDuplicate(index, Observation(p))
       \/ p \in Hard \ Incomplete
       \/ Scored(p) /\ p \notin Good
    THEN "quarantine"
    ELSE IF p \in Incomplete THEN "retry" ELSE "pretrain"

(* Mutant: the index is probed where it should be observed. *)
CurateWithProbe(o) ==
    /\ Current(o) /\ ~Expired(log[o]) /\ cache[log[o]] = None
    /\ proc.skips = None => log[o] \notin Unscorable
    /\ proc' = [proc EXCEPT !.pc = "caching",
                            !.decision = [route |-> Route(log[o]), scored |-> Scored(log[o])]]
    /\ UNCHANGED <<now, log, frontier, index, cache, published, dropped>>

(* curate_one: the gates, and last the observation of the index, which is   *)
(* made of rejected documents too.                                         *)
CurateOne(o) ==
    /\ Current(o) /\ ~Expired(log[o]) /\ cache[log[o]] = None
    /\ proc.skips = None => log[o] \notin Unscorable
    /\ index' = Observed(index, Observation(log[o]))
    /\ proc' = [proc EXCEPT !.pc = "caching",
                            !.decision = [route |-> Route(log[o]), scored |-> Scored(log[o])]]
    /\ UNCHANGED <<now, log, frontier, cache, published, dropped>>

(* Its own prefetch raises the ValueError. *)
FailDocument(o) ==
    /\ Current(o) /\ ~Expired(log[o]) /\ cache[log[o]] = None
    /\ proc.skips = None /\ log[o] \in Unscorable
    /\ Settle(o, Failed)
    /\ UNCHANGED <<now, log, frontier, index, cache, published, dropped>>

(* ScientificHandoff.preserve: the evidence of an accepted paper is kept,   *)
(* or is gone, which quarantines the paper.                                *)
HandedOff(decision) ==
    {decision} \cup (IF decision.route = "pretrain"
                     THEN {[decision EXCEPT !.route = "quarantine"]} ELSE {})

(* Mutant: the insert is never committed. *)
PutNothing(p, decision) == cache

(* put: the first decision of a key stays. *)
Put(p, decision) == [cache EXCEPT ![p] = IF @ = None THEN decision ELSE @]

CacheDecision(o) ==
    /\ proc.pc = "caching" /\ o \in Undecided /\ \A b \in Undecided : o <= b
    /\ \E decision \in HandedOff(proc.decision) :
          /\ cache' = Put(log[o], decision)
          /\ Settle(o, decision)
    /\ UNCHANGED <<now, log, frontier, index, published, dropped>>

(* The evidence of another document: a ValueError after the observation. *)
FailHandoff(o) ==
    /\ proc.pc = "caching" /\ o \in Undecided /\ \A b \in Undecided : o <= b
    /\ proc.decision.route = "pretrain"
    /\ Settle(o, Failed)
    /\ UNCHANGED <<now, log, frontier, index, cache, published, dropped>>

-----------------------------------------------------------------------------
Topics(decision) ==
    {"decisions"} \cup (IF decision.route = "pretrain" THEN {"curated"} ELSE {})
                  \cup (IF decision.route = "retry" THEN {"raw"} ELSE {})

(* _batch_step returns: nothing of a batch is published before all of it is *)
(* decided.                                                                *)
Return ==
    /\ proc.pc = "deciding" /\ Undecided = {}
    /\ dropped' = [o \in Offset |-> IF o \in Batch /\ proc.results[o] \in Dropped
                                    THEN proc.results[o] ELSE dropped[o]]
    /\ LET decided == {o \in Batch : proc.results[o] \notin Dropped} IN
          proc' = [proc EXCEPT !.pc = "publishing",
                      !.outbox = UNION {{[topic |-> t, offset |-> o, decision |-> proc.results[o]] :
                                            t \in Topics(proc.results[o])} : o \in decided}]
    /\ UNCHANGED <<now, log, frontier, index, cache, published>>

(* The sinks of the three topics, in no order of their own. *)
Publish ==
    /\ proc.pc = "publishing"
    /\ \E message \in proc.outbox :
          /\ published' = published \cup {message}
          /\ proc' = [proc EXCEPT !.outbox = @ \ {message}]
    /\ UNCHANGED <<now, log, frontier, index, cache, dropped>>

EndBatch ==
    /\ proc.pc = "publishing" /\ proc.outbox = {}
    /\ proc' = Resumed(proc.upto, proc.crashes)
    /\ UNCHANGED <<now, log, frontier, index, cache, published, dropped>>

(* Mutant: the snapshot holds what has been read. *)
SnapshotEarly ==
    /\ frontier < proc.upto
    /\ frontier' = proc.upto
    /\ UNCHANGED <<now, log, index, cache, proc, published, dropped>>

(* The recovery snapshot of an epoch that is through the flow, every          *)
(* S2P_BYTEWAX_SNAPSHOT_SECONDS.                                           *)
Snapshot ==
    /\ proc.pc = "idle" /\ frontier < proc.read
    /\ frontier' = proc.read
    /\ UNCHANGED <<now, log, index, cache, proc, published, dropped>>

(* The process dies, or raises for a reason that no retry covers; with its  *)
(* recovery configuration it resumes from the last snapshot.               *)
Crash ==
    /\ proc.crashes < CrashLimit
    /\ proc' = Resumed(frontier, proc.crashes + 1)
    /\ UNCHANGED <<now, log, frontier, index, cache, published, dropped>>

(* The models are unavailable to a document that is scored on its own: the  *)
(* exception ends the process, however often.                              *)
RaiseUnavailable ==
    /\ \E o \in Offset : Current(o) /\ ~Expired(log[o]) /\ cache[log[o]] = None
    /\ proc.skips = None
    /\ proc' = Resumed(frontier, proc.crashes)
    /\ UNCHANGED <<now, log, frontier, index, cache, published, dropped>>

(* Another partition's document. *)
ObserveElsewhere(s) ==
    /\ index' = Observed(index, s)
    /\ UNCHANGED <<now, log, frontier, cache, proc, published, dropped>>

Tick ==
    /\ now < Horizon
    /\ now' = now + 1
    /\ UNCHANGED <<log, frontier, index, cache, proc, published, dropped>>

-----------------------------------------------------------------------------
Step ==
    \/ Read \/ Prefetch \/ Return \/ Publish \/ EndBatch \/ RaiseUnavailable
    \/ \E o \in Offset :
          \/ DropExpired(o) \/ TakeCached(o) \/ CurateOne(o) \/ FailDocument(o)
          \/ CacheDecision(o) \/ FailHandoff(o)

Next == Step \/ Snapshot \/ Crash \/ Tick \/ \E s \in Elsewhere : ObserveElsewhere(s)

Spec == Init /\ [][Next]_vars

(* The process runs and is restarted, epochs end, time passes; the models   *)
(* need never answer.                                                      *)
Fairness == WF_vars(Step) /\ WF_vars(Snapshot) /\ WF_vars(Tick)
FairSpec == Spec /\ Fairness
-----------------------------------------------------------------------------
(* Type correctness; nothing is read ahead of the snapshot twice. *)
TypeOK ==
    /\ now \in 0..Horizon
    /\ log \in [Offset -> Payloads]
    /\ frontier \in 0..LogLength /\ frontier <= proc.read
    /\ index \in Index
    /\ cache \in [Payloads -> Decision \cup {None}]
    /\ proc \in Process
    /\ published \subseteq Message
    /\ dropped \in [Offset -> Dropped \cup {None}]
    /\ proc.pc = "caching" => proc.decision # None

(* processor/decision_cache.py:12: "replay returns the identical decision": *)
(* whatever is published again, after a crash or as a second copy of the   *)
(* payload, carries the decision of the first time.                        *)
ReplayIsIdentical ==
    \A m, n \in published : log[m.offset] = log[n.offset] => m.decision = n.decision

(* The frontier passes a message only when its decision is in every topic   *)
(* it belongs to, or it was dropped for a reason that is recorded; and the    *)
(* variables keep their types.                                             *)
NothingSkipped ==
    /\ TypeOK
    /\ \A o \in 1..frontier :
          \/ dropped[o] # None
          \/ /\ cache[log[o]] # None
             /\ \A t \in Topics(cache[log[o]]) :
                   [topic |-> t, offset |-> o, decision |-> cache[log[o]]] \in published

(* What goes into the corpus was observed: its document anchors a cluster   *)
(* that has its signature or a bucket of it.                               *)
TrainableIsAnchored ==
    \A m \in published : m.topic = "curated" =>
        LET s == Observation(log[m.offset]) IN
            \E c \in index.clusters : c = s \/ (c.doc = s.doc /\ c \in Candidates(index, s))

(* The partition is worked off even if the models stay unavailable for      *)
(* ever: what waits for them expires.                                      *)
PartitionIsRead == <>(frontier = LogLength)

-----------------------------------------------------------------------------
(* What a comment says and the code does not guarantee.                    *)

(* processor/curate.py:527: "skipping an expensive model call cannot create *)
(* a new acceptance or rejection rule": nothing enters the corpus unscored. *)
TrainableIsScored == \A m \in published : m.topic = "curated" => m.decision.scored
=============================================================================
