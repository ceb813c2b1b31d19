------------------------------ MODULE NearDup ------------------------------
(***************************************************************************)
(* PostgresLSHIndex.observe (processor/operators/lshbloom.py): a           *)
(* transaction takes the advisory locks of all bucket keys of a signature  *)
(* in sorted order, probes the buckets while it holds them, and registers  *)
(* a cluster when nothing matches.  Connections are lost before, at and    *)
(* after the commit, and the operation is repeated once.                   *)
(*                                                                         *)
(* Lock ids, 64-bit hashes of the keys, are taken to be distinct.          *)
(***************************************************************************)
EXTENDS LSHIndex, FiniteSets

CONSTANTS
    Workers,        \* the curator replicas, one observation at a time each
    LegacyTables,   \* the band tables a deployment may start from
    Order,          \* the sorting order of the cluster keys
    FaultLimit      \* bound: connections lost and processes killed

ASSUME NearDupAssumption ==
    /\ LegacyTables \subseteq SUBSET Keys
    /\ Order \in [Keys -> Nat] /\ \A k, l \in Keys : Order[k] = Order[l] => k = l
    /\ FaultLimit \in Nat
    /\ None \notin Workers

VARIABLES
    index,          \* the committed tables
    holder,         \* pg_advisory_xact_lock: the worker that holds each key
    at,             \* where each worker's observe is
    reply,          \* what its last observe returned
    faults

vars == <<index, holder, at, reply, faults>>

(* done: a history of the observation, whether a write of it was committed. *)
Stage == {"idle", "locking", "answering"}
Position == [pc: Stage, sub: Submission \cup {None}, attempt: {0, 1},
             duplicate: BOOLEAN, new: BOOLEAN, done: BOOLEAN]
Idle == [pc |-> "idle", sub |-> None, attempt |-> 0,
         duplicate |-> FALSE, new |-> FALSE, done |-> FALSE]

Init ==
    /\ index \in {EmptyIndex(t) : t \in LegacyTables}
    /\ holder = [k \in Keys |-> None]
    /\ at = [w \in Workers |-> Idle]
    /\ reply = [w \in Workers |-> None]
    /\ faults = 0

-----------------------------------------------------------------------------
(* Mutant: the locks belong to the session, not to the transaction. *)
StillLocked(w) == holder
Unlocked(w) == [k \in Keys |-> IF holder[k] = w THEN None ELSE holder[k]]

(* The keys of its signature that a worker does not hold yet. *)
Missing(w) == {k \in KeysOf[at[w].sub.sig] : holder[k] # w}

(* Mutant: the keys are locked in the order of the bands, or any other. *)
AnyKey(w, k) == k \in Missing(w)

(* The loop over sorted(cluster_keys). *)
NextKey(w, k) == k \in Missing(w) /\ \A l \in Missing(w) : Order[k] <= Order[l]

Observe(w, s) ==
    /\ at[w].pc = "idle"
    /\ at' = [at EXCEPT ![w] = [Idle EXCEPT !.pc = "locking", !.sub = s]]
    /\ reply' = [reply EXCEPT ![w] = None]
    /\ UNCHANGED <<index, holder, faults>>

(* pg_advisory_xact_lock waits for the holder's transaction to end. *)
Lock(w) ==
    /\ at[w].pc = "locking"
    /\ \E k \in Keys : NextKey(w, k) /\ holder[k] = None /\ holder' = [holder EXCEPT ![k] = w]
    /\ UNCHANGED <<index, at, reply, faults>>

(* Mutant: the answer of the speculative probe is used. *)
ProbeUnlocked(w) ==
    /\ at[w].pc = "locking"
    /\ at' = [at EXCEPT ![w].pc = "answering",
                        ![w].duplicate = IsNearDuplicate(index, at[w].sub),
                        ![w].new = IsNew(index, at[w].sub)]
    /\ UNCHANGED <<index, holder, reply, faults>>

(* The reads of the transaction, under all the locks. *)
Probe(w) ==
    /\ at[w].pc = "locking" /\ Missing(w) = {}
    /\ at' = [at EXCEPT ![w].pc = "answering",
                        ![w].duplicate = IsNearDuplicate(index, at[w].sub),
                        ![w].new = IsNew(index, at[w].sub)]
    /\ UNCHANGED <<index, holder, reply, faults>>

(* Mutant: a cluster is registered although another one answers for it. *)
WrittenAlways(w) == Registered(index, at[w].sub)
Written(w) == IF at[w].new THEN Registered(index, at[w].sub) ELSE index

(* The inserts become visible with the commit, which frees the locks. *)
Commit(w) ==
    /\ at[w].pc = "answering"
    /\ index' = Written(w)
    /\ holder' = Unlocked(w)
    /\ reply' = [reply EXCEPT ![w] = IF at[w].duplicate THEN "duplicate" ELSE "unique"]
    /\ at' = [at EXCEPT ![w] = Idle]
    /\ UNCHANGED faults

(* The connection is lost, at the commit with either outcome, which the     *)
(* locks of the lost session keep from the repetition until it is settled; *)
(* the second loss of one observation is raised.                           *)
LoseConnection(w) ==
    /\ at[w].pc # "idle" /\ faults < FaultLimit
    /\ faults' = faults + 1
    /\ \E committed \in BOOLEAN :
          /\ committed => at[w].pc = "answering"
          /\ index' = IF committed THEN Written(w) ELSE index
          /\ at' = [at EXCEPT ![w] =
                IF @.attempt = 0
                THEN [Idle EXCEPT !.pc = "locking", !.sub = at[w].sub, !.attempt = 1,
                                  !.done = committed /\ at[w].new]
                ELSE Idle]
    /\ holder' = Unlocked(w)
    /\ UNCHANGED reply

(* The process dies and its session with it. *)
Crash(w) ==
    /\ at[w].pc # "idle" /\ faults < FaultLimit
    /\ faults' = faults + 1
    /\ index' \in {index} \cup (IF at[w].pc = "answering" THEN {Written(w)} ELSE {})
    /\ holder' = Unlocked(w)
    /\ at' = [at EXCEPT ![w] = Idle]
    /\ UNCHANGED reply

Step(w) == Lock(w) \/ Probe(w) \/ Commit(w)

Next == \E w \in Workers :
            Step(w) \/ LoseConnection(w) \/ Crash(w) \/ \E s \in Submission : Observe(w, s)

Spec == Init /\ [][Next]_vars

(* A lock is granted in the order of its queue, so that a waiter gets it    *)
(* when it becomes free again and again; a transaction goes on.            *)
FairSpec == Spec /\ \A w \in Workers : SF_vars(Lock(w)) /\ WF_vars(Probe(w) \/ Commit(w))
-----------------------------------------------------------------------------
(* Type correctness; a worker has a submission exactly while it observes    *)
(* one, and no lock outlives its transaction.                              *)
TypeOK ==
    /\ index \in Index
    /\ holder \in [Keys -> Workers \cup {None}]
    /\ at \in [Workers -> Position]
    /\ reply \in [Workers -> {"unique", "duplicate", None}]
    /\ faults \in 0..FaultLimit
    /\ \A w \in Workers : at[w].pc # "idle" <=> at[w].sub # None
    /\ \A k \in Keys : holder[k] # None => at[holder[k]].pc # "idle"

(* "A speculative prefetch cannot race another replica into admitting two   *)
(* members of the same near-duplicate cluster": a cluster owns no bucket    *)
(* of another one whose anchor is similar to its own, or the same document. *)
ClustersApart ==
    \A c, e \in index.clusters :
        c # e /\ (c.doc = e.doc \/ <<c.sig, e.sig>> \in Similar) =>
            \A k \in KeysOf[c.sig] : index.owner[k] # e

(* A registered document is never found to be a duplicate of itself or of   *)
(* a cluster registered after it, when it is replayed or its observation   *)
(* is repeated after a commit whose reply was lost.                        *)
ReplayStaysUnique ==
    ~UsesLegacyBands(index) =>
        \A w \in Workers :
            at[w].pc = "answering" /\ (at[w].sub \in index.clusters \/ at[w].done) =>
                ~at[w].duplicate

(* Every observation ends: replicas that need each other's buckets do not   *)
(* wait for each other for ever.                                           *)
ObservationsEnd == \A w \in Workers : at[w].pc # "idle" ~> at[w].pc = "idle"

(* Whatever the interleaving, the answers are those of an index that is     *)
(* observed in one instant.                                                *)
Atomic == INSTANCE DupIndex WITH
    task <- [w \in Workers |-> at[w].sub]

ImplementsDupIndex == Atomic!Spec

-----------------------------------------------------------------------------
(* What a comment says and the code does not guarantee.                    *)

(* processor/operators/lshbloom.py:651: "Replay one idempotent operation    *)
(* after a primary connection loss": the repetition of an observation that *)
(* was committed does not answer that the document duplicates itself.      *)
RepetitionIsIdempotent ==
    \A w \in Workers : at[w].pc = "answering" /\ at[w].done => ~at[w].duplicate
=============================================================================
