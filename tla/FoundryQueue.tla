---------------------------- MODULE FoundryQueue ----------------------------
(***************************************************************************)
(* The post-training foundry's candidate queue: the rows of the table      *)
(* candidate_queue (processor/foundry/store.py) and the replicas of the    *)
(* foundry worker (processor/foundry/worker.py) that claim, renew, finish, *)
(* release and defer them under expiring leases and fencing tokens.        *)
(*                                                                         *)
(* Every SQL statement of the store is one action: the store runs them in  *)
(* one transaction each, and a worker that makes several calls is stopped  *)
(* between any two of them by its variable phase.  The model abstracts a   *)
(* paper's Gold bytes to a revision, the retained scientific JSON to its   *)
(* presence, and every instant to the time left before it.  Which          *)
(* rows a run may claim (its cohort, boundary and rank) is the subject of  *)
(* module FoundryRuns: here any eligible row may be the one claimed.       *)
(***************************************************************************)
EXTENDS Integers, FiniteSets

CONSTANTS
    Docs,           \* the papers, by doc_id
    Workers,        \* the worker processes
    Owners,         \* the owner names a process may write into claim_owner
    WorkerId,       \* S2P_FOUNDRY_WORKER_ID of each process, by default a fresh
                    \* name; an operator may give several the same one
    Revisions,      \* the Gold payloads a paper may arrive with
    Tokens,         \* fencing tokens: "claim:" + uuid4
    None,           \* SQL NULL
    LeaseTicks,     \* candidate_lease_seconds, in ticks
    BackoffBase,    \* the 60 seconds of defer_candidate, in ticks
    BackoffCap,     \* its 3600 seconds, in ticks
    AttemptCap,     \* attempts counted before the delay no longer changes
    Skew,           \* how far a replica's reading of the clock may be off
    CrashLimit      \* bound: process deaths in one behaviour

(* A CandidateClaim; its owner_id is the worker's own. *)
Claim == [doc: Docs, token: Tokens, payload: Revisions]

ASSUME QueueAssumption ==
    /\ None \notin Docs \cup Owners \cup Revisions \cup Tokens \cup Claim
    /\ WorkerId \in [Workers -> Owners]
    /\ LeaseTicks \in Nat /\ BackoffBase \in Nat /\ BackoffCap \in Nat
    /\ Skew \in Nat /\ CrashLimit \in Nat
    /\ LeaseTicks > 2 * Skew
    /\ AttemptCap \in 1..7

VARIABLES
    row,            \* candidate_queue, a record for each paper
    generation,     \* candidate_control: the one-time reset has been applied
    phase,          \* where each worker's queue thread is
    claim,          \* the CandidateClaim each worker is working on
    lost,           \* CandidateLeaseHeartbeat._lost of that claim
    crashes         \* process deaths so far

vars == <<row, generation, phase, claim, lost, crashes>>
workerVars == <<phase, claim, lost>>

RowState == {"absent", "queued", "processing"}

(* What each stage of WorkerRuntime waits to do next. *)
ClaimedPhase == {"loading", "running", "concluded", "unavailable", "publishing",
                 "confirming", "finishing", "failed", "deferring", "releasing"}
Phase == {"down", "opened", "idle", "counting"} \cup ClaimedPhase

(* The reading of the clock a statement is computed with: datetime.now of  *)
(* one replica, taken before the store's lock and the database's locks.    *)
Reading == (-Skew)..Skew
LeaseTime == (-Skew)..(LeaseTicks + Skew)

(* scientific_payload, and the time left to next_attempt_at or its NULL. *)
Evidence == {"missing", "retained"}
NotDeferred == 0 - 1

Row == [state: RowState, payload: Revisions \cup {None}, evidence: Evidence,
        owner: Owners \cup {None}, token: Tokens \cup {None}, lease: LeaseTime,
        attempts: 0..AttemptCap, wait: NotDeferred..BackoffCap]

AbsentRow == [state |-> "absent", payload |-> None, evidence |-> "missing",
              owner |-> None, token |-> None, lease |-> 0,
              attempts |-> 0, wait |-> NotDeferred]

(* The row enqueue_candidate inserts. *)
NewRow(r, e) == [state |-> "queued", payload |-> r, evidence |-> e,
                 owner |-> None, token |-> None, lease |-> 0,
                 attempts |-> 0, wait |-> NotDeferred]

(* Mutant of Unclaimed: the token survives the return to the queue. *)
UnclaimedKeepingToken(r) == [r EXCEPT !.state = "queued", !.owner = None, !.lease = 0]

(* A claimed row returned to the queue: every claim column is set to NULL. *)
Unclaimed(r) == [r EXCEPT !.state = "queued", !.owner = None, !.token = None, !.lease = 0]

-----------------------------------------------------------------------------
(* A processing row without an owner was claimed by the unleased API of an *)
(* older release; its lease is NULL.                                       *)
Unleased(d) == row[d].state = "processing" /\ row[d].owner = None

Expired(d, now) == row[d].state = "processing" /\ row[d].owner # None /\ row[d].lease <= now

Live(d, now) == row[d].state = "processing" /\ (row[d].owner = None \/ row[d].lease > now)

(* Mutants of Fence: one column of the WHERE clause is forgotten. *)
FenceWithoutToken(w, now) ==
    row[claim[w].doc].owner = WorkerId[w] /\ row[claim[w].doc].lease > now

FenceWithoutExpiry(w, now) ==
    row[claim[w].doc].owner = WorkerId[w] /\ row[claim[w].doc].token = claim[w].token

(* The WHERE clause of every fenced mutation: owner, unexpired lease, token. *)
Fence(w, now) ==
    LET r == row[claim[w].doc] IN
        r.owner = WorkerId[w] /\ r.lease > now /\ r.token = claim[w].token

(* candidate_claim_owned and renew_candidate_lease also test the state. *)
ClaimOwned(w, now) ==
    phase[w] \in ClaimedPhase /\ row[claim[w].doc].state = "processing" /\ Fence(w, now)

(* Mutant of UsedTokens: a token off the table is taken for unused. *)
TokensOnRows == {row[d].token : d \in Docs}

(* uuid4: a token no row and no worker holds.  Tokens are only compared, so *)
(* one that everybody has forgotten may serve again.                        *)
UsedTokens ==
    {row[d].token : d \in Docs}
        \cup {claim[w].token : w \in {v \in Workers : phase[v] \in ClaimedPhase}}

(* 2 ** min(attempt - 1, 6) *)
Doubling == <<1, 2, 4, 8, 16, 32, 64>>
BackoffDelay(attempt) ==
    LET delay == BackoffBase * Doubling[attempt] IN
        IF delay < BackoffCap THEN delay ELSE BackoffCap

-----------------------------------------------------------------------------
(* A database the deployed release may find: rows of an earlier release,   *)
(* without retained evidence, at most one of them processing and unleased. *)
LegacyRow(s, r) == [NewRow(r, "missing") EXCEPT !.state = s]

Init ==
    /\ row \in [Docs -> {AbsentRow} \cup {LegacyRow(s, r) : s \in {"queued", "processing"}, r \in Revisions}]
    /\ \A d, e \in Docs : Unleased(d) /\ Unleased(e) => d = e
    /\ generation = FALSE
    /\ phase = [w \in Workers |-> "down"]
    /\ claim = [w \in Workers |-> None]
    /\ lost = [w \in Workers |-> FALSE]
    /\ crashes = 0

(* Move worker w on to phase p, keeping or dropping its claim. *)
Goto(w, p) == phase' = [phase EXCEPT ![w] = p] /\ UNCHANGED <<claim, lost>>

Drop(w, p) ==
    /\ phase' = [phase EXCEPT ![w] = p]
    /\ claim' = [claim EXCEPT ![w] = None]
    /\ lost' = [lost EXCEPT ![w] = FALSE]

-----------------------------------------------------------------------------
(* The store's constructor in WorkerRuntime.__init__: the one-time reset of *)
(* the candidate generation deletes waiting rows and keeps active ones.     *)
OpenStore(w) ==
    /\ phase[w] = "down"
    /\ row' = IF generation THEN row
              ELSE [d \in Docs |-> IF row[d].state = "queued" THEN AbsentRow ELSE row[d]]
    /\ generation' = TRUE
    /\ Goto(w, "opened")
    /\ UNCHANGED crashes

(* Mutant of RecoverExpired: lease_expires_at IS NULL is forgotten. *)
RecoverLeasedOnly(w, now) ==
    /\ phase[w] = "opened"
    /\ row' = [d \in Docs |-> IF Expired(d, now) THEN Unclaimed(row[d]) ELSE row[d]]
    /\ Goto(w, "idle")
    /\ UNCHANGED <<generation, crashes>>

(* recover_processing=True: expired and unleased claims return to the queue. *)
RecoverExpired(w, now) ==
    /\ phase[w] = "opened"
    /\ row' = [d \in Docs |->
                  IF Expired(d, now) \/ Unleased(d) THEN Unclaimed(row[d]) ELSE row[d]]
    /\ Goto(w, "idle")
    /\ UNCHANGED <<generation, crashes>>

(* Mutant of Enqueue: the upsert has no WHERE candidate_queue.state='queued'. *)
EnqueueOverwriting(d, r, e) ==
    /\ row' = [row EXCEPT ![d] = IF row[d].state = "absent" THEN NewRow(r, e)
                                 ELSE [row[d] EXCEPT !.payload = r, !.evidence = e]]
    /\ UNCHANGED <<generation, crashes, workerVars>>

(* enqueue_candidate: insert, or replace the payload of a row that still   *)
(* waits and differs; a processing row is left alone and the call succeeds. *)
Enqueue(d, r, e) ==
    /\ row' = [row EXCEPT ![d] =
                  IF row[d].state = "absent" THEN NewRow(r, e)
                  ELSE IF row[d].state = "queued" /\ (row[d].payload # r \/ row[d].evidence # e)
                       THEN [row[d] EXCEPT !.payload = r, !.evidence = e]
                       ELSE row[d]]
    /\ UNCHANGED <<generation, crashes, workerVars>>

(* remove_queued_candidate, and the deletions of waiting rows by which     *)
(* start_daily_run and request_manual_run clear what their boundary ended. *)
DropQueued(S) ==
    /\ \A d \in S : row[d].state = "queued"
    /\ row' = [d \in Docs |-> IF d \in S THEN AbsentRow ELSE row[d]]
    /\ UNCHANGED <<generation, crashes, workerVars>>

(* Mutant of Claimable: the serial clause is forgotten. *)
ClaimableInParallel(d, now) ==
    /\ row[d].state = "queued" \/ Expired(d, now)
    /\ row[d].wait <= 0

(* claim_candidate_lease: nothing may be actively processed, and the row    *)
(* waits, or its claim has expired, and its retry time has come.            *)
Claimable(d, now) ==
    /\ row[d].state = "queued" \/ Expired(d, now)
    /\ ~ \E e \in Docs : Live(e, now)
    /\ row[d].wait <= 0

(* Mutant of Claimed: a takeover renews the lease of the claim it finds. *)
ClaimedAsFound(r, w, t, now) ==
    IF r.state = "processing" THEN [r EXCEPT !.lease = LeaseTicks + now]
    ELSE [r EXCEPT !.state = "processing", !.owner = WorkerId[w],
                   !.token = t, !.lease = LeaseTicks + now]

Claimed(r, w, t, now) == [r EXCEPT !.state = "processing", !.owner = WorkerId[w],
                                   !.token = t, !.lease = LeaseTicks + now]

ClaimCandidate(w, d, t, now) ==
    /\ phase[w] = "idle"
    /\ Claimable(d, now)
    /\ row' = [row EXCEPT ![d] = Claimed(@, w, t, now)]
    /\ phase' = [phase EXCEPT ![w] = "loading"]
    /\ claim' = [claim EXCEPT ![w] = [doc |-> d, token |-> t, payload |-> row[d].payload]]
    /\ lost' = [lost EXCEPT ![w] = FALSE]
    /\ UNCHANGED <<generation, crashes>>

-----------------------------------------------------------------------------
(* _process_claimed_candidate, one action for each call on the store.      *)

(* The scientific JSON beside the Gold payload is read and validated. *)
LoadEvidence(w) ==
    /\ phase[w] = "loading"
    /\ row[claim[w].doc].evidence = "retained"
    /\ Goto(w, "running")
    /\ UNCHANGED <<row, generation, crashes>>

(* cache_candidate_scientific_payload: fenced; a lost lease raises. *)
CacheEvidence(w, now) ==
    /\ phase[w] = "loading"
    /\ row[claim[w].doc].evidence = "missing"
    /\ IF ClaimOwned(w, now)
       THEN row' = [row EXCEPT ![claim[w].doc].evidence = "retained"] /\ Goto(w, "running")
       ELSE UNCHANGED row /\ Goto(w, "releasing")
    /\ UNCHANGED <<generation, crashes>>

(* The pipeline ran to an accepted or rejected job, its source artifact is *)
(* gone, a provider failed transiently, or anything else was raised.       *)
PipelineEnds(w) ==
    /\ \/ phase[w] = "running" /\ Goto(w, "concluded")
       \/ phase[w] = "loading" /\ Goto(w, "unavailable")
       \/ phase[w] = "running" /\ Goto(w, "failed")
       \/ phase[w] \in {"loading", "running"} /\ Goto(w, "releasing")
    /\ UNCHANGED <<row, generation, crashes>>

(* CandidateLeaseHeartbeat.assert_owned *)
AssertOwned(w, now) == ~lost[w] /\ ClaimOwned(w, now)

(* Before the outbox is published: a job goes on to publish, a candidate    *)
(* without evidence has nothing to publish, a lost claim is given up.       *)
AssertBeforePublish(w, now) ==
    /\ phase[w] \in {"concluded", "unavailable"}
    /\ Goto(w, IF ~AssertOwned(w, now) THEN "releasing"
               ELSE IF phase[w] = "concluded" THEN "publishing" ELSE "confirming")
    /\ UNCHANGED <<row, generation, crashes>>

(* _flush_job_outbox to Kafka and the lakehouse: delivered, or it raises. *)
PublishOutbox(w) ==
    /\ phase[w] = "publishing"
    /\ Goto(w, "confirming") \/ Goto(w, "releasing")
    /\ UNCHANGED <<row, generation, crashes>>

(* The second assert_owned, outside the try: a failure is not released. *)
AssertBeforeFinish(w, now) ==
    /\ phase[w] = "confirming"
    /\ IF AssertOwned(w, now) THEN Goto(w, "finishing") ELSE Drop(w, "idle")
    /\ UNCHANGED <<row, generation, crashes>>

FinishCandidate(w, now) ==
    /\ phase[w] = "finishing"
    /\ IF Fence(w, now)
       THEN row' = [row EXCEPT ![claim[w].doc] = AbsentRow] /\ Drop(w, "counting")
       ELSE UNCHANGED row /\ Drop(w, "idle")
    /\ UNCHANGED <<generation, crashes>>

(* record_daily_processed and record_manual_processed, after the row is gone. *)
RecordProcessed(w) ==
    /\ phase[w] = "counting"
    /\ Goto(w, "idle")
    /\ UNCHANGED <<row, generation, crashes>>

(* ProviderError: assert_owned, then defer_candidate. *)
AssertBeforeDefer(w, now) ==
    /\ phase[w] = "failed"
    /\ IF AssertOwned(w, now) THEN Goto(w, "deferring") ELSE Drop(w, "idle")
    /\ UNCHANGED <<row, generation, crashes>>

Deferred(r) ==
    LET attempt == IF r.attempts < AttemptCap THEN r.attempts + 1 ELSE AttemptCap IN
        [Unclaimed(r) EXCEPT !.attempts = attempt, !.wait = BackoffDelay(attempt)]

DeferCandidate(w, now) ==
    /\ phase[w] = "deferring"
    /\ row' = IF Fence(w, now) THEN [row EXCEPT ![claim[w].doc] = Deferred(@)] ELSE row
    /\ Drop(w, "idle")
    /\ UNCHANGED <<generation, crashes>>

(* _release_candidate_if_owned: next_attempt_at is cleared, attempts stay. *)
ReleaseCandidate(w, now) ==
    /\ phase[w] = "releasing"
    /\ row' = IF Fence(w, now)
              THEN [row EXCEPT ![claim[w].doc] =
                       [Unclaimed(@) EXCEPT !.wait = NotDeferred]]
              ELSE row
    /\ Drop(w, "idle")
    /\ UNCHANGED <<generation, crashes>>

-----------------------------------------------------------------------------
(* One turn of the heartbeat thread: renew, or record the loss and end. An *)
(* exception of the database is swallowed: that turn changes nothing.      *)
Heartbeat(w, now) ==
    /\ phase[w] \in ClaimedPhase /\ ~lost[w]
    /\ IF ClaimOwned(w, now)
       THEN row' = [row EXCEPT ![claim[w].doc].lease = LeaseTicks + now] /\ UNCHANGED lost
       ELSE lost' = [lost EXCEPT ![w] = TRUE] /\ UNCHANGED row
    /\ UNCHANGED <<generation, crashes, phase, claim>>

(* A store call raises because the database is unreachable: the exception   *)
(* leaves _process_claimed_candidate, the row keeps its claim until expiry. *)
StoreUnavailable(w) ==
    /\ phase[w] \in ClaimedPhase
    /\ Drop(w, "idle")
    /\ UNCHANGED <<row, generation, crashes>>

Crash(w) ==
    /\ phase[w] # "down" /\ crashes < CrashLimit
    /\ crashes' = crashes + 1
    /\ Drop(w, "down")
    /\ UNCHANGED <<row, generation>>

(* Time passes: leases run out and retry times come nearer. *)
Aged(r) == [r EXCEPT !.lease = IF r.state = "processing" /\ r.owner # None /\ r.lease > -Skew
                               THEN r.lease - 1 ELSE r.lease,
                     !.wait = IF r.wait > 0 THEN r.wait - 1 ELSE r.wait]
Tick ==
    /\ row' = [d \in Docs |-> Aged(row[d])]
    /\ row' # row
    /\ UNCHANGED <<generation, crashes, workerVars>>

-----------------------------------------------------------------------------
(* A worker's queue thread. *)
Drain(w) ==
    \/ OpenStore(w)
    \/ LoadEvidence(w) \/ PipelineEnds(w) \/ PublishOutbox(w) \/ RecordProcessed(w)
    \/ \E now \in Reading :
          \/ RecoverExpired(w, now)
          \/ \E d \in Docs, t \in Tokens \ UsedTokens : ClaimCandidate(w, d, t, now)
          \/ CacheEvidence(w, now) \/ AssertBeforePublish(w, now) \/ AssertBeforeFinish(w, now)
          \/ FinishCandidate(w, now) \/ AssertBeforeDefer(w, now)
          \/ DeferCandidate(w, now) \/ ReleaseCandidate(w, now)

Intake ==
    \/ \E d \in Docs, r \in Revisions : Enqueue(d, r, "retained")
    \/ \E S \in SUBSET Docs : S # {} /\ DropQueued(S)

Faults(w) == StoreUnavailable(w) \/ Crash(w)

Next ==
    \/ Intake
    \/ Tick
    \/ \E w \in Workers : Drain(w) \/ Faults(w) \/ \E now \in Reading : Heartbeat(w, now)

Spec == Init /\ [][Next]_vars

(* Every replica's queue thread is scheduled and Kubernetes restarts a dead *)
(* one; time passes.  Arrivals, heartbeats, faults need not happen.         *)
FairSpec == Spec /\ WF_vars(Tick) /\ \A w \in Workers : WF_vars(Drain(w))
-----------------------------------------------------------------------------
(* Type correctness of the table and of the workers' local state: the       *)
(* claim columns of a row agree with its state, and a worker has a claim   *)
(* exactly while it processes one.                                         *)
RowOK(r) ==
    /\ r \in Row
    /\ r.state # "processing" => r.owner = None
    /\ r.owner = None <=> r.token = None
    /\ r.state = "absent" <=> r.payload = None

TypeOK ==
    /\ \A d \in Docs : RowOK(row[d])
    /\ DOMAIN row = Docs
    /\ generation \in BOOLEAN
    /\ phase \in [Workers -> Phase]
    /\ claim \in [Workers -> Claim \cup {None}]
    /\ lost \in [Workers -> BOOLEAN]
    /\ crashes \in 0..CrashLimit
    /\ \A w \in Workers : phase[w] \in ClaimedPhase <=> claim[w] # None

(* Fencing tokens identify a claim: no two rows and no two workers share   *)
(* one, and a worker whose token is still on a row works on that row,      *)
(* although processes may share an owner name and rows change hands.       *)
TokensIdentifyClaims ==
    /\ \A d, e \in Docs : row[d].token = row[e].token /\ row[d].token # None => d = e
    /\ \A v, w \in Workers :
          claim[v] # None /\ claim[w] # None /\ claim[v].token = claim[w].token => v = w
    /\ \A w \in Workers, d \in Docs :
          claim[w] # None /\ row[d].token = claim[w].token =>
              claim[w].doc = d /\ row[d].owner = WorkerId[w]

(* While the clocks agree at most one paper is actively processed: its      *)
(* lease is unexpired or it is an unleased row of an older release.        *)
OneActivePaper == \A d, e \in Docs : Live(d, Skew) /\ Live(e, Skew) => d = e

(* The bytes a worker claimed are the bytes of the row for as long as its   *)
(* token is on it: a revision that arrives meanwhile is not mixed in, and   *)
(* the row a worker deletes is the revision that it processed.             *)
ClaimedPayloadFrozen ==
    \A w \in Workers :
        claim[w] # None /\ row[claim[w].doc].token = claim[w].token =>
            row[claim[w].doc].payload = claim[w].payload

(* A loss the heartbeat has recorded is final: with clocks that agree the   *)
(* claim it belongs to never passes a fence again.                         *)
LostIsFinal ==
    \A w \in Workers : lost[w] => ~ClaimOwned(w, Skew)

(* Custody of a claimed row changes only by the fenced call of the worker  *)
(* that holds its token, or by a takeover or recovery after the lease ran  *)
(* out; and only the holder's finish_candidate deletes it.                 *)
HolderOf(w, d) == claim[w] # None /\ claim[w].doc = d /\ claim[w].token = row[d].token
FencedMutation ==
    [][\A d \in Docs :
          row[d].token # None /\ row'[d].token # row[d].token =>
              \/ row[d].lease <= Skew /\ row'[d].state \in {"queued", "processing"}
              \/ \E w \in Workers :
                    /\ HolderOf(w, d) /\ claim'[w] = None
                    /\ row[d].lease > -Skew
                    /\ row'[d].state = "absent" => phase[w] = "finishing"]_vars

(* The fleet is never wedged: while papers wait or are pinned by a claim,  *)
(* some worker eventually holds a live claim, whatever crashed before.     *)
NeverWedged ==
    (\E d \in Docs : row[d].state # "absent") ~>
        \/ \A d \in Docs : row[d].state = "absent"
        \/ \E w \in Workers : ClaimOwned(w, 0)

(* The queue keeps the promise of CandidateCustody.                        *)
CustodyStage(d) ==
    IF row[d].state # "processing" THEN row[d].state
    ELSE IF Live(d, 0) THEN "held" ELSE "lapsed"

Custody == INSTANCE CandidateCustody WITH
    Grants <- Tokens,
    stage <- [d \in Docs |-> CustodyStage(d)],
    revision <- [d \in Docs |-> row[d].payload],
    grant <- [d \in Docs |-> row[d].token],
    task <- [w \in Workers |-> IF claim[w] = None THEN None
                               ELSE [doc |-> claim[w].doc, grant |-> claim[w].token]]

ImplementsCustody == Custody!Spec

-----------------------------------------------------------------------------
(* What the documentation says and the code does not guarantee.            *)

(* docs/POSTTRAIN_FOUNDRY.md:111: "another replica may reclaim the paper,  *)
(* while the stale owner can no longer publish or mutate it".              *)
StaleOwnerNeverPublishes ==
    [][\A w \in Workers :
          phase[w] = "publishing" /\ phase'[w] = "confirming" =>
              \A v \in Workers \ {w} : ~(ClaimOwned(v, 0) /\ claim[v].doc = claim[w].doc)]_vars
=============================================================================
