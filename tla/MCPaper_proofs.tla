----------------------------- MODULE MCPaper_proofs -----------------------------
(***************************************************************************)
(* Theorems about the way of a paper to the foundry, for every value of the  *)
(* constants: the queue of the foundry (FoundryQueue: type correctness, its   *)
(* safety, the refinement of CandidateCustody); the inductive invariants of   *)
(* the other parts of MCPaper but the cut-over; and that the composed         *)
(* specifications keep what these parts promise.                            *)
(***************************************************************************)
EXTENDS MCPaper, FiniteSetTheorems, WellFoundedInduction, TLAPS

-----------------------------------------------------------------------------
(* Operators on rows. *)

LEMMA RangeFacts ==
    /\ 0 \in LeaseTime /\ NotDeferred \in NotDeferred..BackoffCap /\ 0 \in 0..AttemptCap
    /\ \A now \in Reading : LeaseTicks + now \in LeaseTime
  BY QueueAssumption DEF LeaseTime, NotDeferred, Reading

LEMMA BackoffBounded ==
    ASSUME NEW attempt \in 1..AttemptCap
    PROVE  BackoffDelay(attempt) \in 0..BackoffCap
  <1>1. Doubling[attempt] \in Nat
    BY QueueAssumption DEF Doubling
  <1>2. BackoffBase * Doubling[attempt] \in Nat
    BY <1>1, QueueAssumption
  <1> QED  BY <1>2, QueueAssumption DEF BackoffDelay

LEMMA AbsentOK == RowOK(AbsentRow)
  BY QueueAssumption, RangeFacts DEF RowOK, AbsentRow, Row, RowState, Evidence

LEMMA NewOK == ASSUME NEW r \in Revisions, NEW e \in Evidence PROVE RowOK(NewRow(r, e))
  <1>1. r # None  BY QueueAssumption
  <1> QED  BY <1>1, RangeFacts DEF RowOK, Row, RowState, NewRow

LEMMA LegacyOK ==
    ASSUME NEW s \in {"queued", "processing"}, NEW r \in Revisions
    PROVE  RowOK(LegacyRow(s, r)) /\ LegacyRow(s, r).token = None
  <1>1. RowOK(NewRow(r, "missing"))  BY NewOK DEF Evidence
  <1>2. NewRow(r, "missing").owner = None /\ NewRow(r, "missing").token = None
        /\ NewRow(r, "missing").state = "queued"
    BY DEF NewRow
  <1> HIDE DEF NewRow
  <1> QED  BY <1>1, <1>2 DEF LegacyRow, RowOK, Row, RowState

LEMMA RevisedOK ==
    ASSUME NEW x, RowOK(x), x.state = "queued", NEW r \in Revisions, NEW e \in Evidence
    PROVE  RowOK([x EXCEPT !.payload = r, !.evidence = e])
  <1>1. r # None  BY QueueAssumption
  <1> QED  BY <1>1 DEF RowOK, Row

LEMMA UnclaimedOK ==
    ASSUME NEW x, RowOK(x), x.state # "absent"
    PROVE  RowOK(Unclaimed(x)) /\ Unclaimed(x).token = None
  BY RangeFacts DEF RowOK, Unclaimed, Row, RowState

LEMMA ReleasedOK ==
    ASSUME NEW x, RowOK(x), x.state # "absent"
    PROVE  RowOK([Unclaimed(x) EXCEPT !.wait = NotDeferred])
  BY UnclaimedOK, RangeFacts DEF RowOK, Row, RowState

LEMMA DeferredOK ==
    ASSUME NEW x, RowOK(x), x.state # "absent"
    PROVE  RowOK(Deferred(x)) /\ Deferred(x).token = None
  <1> DEFINE attempt == IF x.attempts < AttemptCap THEN x.attempts + 1 ELSE AttemptCap
             y == Unclaimed(x)
  <1>1. attempt \in 1..AttemptCap
    BY QueueAssumption DEF RowOK, Row
  <1>2. BackoffDelay(attempt) \in NotDeferred..BackoffCap
    BY <1>1, BackoffBounded, QueueAssumption DEF NotDeferred
  <1>3. Deferred(x) = [y EXCEPT !.attempts = attempt, !.wait = BackoffDelay(attempt)]
    BY DEF Deferred
  <1>4. RowOK(y) /\ y.token = None
    BY UnclaimedOK
  <1>5. attempt \in 0..AttemptCap
    BY <1>1, QueueAssumption
  <1> HIDE DEF attempt, y
  <1> QED  BY <1>2, <1>3, <1>4, <1>5 DEF RowOK, Row

LEMMA ClaimedOK ==
    ASSUME NEW x, RowOK(x), x.state # "absent",
           NEW w \in Workers, NEW t \in Tokens, NEW now \in Reading
    PROVE  RowOK(Claimed(x, w, t, now))
  <1>1. WorkerId[w] \in Owners /\ WorkerId[w] # None /\ t # None
    BY QueueAssumption
  <1> QED  BY <1>1, RangeFacts DEF RowOK, Claimed, Row, RowState

LEMMA RenewedOK ==
    ASSUME NEW x, RowOK(x), NEW now \in Reading
    PROVE  RowOK([x EXCEPT !.lease = LeaseTicks + now])
  BY RangeFacts DEF RowOK, Row

LEMMA RetainedOK ==
    ASSUME NEW x, RowOK(x)
    PROVE  RowOK([x EXCEPT !.evidence = "retained"])
  BY DEF RowOK, Row, Evidence

LEMMA AgedOK ==
    ASSUME NEW x, RowOK(x)
    PROVE  RowOK(Aged(x)) /\ Aged(x).token = x.token
  <1> DEFINE left == IF x.state = "processing" /\ x.owner # None /\ x.lease > -Skew
                     THEN x.lease - 1 ELSE x.lease
             wait == IF x.wait > 0 THEN x.wait - 1 ELSE x.wait
  <1>1. left \in LeaseTime
    BY QueueAssumption DEF RowOK, Row, LeaseTime
  <1>2. wait \in NotDeferred..BackoffCap
    BY QueueAssumption DEF RowOK, Row, NotDeferred
  <1>3. Aged(x) = [x EXCEPT !.lease = left, !.wait = wait]
    BY DEF Aged
  <1> HIDE DEF left, wait
  <1> QED  BY <1>1, <1>2, <1>3 DEF RowOK, Row

-----------------------------------------------------------------------------
(* The two halves of TypeOK: the table, and the workers. *)

TableOK == /\ \A d \in Docs : RowOK(row[d])
           /\ DOMAIN row = Docs
WorkersOK == /\ phase \in [Workers -> Phase]
             /\ claim \in [Workers -> Claim \cup {None}]
             /\ lost \in [Workers -> BOOLEAN]
             /\ \A w \in Workers : phase[w] \in ClaimedPhase <=> claim[w] # None

LEMMA TypeParts ==
    TypeOK <=> TableOK /\ WorkersOK /\ generation \in BOOLEAN /\ crashes \in 0..CrashLimit
  BY DEF TypeOK, TableOK, WorkersOK

(* One row is replaced. *)
LEMMA TableUpdate ==
    ASSUME TableOK, NEW d \in Docs, NEW x, RowOK(x), row' = [row EXCEPT ![d] = x]
    PROVE  TableOK'
  BY DEF TableOK

(* A worker moves on with its claim, or drops it, or nothing changes. *)
LEMMA WorkersMove ==
    ASSUME WorkersOK, NEW w \in Workers, phase[w] \in ClaimedPhase,
           NEW p \in ClaimedPhase, Goto(w, p)
    PROVE  WorkersOK'
  <1>1. p \in Phase  BY DEF Phase
  <1> QED  BY <1>1 DEF WorkersOK, Goto

LEMMA WorkersDrop ==
    ASSUME WorkersOK, NEW w \in Workers, NEW p \in {"down", "idle", "counting"}, Drop(w, p)
    PROVE  WorkersOK'
  <1>1. p \in Phase /\ p \notin ClaimedPhase  BY DEF Phase, ClaimedPhase
  <1> HIDE DEF Phase, ClaimedPhase
  <1> QED  BY <1>1 DEF WorkersOK, Drop

LEMMA WorkersStay ==
    ASSUME WorkersOK, UNCHANGED workerVars
    PROVE  WorkersOK'
  BY DEF WorkersOK, workerVars

(* A worker without a claim moves on without one. *)
LEMMA WorkersIdle ==
    ASSUME WorkersOK, NEW w \in Workers, phase[w] \notin ClaimedPhase,
           NEW p \in {"opened", "idle"}, Goto(w, p)
    PROVE  WorkersOK'
  <1>1. p \in Phase /\ p \notin ClaimedPhase  BY DEF Phase, ClaimedPhase
  <1> HIDE DEF Phase, ClaimedPhase
  <1> QED  BY <1>1 DEF WorkersOK, Goto

(* A worker in a claimed phase has a claim, and a row that passes its fence *)
(* is being processed.                                                     *)
LEMMA Holding ==
    ASSUME WorkersOK, NEW w \in Workers, phase[w] \in ClaimedPhase
    PROVE  /\ claim[w] # None /\ claim[w].doc \in Docs
           /\ claim[w].token \in Tokens /\ claim[w].token # None
           /\ claim[w].payload \in Revisions
  <1>1. claim[w] \in Claim
    BY DEF WorkersOK
  <1> QED  BY <1>1, QueueAssumption DEF Claim

LEMMA FencedRow ==
    ASSUME TableOK, WorkersOK, NEW w \in Workers, phase[w] \in ClaimedPhase,
           NEW now \in Reading, Fence(w, now)
    PROVE  /\ claim[w].doc \in Docs /\ row[claim[w].doc].state = "processing"
           /\ RowOK(row[claim[w].doc])
  <1>1. claim[w].doc \in Docs
    BY Holding
  <1>2. WorkerId[w] # None
    BY QueueAssumption
  <1> QED  BY <1>1, <1>2 DEF TableOK, RowOK, Fence

LEMMA ExpiredRow ==
    ASSUME TableOK, NEW d \in Docs, NEW now, Expired(d, now) \/ Unleased(d)
    PROVE  row[d].state # "absent" /\ RowOK(row[d])
  BY DEF TableOK, Expired, Unleased

-----------------------------------------------------------------------------
(* The types hold initially and are preserved by every action.             *)

LEMMA TypeInit == Init => TypeOK
  <1> SUFFICES ASSUME Init PROVE TypeOK
    OBVIOUS
  <1>1. TableOK
    BY AbsentOK, LegacyOK DEF Init, TableOK
  <1>2. WorkersOK
    BY DEF Init, WorkersOK, Phase, ClaimedPhase
  <1>3. generation \in BOOLEAN
    BY Zenon DEF Init
  <1>4. crashes \in 0..CrashLimit
    BY QueueAssumption DEF Init
  <1> QED  BY <1>1, <1>2, <1>3, <1>4, TypeParts

LEMMA TableStep ==
    ASSUME TypeOK, [Next]_vars
    PROVE  TableOK'
  <1> USE TypeParts
  <1>0. TableOK /\ WorkersOK
    OBVIOUS
  <1>1. ASSUME NEW d \in Docs, NEW r \in Revisions, Enqueue(d, r, "retained") PROVE TableOK'
    <2>1. RowOK(row[d]) /\ RowOK(NewRow(r, "retained"))
      BY <1>0, NewOK DEF TableOK, Evidence
    <2>2. row[d].state = "queued" =>
              RowOK([row[d] EXCEPT !.payload = r, !.evidence = "retained"])
      BY <2>1, RevisedOK DEF Evidence
    <2> DEFINE x == IF row[d].state = "absent" THEN NewRow(r, "retained")
                    ELSE IF row[d].state = "queued" /\ (row[d].payload # r \/ row[d].evidence # "retained")
                         THEN [row[d] EXCEPT !.payload = r, !.evidence = "retained"]
                         ELSE row[d]
    <2>3. RowOK(x)
      BY <2>1, <2>2
    <2>4. row' = [row EXCEPT ![d] = x]
      BY <1>1 DEF Enqueue
    <2> HIDE DEF x
    <2> QED  BY <1>0, <2>3, <2>4, TableUpdate
  <1>2. ASSUME NEW S \in SUBSET Docs, DropQueued(S) PROVE TableOK'
    BY <1>0, <1>2, AbsentOK DEF DropQueued, TableOK
  <1>3. CASE Tick
    BY <1>0, <1>3, AgedOK DEF Tick, TableOK
  <1>4. ASSUME NEW w \in Workers, OpenStore(w) PROVE TableOK'
    BY <1>0, <1>4, AbsentOK DEF OpenStore, TableOK
  <1>5. ASSUME NEW w \in Workers, NEW now \in Reading, RecoverExpired(w, now) PROVE TableOK'
    <2>1. \A d \in Docs : Expired(d, now) \/ Unleased(d) => RowOK(Unclaimed(row[d]))
      BY <1>0, ExpiredRow, UnclaimedOK
    <2> QED  BY <1>0, <1>5, <2>1 DEF RecoverExpired, TableOK
  <1>6. ASSUME NEW w \in Workers, NEW now \in Reading, NEW d \in Docs, NEW t \in Tokens,
               ClaimCandidate(w, d, t, now)
        PROVE  TableOK'
    <2>1. RowOK(row[d]) /\ row[d].state # "absent"
      BY <1>0, <1>6 DEF TableOK, ClaimCandidate, Claimable, Expired
    <2>2. RowOK(Claimed(row[d], w, t, now))
      BY <2>1, ClaimedOK
    <2>3. row' = [row EXCEPT ![d] = Claimed(row[d], w, t, now)]
      BY <1>6 DEF ClaimCandidate
    <2> QED  BY <1>0, <2>2, <2>3, TableUpdate
  <1>7. ASSUME NEW w \in Workers, NEW now \in Reading, CacheEvidence(w, now) PROVE TableOK'
    <2>1. claim[w].doc \in Docs
      BY <1>0, <1>7, Holding DEF CacheEvidence, ClaimedPhase
    <2>2. RowOK([row[claim[w].doc] EXCEPT !.evidence = "retained"])
      BY <1>0, <2>1, RetainedOK DEF TableOK
    <2>3. \/ row' = [row EXCEPT ![claim[w].doc] = [row[claim[w].doc] EXCEPT !.evidence = "retained"]]
          \/ row' = row
      BY <1>7 DEF CacheEvidence
    <2> QED  BY <1>0, <2>1, <2>2, <2>3, TableUpdate DEF TableOK
  <1>8. ASSUME NEW w \in Workers, NEW now \in Reading, FinishCandidate(w, now) PROVE TableOK'
    <2>1. claim[w].doc \in Docs
      BY <1>0, <1>8, Holding DEF FinishCandidate, ClaimedPhase
    <2>2. row' = [row EXCEPT ![claim[w].doc] = AbsentRow] \/ row' = row
      BY <1>8 DEF FinishCandidate
    <2> QED  BY <1>0, <2>1, <2>2, AbsentOK, TableUpdate DEF TableOK
  <1>9. ASSUME NEW w \in Workers, NEW now \in Reading, DeferCandidate(w, now) PROVE TableOK'
    <2>1. CASE Fence(w, now)
      <3>1. claim[w].doc \in Docs /\ RowOK(Deferred(row[claim[w].doc]))
        BY <1>0, <1>9, <2>1, FencedRow, DeferredOK DEF DeferCandidate, ClaimedPhase
      <3>2. row' = [row EXCEPT ![claim[w].doc] = Deferred(row[claim[w].doc])]
        BY <1>9, <2>1 DEF DeferCandidate
      <3> QED  BY <1>0, <3>1, <3>2, TableUpdate
    <2>2. CASE ~Fence(w, now)
      BY <1>0, <1>9, <2>2 DEF DeferCandidate, TableOK
    <2> QED  BY <2>1, <2>2
  <1>10. ASSUME NEW w \in Workers, NEW now \in Reading, ReleaseCandidate(w, now) PROVE TableOK'
    <2> DEFINE x == [Unclaimed(row[claim[w].doc]) EXCEPT !.wait = NotDeferred]
    <2>1. CASE Fence(w, now)
      <3>1. claim[w].doc \in Docs /\ RowOK(x)
        BY <1>0, <1>10, <2>1, FencedRow, ReleasedOK DEF ReleaseCandidate, ClaimedPhase
      <3>2. row' = [row EXCEPT ![claim[w].doc] = x]
        BY <1>10, <2>1 DEF ReleaseCandidate
      <3> HIDE DEF x
      <3> QED  BY <1>0, <3>1, <3>2, TableUpdate
    <2>2. CASE ~Fence(w, now)
      BY <1>0, <1>10, <2>2 DEF ReleaseCandidate, TableOK
    <2> QED  BY <2>1, <2>2
  <1>11. ASSUME NEW w \in Workers, NEW now \in Reading, Heartbeat(w, now) PROVE TableOK'
    <2> DEFINE x == [row[claim[w].doc] EXCEPT !.lease = LeaseTicks + now]
    <2>1. claim[w].doc \in Docs
      BY <1>0, <1>11, Holding DEF Heartbeat
    <2>2. RowOK(x)
      BY <1>0, <2>1, RenewedOK DEF TableOK
    <2>3. row' = [row EXCEPT ![claim[w].doc] = x] \/ row' = row
      BY <1>11 DEF Heartbeat
    <2> HIDE DEF x
    <2> QED  BY <1>0, <2>1, <2>2, <2>3, TableUpdate DEF TableOK
  <1>12. ASSUME UNCHANGED row PROVE TableOK'
    BY <1>0, <1>12 DEF TableOK
  <1>13. ASSUME NEW w \in Workers,
                \/ LoadEvidence(w) \/ PipelineEnds(w) \/ PublishOutbox(w) \/ RecordProcessed(w)
                \/ Faults(w)
                \/ \E now \in Reading : AssertBeforePublish(w, now)
                       \/ AssertBeforeFinish(w, now) \/ AssertBeforeDefer(w, now)
         PROVE  TableOK'
    <2>1. UNCHANGED row
      BY <1>13 DEF LoadEvidence, PipelineEnds, PublishOutbox, RecordProcessed, Faults,
                   StoreUnavailable, Crash, AssertBeforePublish, AssertBeforeFinish,
                   AssertBeforeDefer
    <2> QED  BY <2>1, <1>12
  <1>14. CASE UNCHANGED vars
    BY <1>12, <1>14 DEF vars
  <1> QED
    BY <1>1, <1>2, <1>3, <1>4, <1>5, <1>6, <1>7, <1>8, <1>9, <1>10, <1>11, <1>13, <1>14
       DEF Next, Intake, Drain

LEMMA WorkersStep ==
    ASSUME TypeOK, [Next]_vars
    PROVE  WorkersOK'
  <1>0. TableOK /\ WorkersOK
    BY TypeParts
  <1>1. CASE Intake \/ Tick \/ UNCHANGED vars
    <2>1. UNCHANGED workerVars
      BY <1>1 DEF Intake, Enqueue, DropQueued, Tick, vars, workerVars
    <2> QED  BY <1>0, <2>1, WorkersStay
  <1>2. ASSUME NEW w \in Workers, NEW now \in Reading,
               OpenStore(w) \/ RecoverExpired(w, now) \/ RecordProcessed(w)
        PROVE  WorkersOK'
    <2>1. /\ phase[w] \notin ClaimedPhase
          /\ \E p \in {"opened", "idle"} : Goto(w, p)
      BY <1>2 DEF OpenStore, RecoverExpired, RecordProcessed, ClaimedPhase
    <2> QED  BY <1>0, <2>1, WorkersIdle
  <1>3. ASSUME NEW w \in Workers, NEW now \in Reading, NEW d \in Docs, NEW t \in Tokens,
               ClaimCandidate(w, d, t, now)
        PROVE  WorkersOK'
    <2>1. row[d].payload \in Revisions
      BY <1>0, <1>3 DEF TableOK, RowOK, Row, ClaimCandidate, Claimable, Expired
    <2> DEFINE c == [doc |-> d, token |-> t, payload |-> row[d].payload]
    <2>2. c \in Claim /\ c # None
      BY <2>1, QueueAssumption DEF Claim
    <2>3. "loading" \in Phase /\ "loading" \in ClaimedPhase
      BY DEF Phase, ClaimedPhase
    <2>4. /\ phase' = [phase EXCEPT ![w] = "loading"]
          /\ claim' = [claim EXCEPT ![w] = c]
          /\ lost' = [lost EXCEPT ![w] = FALSE]
      BY <1>3 DEF ClaimCandidate
    <2> HIDE DEF c, Phase, ClaimedPhase
    <2> QED  BY <1>0, <2>2, <2>3, <2>4 DEF WorkersOK
  <1>4. ASSUME NEW w \in Workers, NEW now \in Reading,
               \/ LoadEvidence(w) \/ CacheEvidence(w, now) \/ PipelineEnds(w)
               \/ AssertBeforePublish(w, now) \/ PublishOutbox(w)
               \/ AssertBeforeFinish(w, now) \/ AssertBeforeDefer(w, now)
               \/ FinishCandidate(w, now) \/ DeferCandidate(w, now)
               \/ ReleaseCandidate(w, now) \/ StoreUnavailable(w)
        PROVE  WorkersOK'
    <2>1. phase[w] \in ClaimedPhase
      BY <1>4 DEF LoadEvidence, CacheEvidence, PipelineEnds, AssertBeforePublish, PublishOutbox,
                  AssertBeforeFinish, AssertBeforeDefer, FinishCandidate, DeferCandidate,
                  ReleaseCandidate, StoreUnavailable, ClaimedPhase
    <2>2. \/ \E p \in ClaimedPhase : Goto(w, p)
          \/ \E p \in {"down", "idle", "counting"} : Drop(w, p)
      BY <1>4 DEF LoadEvidence, CacheEvidence, PipelineEnds, AssertBeforePublish, PublishOutbox,
                  AssertBeforeFinish, AssertBeforeDefer, FinishCandidate, DeferCandidate,
                  ReleaseCandidate, StoreUnavailable, ClaimedPhase
    <2> QED  BY <1>0, <2>1, <2>2, WorkersMove, WorkersDrop
  <1>5. ASSUME NEW w \in Workers, Crash(w) PROVE WorkersOK'
    BY <1>0, <1>5, WorkersDrop DEF Crash
  <1>6. ASSUME NEW w \in Workers, NEW now \in Reading, Heartbeat(w, now) PROVE WorkersOK'
    <2>1. UNCHANGED <<phase, claim>> /\ (UNCHANGED lost \/ lost' = [lost EXCEPT ![w] = TRUE])
      BY <1>6 DEF Heartbeat
    <2> QED  BY <1>0, <2>1 DEF WorkersOK
  <1>7. 0 \in Reading
    BY QueueAssumption DEF Reading
  <1> QED
    BY <1>1, <1>2, <1>3, <1>4, <1>5, <1>6, <1>7 DEF Next, Drain, Faults

(* The marker is only ever set and only a crash is counted.                *)
LEMMA CountersStep ==
    ASSUME [Next]_vars
    PROVE  /\ generation' = generation \/ generation' = TRUE
           /\ crashes' = crashes \/ (crashes < CrashLimit /\ crashes' = crashes + 1)
  <1>1. CASE Intake \/ Tick \/ UNCHANGED vars
    BY <1>1 DEF Intake, Enqueue, DropQueued, Tick, vars
  <1>2. ASSUME NEW w \in Workers, OpenStore(w)
        PROVE  generation' = TRUE /\ crashes' = crashes
    BY <1>2 DEF OpenStore
  <1>3. ASSUME NEW w \in Workers, NEW now \in Reading,
               \/ LoadEvidence(w) \/ PipelineEnds(w) \/ PublishOutbox(w) \/ RecordProcessed(w)
               \/ RecoverExpired(w, now) \/ CacheEvidence(w, now)
               \/ AssertBeforePublish(w, now) \/ AssertBeforeFinish(w, now)
        PROVE  generation' = generation /\ crashes' = crashes
    BY <1>3 DEF LoadEvidence, PipelineEnds, PublishOutbox, RecordProcessed, RecoverExpired,
               CacheEvidence, AssertBeforePublish, AssertBeforeFinish
  <1>4. ASSUME NEW w \in Workers, NEW now \in Reading,
               \/ FinishCandidate(w, now) \/ AssertBeforeDefer(w, now)
               \/ DeferCandidate(w, now) \/ ReleaseCandidate(w, now)
               \/ Heartbeat(w, now) \/ StoreUnavailable(w)
        PROVE  generation' = generation /\ crashes' = crashes
    BY <1>4 DEF FinishCandidate, AssertBeforeDefer, DeferCandidate, ReleaseCandidate, Heartbeat,
               StoreUnavailable
  <1>5. ASSUME NEW w \in Workers, NEW now \in Reading, NEW d \in Docs, NEW t \in Tokens,
               ClaimCandidate(w, d, t, now)
        PROVE  generation' = generation /\ crashes' = crashes
    BY <1>5 DEF ClaimCandidate
  <1>6. ASSUME NEW w \in Workers, Crash(w)
        PROVE  generation' = generation /\ crashes < CrashLimit /\ crashes' = crashes + 1
    BY <1>6 DEF Crash
  <1>7. 0 \in Reading
    BY QueueAssumption DEF Reading
  <1> QED
    BY <1>1, <1>2, <1>3, <1>4, <1>5, <1>6, <1>7 DEF Next, Drain, Faults

LEMMA TypeStep == TypeOK /\ [Next]_vars => TypeOK'
  <1> SUFFICES ASSUME TypeOK, [Next]_vars PROVE TypeOK'
    OBVIOUS
  <1>1. TableOK' /\ WorkersOK'
    BY TableStep, WorkersStep
  <1>2. /\ generation' = generation \/ generation' = TRUE
        /\ crashes' = crashes \/ (crashes < CrashLimit /\ crashes' = crashes + 1)
    BY CountersStep
  <1>3. generation' \in BOOLEAN
    BY <1>2, Zenon DEF TypeOK
  <1>4. crashes' \in 0..CrashLimit
    BY <1>2, QueueAssumption DEF TypeOK
  <1> QED  BY <1>1, <1>3, <1>4 DEF TypeOK, TableOK, WorkersOK

(* Every reachable state is well typed: the claim columns of each row agree *)
(* with its state, and a worker has a claim exactly while it processes one. *)
THEOREM TypeCorrect == Spec => []TypeOK
  <1>1. Init => TypeOK  BY TypeInit
  <1>2. TypeOK /\ [Next]_vars => TypeOK'  BY TypeStep
  <1> QED  BY <1>1, <1>2, PTL DEF Spec

-----------------------------------------------------------------------------
(* What a step may do to one row, and to one worker's claim.  The safety    *)
(* theorems below rest on these two case distinctions and no longer on the *)
(* individual actions.                                                     *)

SameClaim(d) == /\ row'[d].state = row[d].state /\ row'[d].payload = row[d].payload
                /\ row'[d].owner = row[d].owner /\ row'[d].token = row[d].token
Untouched(d) == SameClaim(d) /\ row'[d].lease <= row[d].lease
Waits(d) == row[d].state # "processing" /\ row'[d].state # "processing"
Recovered(d, now) == /\ Expired(d, now) \/ Unleased(d)
                     /\ row'[d].state = "queued" /\ row'[d].owner = None
                     /\ row'[d].token = None
Ended(w, d, now) == /\ phase[w] \in ClaimedPhase /\ claim[w].doc = d /\ Fence(w, now)
                    /\ claim'[w] = None
                    /\ row'[d].token = None /\ row'[d].owner = None
                    /\ row'[d].state \in {"queued", "absent"}
                    /\ row'[d].state = "absent" => phase[w] = "finishing"
Renewed(w, d, now) == /\ claim[w].doc = d /\ ClaimOwned(w, now)
                      /\ SameClaim(d) /\ row'[d].lease = LeaseTicks + now
                      /\ UNCHANGED <<phase, claim, lost>>
Taken(w, d) == \E t \in Tokens \ UsedTokens, now \in Reading : ClaimCandidate(w, d, t, now)

RowStep(d) ==
    \/ Untouched(d) \/ Waits(d)
    \/ \E now \in Reading : Recovered(d, now)
    \/ \E w \in Workers, now \in Reading : Ended(w, d, now) \/ Renewed(w, d, now)
    \/ \E w \in Workers : Taken(w, d)

ClaimStep(w) ==
    \/ claim'[w] = claim[w] \/ claim'[w] = None
    \/ \E d \in Docs : Taken(w, d)

LostStep(w) ==
    lost'[w] => \/ lost[w] /\ (claim'[w] = claim[w] \/ claim'[w] = None)
                \/ \E now \in Reading : ~ClaimOwned(w, now) /\ UNCHANGED <<row, phase, claim>>

LEMMA LeaseIsInt == ASSUME TableOK, NEW d \in Docs PROVE row[d].lease \in Int
  BY QueueAssumption DEF TableOK, RowOK, Row, LeaseTime

LEMMA AgedLease ==
    ASSUME NEW x, RowOK(x)
    PROVE  /\ Aged(x).lease <= x.lease
           /\ Aged(x).state = x.state /\ Aged(x).payload = x.payload
           /\ Aged(x).owner = x.owner /\ Aged(x).token = x.token
  <1>1. x.lease \in Int
    BY QueueAssumption DEF RowOK, Row, LeaseTime
  <1>2. x \in Row
    BY DEF RowOK
  <1> QED  BY <1>1, <1>2 DEF Aged, Row

LEMMA RowSteps ==
    ASSUME TypeOK, [Next]_vars, NEW d \in Docs
    PROVE  RowStep(d)
  <1>0. TableOK /\ WorkersOK /\ RowOK(row[d]) /\ row[d].lease \in Int
    BY TypeParts, LeaseIsInt DEF TableOK
  <1>1. ASSUME row'[d] = row[d] PROVE RowStep(d)
    BY <1>0, <1>1 DEF RowStep, Untouched, SameClaim
  <1>2. CASE Intake
    <2>1. ASSUME NEW e \in Docs, NEW r \in Revisions, Enqueue(e, r, "retained")
          PROVE  RowStep(d)
      <3>1. CASE row[d].state = "processing" \/ e # d
        <4>1. row'[d] = row[d]
          BY <1>0, <2>1, <3>1 DEF Enqueue, TableOK
        <4> QED  BY <1>1, <4>1
      <3>2. CASE row[d].state # "processing" /\ e = d
        <4>1. row[d] \in Row
          BY <1>0 DEF RowOK
        <4>2. row'[d].state # "processing"
          BY <1>0, <2>1, <3>2, <4>1 DEF Enqueue, TableOK, Row, NewRow
        <4> QED  BY <3>2, <4>2 DEF RowStep, Waits
      <3> QED  BY <3>1, <3>2
    <2>2. ASSUME NEW S \in SUBSET Docs, DropQueued(S) PROVE RowStep(d)
      <3>1. row'[d] = row[d] \/ Waits(d)
        BY <2>2 DEF DropQueued, Waits, AbsentRow
      <3> QED  BY <1>1, <3>1 DEF RowStep
    <2> QED  BY <1>2, <2>1, <2>2 DEF Intake
  <1>3. CASE Tick
    <2>1. row'[d] = Aged(row[d])
      BY <1>3 DEF Tick
    <2> QED  BY <1>0, <2>1, AgedLease DEF RowStep, Untouched, SameClaim
  <1>4. ASSUME NEW w \in Workers, OpenStore(w) PROVE RowStep(d)
    <2>1. row'[d] = row[d] \/ Waits(d)
      BY <1>4 DEF OpenStore, Waits, AbsentRow
    <2> QED  BY <1>1, <2>1 DEF RowStep
  <1>5. ASSUME NEW w \in Workers, NEW now \in Reading, RecoverExpired(w, now) PROVE RowStep(d)
    <2>1. CASE Expired(d, now) \/ Unleased(d)
      <3>1. row'[d] = Unclaimed(row[d])
        BY <1>5, <2>1 DEF RecoverExpired
      <3>2. Recovered(d, now)
        BY <1>0, <2>1, <3>1 DEF Recovered, Unclaimed, RowOK, Row
      <3> QED  BY <3>2 DEF RowStep
    <2>2. CASE ~(Expired(d, now) \/ Unleased(d))
      BY <1>1, <1>5, <2>2 DEF RecoverExpired
    <2> QED  BY <2>1, <2>2
  <1>6. ASSUME NEW w \in Workers, NEW now \in Reading, NEW e \in Docs,
               NEW t \in Tokens \ UsedTokens, ClaimCandidate(w, e, t, now)
        PROVE  RowStep(d)
    <2>1. CASE e = d
      BY <1>6, <2>1 DEF RowStep, Taken
    <2>2. CASE e # d
      <3>1. row'[d] = row[d]
        BY <1>0, <1>6, <2>2 DEF ClaimCandidate, TableOK
      <3> QED  BY <1>1, <3>1
    <2> QED  BY <2>1, <2>2
  <1>7. ASSUME NEW w \in Workers, NEW now \in Reading, CacheEvidence(w, now) PROVE RowStep(d)
    <2>1. row'[d] = row[d] \/ row'[d] = [row[d] EXCEPT !.evidence = "retained"]
      BY <1>0, <1>7 DEF CacheEvidence, TableOK
    <2>2. row[d] \in Row
      BY <1>0 DEF RowOK
    <2>3. Untouched(d)
      BY <1>0, <2>1, <2>2 DEF Untouched, SameClaim, Row
    <2> QED  BY <2>3 DEF RowStep
  <1>8. ASSUME NEW w \in Workers, NEW now \in Reading,
               \/ FinishCandidate(w, now) \/ DeferCandidate(w, now) \/ ReleaseCandidate(w, now)
        PROVE  RowStep(d)
    <2>0. phase[w] \in ClaimedPhase
      BY <1>8 DEF FinishCandidate, DeferCandidate, ReleaseCandidate, ClaimedPhase
    <2>1. CASE Fence(w, now) /\ claim[w].doc = d
      <3>1. row[d].state = "processing" /\ RowOK(row[d])
        BY <1>0, <2>0, <2>1, FencedRow
      <3>2. claim'[w] = None
        BY <1>0, <1>8 DEF FinishCandidate, DeferCandidate, ReleaseCandidate, Drop, WorkersOK
      <3>3. \/ row'[d] = AbsentRow /\ phase[w] = "finishing"
            \/ row'[d] = Deferred(row[d])
            \/ row'[d] = [Unclaimed(row[d]) EXCEPT !.wait = NotDeferred]
        BY <1>0, <1>8, <2>1 DEF FinishCandidate, DeferCandidate, ReleaseCandidate, TableOK
      <3>4. /\ Deferred(row[d]).token = None /\ Deferred(row[d]).owner = None
            /\ Deferred(row[d]).state = "queued"
        BY <1>0 DEF Deferred, Unclaimed, RowOK, Row
      <3> DEFINE released == [Unclaimed(row[d]) EXCEPT !.wait = NotDeferred]
      <3>5. /\ released.token = None /\ released.owner = None
            /\ released.state = "queued"
        BY <1>0 DEF Unclaimed, RowOK, Row
      <3> HIDE DEF released
      <3>6. \/ row'[d] = AbsentRow /\ phase[w] = "finishing"
            \/ row'[d] = Deferred(row[d]) \/ row'[d] = released
        BY <3>3 DEF released
      <3>7. /\ row'[d].token = None /\ row'[d].owner = None
            /\ row'[d].state \in {"queued", "absent"}
            /\ row'[d].state = "absent" => phase[w] = "finishing"
        BY <3>4, <3>5, <3>6 DEF AbsentRow
      <3> QED  BY <2>0, <2>1, <3>2, <3>7 DEF RowStep, Ended
    <2>2. CASE ~(Fence(w, now) /\ claim[w].doc = d)
      <3>1. row'[d] = row[d]
        BY <1>0, <1>8, <2>2 DEF FinishCandidate, DeferCandidate, ReleaseCandidate, TableOK
      <3> QED  BY <1>1, <3>1
    <2> QED  BY <2>1, <2>2
  <1>9. ASSUME NEW w \in Workers, NEW now \in Reading, Heartbeat(w, now) PROVE RowStep(d)
    <2>1. CASE ClaimOwned(w, now) /\ claim[w].doc = d
      <3>1. row'[d] = [row[d] EXCEPT !.lease = LeaseTicks + now] /\ UNCHANGED <<phase, claim, lost>>
        BY <1>0, <1>9, <2>1 DEF Heartbeat, TableOK
      <3>2. Renewed(w, d, now)
        BY <1>0, <2>1, <3>1 DEF Renewed, SameClaim, RowOK, Row
      <3> QED  BY <3>2 DEF RowStep
    <2>2. CASE ~(ClaimOwned(w, now) /\ claim[w].doc = d)
      <3>1. row'[d] = row[d]
        BY <1>0, <1>9, <2>2 DEF Heartbeat, TableOK
      <3> QED  BY <1>1, <3>1
    <2> QED  BY <2>1, <2>2
  <1>10. ASSUME NEW w \in Workers, NEW now \in Reading,
                \/ LoadEvidence(w) \/ PipelineEnds(w) \/ PublishOutbox(w) \/ RecordProcessed(w)
                \/ AssertBeforePublish(w, now) \/ AssertBeforeFinish(w, now)
                \/ AssertBeforeDefer(w, now) \/ Faults(w)
         PROVE  RowStep(d)
    <2>1. row' = row
      BY <1>10 DEF LoadEvidence, PipelineEnds, PublishOutbox, RecordProcessed,
                   AssertBeforePublish, AssertBeforeFinish, AssertBeforeDefer, Faults,
                   StoreUnavailable, Crash
    <2> QED  BY <1>1, <2>1
  <1>11. CASE UNCHANGED vars
    BY <1>1, <1>11 DEF vars
  <1>12. 0 \in Reading
    BY QueueAssumption DEF Reading
  <1> QED
    BY <1>2, <1>3, <1>4, <1>5, <1>6, <1>7, <1>8, <1>9, <1>10, <1>11, <1>12 DEF Next, Drain

LEMMA ClaimSteps ==
    ASSUME TypeOK, [Next]_vars, NEW w \in Workers
    PROVE  ClaimStep(w) /\ LostStep(w)
  <1>0. WorkersOK
    BY TypeParts
  <1>1. ASSUME claim'[w] = claim[w], lost'[w] = lost[w] PROVE ClaimStep(w) /\ LostStep(w)
    BY <1>1 DEF ClaimStep, LostStep
  <1>2. ASSUME claim'[w] = None, lost'[w] = FALSE PROVE ClaimStep(w) /\ LostStep(w)
    BY <1>2 DEF ClaimStep, LostStep
  <1>3. ASSUME NEW v \in Workers, NEW p, Goto(v, p) PROVE ClaimStep(w) /\ LostStep(w)
    BY <1>1, <1>3 DEF Goto
  <1>4. ASSUME NEW v \in Workers, NEW p, Drop(v, p) PROVE ClaimStep(w) /\ LostStep(w)
    <2>1. CASE v = w
      BY <1>0, <1>2, <1>4, <2>1 DEF Drop, WorkersOK
    <2>2. CASE v # w
      BY <1>0, <1>1, <1>4, <2>2 DEF Drop, WorkersOK
    <2> QED  BY <2>1, <2>2
  <1>5. CASE Intake \/ Tick \/ UNCHANGED vars
    BY <1>1, <1>5 DEF Intake, Enqueue, DropQueued, Tick, vars, workerVars
  <1>6. ASSUME NEW v \in Workers, NEW now \in Reading, NEW d \in Docs,
               NEW t \in Tokens \ UsedTokens, ClaimCandidate(v, d, t, now)
        PROVE  ClaimStep(w) /\ LostStep(w)
    <2>1. CASE v = w
      BY <1>0, <1>6, <2>1 DEF ClaimCandidate, ClaimStep, LostStep, Taken, WorkersOK
    <2>2. CASE v # w
      BY <1>0, <1>1, <1>6, <2>2 DEF ClaimCandidate, WorkersOK
    <2> QED  BY <2>1, <2>2
  <1>7. ASSUME NEW v \in Workers, NEW now \in Reading, Heartbeat(v, now)
        PROVE  ClaimStep(w) /\ LostStep(w)
    <2>1. CASE v = w
      BY <1>0, <1>7, <2>1 DEF Heartbeat, ClaimStep, LostStep, WorkersOK
    <2>2. CASE v # w
      BY <1>0, <1>1, <1>7, <2>2 DEF Heartbeat, WorkersOK
    <2> QED  BY <2>1, <2>2
  <1>8. ASSUME NEW v \in Workers, NEW now \in Reading,
               \/ OpenStore(v) \/ RecoverExpired(v, now) \/ LoadEvidence(v)
               \/ CacheEvidence(v, now) \/ PipelineEnds(v) \/ AssertBeforePublish(v, now)
               \/ PublishOutbox(v) \/ AssertBeforeFinish(v, now) \/ FinishCandidate(v, now)
               \/ RecordProcessed(v) \/ AssertBeforeDefer(v, now) \/ DeferCandidate(v, now)
               \/ ReleaseCandidate(v, now) \/ Faults(v)
        PROVE  ClaimStep(w) /\ LostStep(w)
    <2>1. \E p : Goto(v, p) \/ Drop(v, p)
      BY <1>8 DEF OpenStore, RecoverExpired, LoadEvidence, CacheEvidence, PipelineEnds,
                  AssertBeforePublish, PublishOutbox, AssertBeforeFinish, FinishCandidate,
                  RecordProcessed, AssertBeforeDefer, DeferCandidate, ReleaseCandidate,
                  Faults, StoreUnavailable, Crash
    <2> QED  BY <1>3, <1>4, <2>1
  <1>9. 0 \in Reading
    BY QueueAssumption DEF Reading
  <1> QED  BY <1>5, <1>6, <1>7, <1>8, <1>9 DEF Next, Drain

(* What a claim step establishes. *)
TakenEffect(w, d) ==
    /\ claim'[w] \in Claim /\ claim'[w].doc = d
    /\ claim'[w].token \in Tokens \ UsedTokens /\ claim'[w].token # None
    /\ claim'[w].payload = row[d].payload
    /\ row'[d].token = claim'[w].token /\ row'[d].owner = WorkerId[w]
    /\ row'[d].payload = row[d].payload /\ row'[d].state = "processing"
    /\ \A e \in Docs \ {d} : row'[e] = row[e]
    /\ \A v \in Workers \ {w} : claim'[v] = claim[v] /\ phase'[v] = phase[v]
    /\ lost'[w] = FALSE /\ claim[w] = None
    /\ \E now \in Reading : Claimable(d, now)

LEMMA TakenEffects ==
    ASSUME TypeOK, NEW w \in Workers, NEW d \in Docs, Taken(w, d)
    PROVE  TakenEffect(w, d)
  <1>1. PICK t \in Tokens \ UsedTokens, now \in Reading : ClaimCandidate(w, d, t, now)
    BY DEF Taken
  <1>2. TableOK /\ WorkersOK /\ RowOK(row[d]) /\ row[d] \in Row
    BY TypeParts DEF TableOK, RowOK
  <1>3. row[d].payload \in Revisions
    BY <1>1, <1>2 DEF RowOK, Row, ClaimCandidate, Claimable, Expired
  <1>4. claim'[w] = [doc |-> d, token |-> t, payload |-> row[d].payload]
    BY <1>1, <1>2 DEF ClaimCandidate, WorkersOK
  <1>5. claim'[w] \in Claim
    BY <1>3, <1>4 DEF Claim
  <1>6. row'[d] = Claimed(row[d], w, t, now)
    BY <1>1, <1>2 DEF ClaimCandidate, TableOK
  <1>7. /\ row'[d].token = t /\ row'[d].owner = WorkerId[w]
        /\ row'[d].payload = row[d].payload /\ row'[d].state = "processing"
    BY <1>2, <1>6 DEF Claimed, Row
  <1>8. /\ \A e \in Docs \ {d} : row'[e] = row[e]
        /\ \A v \in Workers \ {w} : claim'[v] = claim[v] /\ phase'[v] = phase[v]
        /\ lost'[w] = FALSE
    BY <1>1, <1>2 DEF ClaimCandidate, TableOK, WorkersOK
  <1>9. claim[w] = None
    BY <1>1, <1>2 DEF ClaimCandidate, WorkersOK, ClaimedPhase
  <1>10. t # None
    BY QueueAssumption
  <1>11. Claimable(d, now)
    BY <1>1 DEF ClaimCandidate
  <1> QED  BY <1>4, <1>5, <1>7, <1>8, <1>9, <1>10, <1>11 DEF TakenEffect

LEMMA TakenFacts ==
    ASSUME TypeOK, NEW w \in Workers, NEW d \in Docs, Taken(w, d)
    PROVE  /\ claim'[w] \in Claim /\ claim'[w].doc = d
           /\ claim'[w].token \in Tokens \ UsedTokens /\ claim'[w].token # None
           /\ claim'[w].payload = row[d].payload
           /\ row'[d].token = claim'[w].token /\ row'[d].owner = WorkerId[w]
           /\ row'[d].payload = row[d].payload /\ row'[d].state = "processing"
           /\ \A e \in Docs \ {d} : row'[e] = row[e]
           /\ \A v \in Workers \ {w} : claim'[v] = claim[v] /\ phase'[v] = phase[v]
           /\ lost'[w] = FALSE /\ claim[w] = None
           /\ \E now \in Reading : Claimable(d, now)
  <1>1. TakenEffect(w, d)
    BY TakenEffects
  <1> QED  BY <1>1 DEF TakenEffect

(* A token off the table and out of the workers' hands differs from theirs. *)
LEMMA FreshToken ==
    ASSUME TypeOK, NEW t, t \notin UsedTokens
    PROVE  /\ \A d \in Docs : row[d].token # t
           /\ \A w \in Workers : claim[w] # None => claim[w].token # t
  BY DEF UsedTokens, TypeOK

-----------------------------------------------------------------------------
(***************************************************************************)
(* The safety properties of the candidate queue, from the case distinctions *)
(* above: tokens identify claims, mutations are fenced, the                  *)
(* payload of a claim is frozen (for every clock skew), and with clocks    *)
(* that agree one paper is active and a recorded loss is final.            *)
(***************************************************************************)

LEMMA TokensInit == Init => TokensIdentifyClaims
  <1> SUFFICES ASSUME Init PROVE TokensIdentifyClaims
    OBVIOUS
  <1>1. \A d \in Docs : row[d].token = None
    BY LegacyOK DEF Init, AbsentRow
  <1>2. \A w \in Workers : claim[w] = None
    BY DEF Init
  <1> QED  BY <1>1, <1>2 DEF TokensIdentifyClaims

(* A row's token after a step is its token before, none, or the fresh one. *)
LEMMA TokenOrigin ==
    ASSUME TypeOK, [Next]_vars, NEW d \in Docs, row'[d].token # None
    PROVE  \/ row'[d].token = row[d].token /\ row'[d].owner = row[d].owner
           \/ \E w \in Workers : Taken(w, d)
  <1>1. RowStep(d)
    BY RowSteps
  <1>2. TableOK'
    BY TableStep
  <1>3. row'[d].state = "processing"
    BY <1>2 DEF TableOK, RowOK
  <1>4. row'[d].token = None => FALSE
    OBVIOUS
  <1>5. CASE SameClaim(d)
    BY <1>5 DEF SameClaim
  <1>6. ~Waits(d)
    BY <1>3 DEF Waits
  <1>7. CASE \E w \in Workers : Taken(w, d)
    BY <1>7
  <1>8. \/ SameClaim(d) \/ row'[d].token = None \/ \E w \in Workers : Taken(w, d)
    BY <1>1, <1>6 DEF RowStep, Untouched, Recovered, Ended, Renewed
  <1> QED  BY <1>4, <1>5, <1>7, <1>8

LEMMA TokensStep == TypeOK /\ TokensIdentifyClaims /\ [Next]_vars => TokensIdentifyClaims'
  <1> SUFFICES ASSUME TypeOK, TokensIdentifyClaims, [Next]_vars PROVE TokensIdentifyClaims'
    OBVIOUS
  <1>1. CASE \E w \in Workers, d \in Docs : Taken(w, d)
    <2>1. PICK w \in Workers, d \in Docs : Taken(w, d)
      BY <1>1
    <2> DEFINE t == claim'[w].token
    <2>2. /\ claim'[w].doc = d /\ t \notin UsedTokens /\ t # None
          /\ row'[d].token = t /\ row'[d].owner = WorkerId[w]
          /\ \A e \in Docs \ {d} : row'[e] = row[e]
          /\ \A v \in Workers \ {w} : claim'[v] = claim[v]
          /\ claim[w] = None
      <3>1. /\ claim'[w].doc = d /\ claim'[w].token \notin UsedTokens /\ claim'[w].token # None
            /\ row'[d].token = claim'[w].token /\ row'[d].owner = WorkerId[w]
            /\ claim[w] = None
        BY <2>1, TakenFacts
      <3>2. /\ \A e \in Docs \ {d} : row'[e] = row[e]
            /\ \A v \in Workers \ {w} : claim'[v] = claim[v]
        BY <2>1, TakenFacts
      <3> QED  BY <3>1, <3>2
    <2>3. /\ \A e \in Docs : row[e].token # t
          /\ \A v \in Workers : claim[v] # None => claim[v].token # t
      BY <2>2, FreshToken
    <2> HIDE DEF t
    <2>4. \A e, f \in Docs : row'[e].token = row'[f].token /\ row'[e].token # None => e = f
      BY <2>2, <2>3 DEF TokensIdentifyClaims
    <2>5. \A u, v \in Workers :
             claim'[u] # None /\ claim'[v] # None /\ claim'[u].token = claim'[v].token => u = v
      BY <2>2, <2>3 DEF TokensIdentifyClaims, t
    <2>6. \A v \in Workers, e \in Docs :
             claim'[v] # None /\ row'[e].token = claim'[v].token =>
                 claim'[v].doc = e /\ row'[e].owner = WorkerId[v]
      <3> SUFFICES ASSUME NEW v \in Workers, NEW e \in Docs,
                          claim'[v] # None, row'[e].token = claim'[v].token
                   PROVE  claim'[v].doc = e /\ row'[e].owner = WorkerId[v]
        OBVIOUS
      <3>1. CASE v = w
        <4>1. e = d
          BY <2>2, <2>3, <3>1 DEF t
        <4> QED  BY <2>2, <3>1, <4>1
      <3>2. CASE v # w
        <4>1. claim'[v] = claim[v] /\ claim[v] # None /\ claim[v].token # t
          BY <2>2, <2>3, <3>2
        <4>2. e # d
          BY <2>2, <4>1
        <4> QED  BY <2>2, <4>1, <4>2 DEF TokensIdentifyClaims
      <3> QED  BY <3>1, <3>2
    <2> QED  BY <2>4, <2>5, <2>6 DEF TokensIdentifyClaims
  <1>2. CASE ~ \E w \in Workers, d \in Docs : Taken(w, d)
    <2>1. \A d \in Docs : row'[d].token # None =>
              row'[d].token = row[d].token /\ row'[d].owner = row[d].owner
      BY <1>2, TokenOrigin
    <2>2. \A w \in Workers : claim'[w] # None => claim'[w] = claim[w]
      BY <1>2, ClaimSteps DEF ClaimStep
    <2>3. \A w \in Workers : claim[w] # None => claim[w].token # None
      BY Holding, TypeParts DEF WorkersOK
    <2> QED  BY <2>1, <2>2, <2>3 DEF TokensIdentifyClaims
  <1> QED  BY <1>1, <1>2

(* Fencing tokens identify claims, whatever the clocks and owner names: at  *)
(* most one row and one worker carry a token, and they belong together.    *)
THEOREM TokensIdentify == Spec => []TokensIdentifyClaims
  <1>1. Init => TypeOK /\ TokensIdentifyClaims
    BY TypeInit, TokensInit
  <1>2. TypeOK /\ TokensIdentifyClaims /\ [Next]_vars => (TypeOK /\ TokensIdentifyClaims)'
    BY TypeStep, TokensStep
  <1> QED  BY <1>1, <1>2, PTL DEF Spec

-----------------------------------------------------------------------------
FencedStep ==
    \A d \in Docs :
        row[d].token # None /\ row'[d].token # row[d].token =>
            \/ row[d].lease <= Skew /\ row'[d].state \in {"queued", "processing"}
            \/ \E w \in Workers :
                  /\ HolderOf(w, d) /\ claim'[w] = None
                  /\ row[d].lease > -Skew
                  /\ row'[d].state = "absent" => phase[w] = "finishing"

LEMMA FencedSteps == TypeOK /\ [Next]_vars => FencedStep
  <1> SUFFICES ASSUME TypeOK, [Next]_vars, NEW d \in Docs,
                      row[d].token # None, row'[d].token # row[d].token
               PROVE  \/ row[d].lease <= Skew /\ row'[d].state \in {"queued", "processing"}
                      \/ \E w \in Workers :
                            /\ HolderOf(w, d) /\ claim'[w] = None
                            /\ row[d].lease > -Skew
                            /\ row'[d].state = "absent" => phase[w] = "finishing"
    BY DEF FencedStep
  <1>1. TableOK /\ WorkersOK /\ row[d].lease \in Int /\ RowOK(row[d])
    BY TypeParts, LeaseIsInt DEF TableOK
  <1>2. row[d].owner # None /\ row[d].state = "processing"
    BY <1>1 DEF RowOK
  <1>3. \A now \in Reading : now \in Int /\ now <= Skew /\ now >= -Skew
    BY QueueAssumption DEF Reading
  <1>4. RowStep(d)
    BY RowSteps
  <1>5. ASSUME NEW now \in Reading, Expired(d, now) PROVE row[d].lease <= Skew
    BY <1>1, <1>3, <1>5, QueueAssumption DEF Expired
  <1>6. CASE Untouched(d) \/ Waits(d) \/ \E w \in Workers, now \in Reading : Renewed(w, d, now)
    BY <1>2, <1>6 DEF Untouched, Waits, Renewed, SameClaim
  <1>7. ASSUME NEW now \in Reading, Recovered(d, now)
        PROVE  row[d].lease <= Skew /\ row'[d].state = "queued"
    BY <1>2, <1>5, <1>7 DEF Recovered, Unleased
  <1>8. ASSUME NEW w \in Workers, Taken(w, d)
        PROVE  row[d].lease <= Skew /\ row'[d].state = "processing"
    BY <1>2, <1>5, <1>8, TakenFacts DEF Claimable
  <1>9. ASSUME NEW w \in Workers, NEW now \in Reading, Ended(w, d, now)
        PROVE  /\ HolderOf(w, d) /\ claim'[w] = None
               /\ row[d].lease > -Skew
               /\ row'[d].state = "absent" => phase[w] = "finishing"
    <2>1. claim[w] # None
      BY <1>1, <1>9 DEF Ended, WorkersOK
    <2>2. row[d].lease > -Skew
      BY <1>1, <1>3, <1>9, QueueAssumption DEF Ended, Fence
    <2> QED  BY <1>9, <2>1, <2>2 DEF Ended, Fence, HolderOf
  <1> QED  BY <1>4, <1>6, <1>7, <1>8, <1>9 DEF RowStep

(* Whatever the skew, a claimed row changes hands or is deleted only by its *)
(* holder's fenced call, or after its lease ran out; only finish deletes it. *)
THEOREM MutationsFenced == Spec => FencedMutation
  <1>1. TypeOK /\ [Next]_vars => [FencedStep]_vars
    BY FencedSteps
  <1> QED  BY <1>1, TypeCorrect, PTL DEF Spec, FencedMutation, FencedStep

-----------------------------------------------------------------------------
LEMMA FrozenStep == TypeOK /\ ClaimedPayloadFrozen /\ [Next]_vars => ClaimedPayloadFrozen'
  <1> SUFFICES ASSUME TypeOK, ClaimedPayloadFrozen, [Next]_vars, NEW w \in Workers,
                      claim'[w] # None, row'[claim'[w].doc].token = claim'[w].token
               PROVE  row'[claim'[w].doc].payload = claim'[w].payload
    BY DEF ClaimedPayloadFrozen
  <1> DEFINE d == claim'[w].doc
  <1>1. CASE \E e \in Docs : Taken(w, e)
    <2>1. PICK e \in Docs : Taken(w, e)
      BY <1>1
    <2>2. /\ claim'[w].doc = e /\ claim'[w].payload = row[e].payload
          /\ row'[e].payload = row[e].payload
      BY <2>1, TakenFacts, Zenon
    <2> QED  BY <2>2
  <1>2. CASE ~ \E e \in Docs : Taken(w, e)
    <2>1. claim'[w] = claim[w]
      BY <1>2, ClaimSteps DEF ClaimStep
    <2>2. d \in Docs /\ claim[w].token # None
      BY <2>1, Holding, TypeParts DEF WorkersOK
    <2>3. ~ \E v \in Workers : Taken(v, d)
      <3> SUFFICES ASSUME NEW v \in Workers, Taken(v, d) PROVE FALSE
        OBVIOUS
      <3>1. row'[d].token = claim'[v].token /\ claim'[v].token \notin UsedTokens
        BY <2>2, TakenFacts
      <3>2. claim[w] # None /\ claim[w].token = row'[d].token
        BY <2>1
      <3> QED  BY <3>1, <3>2, FreshToken
    <2>4. row'[d].token = row[d].token
      BY <2>1, <2>2, <2>3, TokenOrigin
    <2>5. row'[d].payload = row[d].payload
      <3>1. RowStep(d)
        BY <2>2, RowSteps
      <3>2. row'[d].token # None /\ row[d].token # None
        BY <2>1, <2>2, <2>4
      <3>3. row[d].state = "processing"
        BY <2>2, <3>2, TypeParts DEF TableOK, RowOK
      <3> HIDE DEF d
      <3> QED  BY <2>3, <3>1, <3>2, <3>3
               DEF RowStep, Untouched, SameClaim, Waits, Recovered, Ended, Renewed
    <2> QED  BY <2>1, <2>4, <2>5 DEF ClaimedPayloadFrozen
  <1> QED  BY <1>1, <1>2

(* The bytes a worker claimed stay the bytes of the row while its token is  *)
(* on it: no revision that arrives meanwhile is mixed in, whatever the skew. *)
THEOREM PayloadFrozen == Spec => []ClaimedPayloadFrozen
  <1>1. Init => TypeOK /\ ClaimedPayloadFrozen
    BY TypeInit DEF Init, ClaimedPayloadFrozen
  <1>2. TypeOK /\ ClaimedPayloadFrozen /\ [Next]_vars => (TypeOK /\ ClaimedPayloadFrozen)'
    BY TypeStep, FrozenStep
  <1> QED  BY <1>1, <1>2, PTL DEF Spec

-----------------------------------------------------------------------------
(* With clocks that agree. *)

LEMMA NoSkew == ASSUME Skew = 0 PROVE \A now \in Reading : now = 0
  BY DEF Reading

LEMMA OneActiveStep ==
    ASSUME Skew = 0, TypeOK, OneActivePaper, [Next]_vars
    PROVE  OneActivePaper'
  <1>1. ASSUME NEW d \in Docs, Live(d, 0)', ~ \E w \in Workers : Taken(w, d)
        PROVE  Live(d, 0)
    <2>1. TableOK /\ row[d].lease \in Int /\ TableOK' /\ row'[d].lease \in Int
      BY TypeParts, LeaseIsInt, TableStep, QueueAssumption DEF TableOK, RowOK, Row, LeaseTime
    <2>2. row'[d].state = "processing" /\ (row'[d].owner = None \/ row'[d].lease > 0)
      BY <1>1 DEF Live
    <2>3. CASE Untouched(d)
      BY <2>1, <2>2, <2>3 DEF Untouched, SameClaim, Live
    <2>4. ASSUME NEW w \in Workers, NEW now \in Reading, Renewed(w, d, now) PROVE Live(d, 0)
      BY <2>4, NoSkew DEF Renewed, ClaimOwned, Fence, Live
    <2>5. RowStep(d)
      BY RowSteps
    <2> QED  BY <1>1, <2>2, <2>3, <2>4, <2>5 DEF RowStep, Waits, Recovered, Ended
  <1>2. SUFFICES ASSUME NEW d \in Docs, NEW e \in Docs, Live(d, 0)', Live(e, 0)', d # e
                 PROVE  FALSE
    BY DEF OneActivePaper
  <1>3. CASE (\E w \in Workers : Taken(w, d)) \/ (\E w \in Workers : Taken(w, e))
    <2>1. ASSUME NEW w \in Workers, NEW f \in Docs, NEW g \in Docs, Taken(w, f), f # g,
                 Live(g, 0)'
          PROVE  FALSE
      <3>1. \A h \in Docs \ {f} : row'[h] = row[h]
        <4>1. TakenEffect(w, f)
          BY <2>1, TakenEffects
        <4> QED  BY <4>1 DEF TakenEffect
      <3>2. PICK now \in Reading : Claimable(f, now)
        BY <2>1, TakenFacts
      <3>3. ~ Live(g, 0)
        BY <3>2, NoSkew DEF Claimable
      <3> QED  BY <2>1, <3>1, <3>3 DEF Live
    <2> QED  BY <1>2, <1>3, <2>1
  <1>4. CASE ~ \E w \in Workers : Taken(w, d) \/ Taken(w, e)
    <2>1. Live(d, 0) /\ Live(e, 0)
      BY <1>1, <1>2, <1>4
    <2> QED  BY <1>2, <2>1 DEF OneActivePaper
  <1> QED  BY <1>3, <1>4

(* At most one paper is actively processed in the whole fleet, through any  *)
(* sequence of crashes, takeovers, retries, arrivals and boundaries.       *)
THEOREM OneActive == ASSUME Skew = 0 PROVE Spec => []OneActivePaper
  <1>1. Init => TypeOK /\ OneActivePaper
    <2> SUFFICES ASSUME Init PROVE OneActivePaper
      BY TypeInit
    <2>1. ASSUME NEW d \in Docs, Live(d, 0) PROVE Unleased(d)
      <3>1. TableOK /\ row[d].token = None
        BY TypeInit, TypeParts, LegacyOK DEF Init, AbsentRow
      <3> QED  BY <2>1, <3>1 DEF TableOK, RowOK, Live, Unleased
    <2> QED  BY <2>1 DEF Init, OneActivePaper
  <1>2. TypeOK /\ OneActivePaper /\ [Next]_vars => (TypeOK /\ OneActivePaper)'
    BY TypeStep, OneActiveStep
  <1> QED  BY <1>1, <1>2, PTL DEF Spec

LEMMA LostStays ==
    ASSUME Skew = 0, TypeOK, TokensIdentifyClaims, LostIsFinal, [Next]_vars
    PROVE  LostIsFinal'
  <1> SUFFICES ASSUME NEW w \in Workers, lost'[w], ClaimOwned(w, 0)'
               PROVE  FALSE
    BY DEF LostIsFinal
  <1> DEFINE d == claim'[w].doc
  <1>1. /\ phase'[w] \in ClaimedPhase /\ row'[d].state = "processing"
        /\ row'[d].owner = WorkerId[w] /\ row'[d].lease > 0
        /\ row'[d].token = claim'[w].token
    BY DEF ClaimOwned, Fence
  <1>2. claim'[w] # None
    BY <1>1, WorkersStep DEF WorkersOK
  <1>3. CASE \E now \in Reading : ~ClaimOwned(w, now) /\ UNCHANGED <<row, phase, claim>>
    BY <1>1, <1>3, NoSkew DEF ClaimOwned, Fence
  <1>4. CASE lost[w] /\ claim'[w] = claim[w]
    <2>1. /\ d \in Docs /\ claim[w] # None /\ claim[w].token # None
          /\ phase[w] \in ClaimedPhase
      BY <1>2, <1>4, Holding, TypeParts DEF WorkersOK
    <2>2. ~ \E v \in Workers : Taken(v, d)
      <3> SUFFICES ASSUME NEW v \in Workers, Taken(v, d) PROVE FALSE
        OBVIOUS
      <3>1. row'[d].token = claim'[v].token /\ claim'[v].token \notin UsedTokens
        BY <2>1, TakenFacts
      <3> QED  BY <1>1, <1>4, <2>1, <3>1, FreshToken
    <2>3. row'[d].token = row[d].token /\ row'[d].owner = row[d].owner
      BY <1>1, <1>4, <2>1, <2>2, TokenOrigin
    <2>4. row[d].state = "processing" /\ row[d].lease \in Int /\ row'[d].lease \in Int
      BY <1>1, <1>4, <2>1, <2>3, TypeParts, TableStep, QueueAssumption
         DEF TableOK, RowOK, Row, LeaseTime
    <2>5. ~ (row[d].lease > 0)
      BY <1>1, <1>4, <2>1, <2>3, <2>4 DEF LostIsFinal, ClaimOwned, Fence
    <2>6. RowStep(d)
      BY <2>1, RowSteps
    <2>7. ASSUME NEW v \in Workers, NEW now \in Reading, Renewed(v, d, now) PROVE FALSE
      BY <2>5, <2>7, NoSkew DEF Renewed, ClaimOwned, Fence
    <2>8. ~ Untouched(d)
      BY <1>1, <2>4, <2>5 DEF Untouched
    <2> QED
      BY <1>1, <1>4, <2>1, <2>2, <2>6, <2>7, <2>8 DEF RowStep, Waits, Recovered, Ended
  <1>5. LostStep(w)
    BY ClaimSteps
  <1> QED  BY <1>2, <1>3, <1>4, <1>5 DEF LostStep

(* A worker whose heartbeat has seen the loss of its claim never passes a   *)
(* fence with that claim again.                                            *)
THEOREM LossIsFinal == ASSUME Skew = 0 PROVE Spec => []LostIsFinal
  <1> DEFINE I == TypeOK /\ TokensIdentifyClaims /\ LostIsFinal
  <1>1. Init => I
    BY TypeInit, TokensInit DEF Init, LostIsFinal
  <1>2. I /\ [Next]_vars => I'
    BY TypeStep, TokensStep, LostStays
  <1> QED  BY <1>1, <1>2, PTL DEF Spec

-----------------------------------------------------------------------------
(***************************************************************************)
(* FoundryQueue implements CandidateCustody: with clocks that agree, every  *)
(* step of the queue is a step of custody or changes nothing in it.        *)
(***************************************************************************)

StageBar == [d \in Docs |-> CustodyStage(d)]
RevisionBar == [d \in Docs |-> row[d].payload]
GrantBar == [d \in Docs |-> row[d].token]
TaskOf(w) == IF claim[w] = None THEN None ELSE [doc |-> claim[w].doc, grant |-> claim[w].token]
TaskBar == [w \in Workers |-> TaskOf(w)]

SameTable == UNCHANGED <<StageBar, RevisionBar, GrantBar>>

(* The rows that a step leaves alone look the same to custody. *)
LEMMA SameRow ==
    ASSUME NEW d \in Docs, row'[d] = row[d]
    PROVE  CustodyStage(d)' = CustodyStage(d)
  BY DEF CustodyStage, Live

LEMMA SameRows == ASSUME \A d \in Docs : row'[d] = row[d] PROVE SameTable
  BY SameRow DEF SameTable, StageBar, RevisionBar, GrantBar

LEMMA SameClaims == ASSUME claim' = claim PROVE UNCHANGED TaskBar
  BY DEF TaskBar, TaskOf

LEMMA StageOfRow ==
    ASSUME TypeOK, NEW d \in Docs
    PROVE  /\ row[d].state \in {"absent", "queued"} => CustodyStage(d) = row[d].state
           /\ Live(d, 0) => CustodyStage(d) = "held"
           /\ row[d].state = "processing" /\ ~Live(d, 0) => CustodyStage(d) = "lapsed"
           /\ row[d].state \in {"absent", "queued", "processing"}
           /\ row[d].state # "processing" => row[d].token = None
  <1>1. row[d] \in Row /\ RowOK(row[d])
    BY DEF TypeOK, RowOK
  <1> QED  BY <1>1 DEF CustodyStage, Live, Row, RowState, RowOK

LEMMA StageOfRow2 ==
    ASSUME TypeOK, [Next]_vars, NEW d \in Docs
    PROVE  /\ row'[d].state \in {"absent", "queued"} => CustodyStage(d)' = row'[d].state
           /\ Live(d, 0)' => CustodyStage(d)' = "held"
           /\ row'[d].state = "processing" /\ ~Live(d, 0)' => CustodyStage(d)' = "lapsed"
           /\ row'[d].state \in {"absent", "queued", "processing"}
  <1>1. TableOK'
    BY TableStep
  <1>2. row'[d] \in Row /\ RowOK(row'[d])
    BY <1>1 DEF TableOK, RowOK
  <1> QED  BY <1>2 DEF CustodyStage, Live, Row, RowState, RowOK

(* Dropping a claim is abandoning the task, when the table stays. *)
LEMMA DropIsAbandon ==
    ASSUME TypeOK, NEW w \in Workers, NEW p, Drop(w, p), row' = row
    PROVE  (\E v \in Workers : Custody!Abandon(v)) \/ UNCHANGED Custody!vars
  <1>1. UNCHANGED <<StageBar, RevisionBar, GrantBar>>
    BY SameRows DEF SameTable
  <1>2. claim \in [Workers -> Claim \cup {None}] /\ claim' = [claim EXCEPT ![w] = None]
    BY DEF TypeOK, Drop
  <1>3. TaskBar' = [TaskBar EXCEPT ![w] = None]
    BY <1>2 DEF TaskBar, TaskOf
  <1>4. CASE TaskBar[w] = None
    <2>1. TaskBar' = TaskBar
      BY <1>3, <1>4 DEF TaskBar
    <2> QED  BY <1>1, <2>1 DEF Custody!vars, StageBar, RevisionBar, GrantBar, TaskBar, TaskOf
  <1>5. CASE TaskBar[w] # None
    <2>1. Custody!Abandon(w)
      BY <1>1, <1>3, <1>5
         DEF Custody!Abandon, StageBar, RevisionBar, GrantBar, TaskBar, TaskOf
    <2> QED  BY <2>1
  <1> QED  BY <1>4, <1>5

LEMMA Stutter ==
    ASSUME SameTable, claim' = claim
    PROVE  UNCHANGED Custody!vars
  BY SameClaims DEF SameTable, Custody!vars, StageBar, RevisionBar, GrantBar, TaskBar, TaskOf

(* Arrivals, withdrawals and the passage of time. *)
LEMMA ArriveStep ==
    ASSUME TypeOK, NEW d \in Docs, NEW r \in Revisions, Enqueue(d, r, "retained"), [Next]_vars
    PROVE  Custody!Next \/ UNCHANGED Custody!vars
  <1>1. claim' = claim
    BY DEF Enqueue, workerVars
  <1>2. CASE row[d].state = "processing"
    <2>1. \A e \in Docs : row'[e] = row[e]
      BY <1>2 DEF Enqueue, TypeOK
    <2> QED  BY <1>1, <2>1, SameRows, Stutter
  <1>3. CASE row[d].state # "processing"
    <2>1. row[d] \in Row
      BY DEF TypeOK, RowOK
    <2>2. row'[d].state = "queued" /\ row'[d].payload = r /\ row'[d].token = row[d].token
      <3>1. row[d].state \in {"absent", "queued"} /\ row[d].token = None
        BY <1>3, StageOfRow
      <3>2. CASE row[d].state = "absent"
        BY <3>1, <3>2 DEF Enqueue, TypeOK, NewRow
      <3>3. CASE row[d].state = "queued"
        BY <2>1, <3>1, <3>3 DEF Enqueue, TypeOK, Row
      <3> QED  BY <3>1, <3>2, <3>3
    <2>3. \A e \in Docs \ {d} : row'[e] = row[e]
      BY DEF Enqueue, TypeOK
    <2>4. StageBar[d] \in {"absent", "queued"} /\ CustodyStage(d)' = "queued"
      BY <1>3, <2>2, StageOfRow, StageOfRow2 DEF StageBar
    <2>5. StageBar' = [StageBar EXCEPT ![d] = "queued"]
      BY <2>3, <2>4, SameRow DEF StageBar
    <2>6. RevisionBar' = [RevisionBar EXCEPT ![d] = r]
      BY <2>2, <2>3 DEF RevisionBar
    <2>7. GrantBar' = GrantBar
      BY <2>2, <2>3 DEF GrantBar
    <2>8. Custody!Arrive(d, r)
      BY <1>1, <2>4, <2>5, <2>6, <2>7, SameClaims
         DEF Custody!Arrive, StageBar, RevisionBar, GrantBar, TaskBar, TaskOf
    <2> QED  BY <2>8 DEF Custody!Next
  <1> QED  BY <1>2, <1>3

LEMMA WithdrawStep ==
    ASSUME TypeOK, [Next]_vars, NEW S \in SUBSET Docs,
           \A d \in S : row[d].state = "queued",
           row' = [d \in Docs |-> IF d \in S THEN AbsentRow ELSE row[d]],
           claim' = claim
    PROVE  Custody!Next
  <1>1. \A d \in S : /\ StageBar[d] = "queued" /\ row[d].token = None
                     /\ CustodyStage(d)' = "absent" /\ row'[d].token = None
                     /\ row'[d].payload = None
    BY StageOfRow, StageOfRow2 DEF StageBar, AbsentRow
  <1>2. \A d \in Docs \ S : row'[d] = row[d]
    OBVIOUS
  <1>3. StageBar' = [d \in Docs |-> IF d \in S THEN "absent" ELSE StageBar[d]]
    BY <1>1, <1>2, SameRow DEF StageBar
  <1>4. RevisionBar' = [d \in Docs |-> IF d \in S THEN None ELSE RevisionBar[d]]
    BY <1>1, <1>2 DEF RevisionBar
  <1>5. GrantBar' = GrantBar
    BY <1>1, <1>2 DEF GrantBar
  <1>6. Custody!Withdraw(S)
    BY <1>1, <1>3, <1>4, <1>5, SameClaims
       DEF Custody!Withdraw, StageBar, RevisionBar, GrantBar, TaskBar, TaskOf
  <1> QED  BY <1>6 DEF Custody!Next

LEMMA LapseStep ==
    ASSUME TypeOK, [Next]_vars, Tick
    PROVE  Custody!Next
  <1> DEFINE S == {d \in Docs : Live(d, 0) /\ ~Live(d, 0)'}
  <1>1. ASSUME NEW d \in Docs
        PROVE  /\ row'[d].state = row[d].state /\ row'[d].payload = row[d].payload
               /\ row'[d].owner = row[d].owner /\ row'[d].token = row[d].token
               /\ row'[d].lease <= row[d].lease /\ row[d].lease \in Int /\ row'[d].lease \in Int
    <2>1. RowOK(row[d]) /\ row'[d] = Aged(row[d])
      BY DEF TypeOK, Tick
    <2>2. row[d].lease \in Int /\ row'[d].lease \in Int
      BY TypeParts, LeaseIsInt, TableStep, QueueAssumption DEF TableOK, RowOK, Row, LeaseTime
    <2> QED  BY <2>1, <2>2, AgedLease
  <1>2. ASSUME NEW d \in Docs
        PROVE  /\ d \in S => StageBar[d] = "held" /\ CustodyStage(d)' = "lapsed"
               /\ d \notin S => CustodyStage(d)' = StageBar[d]
    <2>1. Live(d, 0)' => Live(d, 0)
      BY <1>1 DEF Live
    <2>2. CASE row[d].state = "processing"
      BY <1>1, <2>1, <2>2, StageOfRow, StageOfRow2 DEF StageBar
    <2>3. CASE row[d].state # "processing"
      BY <1>1, <2>3, StageOfRow, StageOfRow2 DEF StageBar, Live
    <2> QED  BY <2>2, <2>3
  <1>3. claim' = claim
    BY DEF Tick, workerVars
  <1>4. S \in SUBSET Docs
    OBVIOUS
  <1> HIDE DEF S
  <1>5. StageBar' = [d \in Docs |-> IF d \in S THEN "lapsed" ELSE StageBar[d]]
    BY <1>2 DEF StageBar
  <1>6. RevisionBar' = RevisionBar /\ GrantBar' = GrantBar
    BY <1>1 DEF RevisionBar, GrantBar
  <1>7. \A d \in S : StageBar[d] = "held"
    BY <1>2, <1>4
  <1>8. Custody!Lapse(S)
    BY <1>3, <1>4, <1>5, <1>6, <1>7, SameClaims
       DEF Custody!Lapse, StageBar, RevisionBar, GrantBar, TaskBar, TaskOf
  <1> QED  BY <1>4, <1>8 DEF Custody!Next

LEMMA ReapStep ==
    ASSUME Skew = 0, TypeOK, [Next]_vars, NEW w \in Workers, RecoverExpired(w, 0)
    PROVE  Custody!Next
  <1>1. PICK S \in SUBSET Docs : \A d \in Docs : d \in S <=> Expired(d, 0) \/ Unleased(d)
    <2> DEFINE T == {d \in Docs : Expired(d, 0) \/ Unleased(d)}
    <2>1. T \in SUBSET Docs /\ \A d \in Docs : d \in T <=> Expired(d, 0) \/ Unleased(d)
      OBVIOUS
    <2> QED  BY <2>1
  <1>2. ASSUME NEW d \in S
        PROVE  /\ StageBar[d] = "lapsed" \/ (StageBar[d] = "held" /\ GrantBar[d] = None)
               /\ CustodyStage(d)' = "queued" /\ row'[d].token = None
               /\ row'[d].payload = row[d].payload
    <2>0. d \in Docs /\ (Expired(d, 0) \/ Unleased(d))
      BY <1>1
    <2>1. row[d] \in Row /\ RowOK(row[d]) /\ row[d].lease \in Int
      BY <2>0, LeaseIsInt, TypeParts DEF TypeOK, RowOK
    <2>2. row'[d] = Unclaimed(row[d])
      BY <2>0 DEF RecoverExpired
    <2>3. row'[d].token = None /\ row'[d].payload = row[d].payload /\ row'[d].state = "queued"
      BY <2>1, <2>2 DEF Unclaimed, Row
    <2>4. \/ row[d].state = "processing" /\ ~Live(d, 0)
          \/ Live(d, 0) /\ row[d].token = None
      BY <2>0, <2>1 DEF Expired, Unleased, Live, RowOK
    <2>5. /\ StageBar[d] = CustodyStage(d) /\ GrantBar[d] = row[d].token
      BY <2>0 DEF StageBar, GrantBar
    <2>6. \/ CustodyStage(d) = "lapsed"
          \/ CustodyStage(d) = "held" /\ row[d].token = None
      BY <2>0, <2>4, StageOfRow
    <2> QED  BY <2>0, <2>3, <2>5, <2>6, StageOfRow2
  <1>3. \A d \in Docs \ S : row'[d] = row[d]
    BY <1>1 DEF RecoverExpired
  <1>4. claim' = claim
    BY DEF RecoverExpired, Goto
  <1>5. StageBar' = [d \in Docs |-> IF d \in S THEN "queued" ELSE StageBar[d]]
    BY <1>2, <1>3, SameRow DEF StageBar
  <1>6. GrantBar' = [d \in Docs |-> IF d \in S THEN None ELSE GrantBar[d]]
    BY <1>2, <1>3 DEF GrantBar
  <1>7. RevisionBar' = RevisionBar
    BY <1>2, <1>3 DEF RevisionBar
  <1>8. Custody!Reap(S)
    BY <1>1, <1>2, <1>4, <1>5, <1>6, <1>7, SameClaims
       DEF Custody!Reap, StageBar, RevisionBar, GrantBar, TaskBar, TaskOf
  <1> QED  BY <1>8 DEF Custody!Next

(* Claims, and the ways they end. *)
LEMMA AcceptStep ==
    ASSUME Skew = 0, TypeOK, [Next]_vars, NEW w \in Workers, NEW d \in Docs,
           Taken(w, d)
    PROVE  Custody!Next
  <1>0. /\ claim'[w] \in Claim /\ claim'[w].doc = d
        /\ claim'[w].token \in Tokens \ UsedTokens /\ claim'[w].token # None
        /\ row'[d].token = claim'[w].token /\ row'[d].payload = row[d].payload
        /\ row'[d].state = "processing" /\ row'[d].owner = WorkerId[w]
        /\ \A e \in Docs \ {d} : row'[e] = row[e]
        /\ \A v \in Workers \ {w} : claim'[v] = claim[v]
        /\ claim[w] = None
    <2>1. TakenEffect(w, d)
      BY TakenEffects
    <2> QED  BY <2>1 DEF TakenEffect
  <1>1. PICK g \in Tokens \ UsedTokens : g = claim'[w].token
    BY <1>0
  <1>2. PICK t \in Tokens, now \in Reading : ClaimCandidate(w, d, t, now)
    BY DEF Taken
  <1>3. now = 0 /\ Claimable(d, 0)
    BY <1>2, NoSkew DEF ClaimCandidate
  <1>4. /\ StageBar[d] \in {"queued", "lapsed"}
        /\ \A e \in Docs : StageBar[e] # "held"
    <2>1. \A e \in Docs : ~Live(e, 0)
      BY <1>3 DEF Claimable
    <2>2. row[d].state \in {"queued", "processing"}
      BY <1>3 DEF Claimable, Expired
    <2> QED  BY <2>1, <2>2, StageOfRow DEF StageBar
  <1>5. CustodyStage(d)' = "held"
    <2>1. row'[d].lease = LeaseTicks
      <3>1. row[d] \in Row
        BY DEF TypeOK, RowOK
      <3> QED  BY <1>2, <1>3, <3>1, QueueAssumption
               DEF ClaimCandidate, Claimed, TypeOK, Row
    <2>2. Live(d, 0)'
      BY <1>0, <2>1, QueueAssumption DEF Live
    <2> QED  BY <2>2, StageOfRow2
  <1>6. StageBar' = [StageBar EXCEPT ![d] = "held"]
    BY <1>0, <1>5, SameRow DEF StageBar
  <1>7. GrantBar' = [GrantBar EXCEPT ![d] = g] /\ RevisionBar' = RevisionBar
    BY <1>0, <1>1 DEF GrantBar, RevisionBar
  <1>8. \A v \in Workers : claim[v] # None => claim'[v] = claim[v]
    BY <1>0
  <1>9. TaskBar' = [TaskBar EXCEPT ![w] = [doc |-> d, grant |-> g]]
    <2>1. claim'[w] # None
      BY <1>0, QueueAssumption
    <2> QED  BY <1>0, <1>1, <2>1 DEF TaskBar, TaskOf
  <1>10. TaskBar[w] = None
    BY <1>0 DEF TaskBar, TaskOf
  <1>11. /\ \A e \in Docs : GrantBar[e] # g
         /\ \A v \in Workers : TaskBar[v] # None => TaskBar[v].grant # g
    <2>1. \A v \in Workers : TaskBar[v] # None =>
             claim[v] # None /\ TaskBar[v].grant = claim[v].token
      BY DEF TaskBar, TaskOf
    <2> QED  BY <1>1, <2>1, FreshToken DEF GrantBar
  <1>12. Custody!Accept(w, d, g)
    BY <1>4, <1>6, <1>7, <1>9, <1>10, <1>11
       DEF Custody!Accept, StageBar, RevisionBar, GrantBar, TaskBar, TaskOf
  <1> QED  BY <1>1, <1>12 DEF Custody!Next

LEMMA EndStep ==
    ASSUME Skew = 0, TypeOK, [Next]_vars, NEW w \in Workers, phase[w] \in ClaimedPhase,
           Fence(w, 0), NEW p, Drop(w, p),
           NEW x, x.token = None,
           \/ x.state = "absent" /\ x.payload = None
           \/ x.state = "queued" /\ x.payload = row[claim[w].doc].payload,
           row' = [row EXCEPT ![claim[w].doc] = x]
    PROVE  Custody!Next
  <1>0. 0 \in Reading
    BY QueueAssumption DEF Reading
  <1>1. PICK d \in Docs : d = claim[w].doc
    BY Holding, TypeParts
  <1>2. /\ claim[w] # None /\ claim[w].token # None
        /\ row[d].state = "processing"
    BY <1>0, <1>1, Holding, FencedRow, TypeParts
  <1>3. StageBar[d] = "held" /\ GrantBar[d] = claim[w].token
    <2>1. Live(d, 0)
      BY <1>2, <1>1 DEF Fence, Live
    <2> QED  BY <1>1, <2>1, StageOfRow DEF StageBar, GrantBar, Fence
  <1>4. TaskBar[w] = [doc |-> d, grant |-> GrantBar[d]]
    BY <1>2, <1>3, <1>1 DEF TaskBar, TaskOf
  <1>5. row'[d] = x /\ \A e \in Docs \ {d} : row'[e] = row[e]
    BY <1>1 DEF TypeOK
  <1>6. claim' = [claim EXCEPT ![w] = None] /\ claim \in [Workers -> Claim \cup {None}]
    BY DEF Drop, TypeOK
  <1>7. TaskBar' = [TaskBar EXCEPT ![w] = None]
    BY <1>6 DEF TaskBar, TaskOf
  <1>8. CustodyStage(d)' = x.state
    BY <1>5, StageOfRow2
  <1>9. StageBar' = [StageBar EXCEPT ![d] = x.state]
    BY <1>5, <1>8, SameRow DEF StageBar
  <1>10. GrantBar' = [GrantBar EXCEPT ![d] = None]
    <2>1. \A e \in Docs : row'[e].token = IF e = d THEN None ELSE row[e].token
      BY <1>5
    <2> QED  BY <2>1 DEF GrantBar
  <1>11. CASE x.state = "absent" /\ x.payload = None
    <2>1. RevisionBar' = [RevisionBar EXCEPT ![d] = None]
      <3>1. \A e \in Docs : row'[e].payload = IF e = d THEN None ELSE row[e].payload
        BY <1>5, <1>11
      <3> QED  BY <3>1 DEF RevisionBar
    <2>2. Custody!Complete(w, d)
      BY <1>2, <1>3, <1>4, <1>7, <1>9, <1>10, <1>11, <2>1
         DEF Custody!Complete, Custody!Holds, StageBar, RevisionBar, GrantBar, TaskBar, TaskOf
    <2> QED  BY <2>2 DEF Custody!Next
  <1>12. CASE x.state = "queued" /\ x.payload = row[d].payload
    <2>1. RevisionBar' = RevisionBar
      BY <1>5, <1>12 DEF RevisionBar
    <2>2. Custody!GiveBack(w, d)
      BY <1>2, <1>3, <1>4, <1>7, <1>9, <1>10, <1>12, <2>1
         DEF Custody!GiveBack, Custody!Holds, StageBar, RevisionBar, GrantBar, TaskBar, TaskOf
    <2> QED  BY <2>2 DEF Custody!Next
  <1> QED  BY <1>11, <1>12, <1>1

LEMMA CustodyInit == Init => Custody!Init
  <1> SUFFICES ASSUME Init PROVE Custody!Init
    OBVIOUS
  <1>1. TypeOK /\ (\A d \in Docs : row[d].token = None)
    BY TypeInit, LegacyOK DEF Init, AbsentRow
  <1>2. \A d \in Docs : row[d] \in Row
    BY <1>1 DEF TypeOK, RowOK
  <1>3. \A d \in Docs : /\ CustodyStage(d) \in {"absent", "queued", "held"}
                        /\ CustodyStage(d) = "held" => Unleased(d)
    <2>1. \A d \in Docs : row[d].state = "processing" => Unleased(d) /\ Live(d, 0)
      BY <1>1 DEF TypeOK, RowOK, Unleased, Live
    <2> QED  BY <1>1, <2>1, StageOfRow DEF Unleased
  <1>4. StageBar \in [Docs -> {"absent", "queued", "held"}]
    BY <1>3, Zenon DEF StageBar
  <1>5. \A d, e \in Docs : StageBar[d] = "held" /\ StageBar[e] = "held" => d = e
    BY <1>3 DEF StageBar, Init
  <1>6. RevisionBar \in [Docs -> Revisions \cup {None}]
    BY <1>2 DEF RevisionBar, Row
  <1>7. GrantBar = [d \in Docs |-> None] /\ TaskBar = [w \in Workers |-> None]
    BY <1>1 DEF GrantBar, TaskBar, TaskOf, Init
  <1> QED  BY <1>4, <1>5, <1>6, <1>7
           DEF Custody!Init, StageBar, RevisionBar, GrantBar, TaskBar, TaskOf

LEMMA CustodyStep ==
    ASSUME Skew = 0, TypeOK, [Next]_vars
    PROVE  Custody!Next \/ UNCHANGED Custody!vars
  <1>1. 0 \in Reading /\ \A now \in Reading : now = 0
    BY NoSkew, QueueAssumption DEF Reading
  <1>2. ASSUME NEW d \in Docs, NEW r \in Revisions, Enqueue(d, r, "retained")
        PROVE  Custody!Next \/ UNCHANGED Custody!vars
    BY <1>2, ArriveStep
  <1>3. ASSUME NEW S \in SUBSET Docs, DropQueued(S) PROVE Custody!Next
    BY <1>3, WithdrawStep DEF DropQueued, workerVars
  <1>4. CASE Tick
    BY <1>4, LapseStep
  <1>5. ASSUME NEW w \in Workers, OpenStore(w)
        PROVE  Custody!Next \/ UNCHANGED Custody!vars
    <2>1. claim' = claim
      BY <1>5 DEF OpenStore, Goto
    <2>2. CASE generation
      BY <1>5, <2>1, <2>2, SameRows, Stutter DEF OpenStore
    <2>3. CASE ~generation
      <3>1. PICK S \in SUBSET Docs : \A d \in Docs : d \in S <=> row[d].state = "queued"
        <4> DEFINE T == {d \in Docs : row[d].state = "queued"}
        <4>1. T \in SUBSET Docs /\ \A d \in Docs : d \in T <=> row[d].state = "queued"
          OBVIOUS
        <4> QED  BY <4>1
      <3>2. row' = [d \in Docs |-> IF d \in S THEN AbsentRow ELSE row[d]]
        BY <1>5, <2>3, <3>1 DEF OpenStore
      <3> QED  BY <2>1, <3>1, <3>2, WithdrawStep
    <2> QED  BY <2>2, <2>3
  <1>6. ASSUME NEW w \in Workers, RecoverExpired(w, 0) PROVE Custody!Next
    BY <1>6, ReapStep
  <1>7. ASSUME NEW w \in Workers, NEW d \in Docs, NEW t \in Tokens \ UsedTokens,
               ClaimCandidate(w, d, t, 0)
        PROVE  Custody!Next
    BY <1>1, <1>7, AcceptStep DEF Taken
  <1>8. ASSUME NEW w \in Workers, CacheEvidence(w, 0)
        PROVE  Custody!Next \/ UNCHANGED Custody!vars
    <2>1. claim' = claim
      BY <1>8 DEF CacheEvidence, Goto
    <2>2. CASE ClaimOwned(w, 0)
      <3>1. \A d \in Docs : row[d] \in Row
        BY DEF TypeOK, RowOK
      <3>2. \A d \in Docs : row'[d] = row[d] \/ row'[d] = [row[d] EXCEPT !.evidence = "retained"]
        BY <1>8, <2>2 DEF CacheEvidence, TypeOK
      <3>3. \A d \in Docs : /\ row'[d].state = row[d].state /\ row'[d].owner = row[d].owner
                            /\ row'[d].lease = row[d].lease /\ row'[d].token = row[d].token
                            /\ row'[d].payload = row[d].payload
        BY <3>1, <3>2 DEF Row
      <3>4. SameTable
        BY <3>3 DEF SameTable, StageBar, CustodyStage, Live, RevisionBar, GrantBar
      <3> QED  BY <2>1, <3>4, Stutter
    <2>3. CASE ~ClaimOwned(w, 0)
      BY <1>8, <2>1, <2>3, SameRows, Stutter DEF CacheEvidence
    <2> QED  BY <2>2, <2>3
  <1>9. ASSUME NEW w \in Workers,
               \/ LoadEvidence(w) \/ PipelineEnds(w) \/ PublishOutbox(w) \/ RecordProcessed(w)
               \/ AssertBeforePublish(w, 0)
        PROVE  UNCHANGED Custody!vars
    <2>1. row' = row /\ claim' = claim
      BY <1>9 DEF LoadEvidence, PipelineEnds, PublishOutbox, RecordProcessed,
                  AssertBeforePublish, Goto
    <2> QED  BY <2>1, SameRows, Stutter
  <1>10. ASSUME NEW w \in Workers,
                \/ AssertBeforeFinish(w, 0) \/ AssertBeforeDefer(w, 0)
                \/ StoreUnavailable(w) \/ Crash(w)
         PROVE  Custody!Next \/ UNCHANGED Custody!vars
    <2>1. row' = row /\ \E p : Goto(w, p) \/ Drop(w, p)
      BY <1>10 DEF AssertBeforeFinish, AssertBeforeDefer, StoreUnavailable, Crash
    <2>2. ASSUME NEW p, Goto(w, p) PROVE UNCHANGED Custody!vars
      BY <2>1, <2>2, SameRows, Stutter DEF Goto
    <2>3. ASSUME NEW p, Drop(w, p) PROVE (\E v \in Workers : Custody!Abandon(v)) \/ UNCHANGED Custody!vars
      BY <2>1, <2>3, DropIsAbandon
    <2> QED  BY <2>1, <2>2, <2>3 DEF Custody!Next
  <1>11. ASSUME NEW w \in Workers,
                FinishCandidate(w, 0) \/ DeferCandidate(w, 0) \/ ReleaseCandidate(w, 0)
         PROVE  Custody!Next \/ UNCHANGED Custody!vars
    <2>1. phase[w] \in ClaimedPhase /\ \E p : Drop(w, p)
      BY <1>11 DEF FinishCandidate, DeferCandidate, ReleaseCandidate, ClaimedPhase
    <2>2. PICK p : Drop(w, p)
      BY <2>1
    <2>3. CASE ~Fence(w, 0)
      <3>1. row' = row
        BY <1>11, <2>3 DEF FinishCandidate, DeferCandidate, ReleaseCandidate
      <3>2. (\E v \in Workers : Custody!Abandon(v)) \/ UNCHANGED Custody!vars
        BY <2>2, <3>1, DropIsAbandon
      <3> QED  BY <3>2 DEF Custody!Next
    <2>4. CASE Fence(w, 0)
      <3> DEFINE r == row[claim[w].doc]
                 released == [Unclaimed(r) EXCEPT !.wait = NotDeferred]
      <3>1. RowOK(r) /\ r \in Row /\ r.state # "absent"
        BY <1>1, <2>1, <2>4, FencedRow, TypeParts DEF RowOK
      <3>2. /\ Deferred(r).token = None /\ Deferred(r).state = "queued"
            /\ Deferred(r).payload = r.payload
        BY <3>1 DEF Deferred, Unclaimed, Row
      <3>3. released.token = None /\ released.state = "queued" /\ released.payload = r.payload
        BY <3>1 DEF Unclaimed, Row
      <3>4. AbsentRow.token = None /\ AbsentRow.state = "absent" /\ AbsentRow.payload = None
        BY DEF AbsentRow
      <3>5. \E x \in {AbsentRow, Deferred(r), released} : row' = [row EXCEPT ![claim[w].doc] = x]
        BY <1>11, <2>4 DEF FinishCandidate, DeferCandidate, ReleaseCandidate
      <3> HIDE DEF released
      <3>6. PICK x \in {AbsentRow, Deferred(r), released} : row' = [row EXCEPT ![claim[w].doc] = x]
        BY <3>5
      <3>7. /\ x.token = None
            /\ \/ x.state = "absent" /\ x.payload = None
               \/ x.state = "queued" /\ x.payload = r.payload
        BY <3>2, <3>3, <3>4, <3>6
      <3> QED  BY <2>1, <2>2, <2>4, <3>6, <3>7, EndStep
    <2> QED  BY <2>3, <2>4
  <1>12. ASSUME NEW w \in Workers, Heartbeat(w, 0) PROVE UNCHANGED Custody!vars
    <2>1. claim' = claim
      BY <1>12 DEF Heartbeat
    <2>2. ASSUME NEW d \in Docs PROVE /\ CustodyStage(d)' = CustodyStage(d)
                                      /\ row'[d].payload = row[d].payload
                                      /\ row'[d].token = row[d].token
      <3>1. CASE ClaimOwned(w, 0) /\ claim[w].doc = d
        <4>1. row[d] \in Row /\ row'[d] = [row[d] EXCEPT !.lease = LeaseTicks]
          BY <1>12, <3>1, QueueAssumption DEF Heartbeat, TypeOK, RowOK
        <4>2. Live(d, 0) /\ Live(d, 0)'
          BY <3>1, <4>1, QueueAssumption DEF ClaimOwned, Fence, Live, Row
        <4> QED  BY <4>1, <4>2, StageOfRow, StageOfRow2 DEF Row
      <3>2. CASE ~(ClaimOwned(w, 0) /\ claim[w].doc = d)
        <4>1. row'[d] = row[d]
          BY <1>12, <3>2 DEF Heartbeat, TypeOK
        <4> QED  BY <4>1, SameRow
      <3> QED  BY <3>1, <3>2
    <2>3. SameTable
      BY <2>2 DEF SameTable, StageBar, RevisionBar, GrantBar
    <2> QED  BY <2>1, <2>3, Stutter
  <1>13. CASE UNCHANGED vars
    BY <1>13, SameRows, Stutter DEF vars
  <1> QED
    BY <1>1, <1>2, <1>3, <1>4, <1>5, <1>6, <1>7, <1>8, <1>9, <1>10, <1>11, <1>12, <1>13
       DEF Next, Intake, Drain, Faults

(* With clocks that agree the candidate queue implements CandidateCustody:  *)
(* for the workers it is a table of papers of which at most one is held.   *)
THEOREM CustodyImplemented == ASSUME Skew = 0 PROVE Spec => ImplementsCustody
  <1>1. Init => Custody!Init
    BY CustodyInit
  <1>2. TypeOK /\ [Next]_vars => [Custody!Next]_(Custody!vars)
    BY CustodyStep
  <1> QED  BY <1>1, <1>2, TypeCorrect, PTL DEF Spec, ImplementsCustody, Custody!Spec

-----------------------------------------------------------------------------
(* A revision, or a place in the catalogue, and what HubScan keeps. *)
Place == Nat \X Nat
Mark == [time: Nat, keys: SUBSET Place]
ScanState == [on: BOOLEAN, boundary: Mark, cursor: Place, processed: SUBSET Place, head: Mark]
PollerState == [pc: {"idle", "list", "items", "emitted"}, completed: Mark, scan: ScanState,
                items: SUBSET (Nat \X Repos), crossed: BOOLEAN, more: BOOLEAN, last: Place,
                full: BOOLEAN, blob: Blobs \cup {Absent}]

(* Revisions there is nothing left to do about; Covered, of any watermark.   *)
Settled == handled \cup before
CoveredBy(x, m) == x[1] < m.time \/ x \in m.keys

(* A mark is of what the catalogue showed, at most of its present head.      *)
Behind(m) ==
    /\ m.time = 0 \/ \E r \in Repos : m.time <= hub[r].time
    /\ \A k \in m.keys : k[2] \in Repos /\ k[1] <= hub[k[2]].time

(* What is shown and covered by a watermark is settled. *)
GoodMark(m) == Behind(m) /\ \A x \in Hub!Listed : CoveredBy(x, m) => x \in Settled

(* What the head of a scan covers is settled, or known, or still to be listed. *)
GoodScan(s) ==
    /\ GoodMark(s.boundary) /\ Behind(s.head)
    /\ s.cursor = Hub!Top \/ s.cursor[1] <= s.head.time
    /\ s.processed \subseteq handled \cup s.boundary.keys
    /\ \A x \in Hub!Listed : CoveredBy(x, s.head) =>
          x \in Settled \/ CoveredBy(x, s.boundary) \/ x \in Hub!After(s.cursor)

(* With a page at hand it is settled, or known, or left on the page, or after  *)
(* it, which the page is full for.                                         *)
GoodPage(q) ==
    /\ \A x \in Hub!Listed : CoveredBy(x, q.scan.head) =>
          \/ x \in Settled \/ CoveredBy(x, q.scan.boundary) \/ x \in q.items
          \/ q.full /\ Hub!Before(q.last, x)
    /\ \A x \in q.items : q.last[1] <= x[1]
    /\ q.crossed => q.last[1] < q.scan.boundary.time
    /\ q.last = Hub!Top \/ q.last[1] <= q.scan.head.time
    /\ IsFiniteSet(q.items)

(* The types of the variables of HubScan. *)
HubTypes ==
    /\ hub \in [Repos -> [time: Nat, blob: Blobs \cup {Absent}]]
    /\ \A r \in Repos : 1 <= hub[r].time /\ hub[r].time <= touches + 2
    /\ touches \in 0..TouchLimit /\ faults \in 0..HubFaults
    /\ completed \in Mark /\ scan \in ScanState /\ blobs \subseteq Repos \X Blobs
    /\ poller \in [Pollers -> PollerState]
    /\ emitted \in [Repos \X Blobs -> Nat]

(* A record of a poller is sound whoever's it is. *)
Sound(q) ==
    /\ GoodMark(q.completed) /\ GoodScan(q.scan)
    /\ q.pc \in {"items", "emitted"} => GoodPage(q)
    /\ q.pc = "emitted" => q.items # {} /\ q.blob \in Blobs /\ Hub!FirstOf(q.items) \in handled

(* The inductive invariant of HubScan: what is stored and what every process   *)
(* goes on with is sound, whoever wrote it.                                *)
HubInv ==
    /\ HubTypes
    /\ GoodMark(completed) /\ GoodScan(scan)
    /\ \A p \in Pollers : Sound(poller[p])

-----------------------------------------------------------------------------
(* The order of the catalogue. *)
LEMMA HubSizes ==
    /\ \A S : Hub!Cardinality(S) = Cardinality(S)
    /\ \A S : Hub!IsFiniteSet(S) <=> IsFiniteSet(S)
  BY DEF Cardinality, Hub!Cardinality, IsFiniteSet, Hub!IsFiniteSet

LEMMA BeforeIs ==
    ASSUME NEW x \in Place, NEW y \in Place, NEW z \in Place
    PROVE  /\ ~Hub!Before(x, x)
           /\ x = y \/ Hub!Before(x, y) \/ Hub!Before(y, x)
           /\ ~(Hub!Before(x, y) /\ Hub!Before(y, x))
           /\ Hub!Before(x, y) /\ Hub!Before(y, z) => Hub!Before(x, z)
           /\ Hub!Before(x, y) => y[1] <= x[1]
  BY DEF Hub!Before, Place

(* Of some subsets of a finite set one has no other among its subsets. *)
LEMMA LeastSubset ==
    ASSUME NEW S, IsFiniteSet(S), NEW T, T \subseteq SUBSET S, T # {}
    PROVE  \E s \in T : \A t \in T : t \subseteq s => t = s
  <1>1. FiniteSubsetsOf(S) = SUBSET S
    BY FS_FiniteSubsetsOfFinite
  <1>2. IsWellFoundedOn(StrictSubsetOrdering(S), SUBSET S)
    BY <1>1, FS_StrictSubsetOrderingWellFounded
  <1>3. PICK s \in T : \A t \in T : ~(<<t, s>> \in StrictSubsetOrdering(S))
    BY <1>2, WFMin
  <1>4. \A t \in T : t \subseteq s => t = s
    BY <1>3 DEF StrictSubsetOrdering
  <1> QED  BY <1>4

(* FirstOf and LastOf without their choice. *)
Leads(x, S) == x \in S /\ \A y \in S \ {x} : Hub!Before(x, y)
Closes(x, S) == x \in S /\ \A y \in S \ {x} : Hub!Before(y, x)

(* Some revisions have a first one and a last one. *)
LEMMA Extremes ==
    ASSUME NEW S, S \subseteq Place, IsFiniteSet(S), S # {}
    PROVE  (\E x \in S : Leads(x, S)) /\ (\E x \in S : Closes(x, S))
  <1> DEFINE Bad == {T \in SUBSET S :
                         T # {} /\ ~((\E x \in T : Leads(x, T)) /\ (\E x \in T : Closes(x, T)))}
  <1> SUFFICES ASSUME Bad # {} PROVE FALSE
    OBVIOUS
  <1>0. Bad \subseteq SUBSET S
    OBVIOUS
  <1> HIDE DEF Bad
  <1>1. PICK T \in Bad : \A t \in Bad : t \subseteq T => t = T
    BY <1>0, LeastSubset
  <1> USE DEF Bad
  <1>2. T \subseteq Place /\ T # {}
    BY <1>1
  <1>3. PICK a : a \in T
    BY <1>2
  <1>4. CASE T \ {a} = {}
    <2>1. T = {a}
      BY <1>3, <1>4
    <2> QED  BY <1>1, <2>1 DEF Leads, Closes
  <1>5. CASE T \ {a} # {}
    <2>1. T \ {a} \notin Bad /\ T \ {a} \in SUBSET S
      BY <1>1, <1>3
    <2>2. PICK f \in T \ {a}, l \in T \ {a} : Leads(f, T \ {a}) /\ Closes(l, T \ {a})
      BY <2>1, <1>5
    <2>3. a \in Place /\ f \in Place /\ l \in Place
      BY <1>2, <1>3, <2>2
    <2>4. \E x \in T : Leads(x, T)
      <3>1. CASE Hub!Before(a, f)
        <4>1. \A y \in T \ {a} : Hub!Before(a, y)
          BY <3>1, <2>2, <2>3, <1>2, BeforeIs DEF Leads
        <4> QED  BY <4>1, <1>3 DEF Leads
      <3>2. CASE ~Hub!Before(a, f)
        <4>1. Hub!Before(f, a)
          BY <3>2, <2>2, <2>3, BeforeIs
        <4> QED  BY <4>1, <2>2 DEF Leads
      <3> QED  BY <3>1, <3>2
    <2>5. \E x \in T : Closes(x, T)
      <3>1. CASE Hub!Before(l, a)
        <4>1. \A y \in T \ {a} : Hub!Before(y, a)
          BY <3>1, <2>2, <2>3, <1>2, BeforeIs DEF Closes
        <4> QED  BY <4>1, <1>3 DEF Closes
      <3>2. CASE ~Hub!Before(l, a)
        <4>1. Hub!Before(a, l)
          BY <3>2, <2>2, <2>3, BeforeIs
        <4> QED  BY <4>1, <2>2 DEF Closes
      <3> QED  BY <3>1, <3>2
    <2> QED  BY <1>1, <2>4, <2>5
  <1> QED  BY <1>4, <1>5

LEMMA FirstIs ==
    ASSUME NEW S, S \subseteq Place, IsFiniteSet(S), S # {}
    PROVE  /\ Hub!FirstOf(S) \in S /\ \A y \in S \ {Hub!FirstOf(S)} : Hub!Before(Hub!FirstOf(S), y)
           /\ \A y \in S : y[1] <= Hub!FirstOf(S)[1]
  <1>1. \E x \in S : \A y \in S \ {x} : Hub!Before(x, y)
    BY Extremes DEF Leads
  <1>2. Hub!FirstOf(S) \in S /\ \A y \in S \ {Hub!FirstOf(S)} : Hub!Before(Hub!FirstOf(S), y)
    BY <1>1 DEF Hub!FirstOf
  <1>3. ASSUME NEW y \in S PROVE y[1] <= Hub!FirstOf(S)[1]
    BY <1>2, BeforeIs DEF Place
  <1> QED  BY <1>2, <1>3

LEMMA LastIs ==
    ASSUME NEW S, S \subseteq Place, IsFiniteSet(S), S # {}
    PROVE  Hub!LastOf(S) \in S /\ \A y \in S : Hub!LastOf(S)[1] <= y[1]
  <1>1. \E x \in S : \A y \in S \ {x} : Hub!Before(y, x)
    BY Extremes DEF Closes
  <1>2. Hub!LastOf(S) \in S /\ \A y \in S \ {Hub!LastOf(S)} : Hub!Before(y, Hub!LastOf(S))
    BY <1>1 DEF Hub!LastOf
  <1>3. ASSUME NEW y \in S PROVE Hub!LastOf(S)[1] <= y[1]
    BY <1>2, BeforeIs DEF Place
  <1> QED  BY <1>2, <1>3

LEMMA ListedIs ==
    ASSUME Hub!HubAssumption, HubTypes
    PROVE  /\ IsFiniteSet(Hub!Listed)
           /\ Hub!Listed \subseteq Nat \X Repos /\ Hub!Listed \subseteq Place
           /\ \A x \in Hub!Listed : x[2] \in Repos /\ x[1] = hub[x[2]].time /\ x[1] >= 1
  <1>1. /\ Hub!Listed \subseteq Nat \X Repos /\ Hub!Listed \subseteq Place
        /\ \A x \in Hub!Listed : x[2] \in Repos /\ x[1] = hub[x[2]].time /\ x[1] >= 1
    BY DEF Hub!Listed, Hub!Revision, HubTypes, Hub!HubAssumption, Place
  <1> DEFINE f == [r \in Repos |-> Hub!Revision(r)]
  <1>2. f \in Surjection(Repos, Hub!Listed)
    BY DEF Surjection, Hub!Listed
  <1>3. IsFiniteSet(Hub!Listed)
    BY <1>2, FS_Surjection, HubSizes DEF Hub!HubAssumption
  <1> QED  BY <1>1, <1>3

(* A page is the next of the catalogue, and full when something is after it. *)
LEMMA PageIs ==
    ASSUME Hub!HubAssumption, HubTypes, NEW c \in Place
    PROVE  /\ Hub!Page(c) \subseteq Hub!After(c) /\ Hub!After(c) \subseteq Hub!Listed
           /\ IsFiniteSet(Hub!Page(c))
           /\ \A x \in Hub!After(c) \ Hub!Page(c) :
                 /\ Hub!Page(c) # {} /\ Cardinality(Hub!Page(c)) >= PageSize
                 /\ Hub!Before(Hub!LastOf(Hub!Page(c)), x)
  <1> DEFINE A == Hub!After(c)  Ahead(x) == {y \in A : Hub!Before(y, x)}
  <1>1. A \subseteq Hub!Listed /\ Hub!Page(c) = {x \in A : Cardinality(Ahead(x)) < PageSize}
    BY HubSizes DEF Hub!After, Hub!Page
  <1>2. IsFiniteSet(A) /\ A \subseteq Place /\ \A T \in SUBSET A : IsFiniteSet(T)
    BY <1>1, ListedIs, FS_Subset
  <1>3. ASSUME NEW x \in A \ Hub!Page(c), NEW y \in Hub!Page(c) PROVE Hub!Before(y, x)
    <2> SUFFICES ASSUME ~Hub!Before(y, x) PROVE FALSE
      OBVIOUS
    <2>1. Hub!Before(x, y) /\ x \in Place /\ y \in Place
      BY <1>1, <1>2, BeforeIs
    <2>2. Ahead(x) \subseteq Ahead(y)
      BY <2>1, <1>2, BeforeIs
    <2>3. /\ Cardinality(Ahead(x)) <= Cardinality(Ahead(y))
          /\ Cardinality(Ahead(x)) \in Nat /\ Cardinality(Ahead(y)) \in Nat
      BY <1>2, <2>2, FS_Subset, FS_CardinalityType
    <2> QED  BY <1>1, <2>3 DEF Hub!HubAssumption
  <1>4. ASSUME A \ Hub!Page(c) # {} PROVE Cardinality(Hub!Page(c)) >= PageSize
    <2>0. IsFiniteSet(A \ Hub!Page(c)) /\ A \ Hub!Page(c) \subseteq Place
      BY <1>2
    <2>1. PICK x \in A \ Hub!Page(c) : \A y \in (A \ Hub!Page(c)) \ {x} : Hub!Before(x, y)
      <3>1. \E x \in A \ Hub!Page(c) : Leads(x, A \ Hub!Page(c))
        BY <2>0, <1>4, Extremes
      <3> QED  BY <3>1 DEF Leads
    <2>2. x \in Place /\ \A y \in A : y \in Place
      BY <1>2
    <2>3. Ahead(x) \subseteq Hub!Page(c)
      BY <2>1, <2>2, BeforeIs
    <2>4. ~(Cardinality(Ahead(x)) < PageSize)
      BY <1>1, <2>1
    <2>5. /\ Cardinality(Ahead(x)) <= Cardinality(Hub!Page(c))
          /\ Cardinality(Ahead(x)) \in Nat /\ Cardinality(Hub!Page(c)) \in Nat
      BY <1>1, <1>2, <2>3, FS_Subset, FS_CardinalityType
    <2> QED  BY <2>4, <2>5 DEF Hub!HubAssumption
  <1>5. ASSUME A \ Hub!Page(c) # {} PROVE Hub!Page(c) # {}
    BY <1>4, <1>5, FS_EmptySet DEF Hub!HubAssumption
  <1>6. Hub!Page(c) \subseteq Place /\ IsFiniteSet(Hub!Page(c))
    BY <1>1, <1>2
  <1>7. ASSUME NEW x \in A \ Hub!Page(c) PROVE Hub!Before(Hub!LastOf(Hub!Page(c)), x)
    <2>1. Hub!LastOf(Hub!Page(c)) \in Hub!Page(c)
      BY <1>5, <1>6, <1>7, LastIs
    <2> QED  BY <1>3, <2>1
  <1> QED  BY <1>1, <1>4, <1>5, <1>6, <1>7

-----------------------------------------------------------------------------
(* What is said of marks, scans and pages stays true: nothing of it depends on *)
(* the store.                                                              *)
Keeps ==
    /\ \A m \in Mark : GoodMark(m) => GoodMark(m)'
    /\ \A s \in ScanState : GoodScan(s) => GoodScan(s)'
    /\ \A q \in PollerState : GoodPage(q) /\ Behind(q.scan.head) => GoodPage(q)'
    /\ handled \subseteq handled'

(* More is settled. *)
LEMMA GrowthKeeps ==
    ASSUME UNCHANGED hub, handled \subseteq handled', before \subseteq before'
    PROVE  Keeps
  <1>1. /\ Hub!Listed' = Hub!Listed /\ \A c : Hub!After(c)' = Hub!After(c)
        /\ Settled \subseteq Settled'
    BY DEF Hub!Listed, Hub!Revision, Hub!After, Settled
  <1>2. ASSUME NEW m PROVE Behind(m) => Behind(m)'
    BY DEF Behind
  <1>3. ASSUME NEW m PROVE GoodMark(m) => GoodMark(m)'
    BY <1>1, <1>2 DEF GoodMark
  <1>4. ASSUME NEW s PROVE GoodScan(s) => GoodScan(s)'
    BY <1>1, <1>2, <1>3 DEF GoodScan
  <1>5. ASSUME NEW q PROVE GoodPage(q) => GoodPage(q)'
    BY <1>1 DEF GoodPage
  <1> QED  BY <1>3, <1>4, <1>5 DEF Keeps

LEMMA TodayIs ==
    ASSUME Hub!HubAssumption, HubTypes, Repos # {}
    PROVE  /\ Hub!Max({hub[q].time : q \in Repos}) \in Nat
           /\ \A r \in Repos : hub[r].time <= Hub!Max({hub[q].time : q \in Repos})
           /\ \E r \in Repos : Hub!Max({hub[q].time : q \in Repos}) = hub[r].time
  <1> DEFINE T == {hub[q].time : q \in Repos}
  <1>1. Hub!Listed # {} /\ IsFiniteSet(Hub!Listed) /\ Hub!Listed \subseteq Place
    BY ListedIs DEF Hub!Listed
  <1>2. PICK f \in Hub!Listed : \A y \in Hub!Listed : y[1] <= f[1]
    BY <1>1, FirstIs
  <1>3. \A q \in Repos :
            /\ hub[q].time = Hub!Revision(q)[1] /\ Hub!Revision(q) \in Hub!Listed
            /\ hub[q].time \in Nat
    BY DEF Hub!Revision, Hub!Listed, HubTypes
  <1>4. f[1] \in T /\ \A y \in T : f[1] >= y
    BY <1>2, <1>3, ListedIs
  <1>5. \E x \in T : \A y \in T : x >= y
    BY <1>4
  <1>6. Hub!Max(T) \in T /\ \A y \in T : Hub!Max(T) >= y
    BY <1>5 DEF Hub!Max
  <1> QED  BY <1>3, <1>6

(* A touched repository is shown at the newest time, where no mark covers it. *)
LEMMA TouchKeeps ==
    ASSUME Hub!HubAssumption, HubTypes, NEW r \in Repos, Hub!Touch(r)
    PROVE  HubTypes' /\ Keeps
  <1> DEFINE today == Hub!Max({hub[q].time : q \in Repos})
  <1>1. PICK t \in {today, today + 1} \ {hub[r].time}, b \in Blobs \cup {Absent} :
            hub' = [hub EXCEPT ![r] = [time |-> t, blob |-> b]]
    BY DEF Hub!Touch
  <1>2. /\ touches < TouchLimit /\ touches' = touches + 1
        /\ UNCHANGED <<Hub!store, poller, Hub!history, faults>>
    BY DEF Hub!Touch
  <1>3. /\ today \in Nat /\ \A q \in Repos : hub[q].time <= today
        /\ today <= touches + 2
    BY TodayIs DEF HubTypes
  <1> HIDE DEF today
  <1>4. /\ t \in Nat /\ t >= today /\ t # hub[r].time /\ t <= touches + 3
        /\ hub[r].time \in Nat /\ hub[r].time < t
    <2>1. hub[r].time \in Nat /\ hub[r].time <= today /\ touches \in Nat
      BY <1>3 DEF HubTypes
    <2>2. t # hub[r].time /\ (t = today \/ t = today + 1)
      BY <1>1
    <2> QED  BY <1>3, <2>1, <2>2
  <1>5. /\ hub' \in [Repos -> [time: Nat, blob: Blobs \cup {Absent}]]
        /\ hub'[r].time = t /\ \A q \in Repos \ {r} : hub'[q] = hub[q]
    BY <1>1, <1>4 DEF HubTypes
  <1>6. HubTypes'
    <2>1. \A q \in Repos : 1 <= hub'[q].time /\ hub'[q].time <= touches' + 2
      BY <1>2, <1>3, <1>4, <1>5 DEF HubTypes
    <2>2. touches' \in 0..TouchLimit
      BY <1>2 DEF HubTypes, Hub!HubAssumption
    <2> QED  BY <1>2, <1>5, <2>1, <2>2 DEF HubTypes, Hub!store, Hub!history
  <1>7. ASSUME NEW m \in Mark, Behind(m)
        PROVE  Behind(m)' /\ (\A x \in Hub!Listed' : CoveredBy(x, m) => x \in Hub!Listed)
    <2>1. m.time \in Nat /\ m.keys \subseteq Place
      BY DEF Mark
    <2>2. m.time <= today
      BY <1>3, <1>7, <2>1 DEF Behind, HubTypes
    <2>3. \A q \in Repos : hub[q].time \in Nat /\ hub[q].time <= hub'[q].time
      BY <1>4, <1>5 DEF HubTypes
    <2>4. m.time <= hub'[r].time
      <3>1. m.time <= t
        BY <1>3, <1>4, <2>1, <2>2
      <3> QED  BY <1>5, <3>1
    <2>5. \A k \in m.keys : k[2] \in Repos /\ k[1] <= hub'[k[2]].time
      BY <1>7, <2>1, <2>3, <1>5 DEF Behind, Place
    <2>6. ASSUME NEW q \in Repos, CoveredBy(<<hub'[q].time, q>>, m)
          PROVE  <<hub'[q].time, q>> \in Hub!Listed
      <3>1. CASE q # r
        BY <1>5, <3>1 DEF Hub!Listed, Hub!Revision
      <3>2. CASE q = r
        <4>1. ~(t < m.time)
          BY <1>3, <1>4, <2>1, <2>2
        <4>2. <<t, r>> \in m.keys
          BY <2>6, <3>2, <4>1, <1>5 DEF CoveredBy
        <4>3. t <= hub[r].time
          BY <4>2, <1>7 DEF Behind
        <4> QED  BY <4>3, <1>4
      <3> QED  BY <3>1, <3>2
    <2>7. \A x \in Hub!Listed' : \E q \in Repos : x = <<hub'[q].time, q>>
      BY DEF Hub!Listed, Hub!Revision
    <2>8. \A x \in Hub!Listed' : CoveredBy(x, m) => x \in Hub!Listed
      BY <2>6, <2>7
    <2> QED  BY <2>4, <2>5, <2>8 DEF Behind
  <1>8. Settled' = Settled /\ handled' = handled
    BY <1>2 DEF Settled, Hub!history
  <1>9. ASSUME NEW m \in Mark, GoodMark(m) PROVE GoodMark(m)'
    <2>1. Behind(m)' /\ (\A x \in Hub!Listed' : CoveredBy(x, m) => x \in Hub!Listed)
      BY <1>7, <1>9 DEF GoodMark
    <2> QED  BY <1>8, <1>9, <2>1 DEF GoodMark, CoveredBy
  <1>10. ASSUME NEW s \in ScanState, GoodScan(s) PROVE GoodScan(s)'
    <2>1. s.head \in Mark /\ s.boundary \in Mark
      BY DEF ScanState
    <2>2. Behind(s.head)' /\ (\A x \in Hub!Listed' : CoveredBy(x, s.head) => x \in Hub!Listed)
      BY <1>7, <1>10, <2>1 DEF GoodScan
    <2>3. GoodMark(s.boundary)'
      BY <1>9, <1>10, <2>1 DEF GoodScan
    <2>4. \A x \in Hub!Listed' : x \in Hub!After(s.cursor) => x \in Hub!After(s.cursor)'
      BY DEF Hub!After
    <2>5. \A x \in Hub!Listed' : CoveredBy(x, s.head) =>
              x \in Settled' \/ CoveredBy(x, s.boundary) \/ x \in Hub!After(s.cursor)'
      BY <1>8, <1>10, <2>2, <2>4 DEF GoodScan
    <2> QED  BY <1>8, <1>10, <2>2, <2>3, <2>5 DEF GoodScan, CoveredBy
  <1>11. ASSUME NEW q \in PollerState, GoodPage(q), Behind(q.scan.head) PROVE GoodPage(q)'
    <2>1. q.scan.head \in Mark
      BY DEF ScanState, PollerState
    <2>2. \A x \in Hub!Listed' : CoveredBy(x, q.scan.head) => x \in Hub!Listed
      BY <1>7, <1>11, <2>1
    <2> QED  BY <1>8, <1>11, <2>2 DEF GoodPage, CoveredBy
  <1> QED  BY <1>6, <1>8, <1>9, <1>10, <1>11 DEF Keeps

(* A step of p, to the record q, on what all else keeps. *)
LEMMA Moves ==
    ASSUME HubInv, Keeps, HubTypes', NEW p \in Pollers, NEW q \in PollerState,
           poller' = [poller EXCEPT ![p] = q],
           GoodMark(completed)', GoodScan(scan)', Sound(q)'
    PROVE  HubInv'
  <1>1. poller'[p] = q /\ \A r \in Pollers \ {p} : poller'[r] = poller[r]
    BY DEF HubInv, HubTypes
  <1>2. ASSUME NEW r \in Pollers \ {p} PROVE Sound(poller[r])'
    <2>1. PICK w \in PollerState : w = poller[r] /\ w = poller'[r]
      BY <1>1 DEF HubInv, HubTypes
    <2>2. w.completed \in Mark /\ w.scan \in ScanState
      BY DEF PollerState
    <2>3. Sound(w)
      BY <2>1 DEF HubInv
    <2>4. Sound(w)'
      BY <2>2, <2>3 DEF Sound, Keeps, GoodScan
    <2> QED  BY <2>1, <2>4
  <1>3. Sound(poller[p])'
    BY <1>1
  <1> QED  BY <1>2, <1>3 DEF HubInv

LEMMA PollerIs ==
    ASSUME HubInv, NEW p \in Pollers
    PROVE  /\ poller[p] \in PollerState /\ Sound(poller[p])
           /\ poller[p].completed \in Mark /\ poller[p].scan \in ScanState
           /\ poller[p].scan.boundary \in Mark /\ poller[p].scan.head \in Mark
           /\ poller[p].last \in Place /\ poller[p].items \subseteq Nat \X Repos
  BY DEF HubInv, HubTypes, PollerState, ScanState

LEMMA ItemIs ==
    ASSUME Hub!HubAssumption, HubInv, NEW p \in Pollers,
           poller[p].pc \in {"items", "emitted"}, poller[p].items # {}
    PROVE  Hub!Item(p) \in poller[p].items /\ Hub!Item(p) \in Nat \X Repos /\ Hub!Item(p) \in Place
  <1>1. IsFiniteSet(poller[p].items) /\ poller[p].items \subseteq Place
    BY PollerIs DEF Sound, GoodPage, Place, Hub!HubAssumption
  <1> QED  BY <1>1, PollerIs, FirstIs DEF Hub!Item

LEMMA NoMarkIs ==
    ASSUME Hub!HubAssumption, HubTypes
    PROVE  /\ Hub!NoMark \in Mark /\ Hub!NoScan \in ScanState /\ Hub!Idle \in PollerState
           /\ GoodMark(Hub!NoMark) /\ GoodScan(Hub!NoScan) /\ Sound(Hub!Idle)
           /\ \A x \in Hub!Listed : ~CoveredBy(x, Hub!NoMark)
  <1>1. Hub!NoMark \in Mark /\ Hub!NoMark.time = 0 /\ Hub!NoMark.keys = {}
    BY DEF Hub!NoMark, Mark
  <1>2. /\ Hub!NoScan \in ScanState /\ Hub!NoScan.boundary = Hub!NoMark
        /\ Hub!NoScan.head = Hub!NoMark
        /\ Hub!NoScan.cursor = Hub!Top /\ Hub!NoScan.processed = {}
    BY <1>1 DEF Hub!NoScan, ScanState, Hub!Top, Place
  <1>3. /\ Hub!Idle \in PollerState /\ Hub!Idle.pc = "idle"
        /\ Hub!Idle.completed = Hub!NoMark /\ Hub!Idle.scan = Hub!NoScan
    BY <1>1, <1>2 DEF Hub!Idle, PollerState, Hub!Top, Place
  <1>4. Behind(Hub!NoMark) /\ \A x \in Hub!Listed : ~CoveredBy(x, Hub!NoMark)
    BY <1>1, ListedIs DEF Behind, CoveredBy, Place
  <1>5. GoodMark(Hub!NoMark) /\ GoodScan(Hub!NoScan)
    BY <1>2, <1>4 DEF GoodMark, GoodScan
  <1> QED  BY <1>1, <1>2, <1>3, <1>4, <1>5 DEF Sound

LEMMA HubInvInit == ASSUME Hub!HubAssumption PROVE Hub!Init => HubInv
  <1> SUFFICES ASSUME Hub!Init PROVE HubInv
    OBVIOUS
  <1>1. PICK b \in Blobs : b = CHOOSE c \in Blobs : TRUE
    BY DEF Hub!HubAssumption
  <1>2. hub \in [Repos -> [time: 1..2, blob: {b}]]
    BY <1>1 DEF Hub!Init
  <1>3. hub \in [Repos -> [time: Nat, blob: Blobs \cup {Absent}]]
        /\ \A r \in Repos : 1 <= hub[r].time /\ hub[r].time <= 2
    BY <1>2
  <1>4. Hub!NoMark \in Mark /\ Hub!NoScan \in ScanState /\ Hub!Idle \in PollerState
    BY DEF Hub!NoMark, Mark, Hub!NoScan, ScanState, Hub!Idle, PollerState, Hub!Top, Place
  <1>5. HubTypes
    BY <1>3, <1>4 DEF Hub!Init, HubTypes, Hub!HubAssumption
  <1>6. \A p \in Pollers : poller[p] = Hub!Idle
    BY DEF Hub!Init
  <1> QED  BY <1>5, <1>6, NoMarkIs DEF Hub!Init, HubInv

(* The process ends its pass, whatever for. *)
LEMMA IdleKeeps ==
    ASSUME Hub!HubAssumption, HubInv, Keeps, HubTypes', NEW p \in Pollers,
           poller' = [poller EXCEPT ![p] = Hub!Idle], GoodMark(completed)', GoodScan(scan)'
    PROVE  HubInv'
  <1>1. /\ Hub!NoMark \in Mark /\ Hub!NoScan \in ScanState /\ Hub!Idle \in PollerState
        /\ GoodMark(Hub!NoMark) /\ GoodScan(Hub!NoScan)
    BY NoMarkIs DEF HubInv
  <1>2. GoodMark(Hub!NoMark)' /\ GoodScan(Hub!NoScan)'
    BY <1>1 DEF Keeps
  <1>3. Hub!Idle.pc = "idle" /\ Hub!Idle.completed = Hub!NoMark /\ Hub!Idle.scan = Hub!NoScan
    BY DEF Hub!Idle
  <1>4. Sound(Hub!Idle)'
    BY <1>2, <1>3 DEF Sound
  <1> QED  BY <1>1, <1>4, Moves

LEMMA StoreStays ==
    ASSUME HubInv, Keeps, UNCHANGED <<completed, scan>>
    PROVE  GoodMark(completed)' /\ GoodScan(scan)'
  <1>1. PICK m \in Mark, s \in ScanState : m = completed /\ s = scan
    BY DEF HubInv, HubTypes
  <1>2. GoodMark(m)' /\ GoodScan(s)'
    BY <1>1 DEF HubInv, Keeps
  <1> QED  BY <1>1, <1>2

LEMMA EndKeeps ==
    ASSUME Hub!HubAssumption, HubInv, NEW p \in Pollers, Hub!GapFound(p) \/ Hub!Abort(p)
    PROVE  HubInv'
  <1>1. /\ poller' = [poller EXCEPT ![p] = Hub!Idle]
        /\ UNCHANGED <<Hub!world, Hub!store, Hub!history>>
        /\ faults' \in 0..HubFaults
    BY DEF Hub!GapFound, Hub!Abort, Hub!Fault, HubInv, HubTypes, Hub!HubAssumption
  <1>2. Keeps
    BY <1>1, GrowthKeeps DEF Hub!world, Hub!history
  <1>3. GoodMark(completed)' /\ GoodScan(scan)'
    BY <1>1, <1>2, StoreStays DEF Hub!store
  <1>4. Hub!Idle \in PollerState
    BY NoMarkIs DEF HubInv
  <1>5. HubTypes'
    BY <1>1, <1>4 DEF HubInv, HubTypes, Hub!world, Hub!store, Hub!history
  <1> QED  BY <1>1, <1>2, <1>3, <1>5, IdleKeeps

LEMMA BeginKeeps == ASSUME Hub!HubAssumption, HubInv, NEW p \in Pollers, Hub!Begin(p) PROVE HubInv'
  <1> DEFINE opened == [Hub!NoScan EXCEPT !.on = TRUE, !.boundary = completed]
             s == IF scan.on THEN scan ELSE opened
             q == [[Hub!Idle EXCEPT !.pc = "list"] EXCEPT !.completed = completed, !.scan = s]
  <1>1. /\ completed' = completed /\ scan' = s /\ poller' = [poller EXCEPT ![p] = q]
        /\ UNCHANGED <<Hub!world, blobs, Hub!history>> /\ faults' \in 0..HubFaults
    BY DEF Hub!Begin, Hub!Store, Hub!Fault, HubInv, HubTypes, Hub!HubAssumption
  <1>2. Keeps
    BY <1>1, GrowthKeeps DEF Hub!world, Hub!history
  <1>3. /\ Hub!NoMark \in Mark /\ Hub!NoScan \in ScanState /\ Hub!Idle \in PollerState
        /\ \A x \in Hub!Listed : ~CoveredBy(x, Hub!NoMark)
    BY NoMarkIs DEF HubInv
  <1>4. completed \in Mark /\ scan \in ScanState
    BY DEF HubInv, HubTypes
  <1>5. /\ opened \in ScanState /\ opened.boundary = completed /\ opened.head = Hub!NoMark
        /\ opened.cursor = Hub!Top /\ opened.processed = {}
    BY <1>3, <1>4 DEF Hub!NoScan, ScanState
  <1>6. GoodScan(opened)
    <2>1. Behind(Hub!NoMark)
      BY DEF Hub!NoMark, Behind
    <2> HIDE DEF opened
    <2> QED  BY <1>3, <1>5, <2>1 DEF GoodScan, HubInv
  <1>7. s \in ScanState /\ GoodScan(s)
    BY <1>4, <1>5, <1>6 DEF HubInv
  <1> HIDE DEF opened, s
  <1>8. q \in PollerState /\ q.pc = "list" /\ q.completed = completed /\ q.scan = s
    BY <1>3, <1>4, <1>7 DEF PollerState, Hub!Idle
  <1> HIDE DEF q
  <1>9. PICK m \in Mark, t \in ScanState, w \in PollerState : m = completed /\ t = s /\ w = q
    BY <1>4, <1>7, <1>8
  <1>10. GoodMark(m)' /\ GoodScan(t)'
    BY <1>2, <1>7, <1>9 DEF Keeps, HubInv
  <1>11. GoodMark(completed)' /\ GoodScan(scan)'
    BY <1>1, <1>9, <1>10
  <1>12. Sound(w)'
    BY <1>8, <1>9, <1>10 DEF Sound
  <1>13. HubTypes'
    BY <1>1, <1>7, <1>8 DEF HubInv, HubTypes, Hub!world, Hub!history
  <1>14. poller' = [poller EXCEPT ![p] = w]
    BY <1>1, <1>9
  <1> QED  BY <1>2, <1>11, <1>12, <1>13, <1>14, Moves

(* An item is done: it was settled, or the watermark knows it. *)
LEMMA DoneKeeps ==
    ASSUME Hub!HubAssumption, HubInv, NEW p \in Pollers, Hub!Done(p),
           UNCHANGED <<Hub!world, faults>>,
           poller[p].pc \in {"items", "emitted"}, poller[p].items # {},
           blobs' \subseteq Repos \X Blobs, emitted' = emitted,
           handled \subseteq handled', before' = before,
           Hub!Item(p) \in handled' \cup poller[p].scan.boundary.keys
    PROVE  HubInv'
  <1> DEFINE s == [poller[p].scan EXCEPT !.processed = @ \cup {Hub!Item(p)}]
             q == [[poller[p] EXCEPT !.pc = "items", !.items = @ \ {Hub!Item(p)}]
                     EXCEPT !.completed = poller[p].completed, !.scan = s]
  <1>1. /\ completed' = poller[p].completed /\ scan' = s
        /\ poller' = [poller EXCEPT ![p] = q]
    BY DEF Hub!Done, Hub!Store
  <1>2. Keeps
    BY GrowthKeeps DEF Hub!world
  <1>3. PICK w \in PollerState, i \in Place : w = poller[p] /\ i = Hub!Item(p) /\ i \in w.items
    BY PollerIs, ItemIs
  <1>4. /\ s \in ScanState /\ s.boundary = w.scan.boundary /\ s.head = w.scan.head
        /\ s.cursor = w.scan.cursor /\ s.processed = w.scan.processed \cup {i}
    BY <1>3, PollerIs DEF ScanState
  <1> HIDE DEF s
  <1>5. /\ q \in PollerState /\ q.pc = "items" /\ q.completed = w.completed /\ q.scan = s
        /\ q.items = w.items \ {i} /\ q.full = w.full /\ q.last = w.last /\ q.crossed = w.crossed
    BY <1>3, <1>4, PollerIs DEF PollerState
  <1> HIDE DEF q
  <1>6. PICK t \in ScanState, v \in PollerState : t = s /\ v = q
    BY <1>4, <1>5
  <1>7. Sound(w)
    BY <1>3, PollerIs
  <1>8. w.completed \in Mark /\ w.scan \in ScanState
    BY DEF PollerState
  <1>9. GoodMark(w.completed)' /\ GoodScan(w.scan)' /\ GoodPage(w)'
    BY <1>2, <1>3, <1>7, <1>8 DEF Sound, Keeps, GoodScan
  <1>10. i \in handled' \cup w.scan.boundary.keys
    BY <1>3
  <1>11. GoodScan(t)'
    BY <1>4, <1>6, <1>9, <1>10 DEF GoodScan
  <1>12. HubTypes'
    BY <1>1, <1>3, <1>4, <1>5, PollerIs DEF HubInv, HubTypes, Hub!world
  <1>13. GoodPage(v)'
    <2>1. i \in handled' \/ CoveredBy(i, w.scan.boundary)'
      BY <1>10 DEF CoveredBy
    <2>2. /\ v.scan.head = w.scan.head /\ v.scan.boundary = w.scan.boundary
          /\ v.items = w.items \ {i} /\ v.full = w.full /\ v.last = w.last
          /\ v.crossed = w.crossed
      BY <1>4, <1>5, <1>6
    <2>3. IsFiniteSet(w.items)
      BY <1>3, <1>7 DEF Sound, GoodPage
    <2>4. IsFiniteSet(v.items)
      BY <2>2, <2>3, FS_RemoveElement
    <2> QED  BY <1>9, <2>1, <2>2, <2>4 DEF GoodPage, Settled
  <1>14. Sound(v)'
    BY <1>5, <1>6, <1>9, <1>11, <1>13 DEF Sound
  <1>15. GoodMark(completed)' /\ GoodScan(scan)'
    BY <1>1, <1>3, <1>6, <1>9, <1>11
  <1>16. poller' = [poller EXCEPT ![p] = v]
    BY <1>1, <1>6
  <1> QED  BY <1>2, <1>12, <1>14, <1>15, <1>16, Moves

LEMMA AlreadyDoneKeeps ==
    ASSUME Hub!HubAssumption, HubInv, NEW p \in Pollers, Hub!AlreadyDone(p)
    PROVE  HubInv'
  <1>1. /\ poller[p].pc = "items" /\ poller[p].items # {} /\ Hub!Done(p) /\ Hub!Skipped(p)
        /\ UNCHANGED <<Hub!world, blobs, Hub!history, faults>>
    BY DEF Hub!AlreadyDone, Hub!Working, Hub!At
  <1>2. poller[p].scan.processed \subseteq handled \cup poller[p].scan.boundary.keys
    BY PollerIs DEF Sound, GoodScan
  <1>3. Hub!Item(p) \in handled \cup poller[p].scan.boundary.keys
    BY <1>1, <1>2 DEF Hub!Skipped, Hub!Known
  <1> QED  BY <1>1, <1>3, DoneKeeps DEF Hub!history, HubInv, HubTypes

LEMMA NothingNewKeeps ==
    ASSUME Hub!HubAssumption, HubInv, NEW p \in Pollers, Hub!NothingNew(p)
    PROVE  HubInv'
  <1>1. /\ poller[p].pc = "items" /\ poller[p].items # {} /\ Hub!Done(p)
        /\ handled' = handled \cup {Hub!Item(p)}
        /\ UNCHANGED <<Hub!world, blobs, emitted, before, faults>>
    BY DEF Hub!NothingNew, Hub!Working, Hub!At
  <1> QED  BY <1>1, DoneKeeps DEF HubInv, HubTypes

LEMMA RememberKeeps ==
    ASSUME Hub!HubAssumption, HubInv, NEW p \in Pollers, Hub!Remember(p)
    PROVE  HubInv'
  <1>1. /\ poller[p].pc = "emitted" /\ Hub!Done(p) /\ UNCHANGED <<Hub!world, Hub!history, faults>>
        /\ blobs' = blobs \cup {<<Hub!Item(p)[2], poller[p].blob>>}
    BY DEF Hub!Remember, Hub!Remembered, Hub!At
  <1>2. poller[p].items # {} /\ poller[p].blob \in Blobs /\ Hub!Item(p) \in handled
    BY <1>1, PollerIs DEF Sound, Hub!Item
  <1>3. Hub!Item(p)[2] \in Repos
    BY <1>1, <1>2, ItemIs
  <1>4. blobs' \subseteq Repos \X Blobs
    BY <1>1, <1>2, <1>3 DEF HubInv, HubTypes
  <1> QED  BY <1>1, <1>2, <1>4, DoneKeeps DEF Hub!history

LEMMA BlobIs ==
    ASSUME HubInv, NEW x, x[2] \in Repos
    PROVE  Hub!BlobOf(x) \subseteq Blobs \cup {Absent}
  BY DEF Hub!BlobOf, HubInv, HubTypes

(* What is emitted is settled at once; its page goes on when it is remembered. *)
LEMMA EmitKeeps == ASSUME Hub!HubAssumption, HubInv, NEW p \in Pollers, Hub!Emit(p) PROVE HubInv'
  <1>1. PICK b \in Hub!BlobOf(Hub!Item(p)) \ {Absent} :
            /\ <<Hub!Item(p)[2], b>> \notin blobs
            /\ emitted' = [emitted EXCEPT ![<<Hub!Item(p)[2], b>>] = @ + 1]
            /\ poller' = [poller EXCEPT ![p].pc = "emitted", ![p].blob = b]
    BY DEF Hub!Emit
  <1>2. /\ poller[p].pc = "items" /\ poller[p].items # {}
        /\ handled' = handled \cup {Hub!Item(p)}
        /\ UNCHANGED <<Hub!world, Hub!store, before, faults>>
    BY DEF Hub!Emit, Hub!Working, Hub!At
  <1>3. Hub!Item(p)[2] \in Repos /\ Hub!Item(p) = Hub!FirstOf(poller[p].items)
    BY <1>2, ItemIs DEF Hub!Item
  <1>4. b \in Blobs
    BY <1>1, <1>3, BlobIs
  <1>5. PICK w \in PollerState : w = poller[p]
    BY PollerIs
  <1> DEFINE q == [w EXCEPT !.pc = "emitted", !.blob = b]
  <1>6. /\ q \in PollerState /\ q.pc = "emitted" /\ q.blob = b /\ q.completed = w.completed
        /\ q.scan = w.scan /\ q.items = w.items /\ q.full = w.full /\ q.last = w.last
        /\ q.crossed = w.crossed
    BY <1>4 DEF PollerState
  <1>7. poller' = [poller EXCEPT ![p] = q]
    BY <1>1, <1>5 DEF HubInv, HubTypes
  <1> HIDE DEF q
  <1>8. Keeps
    BY <1>2, GrowthKeeps DEF Hub!world
  <1>9. w.completed \in Mark /\ w.scan \in ScanState /\ Sound(w)
    BY <1>5, PollerIs DEF PollerState
  <1>10. GoodMark(w.completed)' /\ GoodScan(w.scan)' /\ GoodPage(w)'
    BY <1>2, <1>5, <1>8, <1>9 DEF Sound, Keeps, GoodScan
  <1>11. PICK v \in PollerState : v = q
    BY <1>6
  <1>12. GoodPage(v)'
    BY <1>6, <1>10, <1>11 DEF GoodPage
  <1>13. v.items # {} /\ Hub!FirstOf(v.items) \in handled'
    BY <1>2, <1>3, <1>5, <1>6, <1>11
  <1>14. Sound(v)'
    BY <1>4, <1>6, <1>10, <1>11, <1>12, <1>13 DEF Sound
  <1>15. GoodMark(completed)' /\ GoodScan(scan)'
    BY <1>2, <1>8, StoreStays DEF Hub!store
  <1>16. emitted' \in [Repos \X Blobs -> Nat]
    BY <1>1, <1>3, <1>4 DEF HubInv, HubTypes
  <1>17. HubTypes'
    BY <1>2, <1>6, <1>7, <1>16 DEF HubInv, HubTypes, Hub!world, Hub!store
  <1>18. poller' = [poller EXCEPT ![p] = v]
    BY <1>7, <1>11
  <1> QED  BY <1>8, <1>14, <1>15, <1>17, <1>18, Moves

(* What is older than the watermark it covers. *)
LEMMA PassOverKeeps ==
    ASSUME Hub!HubAssumption, HubInv, NEW p \in Pollers, Hub!PassOver(p)
    PROVE  HubInv'
  <1>1. /\ poller[p].pc = "items" /\ poller[p].items # {} /\ Hub!Crosses(p)
        /\ poller' = [poller EXCEPT ![p].items = @ \ {Hub!Item(p)}, ![p].crossed = TRUE]
        /\ UNCHANGED <<Hub!world, Hub!store, Hub!history, faults>>
    BY DEF Hub!PassOver, Hub!Working, Hub!At
  <1>2. PICK w \in PollerState, i \in Place : w = poller[p] /\ i = Hub!Item(p) /\ i \in w.items
    BY <1>1, PollerIs, ItemIs
  <1> DEFINE q == [w EXCEPT !.items = @ \ {i}, !.crossed = TRUE]
  <1>3. /\ q \in PollerState /\ q.pc = "items" /\ q.completed = w.completed /\ q.scan = w.scan
        /\ q.items = w.items \ {i} /\ q.full = w.full /\ q.last = w.last /\ q.crossed = TRUE
    BY <1>1, <1>2 DEF PollerState
  <1>4. poller' = [poller EXCEPT ![p] = q]
    BY <1>1, <1>2 DEF HubInv, HubTypes
  <1> HIDE DEF q
  <1>5. Keeps
    BY <1>1, GrowthKeeps DEF Hub!world, Hub!history
  <1>6. w.completed \in Mark /\ w.scan \in ScanState /\ Sound(w) /\ w.last \in Place
        /\ w.scan.boundary \in Mark
    BY <1>2, PollerIs DEF PollerState, ScanState
  <1>7. GoodMark(w.completed)' /\ GoodScan(w.scan)' /\ GoodPage(w)'
    BY <1>1, <1>2, <1>5, <1>6 DEF Sound, Keeps, GoodScan
  <1>8. PICK v \in PollerState : v = q
    BY <1>3
  <1>9. i[1] < w.scan.boundary.time
    BY <1>1, <1>2 DEF Hub!Crosses, Hub!Older
  <1>10. w.last[1] <= i[1]
    BY <1>2, <1>7 DEF GoodPage
  <1>11. w.last[1] < w.scan.boundary.time
    BY <1>2, <1>6, <1>9, <1>10 DEF Place, Mark
  <1>12. GoodPage(v)'
    <2>0. IsFiniteSet(w.items)
      BY <1>1, <1>2, <1>6 DEF Sound, GoodPage
    <2>1. IsFiniteSet(v.items)
      <3>1. v.items = w.items \ {i}
        BY <1>3, <1>8
      <3> QED  BY <2>0, <3>1, FS_RemoveElement
    <2>2. CoveredBy(i, w.scan.boundary)'
      BY <1>9 DEF CoveredBy
    <2> QED  BY <1>3, <1>7, <1>8, <1>11, <2>1, <2>2 DEF GoodPage
  <1>13. Sound(v)'
    BY <1>3, <1>7, <1>8, <1>12 DEF Sound
  <1>14. GoodMark(completed)' /\ GoodScan(scan)'
    BY <1>1, <1>5, StoreStays DEF Hub!store
  <1>15. HubTypes'
    BY <1>1, <1>3, <1>4 DEF HubInv, HubTypes, Hub!world, Hub!store, Hub!history
  <1>16. poller' = [poller EXCEPT ![p] = v]
    BY <1>4, <1>8
  <1> QED  BY <1>5, <1>13, <1>14, <1>15, <1>16, Moves

(* The newest time of a mark and a page. *)
LEMMA HeadIs ==
    ASSUME Hub!HubAssumption, HubTypes, NEW m \in Mark, Behind(m),
           NEW page, page \subseteq Hub!Listed, IsFiniteSet(page)
    PROVE  /\ Hub!Head(m, page) \in Mark /\ Behind(Hub!Head(m, page))
           /\ m.time <= Hub!Head(m, page).time
           /\ \A x \in page : x[1] <= Hub!Head(m, page).time
           /\ \A x : CoveredBy(x, Hub!Head(m, page)) /\ Hub!Head(m, page).time = m.time
                     => CoveredBy(x, m) \/ x \in page
           /\ (\A x \in page : x[1] <= m.time) => Hub!Head(m, page).time = m.time
  <1> DEFINE T == {m.time} \cup {x[1] : x \in page}  newest == Hub!Max(T)
  <1>1. page \subseteq Place /\ \A x \in page : x[1] \in Nat
    BY ListedIs DEF Place
  <1>2. m.time \in Nat /\ m.keys \subseteq Place
    BY DEF Mark
  <1>3. \E t \in T : \A u \in T : t >= u
    <2>1. CASE page = {}
      BY <1>2, <2>1
    <2>2. CASE page # {}
      <3>1. PICK f \in page : \A y \in page : y[1] <= f[1]
        BY <1>1, <2>2, FirstIs
      <3>2. CASE f[1] >= m.time
        BY <3>1, <3>2, <1>1, <1>2
      <3>3. CASE ~(f[1] >= m.time)
        <4>1. \A y \in page : m.time >= y[1]
          BY <3>1, <3>3, <1>1, <1>2
        <4> QED  BY <4>1, <1>2
      <3> QED  BY <3>2, <3>3
    <2> QED  BY <2>1, <2>2
  <1>4. newest \in T /\ \A u \in T : newest >= u
    BY <1>3 DEF Hub!Max
  <1>5. newest \in Nat /\ m.time <= newest /\ \A x \in page : x[1] <= newest
    BY <1>1, <1>2, <1>4
  <1> DEFINE keys == {x \in page : x[1] = newest} \cup (IF m.time = newest THEN m.keys ELSE {})
  <1>6. Hub!Head(m, page) = [time |-> newest, keys |-> keys]
    BY DEF Hub!Head
  <1>7. newest = m.time \/ \E x \in page : newest = x[1]
    BY <1>4
  <1>8. (\A x \in page : x[1] <= m.time) => newest = m.time
    BY <1>1, <1>2, <1>5, <1>7
  <1> HIDE DEF newest
  <1>9. /\ keys \subseteq Place /\ keys \subseteq page \cup m.keys
        /\ newest = m.time => m.keys \subseteq keys
    BY <1>1, <1>2
  <1>10. \A k \in keys : k[2] \in Repos /\ k[1] <= hub[k[2]].time
    <2> TAKE k \in keys
    <2>1. CASE k \in m.keys
      BY <2>1 DEF Behind
    <2>2. CASE k \in page
      BY <2>2, ListedIs DEF Place
    <2> QED  BY <1>9, <2>1, <2>2
  <1>11. newest = 0 \/ \E r \in Repos : newest <= hub[r].time
    <2>1. CASE newest = m.time
      BY <2>1 DEF Behind
    <2>2. ASSUME NEW x \in page, newest = x[1] PROVE \E r \in Repos : newest <= hub[r].time
      BY <2>2, <1>5, ListedIs
    <2> QED  BY <1>7, <2>1, <2>2
  <1>12. /\ Hub!Head(m, page).time = newest /\ Hub!Head(m, page).keys = keys
         /\ Hub!Head(m, page) \in Mark
    BY <1>5, <1>6, <1>9 DEF Mark
  <1> HIDE DEF keys
  <1>13. Behind(Hub!Head(m, page))
    BY <1>10, <1>11, <1>12 DEF Behind
  <1> QED  BY <1>5, <1>8, <1>9, <1>12, <1>13 DEF CoveredBy

LEMMA ListKeeps == ASSUME Hub!HubAssumption, HubInv, NEW p \in Pollers, Hub!List(p) PROVE HubInv'
  <1>1. PICK w \in PollerState : w = poller[p]
    BY PollerIs
  <1>2. PICK page : page = Hub!Page(w.scan.cursor)
    OBVIOUS
  <1>3. PICK link \in BOOLEAN :
            Hub!Store(p, w.completed, [w.scan EXCEPT !.head = Hub!Head(@, page)],
                      [w EXCEPT !.pc = "items", !.items = page, !.crossed = FALSE,
                           !.more = link, !.last = IF page = {} THEN Hub!Top ELSE Hub!LastOf(page),
                           !.full = Cardinality(page) >= PageSize])
    BY <1>1, <1>2, HubSizes DEF Hub!List
  <1>4. UNCHANGED <<Hub!world, blobs, Hub!history>> /\ faults' \in 0..HubFaults
    BY DEF Hub!List, Hub!Fault, HubInv, HubTypes, Hub!HubAssumption
  <1>5. HubTypes /\ Sound(w)
    BY <1>1, PollerIs DEF HubInv
  <1>6. /\ w.completed \in Mark /\ w.scan \in ScanState /\ w.scan.cursor \in Place
        /\ w.scan.head \in Mark /\ w.scan.boundary \in Mark
    BY DEF PollerState, ScanState
  <1> DEFINE c == w.scan.cursor
  <1>7. /\ page \subseteq Hub!After(c) /\ Hub!After(c) \subseteq Hub!Listed /\ IsFiniteSet(page)
        /\ \A x \in Hub!After(c) \ page :
              page # {} /\ Cardinality(page) >= PageSize /\ Hub!Before(Hub!LastOf(page), x)
    BY <1>2, <1>5, <1>6, PageIs
  <1>8. page \subseteq Hub!Listed /\ page \subseteq Nat \X Repos /\ page \subseteq Place
    BY <1>5, <1>7, ListedIs
  <1>9. Behind(w.scan.head)
    BY <1>5 DEF Sound, GoodScan
  <1>10. PICK h : h = Hub!Head(w.scan.head, page)
    OBVIOUS
  <1>11. /\ h \in Mark /\ Behind(h) /\ w.scan.head.time <= h.time
         /\ \A x \in page : x[1] <= h.time
         /\ \A x : CoveredBy(x, h) /\ h.time = w.scan.head.time
                   => CoveredBy(x, w.scan.head) \/ x \in page
         /\ (\A x \in page : x[1] <= w.scan.head.time) => h.time = w.scan.head.time
    BY <1>5, <1>6, <1>7, <1>8, <1>9, <1>10, HeadIs
  <1> DEFINE s == [w.scan EXCEPT !.head = h]
             last == IF page = {} THEN Hub!Top ELSE Hub!LastOf(page)
             v == [[w EXCEPT !.pc = "items", !.items = page, !.crossed = FALSE, !.more = link,
                        !.last = last, !.full = Cardinality(page) >= PageSize]
                     EXCEPT !.completed = w.completed, !.scan = s]
  <1>12. completed' = w.completed /\ scan' = s /\ poller' = [poller EXCEPT ![p] = v]
    BY <1>3, <1>10 DEF Hub!Store
  <1>13. /\ s \in ScanState /\ s.head = h /\ s.boundary = w.scan.boundary
         /\ s.cursor = c /\ s.processed = w.scan.processed
    BY <1>6, <1>11 DEF ScanState
  <1>14. /\ last \in Place /\ (last = Hub!Top \/ last[1] <= h.time)
         /\ \A x \in page : last[1] <= x[1]
    <2>1. CASE page = {}
      BY <2>1 DEF Hub!Top, Place
    <2>2. CASE page # {}
      <3>1. Hub!LastOf(page) \in page /\ \A x \in page : Hub!LastOf(page)[1] <= x[1]
        BY <1>7, <1>8, <2>2, LastIs
      <3> QED  BY <1>8, <1>11, <2>2, <3>1
    <2> QED  BY <2>1, <2>2
  <1> HIDE DEF s, last
  <1>15. (Cardinality(page) >= PageSize) \in BOOLEAN
    OBVIOUS
  <1>16. /\ v \in PollerState /\ v.pc = "items" /\ v.completed = w.completed /\ v.scan = s
         /\ v.items = page /\ v.last = last /\ v.crossed = FALSE
         /\ v.full = (Cardinality(page) >= PageSize)
    <2> DEFINE u == [w EXCEPT !.pc = "items", !.items = page, !.crossed = FALSE, !.more = link,
                              !.last = last, !.full = Cardinality(page) >= PageSize]
    <2>1. /\ u \in PollerState /\ u.pc = "items"
          /\ u.items = page /\ u.last = last /\ u.crossed = FALSE
          /\ u.full = (Cardinality(page) >= PageSize)
      BY <1>8, <1>14, <1>15 DEF PollerState
    <2> HIDE DEF u
    <2>2. v = [u EXCEPT !.completed = w.completed, !.scan = s]
      BY DEF u
    <2> HIDE DEF v
    <2> QED  BY <2>1, <2>2, <1>6, <1>13 DEF PollerState
  <1> HIDE DEF v
  <1>17. s.cursor = Hub!Top \/ s.cursor[1] <= h.time
    <2>1. c = Hub!Top \/ c[1] <= w.scan.head.time
      BY <1>5 DEF Sound, GoodScan
    <2>2. c[1] \in Nat /\ w.scan.head.time \in Nat /\ h.time \in Nat
      BY <1>6, <1>11 DEF Place, Mark
    <2> QED  BY <1>11, <1>13, <2>1, <2>2
  <1>18. ASSUME NEW x \in Hub!Listed, CoveredBy(x, h)
         PROVE  x \in Settled \/ CoveredBy(x, s.boundary) \/ x \in Hub!After(c)
    <2>1. CASE c = Hub!Top
      BY <2>1 DEF Hub!After
    <2>2. CASE c # Hub!Top
      <3>1. c[1] <= w.scan.head.time
        BY <1>5, <2>2 DEF Sound, GoodScan
      <3>2. \A y \in page : y[1] <= c[1]
        BY <1>6, <1>7, <1>8, <2>2, BeforeIs DEF Hub!After
      <3>3. \A y \in page : y[1] <= w.scan.head.time
        BY <3>1, <3>2, <1>6, <1>8 DEF Place, Mark
      <3>4. CoveredBy(x, w.scan.head) \/ x \in page
        BY <3>3, <1>11, <1>18
      <3> QED  BY <3>4, <1>5, <1>7, <1>13 DEF Sound, GoodScan
    <2> QED  BY <2>1, <2>2
  <1>19. GoodScan(s)
    BY <1>5, <1>11, <1>13, <1>17, <1>18 DEF GoodScan, Sound
  <1>20. GoodPage(v)
    <2>1. ASSUME NEW x \in Hub!Listed, CoveredBy(x, h)
          PROVE  \/ x \in Settled \/ CoveredBy(x, v.scan.boundary) \/ x \in v.items
                 \/ v.full /\ Hub!Before(v.last, x)
      <3>1. CASE x \in Hub!After(c) \ page
        BY <3>1, <1>7, <1>16 DEF last
      <3> QED  BY <1>16, <1>18, <2>1, <3>1
    <2> QED  BY <1>7, <1>13, <1>14, <1>16, <2>1 DEF GoodPage
  <1>21. Keeps
    BY <1>4, GrowthKeeps DEF Hub!world, Hub!history
  <1>22. PICK t \in ScanState, q \in PollerState : t = s /\ q = v
    BY <1>13, <1>16
  <1>23. GoodMark(w.completed)' /\ GoodScan(t)' /\ GoodPage(q)'
    BY <1>5, <1>6, <1>11, <1>13, <1>16, <1>19, <1>20, <1>21, <1>22 DEF Keeps, Sound
  <1>24. Sound(q)'
    BY <1>16, <1>22, <1>23 DEF Sound
  <1>25. GoodMark(completed)' /\ GoodScan(scan)'
    BY <1>12, <1>22, <1>23
  <1>26. HubTypes'
    BY <1>4, <1>5, <1>6, <1>12, <1>13, <1>16 DEF HubTypes, Hub!world, Hub!history
  <1>27. poller' = [poller EXCEPT ![p] = q]
    BY <1>12, <1>22
  <1> QED  BY <1>21, <1>24, <1>25, <1>26, <1>27, Moves

LEMMA NextPageKeeps ==
    ASSUME Hub!HubAssumption, HubInv, NEW p \in Pollers, Hub!NextPage(p) PROVE HubInv'
  <1>1. PICK w \in PollerState : w = poller[p]
    BY PollerIs
  <1> DEFINE s == [w.scan EXCEPT !.cursor = w.last, !.processed = {}]
             v == [[w EXCEPT !.pc = "list"] EXCEPT !.completed = w.completed, !.scan = s]
  <1>2. /\ completed' = w.completed /\ scan' = s /\ poller' = [poller EXCEPT ![p] = v]
        /\ UNCHANGED <<Hub!world, blobs, Hub!history, faults>>
        /\ w.pc = "items" /\ w.items = {}
    BY <1>1 DEF Hub!NextPage, Hub!Store, Hub!PageDone, Hub!At
  <1>3. Sound(w) /\ HubTypes
    BY <1>1, PollerIs DEF HubInv
  <1>4. /\ w.completed \in Mark /\ w.scan \in ScanState /\ w.last \in Place
    BY DEF PollerState
  <1>5. /\ s \in ScanState /\ s.head = w.scan.head /\ s.boundary = w.scan.boundary
        /\ s.cursor = w.last /\ s.processed = {}
    BY <1>4 DEF ScanState
  <1> HIDE DEF s
  <1>6. v \in PollerState /\ v.pc = "list" /\ v.completed = w.completed /\ v.scan = s
    BY <1>4, <1>5 DEF PollerState
  <1> HIDE DEF v
  <1>7. GoodPage(w) /\ GoodScan(w.scan) /\ GoodMark(w.completed)
    BY <1>2, <1>3 DEF Sound
  <1>8. \A x \in Hub!Listed : Hub!Before(w.last, x) => x \in Hub!After(w.last)
    BY DEF Hub!After
  <1>9. GoodScan(s)
    BY <1>2, <1>5, <1>7, <1>8 DEF GoodScan, GoodPage
  <1>10. Keeps
    BY <1>2, GrowthKeeps DEF Hub!world, Hub!history
  <1>11. PICK t \in ScanState, q \in PollerState : t = s /\ q = v
    BY <1>5, <1>6
  <1>12. GoodMark(w.completed)' /\ GoodScan(t)'
    BY <1>4, <1>7, <1>9, <1>10, <1>11 DEF Keeps
  <1>13. Sound(q)'
    BY <1>6, <1>11, <1>12 DEF Sound
  <1>14. GoodMark(completed)' /\ GoodScan(scan)'
    BY <1>2, <1>11, <1>12
  <1>15. HubTypes'
    BY <1>2, <1>3, <1>4, <1>5, <1>6 DEF HubTypes, Hub!world, Hub!history
  <1>16. poller' = [poller EXCEPT ![p] = q]
    BY <1>2, <1>11
  <1> QED  BY <1>10, <1>13, <1>14, <1>15, <1>16, Moves

(* The new watermark: the page that met the old one, or ended the catalogue,   *)
(* left nothing between them.                                              *)
LEMMA CompleteKeeps ==
    ASSUME Hub!HubAssumption, HubInv, NEW p \in Pollers, Hub!Complete(p) PROVE HubInv'
  <1>1. PICK w \in PollerState : w = poller[p]
    BY PollerIs
  <1>2. PICK m : m = IF w.scan.head = Hub!NoMark THEN w.completed ELSE w.scan.head
    OBVIOUS
  <1>3. /\ completed' = m /\ scan' = Hub!NoScan /\ poller' = [poller EXCEPT ![p] = Hub!Idle]
        /\ UNCHANGED <<Hub!world, blobs, handled, emitted, faults>>
        /\ w.pc = "items" /\ w.items = {}
        /\ before' = IF w.scan.boundary = Hub!NoMark
                     THEN before \cup {x \in Hub!Listed : Hub!Before(w.last, x)} ELSE before
        /\ w.scan.boundary = Hub!NoMark \/ w.crossed \/ ~(w.more \/ w.full)
    BY <1>1, <1>2 DEF Hub!Complete, Hub!PageDone, Hub!At, Hub!Bootstrap, Hub!Finished
  <1>4. Sound(w) /\ HubTypes
    BY <1>1, PollerIs DEF HubInv
  <1>5. /\ w.completed \in Mark /\ w.scan.head \in Mark /\ w.scan.boundary \in Mark
        /\ w.last \in Place
    BY DEF PollerState, ScanState
  <1>6. GoodPage(w) /\ GoodScan(w.scan) /\ GoodMark(w.completed)
    BY <1>3, <1>4 DEF Sound
  <1>7. Keeps /\ Settled \subseteq Settled'
    BY <1>3, GrowthKeeps DEF Hub!world, Settled
  <1>8. Hub!Listed' = Hub!Listed /\ (\A n : Behind(n)' <=> Behind(n))
    BY <1>3 DEF Hub!Listed, Hub!Revision, Behind, Hub!world
  <1>9. Hub!NoMark \in Mark /\ Hub!NoScan \in ScanState /\ Hub!Idle \in PollerState
        /\ GoodScan(Hub!NoScan) /\ \A x \in Hub!Listed : ~CoveredBy(x, Hub!NoMark)
    BY <1>4, NoMarkIs
  <1>10. ASSUME NEW x \in Hub!Listed, CoveredBy(x, w.scan.head) PROVE x \in Settled'
    <2>1. \/ x \in Settled \/ CoveredBy(x, w.scan.boundary)
          \/ w.full /\ Hub!Before(w.last, x)
      BY <1>3, <1>6, <1>10 DEF GoodPage
    <2>2. CASE w.scan.boundary = Hub!NoMark
      BY <2>1, <2>2, <1>3, <1>7, <1>9 DEF Settled
    <2>3. CASE w.scan.boundary # Hub!NoMark
      <3>1. CoveredBy(x, w.scan.boundary) => x \in Settled
        BY <1>6 DEF GoodScan, GoodMark
      <3>2. ASSUME w.full, Hub!Before(w.last, x) PROVE CoveredBy(x, w.scan.boundary)
        <4>1. w.last[1] < w.scan.boundary.time
          BY <1>3, <1>6, <2>3, <3>2 DEF GoodPage
        <4>2. x \in Place /\ x[1] <= w.last[1]
          BY <1>4, <1>5, <3>2, ListedIs, BeforeIs
        <4> QED  BY <4>1, <4>2, <1>5 DEF CoveredBy, Place, Mark
      <3> QED  BY <2>1, <3>1, <3>2, <1>7
    <2> QED  BY <2>2, <2>3
  <1>11. m \in Mark /\ GoodMark(m)'
    <2>1. CASE w.scan.head = Hub!NoMark
      BY <2>1, <1>2, <1>5, <1>6, <1>7 DEF Keeps
    <2>2. CASE w.scan.head # Hub!NoMark
      <3>1. m = w.scan.head /\ Behind(m)
        BY <2>2, <1>2, <1>6 DEF GoodScan
      <3> QED  BY <3>1, <1>5, <1>8, <1>10 DEF GoodMark, CoveredBy
    <2> QED  BY <2>1, <2>2
  <1>12. GoodMark(completed)'
    BY <1>3, <1>11
  <1>13. GoodScan(Hub!NoScan)'
    BY <1>7, <1>9 DEF Keeps
  <1>14. Hub!NoScan' = Hub!NoScan
    BY DEF Hub!NoScan
  <1>15. GoodScan(scan)'
    BY <1>3, <1>13
  <1>16. HubTypes'
    BY <1>3, <1>4, <1>9, <1>11 DEF HubTypes, Hub!world
  <1> QED  BY <1>3, <1>7, <1>12, <1>15, <1>16, IdleKeeps

LEMMA HubInvNext ==
    ASSUME Hub!HubAssumption, HubInv, [Hub!Next]_Hub!vars
    PROVE  HubInv'
  <1>1. ASSUME NEW r \in Repos, Hub!Touch(r) PROVE HubInv'
    <2>1. HubTypes' /\ Keeps
      BY <1>1, TouchKeeps DEF HubInv
    <2>2. UNCHANGED <<completed, scan, poller>>
      BY <1>1 DEF Hub!Touch, Hub!store
    <2>3. GoodMark(completed)' /\ GoodScan(scan)'
      BY <2>1, <2>2, StoreStays
    <2>4. ASSUME NEW p \in Pollers PROVE Sound(poller[p])'
      <3>1. PICK w \in PollerState : w = poller[p]
        BY PollerIs
      <3>2. w.completed \in Mark /\ w.scan \in ScanState /\ Sound(w)
        BY <3>1, PollerIs DEF PollerState
      <3>3. Sound(w)'
        BY <2>1, <3>2 DEF Sound, Keeps, GoodScan
      <3> QED  BY <2>2, <3>1, <3>3
    <2> QED  BY <2>1, <2>3, <2>4 DEF HubInv
  <1>2. CASE UNCHANGED Hub!vars
    <2>1. Keeps /\ UNCHANGED <<completed, scan, poller>>
      BY <1>2, GrowthKeeps DEF Hub!vars, Hub!world, Hub!history, Hub!store
    <2>2. HubTypes'
      BY <1>2 DEF HubInv, HubTypes, Hub!vars, Hub!world, Hub!history, Hub!store
    <2>3. GoodMark(completed)' /\ GoodScan(scan)'
      BY <2>1, StoreStays
    <2>4. ASSUME NEW p \in Pollers PROVE Sound(poller[p])'
      <3>1. PICK w \in PollerState : w = poller[p]
        BY PollerIs
      <3>2. w.completed \in Mark /\ w.scan \in ScanState /\ Sound(w)
        BY <3>1, PollerIs DEF PollerState
      <3>3. Sound(w)'
        BY <2>1, <3>2 DEF Sound, Keeps, GoodScan
      <3> QED  BY <2>1, <3>1, <3>3
    <2> QED  BY <2>2, <2>3, <2>4 DEF HubInv
  <1> QED
    BY <1>1, <1>2, BeginKeeps, ListKeeps, PassOverKeeps, AlreadyDoneKeeps, NothingNewKeeps,
       EmitKeeps, RememberKeeps, NextPageKeeps, CompleteKeeps, EndKeeps DEF Hub!Next

LEMMA HubInvSays == ASSUME Hub!HubAssumption, HubInv PROVE Hub!TypeOK /\ Hub!NothingSkipped
  <1>1. completed.time \in 0..(TouchLimit + 2)
    <2>1. Behind(completed) /\ completed.time \in Nat
      BY DEF HubInv, HubTypes, Mark, GoodMark
    <2>2. \A r \in Repos : hub[r].time \in Nat /\ hub[r].time <= TouchLimit + 2
      BY DEF HubInv, HubTypes, Hub!HubAssumption
    <2>3. completed.time = 0 \/ \E r \in Repos : completed.time <= hub[r].time
      BY <2>1 DEF Behind
    <2>4. TouchLimit + 2 \in Nat
      BY DEF Hub!HubAssumption
    <2>5. completed.time <= TouchLimit + 2
      BY <2>1, <2>2, <2>3, <2>4
    <2> QED  BY <2>1, <2>4, <2>5
  <1>2. \A p \in Pollers : poller[p].pc \in {"idle", "list", "items", "emitted"}
    BY DEF HubInv, HubTypes, PollerState
  <1>3. Hub!TypeOK
    BY <1>1, <1>2 DEF Hub!TypeOK, HubInv, HubTypes
  <1>4. Hub!NothingSkipped
    BY DEF Hub!NothingSkipped, Hub!Covered, HubInv, GoodMark, CoveredBy, Settled
  <1> QED  BY <1>3, <1>4

-----------------------------------------------------------------------------
(* READMEs that are emitted. *)
Active == {p \in Pollers : poller[p].pc # "idle"}
Carries(q, e) == q.pc = "emitted" /\ <<Hub!FirstOf(q.items)[2], q.blob>> = e
InFlight(e) == {p \in Pollers : Carries(poller[p], e)}

(* An emission of a README is under way, or was remembered, or failed; and a  *)
(* second pass at work is a failure of its own.                            *)
Counted(e) ==
    /\ emitted[e] <= 1 + faults
    /\ e \notin blobs =>
          /\ emitted[e] <= faults + Cardinality(InFlight(e))
          /\ emitted[e] + Cardinality(Active) <= faults + 1 + Cardinality(InFlight(e))
BlobInv == \A e \in Repos \X Blobs : Counted(e)

LEMMA PassesAreFinite ==
    ASSUME Hub!HubAssumption, NEW e
    PROVE  /\ IsFiniteSet(Active) /\ IsFiniteSet(InFlight(e)) /\ InFlight(e) \subseteq Active
           /\ Cardinality(Active) \in Nat /\ Cardinality(InFlight(e)) \in Nat
           /\ Cardinality(InFlight(e)) <= Cardinality(Active)
  <1>1. Active \in SUBSET Pollers /\ InFlight(e) \in SUBSET Active
    BY DEF Active, InFlight, Carries
  <1>2. IsFiniteSet(Active)
    BY <1>1, FS_Subset, HubSizes DEF Hub!HubAssumption
  <1>3. IsFiniteSet(InFlight(e)) /\ Cardinality(InFlight(e)) <= Cardinality(Active)
    BY <1>1, <1>2, FS_Subset
  <1> QED  BY <1>1, <1>2, <1>3, FS_CardinalityType

(* What a step of p means for the passes. *)
Aside(p) ==
    /\ poller' = [poller EXCEPT ![p] = poller'[p]] /\ poller \in [Pollers -> PollerState]

LEMMA PassesAre ==
    ASSUME NEW p \in Pollers, Aside(p), NEW e
    PROVE  /\ poller'[p].pc # "idle" => Active' = Active \cup {p}
           /\ poller'[p].pc = "idle" => Active' = Active \ {p}
           /\ Carries(poller'[p], e) => InFlight(e)' = InFlight(e) \cup {p}
           /\ ~Carries(poller'[p], e) => InFlight(e)' = InFlight(e) \ {p}
  <1>1. \A r \in Pollers : r # p => poller'[r] = poller[r]
    BY DEF Aside
  <1> QED  BY <1>1 DEF Active, InFlight, Carries

(* A step without an emission. *)
LEMMA QuietCounts ==
    ASSUME Hub!HubAssumption, HubInv, BlobInv, UNCHANGED <<emitted, blobs, faults>>,
           NEW p \in Pollers, Aside(p),
           poller[p].pc \in {"list", "items"}, poller'[p].pc \in {"idle", "list", "items"}
    PROVE  BlobInv'
  <1> SUFFICES ASSUME NEW e \in Repos \X Blobs PROVE Counted(e)'
    BY DEF BlobInv
  <1>1. InFlight(e)' = InFlight(e)
    <2>1. p \notin InFlight(e) /\ ~Carries(poller'[p], e)
      BY DEF InFlight, Carries
    <2> QED  BY <2>1, PassesAre
  <1>2. Active' = Active \/ Active' = Active \ {p}
    BY PassesAre DEF Active
  <1>3. p \in Active /\ IsFiniteSet(Active) /\ Cardinality(Active) \in Nat
    BY PassesAreFinite DEF Active
  <1>4. Cardinality(Active \ {p}) = Cardinality(Active) - 1
    BY <1>3, FS_RemoveElement
  <1>5. Cardinality(Active)' \in {Cardinality(Active), Cardinality(Active) - 1}
    BY <1>2, <1>4
  <1>6. emitted[e] \in Nat /\ faults \in Nat /\ Cardinality(InFlight(e)) \in Nat
    BY PassesAreFinite DEF HubInv, HubTypes
  <1>7. Counted(e)
    BY DEF BlobInv
  <1> QED  BY <1>1, <1>3, <1>5, <1>6, <1>7 DEF Counted

LEMMA AsideIs ==
    ASSUME HubInv, NEW p \in Pollers, NEW q, poller' = [poller EXCEPT ![p] = q]
    PROVE  Aside(p) /\ poller'[p] = q
  BY DEF HubInv, HubTypes, Aside

LEMMA StoreAside ==
    ASSUME HubInv, NEW p \in Pollers, NEW c, NEW s,
           NEW rest \in PollerState, Hub!Store(p, c, s, rest)
    PROVE  Aside(p) /\ poller'[p].pc = rest.pc
  <1> DEFINE q == [rest EXCEPT !.completed = c, !.scan = s]
  <1>1. poller' = [poller EXCEPT ![p] = q] /\ q.pc = rest.pc
    BY DEF Hub!Store, PollerState
  <1> HIDE DEF q
  <1> QED  BY <1>1, AsideIs

LEMMA DoneAside ==
    ASSUME HubInv, NEW p \in Pollers, Hub!Done(p)
    PROVE  Aside(p) /\ poller'[p].pc = "items"
  <1>1. PICK w \in PollerState : w = poller[p]
    BY PollerIs
  <1> DEFINE q == [w EXCEPT !.pc = "items", !.items = @ \ {Hub!Item(p)}]
  <1>2. q \in PollerState /\ q.pc = "items"
    BY DEF PollerState
  <1>3. Hub!Store(p, w.completed, [w.scan EXCEPT !.processed = @ \cup {Hub!Item(p)}], q)
    BY <1>1 DEF Hub!Done
  <1> HIDE DEF q
  <1> QED  BY <1>2, <1>3, StoreAside

LEMMA BeginCounts ==
    ASSUME Hub!HubAssumption, HubInv, BlobInv, NEW p \in Pollers, Hub!Begin(p)
    PROVE  BlobInv'
  <1> SUFFICES ASSUME NEW e \in Repos \X Blobs PROVE Counted(e)'
    BY DEF BlobInv
  <1>1. UNCHANGED <<emitted, blobs>> /\ poller[p].pc = "idle"
    BY DEF Hub!Begin, Hub!history, Hub!At
  <1>2. Aside(p) /\ poller'[p].pc = "list"
    <2> DEFINE q == [Hub!Idle EXCEPT !.pc = "list"]
    <2>1. q \in PollerState /\ q.pc = "list"
      BY NoMarkIs DEF HubInv, PollerState
    <2> HIDE DEF q
    <2>2. \E c, s : Hub!Store(p, c, s, q)
      BY DEF Hub!Begin, q
    <2> QED  BY <2>1, <2>2, StoreAside
  <1>3. Active' = Active \cup {p} /\ p \notin Active /\ InFlight(e)' = InFlight(e)
    <2>1. p \notin InFlight(e) /\ p \notin Active /\ ~Carries(poller'[p], e)
      BY <1>1, <1>2 DEF InFlight, Carries, Active
    <2> QED  BY <2>1, <1>2, PassesAre
  <1>4. Cardinality(Active') = Cardinality(Active) + 1
    BY <1>3, PassesAreFinite, FS_AddElement
  <1>5. emitted[e] \in Nat /\ faults \in Nat /\ faults' \in Nat
    BY DEF HubInv, HubTypes, Hub!Begin, Hub!Fault
  <1>6. CASE \A q \in Pollers : Hub!At(q, "idle")
    <2>1. Active = {}
      BY <1>6 DEF Active, Hub!At
    <2>2. Cardinality(Active) = 0 /\ faults' = faults
      BY <1>6, <2>1, FS_EmptySet DEF Hub!Begin
    <2> QED  BY <1>1, <1>3, <1>4, <1>5, <2>2, PassesAreFinite DEF BlobInv, Counted
  <1>7. CASE ~(\A q \in Pollers : Hub!At(q, "idle"))
    <2>1. faults' = faults + 1
      BY <1>7 DEF Hub!Begin, Hub!Fault
    <2> QED  BY <1>1, <1>3, <1>4, <1>5, <2>1, PassesAreFinite DEF BlobInv, Counted
  <1> QED  BY <1>6, <1>7

LEMMA ListCounts ==
    ASSUME Hub!HubAssumption, HubInv, BlobInv, NEW p \in Pollers, Hub!List(p)
    PROVE  BlobInv'
  <1>0. Hub!List(p)
    OBVIOUS
  <1>1. UNCHANGED <<emitted, blobs>> /\ poller[p].pc = "list"
    BY DEF Hub!List, Hub!history, Hub!At
  <1>2. Aside(p) /\ poller'[p].pc = "items"
    <2>1. PICK w \in PollerState : w = poller[p]
      BY PollerIs
    <2> DEFINE sheet == Hub!Page(w.scan.cursor)
               rest(link) ==
                   [w EXCEPT !.pc = "items", !.items = sheet, !.crossed = FALSE, !.more = link,
                        !.last = IF sheet = {} THEN Hub!Top ELSE Hub!LastOf(sheet),
                        !.full = Cardinality(sheet) >= PageSize]
    <2>2. PICK link :
              Hub!Store(p, w.completed, [w.scan EXCEPT !.head = Hub!Head(@, sheet)], rest(link))
      BY <1>0, <2>1, HubSizes DEF Hub!List
    <2>3. rest(link).pc = "items" /\ DOMAIN rest(link) = DOMAIN w
      BY DEF PollerState
    <2>4. "completed" \in DOMAIN w /\ "scan" \in DOMAIN w /\ "pc" \in DOMAIN w
      BY <2>1 DEF PollerState
    <2> HIDE DEF rest, sheet
    <2> DEFINE v == [rest(link) EXCEPT !.completed = w.completed,
                                       !.scan = [w.scan EXCEPT !.head = Hub!Head(@, sheet)]]
    <2>5. poller' = [poller EXCEPT ![p] = v] /\ v.pc = "items"
      BY <2>2, <2>3, <2>4 DEF Hub!Store
    <2> HIDE DEF v
    <2> QED  BY <2>5, AsideIs
  <1> SUFFICES ASSUME NEW e \in Repos \X Blobs PROVE Counted(e)'
    BY DEF BlobInv
  <1>3. Active' = Active /\ InFlight(e)' = InFlight(e)
    <2>1. p \notin InFlight(e) /\ p \in Active /\ ~Carries(poller'[p], e)
      BY <1>1, <1>2 DEF InFlight, Carries, Active
    <2> QED  BY <2>1, <1>2, PassesAre
  <1>4. emitted[e] \in Nat /\ faults \in Nat /\ faults <= faults' /\ faults' \in Nat
    BY DEF HubInv, HubTypes, Hub!List, Hub!Fault
  <1> QED  BY <1>1, <1>3, <1>4, PassesAreFinite DEF BlobInv, Counted

LEMMA EmitCounts ==
    ASSUME Hub!HubAssumption, HubInv, BlobInv, NEW p \in Pollers, Hub!Emit(p)
    PROVE  BlobInv'
  <1>1. PICK b \in Hub!BlobOf(Hub!Item(p)) \ {Absent} :
            /\ <<Hub!Item(p)[2], b>> \notin blobs
            /\ emitted' = [emitted EXCEPT ![<<Hub!Item(p)[2], b>>] = @ + 1]
            /\ poller' = [poller EXCEPT ![p].pc = "emitted", ![p].blob = b]
    BY DEF Hub!Emit
  <1>2. poller[p].pc = "items" /\ poller[p].items # {} /\ UNCHANGED <<blobs, faults>>
    BY DEF Hub!Emit, Hub!Working, Hub!At, Hub!store
  <1>3. PICK w \in PollerState : w = poller[p]
    BY PollerIs
  <1> DEFINE q == [w EXCEPT !.pc = "emitted", !.blob = b]
  <1>4. q.pc = "emitted" /\ q.blob = b /\ q.items = w.items
    BY DEF PollerState
  <1>5. poller' = [poller EXCEPT ![p] = q]
    BY <1>1, <1>3 DEF HubInv, HubTypes
  <1> HIDE DEF q
  <1>6. Aside(p) /\ poller'[p] = q
    BY <1>5, AsideIs
  <1> SUFFICES ASSUME NEW e \in Repos \X Blobs PROVE Counted(e)'
    BY DEF BlobInv
  <1>7. Active' = Active /\ p \notin InFlight(e)
    BY <1>2, <1>4, <1>6, PassesAre DEF Active, InFlight, Carries
  <1>8. Carries(q, e) <=> e = <<Hub!Item(p)[2], b>>
    BY <1>3, <1>4 DEF Carries, Hub!Item
  <1>9. emitted[e] \in Nat /\ faults \in Nat
    BY DEF HubInv, HubTypes
  <1>10. CASE e = <<Hub!Item(p)[2], b>>
    <2>1. emitted'[e] = emitted[e] + 1 /\ e \notin blobs
      BY <1>1, <1>10 DEF HubInv, HubTypes
    <2>2. InFlight(e)' = InFlight(e) \cup {p}
      BY <1>6, <1>8, <1>10, PassesAre
    <2>3. Cardinality(InFlight(e)') = Cardinality(InFlight(e)) + 1
      BY <2>2, <1>7, PassesAreFinite, FS_AddElement
    <2>4. InFlight(e)' \subseteq Active
      BY <2>2, <1>2, PassesAreFinite DEF Active
    <2>5. Cardinality(InFlight(e)') <= Cardinality(Active)
      BY <2>4, PassesAreFinite, FS_Subset
    <2> QED  BY <1>2, <1>7, <1>9, <2>1, <2>3, <2>5, PassesAreFinite DEF BlobInv, Counted
  <1>11. CASE e # <<Hub!Item(p)[2], b>>
    <2>1. emitted'[e] = emitted[e]
      BY <1>1, <1>11 DEF HubInv, HubTypes
    <2>2. InFlight(e)' = InFlight(e)
      BY <1>6, <1>7, <1>8, <1>11, PassesAre
    <2> QED  BY <1>2, <1>7, <2>1, <2>2 DEF BlobInv, Counted
  <1> QED  BY <1>10, <1>11

LEMMA RememberCounts ==
    ASSUME Hub!HubAssumption, HubInv, BlobInv, NEW p \in Pollers, Hub!Remember(p)
    PROVE  BlobInv'
  <1> SUFFICES ASSUME NEW e \in Repos \X Blobs PROVE Counted(e)'
    BY DEF BlobInv
  <1>1. /\ poller[p].pc = "emitted" /\ Hub!Done(p) /\ UNCHANGED <<emitted, faults>>
        /\ blobs' = blobs \cup {<<Hub!Item(p)[2], poller[p].blob>>}
    BY DEF Hub!Remember, Hub!Remembered, Hub!At, Hub!history
  <1>2. Aside(p) /\ poller'[p].pc = "items"
    BY <1>1, DoneAside
  <1>3. CASE e \in blobs'
    BY <1>1, <1>3 DEF BlobInv, Counted
  <1>4. CASE e \notin blobs'
    <2>1. p \in Active /\ p \notin InFlight(e) /\ ~Carries(poller'[p], e) /\ e \notin blobs
      BY <1>1, <1>2, <1>4 DEF Active, InFlight, Carries, Hub!Item
    <2>2. Active' = Active /\ InFlight(e)' = InFlight(e)
      BY <1>2, <2>1, PassesAre
    <2> QED  BY <1>1, <2>1, <2>2 DEF BlobInv, Counted
  <1> QED  BY <1>3, <1>4

LEMMA AbortCounts ==
    ASSUME Hub!HubAssumption, HubInv, BlobInv, NEW p \in Pollers, Hub!Abort(p)
    PROVE  BlobInv'
  <1> SUFFICES ASSUME NEW e \in Repos \X Blobs PROVE Counted(e)'
    BY DEF BlobInv
  <1>1. /\ poller[p].pc # "idle" /\ UNCHANGED <<emitted, blobs>> /\ faults' = faults + 1
        /\ poller' = [poller EXCEPT ![p] = Hub!Idle]
    BY DEF Hub!Abort, Hub!Fault, Hub!At, Hub!history, Hub!store
  <1>2. Aside(p) /\ poller'[p].pc = "idle"
    <2>1. Aside(p) /\ poller'[p] = Hub!Idle
      BY <1>1, AsideIs
    <2> QED  BY <2>1 DEF Hub!Idle
  <1>3. p \in Active /\ ~Carries(poller'[p], e)
    BY <1>1, <1>2 DEF Active, Carries
  <1>4. Active' = Active \ {p} /\ InFlight(e)' = InFlight(e) \ {p}
    BY <1>2, <1>3, PassesAre
  <1>5. /\ Cardinality(Active') = Cardinality(Active) - 1
        /\ Cardinality(InFlight(e)') \in {Cardinality(InFlight(e)), Cardinality(InFlight(e)) - 1}
    BY <1>3, <1>4, PassesAreFinite, FS_RemoveElement
  <1>6. emitted[e] \in Nat /\ faults \in Nat
    BY DEF HubInv, HubTypes
  <1> QED  BY <1>1, <1>5, <1>6, PassesAreFinite DEF BlobInv, Counted

LEMMA BlobInvInit == ASSUME Hub!HubAssumption PROVE Hub!Init => BlobInv
  <1> SUFFICES ASSUME Hub!Init, NEW e \in Repos \X Blobs PROVE Counted(e)
    BY DEF BlobInv
  <1>1. Active = {} /\ emitted[e] = 0 /\ faults = 0
    BY DEF Hub!Init, Active, Hub!Idle
  <1>2. Cardinality(Active) = 0
    BY <1>1, FS_EmptySet
  <1> QED  BY <1>1, <1>2, PassesAreFinite DEF Counted

LEMMA BlobInvNext ==
    ASSUME Hub!HubAssumption, HubInv, BlobInv, [Hub!Next]_Hub!vars
    PROVE  BlobInv'
  <1>1. ASSUME UNCHANGED <<poller, emitted, blobs, faults>> PROVE BlobInv'
    <2>1. Active' = Active /\ \A e : InFlight(e)' = InFlight(e)
      BY <1>1 DEF Active, InFlight
    <2> QED  BY <1>1, <2>1 DEF BlobInv, Counted
  <1>2. ASSUME NEW r \in Repos, Hub!Touch(r) PROVE BlobInv'
    BY <1>1, <1>2 DEF Hub!Touch, Hub!store, Hub!history
  <1>3. CASE UNCHANGED Hub!vars
    BY <1>1, <1>3 DEF Hub!vars, Hub!store, Hub!history
  <1>4. ASSUME NEW p \in Pollers, Hub!PassOver(p) PROVE BlobInv'
    <2>1. PICK w \in PollerState : w = poller[p]
      BY PollerIs
    <2> DEFINE q == [w EXCEPT !.items = @ \ {Hub!Item(p)}, !.crossed = TRUE]
    <2>2. poller' = [poller EXCEPT ![p] = q] /\ q.pc = w.pc /\ poller[p].pc = "items"
      BY <1>4, <2>1 DEF Hub!PassOver, Hub!Working, Hub!At, HubInv, HubTypes, PollerState
    <2> HIDE DEF q
    <2>3. Aside(p) /\ poller'[p].pc = "items"
      BY <2>1, <2>2, AsideIs
    <2> QED  BY <1>4, <2>2, <2>3, QuietCounts DEF Hub!PassOver, Hub!store, Hub!history
  <1>5. ASSUME NEW p \in Pollers, Hub!AlreadyDone(p) \/ Hub!NothingNew(p) PROVE BlobInv'
    <2>1. Hub!Done(p) /\ poller[p].pc = "items" /\ UNCHANGED <<emitted, blobs, faults>>
      BY <1>5 DEF Hub!AlreadyDone, Hub!NothingNew, Hub!Working, Hub!At, Hub!history
    <2> QED  BY <2>1, DoneAside, QuietCounts
  <1>6. ASSUME NEW p \in Pollers, Hub!NextPage(p) PROVE BlobInv'
    <2>1. PICK w \in PollerState : w = poller[p]
      BY PollerIs
    <2> DEFINE q == [w EXCEPT !.pc = "list"]
    <2>2. q \in PollerState /\ q.pc = "list"
      BY DEF PollerState
    <2>3. Hub!Store(p, w.completed, [w.scan EXCEPT !.cursor = w.last, !.processed = {}], q)
      BY <1>6, <2>1 DEF Hub!NextPage
    <2> HIDE DEF q
    <2>4. Aside(p) /\ poller'[p].pc = "list"
      BY <2>2, <2>3, StoreAside
    <2>5. poller[p].pc = "items" /\ UNCHANGED <<emitted, blobs, faults>>
      BY <1>6 DEF Hub!NextPage, Hub!PageDone, Hub!At, Hub!history
    <2> QED  BY <2>4, <2>5, QuietCounts
  <1>7. ASSUME NEW p \in Pollers, Hub!Complete(p) \/ Hub!GapFound(p) PROVE BlobInv'
    <2>1. /\ poller' = [poller EXCEPT ![p] = Hub!Idle] /\ poller[p].pc = "items"
          /\ UNCHANGED <<emitted, blobs, faults>>
      BY <1>7 DEF Hub!Complete, Hub!GapFound, Hub!PageDone, Hub!At, Hub!history, Hub!store
    <2>2. Aside(p) /\ poller'[p].pc = "idle"
      <3>1. Aside(p) /\ poller'[p] = Hub!Idle
        BY <2>1, AsideIs
      <3> QED  BY <3>1 DEF Hub!Idle
    <2> QED  BY <2>1, <2>2, QuietCounts
  <1> QED
    BY <1>2, <1>3, <1>4, <1>5, <1>6, <1>7, BeginCounts, ListCounts, EmitCounts,
       RememberCounts, AbortCounts DEF Hub!Next

LEMMA BlobInvSays == ASSUME HubInv, BlobInv PROVE Hub!BlobOnce
  BY DEF Hub!BlobOnce, BlobInv, Counted, HubInv, HubTypes

-----------------------------------------------------------------------------
(* CursorLease: a stored lease, and what a process has in hand. *)
Object == [holder: Pollers \cup {Lease!Nobody, Lease!Former}, renewed: Nat, version: Nat]
Polling == [pc: {"off", "taking", "owner", "renewing", "cancelled"},
            view: Object, at: Nat, held: Nat]

(* A process that read the present version knows when it was renewed, and by  *)
(* whom, unless that one died since.                                       *)
Fresh(v) ==
    v.version = lease.version =>
        v.renewed = lease.renewed /\ (v.holder = lease.holder \/ lease.holder = Lease!Former)

(* Who works is the holder, as of its last renewal, or has let it run out.   *)
Backed(p) ==
    Lease!Working(p) => \/ lease.holder = p /\ lease.renewed = leaser[p].held
                        \/ leaser[p].held + Duration <= clock

(* The inductive invariant of CursorLease. *)
LeaseInv ==
    /\ clock \in 0..ClockLimit /\ lease \in Object /\ lease.version <= LeaseVersions
    /\ lease.renewed <= clock /\ (lease.version = 0 => lease = Lease!NoLease)
    /\ leaser \in [Pollers -> Polling]
    /\ \A p \in Pollers :
          /\ leaser[p].at <= clock /\ leaser[p].view.version <= lease.version
          /\ Fresh(leaser[p].view) /\ Backed(p)

LEMMA OffIs ==
    /\ Lease!Off \in Polling /\ Lease!Off.pc = "off" /\ Lease!Off.view = Lease!NoLease
    /\ Lease!Off.at = 0 /\ Lease!Off.held = 0
  BY DEF Lease!Off, Polling, Object, Lease!NoLease

LEMMA LeaseInvInit == ASSUME Lease!LeaseAssumption PROVE Lease!Init => LeaseInv
  <1> SUFFICES ASSUME Lease!Init PROVE LeaseInv
    OBVIOUS
  <1>1. Lease!NoLease \in Object /\ Lease!NoLease.version = 0 /\ Lease!NoLease.renewed = 0
    BY DEF Lease!NoLease, Object
  <1>2. \A p \in Pollers : leaser[p] = Lease!Off
    BY DEF Lease!Init
  <1>3. \A p \in Pollers : ~Lease!Working(p)
    BY <1>2, OffIs DEF Lease!Working
  <1> QED  BY <1>1, <1>2, <1>3, OffIs DEF Lease!Init, LeaseInv, Lease!LeaseAssumption, Fresh, Backed

(* A step of p that leaves the lease alone, to a state that does not work more. *)
LEMMA Reads ==
    ASSUME LeaseInv, NEW p \in Pollers, NEW q \in Polling, UNCHANGED <<clock, lease>>,
           leaser' = [leaser EXCEPT ![p] = q],
           q.at <= clock, q.view.version <= lease.version, Fresh(q.view),
           q.pc \in {"owner", "renewing", "cancelled"} => Lease!Working(p) /\ q.held = leaser[p].held
    PROVE  LeaseInv'
  <1>1. /\ leaser' \in [Pollers -> Polling] /\ leaser'[p] = q
        /\ \A r \in Pollers \ {p} : leaser'[r] = leaser[r]
    BY DEF LeaseInv
  <1>2. \A r \in Pollers : Backed(r)'
    BY <1>1 DEF LeaseInv, Backed, Lease!Working
  <1>3. \A r \in Pollers : Fresh(leaser[r].view)'
    BY <1>1 DEF LeaseInv, Fresh
  <1>4. \A r \in Pollers :
            leaser'[r].at <= clock /\ leaser'[r].view.version <= lease.version
    BY <1>1 DEF LeaseInv
  <1> QED  BY <1>1, <1>2, <1>3, <1>4 DEF LeaseInv

(* A step of p that writes the next version of the lease, which no other that *)
(* works and has not let it run out was the holder of.                      *)
LEMMA Writes ==
    ASSUME Lease!LeaseAssumption, LeaseInv, NEW p \in Pollers, NEW q \in Polling, UNCHANGED clock,
           NEW h \in {p, Lease!Nobody}, NEW t \in Nat, t <= clock, Lease!Replace(h, t),
           leaser' = [leaser EXCEPT ![p] = q],
           q.at <= clock, q.view.version <= lease.version,
           q.pc \in {"owner", "renewing", "cancelled"} => h = p /\ q.held = t,
           \A r \in Pollers \ {p} :
                Lease!Working(r) /\ lease.holder = r => lease.renewed + Duration <= clock
    PROVE  LeaseInv'
  <1>1. /\ leaser' \in [Pollers -> Polling] /\ leaser'[p] = q
        /\ \A r \in Pollers \ {p} : leaser'[r] = leaser[r]
    BY DEF LeaseInv
  <1>2. /\ lease' \in Object /\ lease'.version = lease.version + 1
        /\ lease'.holder = h /\ lease'.renewed = t /\ lease'.version <= LeaseVersions
        /\ lease.version \in Nat /\ lease'.version # 0
    BY DEF LeaseInv, Lease!Replace, Object, Lease!LeaseAssumption
  <1>3. \A r \in Pollers : leaser'[r].at <= clock /\ leaser'[r].view.version <= lease.version
    BY <1>1 DEF LeaseInv
  <1>4. \A r \in Pollers : leaser'[r].view.version \in Nat
    BY <1>1 DEF Polling, Object
  <1>5. \A r \in Pollers :
            /\ leaser'[r].view.version <= lease'.version
            /\ leaser'[r].view.version # lease'.version
    BY <1>2, <1>3, <1>4
  <1>6. Backed(p)'
    BY <1>1, <1>2 DEF Backed, Lease!Working
  <1>7. ASSUME NEW r \in Pollers \ {p} PROVE Backed(r)'
    BY <1>1 DEF Backed, Lease!Working, LeaseInv
  <1>8. \A r \in Pollers : Backed(r)'
    BY <1>6, <1>7
  <1>9. \A r \in Pollers : Fresh(leaser[r].view)'
    BY <1>5 DEF Fresh
  <1> QED  BY <1>1, <1>2, <1>3, <1>5, <1>8, <1>9 DEF LeaseInv

LEMMA LeasePollerIs ==
    ASSUME LeaseInv, NEW p \in Pollers
    PROVE  /\ leaser[p] \in Polling /\ leaser[p].view \in Object
           /\ leaser[p].at \in Nat /\ leaser[p].held \in Nat /\ leaser[p].view.version \in Nat
           /\ leaser[p].view.renewed \in Nat
           /\ lease \in Object /\ lease.renewed \in Nat /\ lease.version \in Nat /\ clock \in Nat
  BY DEF LeaseInv, Polling, Object

LEMMA TickKeeps == ASSUME Lease!LeaseAssumption, LeaseInv, Lease!Tick PROVE LeaseInv'
  <1>1. clock \in Nat /\ clock' = clock + 1 /\ clock' \in 0..ClockLimit
    BY DEF LeaseInv, Lease!Tick, Lease!LeaseAssumption
  <1>2. \A p \in Pollers : Backed(p)'
    <2> TAKE p \in Pollers
    <2> QED  BY <1>1, LeasePollerIs DEF LeaseInv, Lease!Tick, Backed, Lease!Working,
                Lease!LeaseAssumption
  <1>3. \A p \in Pollers : leaser'[p].at <= clock' /\ Fresh(leaser[p].view)'
    BY <1>1, LeasePollerIs DEF LeaseInv, Lease!Tick, Fresh
  <1>4. lease.renewed <= clock'
    BY <1>1 DEF LeaseInv, Object
  <1> QED  BY <1>1, <1>2, <1>3, <1>4 DEF LeaseInv, Lease!Tick

LEMMA ReadingKeeps ==
    ASSUME LeaseInv, NEW p \in Pollers,
           Lease!BeginTake(p) \/ Lease!BeginRenew(p)
    PROVE  LeaseInv'
  <1>1. PICK pc \in {"taking", "renewing"} :
            /\ Lease!Reading(p, pc) /\ UNCHANGED <<clock, lease>>
            /\ pc = "renewing" => Lease!At(p, "owner")
    BY DEF Lease!BeginTake, Lease!BeginRenew
  <1> DEFINE q == [leaser[p] EXCEPT !.pc = pc, !.view = lease, !.at = clock]
  <1>2. /\ q \in Polling /\ q.at = clock /\ q.view = lease /\ q.held = leaser[p].held /\ q.pc = pc
    BY LeasePollerIs DEF Polling
  <1>3. leaser' = [leaser EXCEPT ![p] = q]
    BY <1>1 DEF Lease!Reading, LeaseInv
  <1>4. Fresh(lease) /\ clock <= clock /\ lease.version <= lease.version
    BY LeasePollerIs DEF Fresh
  <1>5. pc = "renewing" => Lease!Working(p)
    BY <1>1 DEF Lease!At, Lease!Working
  <1> HIDE DEF q
  <1> QED  BY <1>1, <1>2, <1>3, <1>4, <1>5, Reads

LEMMA BecomeKeeps ==
    ASSUME LeaseInv, NEW p \in Pollers, Lease!NotTaken(p) \/ Lease!RenewalLost(p)
    PROVE  LeaseInv'
  <1>1. PICK pc \in {"off", "cancelled"} :
            /\ Lease!Become(p, pc) /\ UNCHANGED <<clock, lease>>
            /\ pc = "cancelled" => Lease!At(p, "renewing")
    BY DEF Lease!NotTaken, Lease!RenewalLost
  <1> DEFINE q == [leaser[p] EXCEPT !.pc = pc]
  <1>2. /\ q \in Polling /\ q.at = leaser[p].at /\ q.view = leaser[p].view
        /\ q.held = leaser[p].held /\ q.pc = pc
    BY LeasePollerIs DEF Polling
  <1>3. leaser' = [leaser EXCEPT ![p] = q]
    BY <1>1 DEF Lease!Become, LeaseInv
  <1>4. Fresh(q.view) /\ q.at <= clock /\ q.view.version <= lease.version
    BY <1>2 DEF LeaseInv
  <1>5. pc = "cancelled" => Lease!Working(p)
    BY <1>1 DEF Lease!At, Lease!Working
  <1> HIDE DEF q
  <1> QED  BY <1>1, <1>2, <1>3, <1>4, <1>5, Reads

LEMMA OwnKeeps ==
    ASSUME Lease!LeaseAssumption, LeaseInv, NEW p \in Pollers, Lease!Take(p) \/ Lease!Renew(p)
    PROVE  LeaseInv'
  <1>1. Lease!Own(p) /\ Lease!IsCurrent(p) /\ UNCHANGED clock
    BY DEF Lease!Take, Lease!Renew
  <1> DEFINE q == [leaser[p] EXCEPT !.pc = "owner", !.held = leaser[p].at]
  <1>2. /\ q \in Polling /\ q.at = leaser[p].at /\ q.view = leaser[p].view
        /\ q.held = leaser[p].at /\ q.pc = "owner"
    BY LeasePollerIs DEF Polling
  <1>3. leaser' = [leaser EXCEPT ![p] = q] /\ Lease!Replace(p, leaser[p].at)
    BY <1>1 DEF Lease!Own, LeaseInv
  <1>4. leaser[p].at <= clock /\ q.at <= clock /\ q.view.version <= lease.version
    BY <1>2 DEF LeaseInv
  <1>5. /\ leaser[p].view.renewed = lease.renewed
        /\ leaser[p].view.holder = lease.holder \/ lease.holder = Lease!Former
    BY <1>1 DEF LeaseInv, Fresh, Lease!IsCurrent
  <1>6. ASSUME NEW r \in Pollers \ {p}, Lease!Working(r), lease.holder = r
        PROVE  lease.renewed + Duration <= clock
    <2>1. lease.holder # Lease!Former /\ lease.holder # Lease!Nobody /\ lease.holder # p
      BY <1>6 DEF Lease!LeaseAssumption
    <2>2. leaser[p].view.holder = r
      BY <2>1, <1>5, <1>6
    <2>3. Lease!Available(p)
      BY <2>1, <2>2, <1>6 DEF Lease!Take, Lease!Renew
    <2>4. lease.renewed + Duration <= leaser[p].at
      BY <2>1, <2>2, <2>3, <1>5, <1>6 DEF Lease!Available
    <2> QED  BY <2>4, <1>4, LeasePollerIs DEF Lease!LeaseAssumption
  <1>7. leaser[p].at \in Nat
    BY LeasePollerIs
  <1> HIDE DEF q
  <1> QED  BY <1>1, <1>2, <1>3, <1>4, <1>6, <1>7, Writes

LEMMA LeaveKeeps ==
    ASSUME Lease!LeaseAssumption, LeaseInv, NEW p \in Pollers, Lease!Leave(p)
    PROVE  LeaseInv'
  <1>1. leaser' = [leaser EXCEPT ![p] = Lease!Off] /\ UNCHANGED clock
    BY DEF Lease!Leave
  <1>2. Fresh(Lease!NoLease) /\ Lease!NoLease.version = 0 /\ 0 <= lease.version /\ 0 <= clock
    BY LeasePollerIs DEF Fresh, LeaseInv, Lease!NoLease
  <1>3. CASE lease.holder = p
    <2>1. Lease!Replace(Lease!Nobody, clock) /\ clock \in Nat /\ clock <= clock
      BY <1>3, LeasePollerIs DEF Lease!Leave
    <2> QED  BY <1>1, <1>2, <1>3, <2>1, OffIs, Writes
  <1>4. CASE lease.holder # p
    <2>1. UNCHANGED lease
      BY <1>4 DEF Lease!Leave
    <2> QED  BY <1>1, <1>2, <2>1, OffIs, Reads
  <1> QED  BY <1>3, <1>4

(* The name of a process that died is nobody's any more. *)
LEMMA DieKeeps ==
    ASSUME Lease!LeaseAssumption, LeaseInv, NEW p \in Pollers, Lease!Die(p)
    PROVE  LeaseInv'
  <1>1. leaser' = [leaser EXCEPT ![p] = Lease!Off] /\ UNCHANGED clock
    BY DEF Lease!Die
  <1>2. CASE lease.holder # p
    <2>1. lease' = lease
      BY <1>2 DEF Lease!Die, LeaseInv, Object
    <2>2. Fresh(Lease!NoLease) /\ Lease!NoLease.version = 0 /\ 0 <= lease.version /\ 0 <= clock
      BY LeasePollerIs DEF Fresh, LeaseInv, Lease!NoLease
    <2> QED  BY <1>1, <2>1, <2>2, OffIs, Reads
  <1>3. CASE lease.holder = p
    <2>1. /\ lease' \in Object /\ lease'.holder = Lease!Former /\ lease'.renewed = lease.renewed
          /\ lease'.version = lease.version /\ lease.version # 0
      BY <1>3 DEF Lease!Die, LeaseInv, Object, Lease!NoLease, Lease!LeaseAssumption
    <2>2. /\ leaser' \in [Pollers -> Polling] /\ leaser'[p] = Lease!Off
          /\ \A r \in Pollers \ {p} : leaser'[r] = leaser[r]
      BY <1>1, OffIs DEF LeaseInv
    <2>3. \A r \in Pollers : Backed(r)'
      BY <1>1, <1>3, <2>2, OffIs DEF LeaseInv, Backed, Lease!Working
    <2>4. \A r \in Pollers : leaser'[r].at <= clock /\ leaser'[r].view.version <= lease.version
      BY <2>2, OffIs, LeasePollerIs DEF LeaseInv, Lease!NoLease
    <2>5. \A r \in Pollers : Fresh(leaser[r].view)'
      BY <2>1, <2>2, OffIs DEF LeaseInv, Fresh, Lease!NoLease
    <2> QED  BY <1>1, <2>1, <2>2, <2>3, <2>4, <2>5 DEF LeaseInv
  <1> QED  BY <1>2, <1>3

LEMMA LeaseInvNext ==
    ASSUME Lease!LeaseAssumption, LeaseInv, [Lease!Next]_Lease!vars
    PROVE  LeaseInv'
  <1>1. CASE UNCHANGED Lease!vars
    BY <1>1 DEF Lease!vars, LeaseInv, Fresh, Backed, Lease!Working
  <1>2. CASE Lease!Next
    BY <1>2, TickKeeps, ReadingKeeps, BecomeKeeps, OwnKeeps, LeaveKeeps, DieKeeps DEF Lease!Next
  <1> QED  BY <1>1, <1>2

LEMMA LeaseInvSays == ASSUME Lease!LeaseAssumption, LeaseInv PROVE Lease!TypeOK /\ Lease!OneOwner
  <1>1. Lease!TypeOK
    <2>1. \A p \in Pollers : leaser[p].pc \in {"off", "taking", "owner", "renewing", "cancelled"}
      BY LeasePollerIs DEF Polling
    <2> QED  BY <2>1 DEF Lease!TypeOK, LeaseInv, Object, Lease!LeaseAssumption
  <1>2. Lease!OneOwner
    BY DEF Lease!OneOwner, LeaseInv, Backed
  <1> QED  BY <1>1, <1>2

-----------------------------------------------------------------------------
(* OaiWindow: records with a datestamp, and a pass. *)
Stamped == Records \X (1..DayLimit)
Running == [pc: {"off", "request", "page"}, from: Nat, until: Nat,
            token: SUBSET Stamped, page: SUBSET Stamped]

(* A record stamped since the first day asked for and before a day is        *)
(* published, or among those still to come.                                *)
FoundBefore(d, coming) ==
    \A r \in Records :
        stamp[r] >= since /\ stamp[r] < d => <<r, stamp[r]>> \in found \cup coming

(* The request that begins a window: what comes is stamped from its first day. *)
Opening ==
    /\ run.from <= run.until
    /\ \A r \in Records :
          stamp[r] >= since /\ stamp[r] < run.until
          => <<r, stamp[r]>> \in found \/ stamp[r] >= run.from

(* The inductive invariant of OaiWindow: of every place a pass can be resumed    *)
(* from, what was stamped before is found or still to come.                   *)
WindowInv ==
    /\ day \in 1..DayLimit /\ stamp \in [Records -> 0..day] /\ faults \in 0..OaiFaults
    /\ found \subseteq Stamped /\ since \in Nat
    /\ run \in Running /\ run.until <= day /\ (run.pc # "off" => run.from >= 1 /\ run.until >= 1)
    /\ cursor \in [from: Nat, until: Nat, token: SUBSET Stamped] /\ cursor.until <= day
    /\ cursor.token # Oai!NoToken => cursor.from >= 1 /\ cursor.until >= 1
    /\ cursor.token = Oai!NoToken => cursor.from = 0
    /\ FoundBefore(cursor.until, cursor.token)
    /\ run.pc = "request" /\ run.token = Oai!NoToken => Opening
    /\ run.pc = "request" /\ run.token # Oai!NoToken => FoundBefore(run.until, run.token)
    /\ run.pc = "page" => FoundBefore(run.until, run.token \cup run.page)

LEMMA NoRunIs == Oai!NoRun \in Running /\ Oai!NoRun.pc = "off" /\ Oai!NoRun.until = 0
  BY DEF Oai!NoRun, Running, Oai!NoToken

LEMMA WindowTypes ==
    ASSUME Oai!WindowAssumption, WindowInv
    PROVE  /\ day \in Nat /\ day >= 1 /\ DayLimit \in Nat /\ since \in Nat
           /\ run.from \in Nat /\ run.until \in Nat /\ run.token \subseteq Stamped
           /\ run.page \subseteq Stamped /\ run.pc \in {"off", "request", "page"}
           /\ cursor.from \in Nat /\ cursor.until \in Nat /\ cursor.token \subseteq Stamped
           /\ \A r \in Records : stamp[r] \in Nat /\ stamp[r] <= day
  BY DEF WindowInv, Running, Oai!WindowAssumption

LEMMA WindowInvInit == ASSUME Oai!WindowAssumption PROVE Oai!Init => WindowInv
  <1> SUFFICES ASSUME Oai!Init PROVE WindowInv
    OBVIOUS
  <1>1. FoundBefore(cursor.until, cursor.token)
    BY DEF Oai!Init, FoundBefore, Oai!NoCursor
  <1>2. /\ cursor \in [from: Nat, until: Nat, token: SUBSET Stamped] /\ cursor.until = 0
        /\ cursor.token = Oai!NoToken /\ cursor.from = 0
    BY DEF Oai!Init, Oai!NoCursor, Oai!NoToken
  <1> QED  BY <1>1, <1>2, NoRunIs DEF Oai!Init, WindowInv, Oai!WindowAssumption

(* What does not touch the records keeps what a window says of them. *)
LEMMA FoundMore ==
    ASSUME NEW d, NEW S, NEW T, FoundBefore(d, S),
           UNCHANGED <<stamp, since>>, found \cup S \subseteq found' \cup T
    PROVE  FoundBefore(d, T)'
  BY DEF FoundBefore

LEMMA DayKeeps == ASSUME Oai!WindowAssumption, WindowInv, Oai!NextDay PROVE WindowInv'
  <1>1. day' \in 1..DayLimit /\ day <= day' /\ UNCHANGED <<stamp, cursor, run, found, since, faults>>
    BY WindowTypes DEF Oai!NextDay
  <1>2. stamp \in [Records -> 0..day'] /\ run.until <= day' /\ cursor.until <= day'
    BY <1>1, WindowTypes DEF WindowInv
  <1>3. FoundBefore(cursor.until, cursor.token)' /\ Opening' = Opening
        /\ FoundBefore(run.until, run.token)' = FoundBefore(run.until, run.token)
        /\ FoundBefore(run.until, run.token \cup run.page)' =
                FoundBefore(run.until, run.token \cup run.page)
    BY <1>1 DEF FoundBefore, Opening, WindowInv
  <1> QED  BY <1>1, <1>2, <1>3 DEF WindowInv

(* A record that is stamped today is not in question before the next day. *)
LEMMA StampKeeps ==
    ASSUME Oai!WindowAssumption, WindowInv, NEW r \in Records, Oai!Stamp(r)
    PROVE  WindowInv'
  <1>1. /\ stamp' \in [Records -> 0..day] /\ stamp'[r] = day
        /\ \A q \in Records \ {r} : stamp'[q] = stamp[q]
        /\ UNCHANGED <<day, cursor, run, found, since, faults>>
    BY WindowTypes DEF Oai!Stamp, WindowInv
  <1>2. ASSUME NEW d \in Nat, d <= day, NEW S, FoundBefore(d, S)
        PROVE  FoundBefore(d, S)'
    BY <1>1, <1>2, WindowTypes DEF FoundBefore
  <1>3. FoundBefore(cursor.until, cursor.token)'
    BY <1>1, <1>2, WindowTypes DEF WindowInv, FoundBefore
  <1>4. FoundBefore(run.until, run.token) => FoundBefore(run.until, run.token)'
    BY <1>1, <1>2, WindowTypes DEF WindowInv, FoundBefore
  <1>5. FoundBefore(run.until, run.token \cup run.page)
            => FoundBefore(run.until, run.token \cup run.page)'
    BY <1>1, <1>2, WindowTypes DEF WindowInv, FoundBefore
  <1>6. Opening => Opening'
    BY <1>1, WindowTypes DEF Opening, WindowInv
  <1> QED  BY <1>1, <1>3, <1>4, <1>5, <1>6 DEF WindowInv

LEMMA BeginWindowKeeps == ASSUME Oai!WindowAssumption, WindowInv, Oai!BeginWindow PROVE WindowInv'
  <1>1. /\ UNCHANGED <<day, stamp, cursor, found, faults>>
        /\ run' = [pc |-> "request", from |-> Oai!WindowFrom(cursor),
                   until |-> Oai!WindowUntil(cursor), token |-> cursor.token, page |-> {}]
        /\ since' = IF cursor = Oai!NoCursor THEN day ELSE since
    BY DEF Oai!BeginWindow
  <1>2. /\ run'.pc = "request" /\ run'.from = Oai!WindowFrom(cursor)
        /\ run'.until = Oai!WindowUntil(cursor) /\ run'.token = cursor.token
    BY <1>1
  <1>3. /\ Oai!WindowFrom(cursor) \in Nat /\ Oai!WindowFrom(cursor) >= 1
        /\ Oai!WindowUntil(cursor) \in Nat /\ Oai!WindowUntil(cursor) >= 1
        /\ Oai!WindowUntil(cursor) <= day
    BY WindowTypes DEF WindowInv, Oai!WindowFrom, Oai!WindowUntil
  <1>4. run' \in Running
    BY <1>1, <1>3, WindowTypes DEF Running
  <1>5. CASE cursor = Oai!NoCursor
    <2>1. since' = day /\ cursor.until = 0 /\ cursor.token = Oai!NoToken
      BY <1>1, <1>5 DEF Oai!NoCursor
    <2>2. FoundBefore(cursor.until, cursor.token)'
      BY <1>1, <2>1, WindowTypes DEF FoundBefore
    <2>3. Oai!WindowFrom(cursor) = day /\ Oai!WindowUntil(cursor) = day
      BY <2>1 DEF Oai!WindowFrom, Oai!WindowUntil
    <2>4. Opening'
      BY <1>1, <1>2, <2>1, <2>3, WindowTypes DEF Opening
    <2> QED  BY <1>1, <1>2, <1>3, <1>4, <2>1, <2>2, <2>4, WindowTypes DEF WindowInv
  <1>6. CASE cursor # Oai!NoCursor
    <2>1. since' = since
      BY <1>1, <1>6
    <2>2. FoundBefore(cursor.until, cursor.token)'
      BY <1>1, <2>1 DEF FoundBefore, WindowInv
    <2>3. CASE cursor.token # Oai!NoToken
      <3>1. FoundBefore(run.until, run.token)'
        BY <1>2, <2>2, <1>1, <2>3 DEF Oai!WindowUntil, FoundBefore
      <3> QED  BY <1>1, <1>2, <1>3, <1>4, <2>1, <2>2, <2>3, <3>1 DEF WindowInv
    <2>4. CASE cursor.token = Oai!NoToken
      <3>1. cursor.from = 0
        BY <2>4 DEF WindowInv
      <3>2. cursor = [from |-> cursor.from, until |-> cursor.until, token |-> cursor.token]
        BY DEF WindowInv
      <3>3. cursor.until # 0
        BY <1>6, <2>4, <3>1, <3>2 DEF Oai!NoCursor
      <3>4. Oai!WindowFrom(cursor) = cursor.until /\ Oai!WindowUntil(cursor) = day
        BY <2>4, <3>3 DEF Oai!WindowFrom, Oai!WindowUntil
      <3>5. FoundBefore(cursor.until, {})
        BY <2>4 DEF WindowInv, Oai!NoToken
      <3>6. Opening'
        BY <1>1, <1>2, <2>1, <3>4, <3>5, WindowTypes DEF Opening, FoundBefore, WindowInv
      <3> QED  BY <1>1, <1>2, <1>3, <1>4, <2>1, <2>2, <2>4, <3>6 DEF WindowInv
    <2> QED  BY <2>3, <2>4
  <1> QED  BY <1>5, <1>6

LEMMA RequestKeeps == ASSUME Oai!WindowAssumption, WindowInv, Oai!Request PROVE WindowInv'
  <1> DEFINE list == IF run.token = Oai!NoToken THEN Oai!InWindow ELSE run.token
  <1>1. PICK page \in SUBSET list :
            run' = [run EXCEPT !.pc = "page", !.page = page,
                        !.token = IF page = list THEN Oai!NoToken ELSE list \ page]
    BY DEF Oai!Request
  <1>2. run.pc = "request" /\ UNCHANGED <<day, stamp, cursor, found, since, faults>>
    BY DEF Oai!Request
  <1>3. run.from >= 1
    BY <1>2 DEF WindowInv
  <1>4. Oai!InWindow \subseteq Stamped
    BY <1>3, WindowTypes DEF Oai!InWindow, Stamped, WindowInv
  <1>5. list \subseteq Stamped
    BY <1>4, WindowTypes
  <1>6. FoundBefore(run.until, list)
    <2>1. CASE run.token # Oai!NoToken
      BY <2>1, <1>2 DEF WindowInv
    <2>2. CASE run.token = Oai!NoToken
      <3>1. Opening
        BY <2>2, <1>2 DEF WindowInv
      <3> QED  BY <2>2, <3>1, WindowTypes DEF Opening, FoundBefore, Oai!InWindow
    <2> QED  BY <2>1, <2>2
  <1> HIDE DEF list
  <1>7. /\ run' \in Running /\ run'.pc = "page" /\ run'.until = run.until /\ run'.from = run.from
        /\ run'.token \cup run'.page = list
    BY <1>1, <1>5, WindowTypes DEF WindowInv, Running, Oai!NoToken
  <1>8. FoundBefore(cursor.until, cursor.token)'
    BY <1>2, <1>6, <1>7 DEF WindowInv, FoundBefore
  <1>9. FoundBefore(run.until, run.token \cup run.page)'
    BY <1>2, <1>6, <1>7 DEF FoundBefore
  <1> QED  BY <1>2, <1>7, <1>8, <1>9 DEF WindowInv

LEMMA PublishRecordKeeps ==
    ASSUME Oai!WindowAssumption, WindowInv, Oai!PublishRecord PROVE WindowInv'
  <1>1. PICK x \in run.page : run' = [run EXCEPT !.page = @ \ {x}] /\ found' = found \cup {x}
    BY DEF Oai!PublishRecord
  <1>2. run.pc = "page" /\ UNCHANGED <<day, stamp, cursor, since, faults>>
    BY DEF Oai!PublishRecord
  <1>3. /\ run' \in Running /\ run'.pc = "page" /\ run'.until = run.until /\ run'.from = run.from
        /\ run'.token = run.token /\ run'.page = run.page \ {x}
    BY <1>1, <1>2, WindowTypes DEF WindowInv, Running
  <1>4. found' \subseteq Stamped
    BY <1>1, WindowTypes DEF WindowInv
  <1>5. FoundBefore(run.until, run.token \cup run.page)
    BY <1>2 DEF WindowInv
  <1>6. FoundBefore(cursor.until, cursor.token)'
    BY <1>1, <1>2 DEF WindowInv, FoundBefore
  <1>7. FoundBefore(run.until, run.token \cup run.page)'
    BY <1>1, <1>2, <1>3, <1>5 DEF FoundBefore
  <1> QED  BY <1>2, <1>3, <1>4, <1>6, <1>7 DEF WindowInv

LEMMA PageDoneKeeps == ASSUME Oai!WindowAssumption, WindowInv, Oai!PageDone PROVE WindowInv'
  <1>1. run.pc = "page" /\ run.page = {} /\ UNCHANGED <<day, stamp, found, since, faults>>
    BY DEF Oai!PageDone
  <1>2. FoundBefore(run.until, run.token)
    BY <1>1 DEF WindowInv
  <1>3. run.from >= 1 /\ run.until >= 1 /\ run.until <= day
    BY <1>1 DEF WindowInv
  <1>4. CASE run.token = Oai!NoToken
    <2>1. cursor' = [Oai!NoCursor EXCEPT !.until = run.until] /\ run' = Oai!NoRun
      BY <1>4 DEF Oai!PageDone
    <2>2. /\ cursor' \in [from: Nat, until: Nat, token: SUBSET Stamped]
          /\ cursor'.until = run.until /\ cursor'.token = Oai!NoToken /\ cursor'.from = 0
      BY <2>1, WindowTypes DEF Oai!NoCursor, Oai!NoToken
    <2>3. FoundBefore(cursor.until, cursor.token)'
      BY <1>1, <1>2, <1>4, <2>2 DEF FoundBefore
    <2> QED  BY <1>1, <1>3, <2>1, <2>2, <2>3, NoRunIs, WindowTypes DEF WindowInv
  <1>5. CASE run.token # Oai!NoToken
    <2>1. /\ cursor' = [from |-> run.from, until |-> run.until, token |-> run.token]
          /\ run' \in {[run EXCEPT !.pc = "request"], Oai!NoRun}
      BY <1>5 DEF Oai!PageDone
    <2>2. /\ cursor' \in [from: Nat, until: Nat, token: SUBSET Stamped]
          /\ cursor'.until = run.until /\ cursor'.token = run.token /\ cursor'.from = run.from
      BY <2>1, WindowTypes
    <2>3. FoundBefore(cursor.until, cursor.token)'
      BY <1>1, <1>2, <2>2 DEF FoundBefore
    <2>4. CASE run' = Oai!NoRun
      BY <1>1, <1>3, <1>5, <2>2, <2>3, <2>4, NoRunIs, WindowTypes DEF WindowInv
    <2>5. CASE run' = [run EXCEPT !.pc = "request"]
      <3>1. /\ run' \in Running /\ run'.pc = "request" /\ run'.until = run.until
            /\ run'.from = run.from /\ run'.token = run.token
        BY <2>5, WindowTypes DEF WindowInv, Running
      <3>2. FoundBefore(run.until, run.token)'
        BY <1>1, <1>2, <3>1 DEF FoundBefore
      <3> QED  BY <1>1, <1>3, <1>5, <2>2, <2>3, <3>1, <3>2 DEF WindowInv
    <2> QED  BY <2>1, <2>4, <2>5
  <1> QED  BY <1>4, <1>5

LEMMA PassFailsKeeps == ASSUME Oai!WindowAssumption, WindowInv, Oai!PassFails PROVE WindowInv'
  <1>1. run' = Oai!NoRun /\ UNCHANGED <<day, stamp, cursor, found, since>>
    BY DEF Oai!PassFails
  <1>2. faults' \in 0..OaiFaults
    BY DEF Oai!PassFails, Oai!Fault, WindowInv, Oai!WindowAssumption
  <1>3. FoundBefore(cursor.until, cursor.token)'
    BY <1>1 DEF WindowInv, FoundBefore
  <1> QED  BY <1>1, <1>2, <1>3, NoRunIs, WindowTypes DEF WindowInv

LEMMA WindowInvNext == ASSUME Oai!WindowAssumption, WindowInv, [Oai!Next]_Oai!vars PROVE WindowInv'
  <1>1. CASE UNCHANGED Oai!vars
    BY <1>1 DEF Oai!vars, WindowInv, FoundBefore, Opening
  <1>2. CASE Oai!Next
    BY <1>2, DayKeeps, StampKeeps, BeginWindowKeeps, RequestKeeps, PublishRecordKeeps,
       PageDoneKeeps, PassFailsKeeps DEF Oai!Next
  <1> QED  BY <1>1, <1>2

LEMMA WindowInvSays ==
    ASSUME Oai!WindowAssumption, WindowInv PROVE Oai!TypeOK /\ Oai!RecordsDiscovered
  <1>1. Oai!TypeOK
    BY WindowTypes DEF Oai!TypeOK, WindowInv, Stamped
  <1>2. Oai!RecordsDiscovered
    BY DEF Oai!RecordsDiscovered, WindowInv, FoundBefore, Oai!NoToken
  <1> QED  BY <1>1, <1>2

-----------------------------------------------------------------------------
(* A pass of the present version has published what it has not left over,    *)
(* unless an entry of it failed.                                           *)
FeedInv ==
    /\ feed.etag \in Nat /\ feed.entries \subseteq Entries
    /\ etag \in Nat /\ etag <= feed.etag /\ faults \in 0..FeedFaults
    /\ shown \subseteq Entries
    /\ pass \in [pc: {"off", "entries"}, etag: Nat, left: SUBSET Entries, failed: BOOLEAN]
    /\ pass.etag <= feed.etag
    /\ Rss!EntriesDiscovered
    /\ pass.pc = "entries" /\ pass.etag = feed.etag /\ ~pass.failed
       => feed.entries \subseteq shown \cup pass.left

LEMMA FeedInvInit == ASSUME Rss!FeedAssumption PROVE Rss!Init => FeedInv
  BY DEF Rss!Init, FeedInv, Rss!FeedAssumption, Rss!NoPass, Rss!EntriesDiscovered

LEMMA FeedInvNext == ASSUME Rss!FeedAssumption, FeedInv, [Rss!Next]_Rss!vars PROVE FeedInv'
  <1>1. ASSUME Rss!Refresh PROVE FeedInv'
    <2>1. PICK S \in SUBSET Entries : feed' = [etag |-> feed.etag + 1, entries |-> S]
      BY <1>1 DEF Rss!Refresh
    <2>2. feed'.etag = feed.etag + 1 /\ feed'.entries \subseteq Entries
      BY <2>1
    <2>3. pass.etag \in Nat
      BY DEF FeedInv
    <2> QED  BY <1>1, <2>2, <2>3 DEF Rss!Refresh, FeedInv, Rss!EntriesDiscovered
  <1>2. ASSUME Rss!FetchFeed PROVE FeedInv'
    BY <1>2 DEF Rss!FetchFeed, FeedInv, Rss!EntriesDiscovered
  <1>3. ASSUME Rss!PublishEntry PROVE FeedInv'
    <2>1. PICK e \in pass.left :
              pass' = [pass EXCEPT !.left = @ \ {e}] /\ shown' = shown \cup {e}
      BY <1>3 DEF Rss!PublishEntry
    <2>2. /\ pass' \in [pc: {"off", "entries"}, etag: Nat, left: SUBSET Entries, failed: BOOLEAN]
          /\ pass'.pc = pass.pc /\ pass'.etag = pass.etag /\ pass'.failed = pass.failed
          /\ pass'.left = pass.left \ {e} /\ e \in Entries
      BY <2>1 DEF FeedInv
    <2> QED  BY <1>3, <2>1, <2>2 DEF Rss!PublishEntry, FeedInv, Rss!EntriesDiscovered
  <1>4. ASSUME Rss!EntryFails PROVE FeedInv'
    <2>1. PICK e \in pass.left : pass' = [pass EXCEPT !.left = @ \ {e}, !.failed = TRUE]
      BY <1>4 DEF Rss!EntryFails
    <2>2. /\ pass' \in [pc: {"off", "entries"}, etag: Nat, left: SUBSET Entries, failed: BOOLEAN]
          /\ pass'.etag = pass.etag /\ pass'.failed = TRUE
      BY <2>1 DEF FeedInv
    <2>3. faults' \in 0..FeedFaults
      BY <1>4 DEF Rss!EntryFails, Rss!Fault, FeedInv, Rss!FeedAssumption
    <2> QED  BY <1>4, <2>2, <2>3 DEF Rss!EntryFails, FeedInv, Rss!EntriesDiscovered
  <1>5. ASSUME Rss!FeedDone PROVE FeedInv'
    <2>1. CASE pass.failed
      BY <1>5, <2>1 DEF Rss!FeedDone, FeedInv, Rss!EntriesDiscovered, Rss!Stored, Rss!NoPass
    <2>2. CASE ~pass.failed
      <3>1. etag' = pass.etag /\ etag' \in Nat /\ etag' <= feed.etag
        BY <1>5, <2>2 DEF Rss!FeedDone, FeedInv, Rss!Stored
      <3>2. feed.etag = etag' => feed.entries \subseteq shown
        BY <1>5, <2>2, <3>1 DEF Rss!FeedDone, FeedInv
      <3> QED  BY <1>5, <3>1, <3>2 DEF Rss!FeedDone, FeedInv, Rss!EntriesDiscovered, Rss!NoPass
    <2> QED  BY <2>1, <2>2
  <1>6. ASSUME Rss!FeedFails PROVE FeedInv'
    BY <1>6 DEF Rss!FeedFails, Rss!Fault, FeedInv, Rss!EntriesDiscovered, Rss!NoPass,
       Rss!FeedAssumption
  <1>7. CASE UNCHANGED Rss!vars
    BY <1>7 DEF Rss!vars, FeedInv, Rss!EntriesDiscovered
  <1> QED  BY <1>1, <1>2, <1>3, <1>4, <1>5, <1>6, <1>7 DEF Rss!Next

LEMMA FeedInvSays == FeedInv => Rss!TypeOK /\ Rss!EntriesDiscovered
  BY DEF FeedInv, Rss!TypeOK

-----------------------------------------------------------------------------
Found == [paper: Papers, feed: P!Feeds]
Raw == [kind: {"retry", "html", "pdf", "stub"}, paper: Papers, attempt: Nat, rights: P!Rights,
        from: Nat]
Document == [paper: Papers, attempt: Nat, raw: Nat]
Fetching == [pc: {"idle", "fetch", "emit", "commit"}, rights: P!Rights, body: Seq(Raw)]

(* A body has rights under which it may be fetched. *)
Fine(e) == e.kind \in P!Bodies => P!FetchAllowed(e.rights)

Topics ==
    /\ discovered \in Seq(Found)
    /\ topic \in Seq(Raw) /\ \A i \in 1..Len(topic) : Fine(topic[i])

(* What the fetcher has in hand is of the discovery it has not committed.     *)
Answers(e) == Fine(e) /\ e.paper = P!Current.paper /\ e.from = P!Reading
InHand ==
    /\ fetcher.job.pc # "idle" => P!HasDiscovery /\ ~P!Foreign
    /\ fetcher.job.pc \in {"fetch", "emit"} => P!FetchAllowed(fetcher.job.rights)
    /\ fetcher.job.pc = "emit" => \E e \in Raw : fetcher.job.body = <<e>> /\ Answers(e)
    /\ fetcher.job.pc = "commit" => P!Fetched(P!Reading)
Due(i) == discovered[i].feed = "arxiv"
FetcherInv ==
    /\ fetcher \in [done: Nat, job: Fetching] /\ fetcher.done <= Len(discovered)
    /\ \A i \in 1..fetcher.done : Due(i) => P!Fetched(i)
    /\ InHand

(* What the normaliser has passed came to something, saved or not.           *)
NormalInv ==
    /\ normal \in [next: Nat, saved: Nat] /\ normal.saved <= normal.next
    /\ normal.next <= Len(topic) /\ failures \cup aged \subseteq 1..Len(topic)
    /\ \A i \in 1..normal.next : topic[i].kind \in P!Bodies => P!Processed(i)

Silver == silver \in Seq(Document) /\ curator \in 0..Len(silver)

(* The inductive invariant of PaperPath. *)
PaperInv ==
    /\ licence \in [Papers -> P!Rights] /\ faults \in 0..PathFaults
    /\ Topics /\ FetcherInv /\ NormalInv /\ Silver

-----------------------------------------------------------------------------
(* The topics are only appended to. *)
Grows ==
    /\ discovered' = discovered \/ \E d \in Found : discovered' = Append(discovered, d)
    /\ topic' = topic \/ \E e \in Raw : Fine(e) /\ topic' = Append(topic, e)

LEMMA DiscoveriesGrow ==
    ASSUME Topics, Grows
    PROVE  /\ discovered' \in Seq(Found)
           /\ Len(discovered) \in Nat /\ Len(discovered') \in Nat
           /\ Len(discovered) <= Len(discovered')
           /\ \A i \in 1..Len(discovered) :
                 discovered'[i] = discovered[i] /\ discovered[i] \in Found
  <1>1. CASE discovered' = discovered
    BY <1>1 DEF Topics
  <1>2. CASE discovered' # discovered
    <2>1. PICK d \in Found : discovered' = Append(discovered, d)
      BY <1>2 DEF Grows
    <2> QED  BY <2>1 DEF Topics
  <1> QED  BY <1>1, <1>2

LEMMA TopicGrows ==
    ASSUME Topics, Grows
    PROVE  /\ Topics' /\ Len(topic) \in Nat /\ Len(topic') \in Nat /\ Len(topic) <= Len(topic')
           /\ \A i \in 1..Len(topic) : topic'[i] = topic[i] /\ topic[i] \in Raw
           /\ \A i \in 1..Len(topic') : topic'[i] \in Raw
  <1>1. CASE topic' = topic
    BY <1>1, DiscoveriesGrow DEF Topics, Fine
  <1>2. CASE topic' # topic
    <2>1. PICK e \in Raw : Fine(e) /\ topic' = Append(topic, e)
      BY <1>2 DEF Grows
    <2>2. /\ topic' \in Seq(Raw) /\ Len(topic') = Len(topic) + 1 /\ Len(topic) \in Nat
          /\ topic'[Len(topic) + 1] = e
          /\ \A i \in 1..Len(topic) : topic'[i] = topic[i] /\ topic[i] \in Raw
      BY <2>1 DEF Topics
    <2>3. \A i \in 1..Len(topic') : topic'[i] \in Raw /\ Fine(topic'[i])
      BY <2>1, <2>2 DEF Topics
    <2> QED  BY <2>2, <2>3, DiscoveriesGrow DEF Topics, Fine
  <1> QED  BY <1>1, <1>2

LEMMA TopicDomain ==
    ASSUME Topics
    PROVE  DOMAIN topic = 1..Len(topic)
  BY DEF Topics

LEMMA FetchedStays ==
    ASSUME Topics, Grows, admissions \subseteq admissions',
           NEW i \in 1..Len(discovered), P!Fetched(i)
    PROVE  P!Fetched(i)'
  <1>1. discovered'[i] = discovered[i]
    BY DiscoveriesGrow
  <1>2. CASE \E a \in admissions : a.from = i /\ ~P!FetchAllowed(a.rights)
    BY <1>2 DEF P!Fetched
  <1>3. CASE \E j \in DOMAIN topic : topic[j].from = i /\ topic[j].paper = discovered[i].paper
    <2>1. PICK j \in DOMAIN topic : topic[j].from = i /\ topic[j].paper = discovered[i].paper
      BY <1>3
    <2>2. j \in DOMAIN topic' /\ topic'[j] = topic[j]
      <3>1. DOMAIN topic = 1..Len(topic)
        BY TopicDomain
      <3>2. DOMAIN topic' = 1..Len(topic')
        BY TopicGrows DEF Topics
      <3> QED  BY <2>1, <3>1, <3>2, TopicGrows
    <2> QED  BY <1>1, <2>1, <2>2 DEF P!Fetched
  <1> QED  BY <1>2, <1>3 DEF P!Fetched

LEMMA FetcherStays ==
    ASSUME Topics, FetcherInv, Grows, admissions \subseteq admissions', UNCHANGED fetcher
    PROVE  FetcherInv'
  <1>1. \A i \in 1..Len(discovered) : P!Fetched(i) => P!Fetched(i)'
    BY FetchedStays
  <1>2. fetcher.done \in Nat /\ fetcher.done <= Len(discovered)
    BY DEF FetcherInv
  <1>3. \A i \in 1..fetcher.done : Due(i)' => P!Fetched(i)'
    BY <1>1, <1>2, DiscoveriesGrow DEF FetcherInv, Due
  <1>4. P!HasDiscovery => P!Reading \in 1..Len(discovered) /\ P!Current' = P!Current
    BY <1>2, DiscoveriesGrow DEF P!HasDiscovery, P!Reading, P!Current
  <1>5. P!Reading' = P!Reading
    BY DEF P!Reading
  <1>6. InHand'
    <2>1. fetcher.job.pc # "idle" => P!HasDiscovery' /\ ~P!Foreign'
      <3>1. P!HasDiscovery => P!HasDiscovery'
        BY <1>2, DiscoveriesGrow DEF P!HasDiscovery
      <3> QED  BY <1>4, <3>1 DEF FetcherInv, InHand, P!Foreign
    <2>2. fetcher.job.pc = "emit" => \E e \in Raw : fetcher.job.body = <<e>> /\ Answers(e)'
      BY <1>4, <1>5 DEF FetcherInv, InHand, Answers
    <2>3. fetcher.job.pc = "commit" => P!Fetched(P!Reading)'
      <3>1. \A r \in 1..Len(discovered) : r = P!Reading /\ P!Fetched(r) => P!Fetched(r)'
        BY <1>1
      <3>2. P!Reading \in 1..Len(discovered) /\ P!Fetched(P!Reading) => P!Fetched(P!Reading)'
        BY <1>5, <3>1 DEF P!Fetched
      <3> QED  BY <1>4, <3>2 DEF FetcherInv, InHand
    <2> QED  BY <2>1, <2>2, <2>3 DEF FetcherInv, InHand
  <1> QED  BY <1>2, <1>3, <1>6, DiscoveriesGrow DEF FetcherInv

LEMMA NormalStays ==
    ASSUME Topics, NormalInv, Grows, UNCHANGED <<normal, failures, expired, aged, silver>>
    PROVE  NormalInv'
  <1>1. normal.next \in Nat /\ normal.next <= Len(topic)
    BY DEF NormalInv
  <1>2. \A i \in 1..normal.next : i \in 1..Len(topic) /\ topic'[i] = topic[i]
    BY <1>1, TopicGrows
  <1>3. \A i \in 1..normal.next : topic'[i].kind \in P!Bodies => P!Processed(i)'
    BY <1>2 DEF NormalInv, P!Processed, P!Key
  <1> QED  BY <1>1, <1>3, TopicGrows DEF NormalInv

(* A fetcher that goes on with another job. *)
LEMMA FetcherGoes ==
    ASSUME Topics, FetcherInv, NEW goes \in Fetching, UNCHANGED <<discovered, topic>>,
           admissions \subseteq admissions', fetcher' = [fetcher EXCEPT !.job = goes],
           InHand'
    PROVE  FetcherInv'
  <1>1. Grows
    BY DEF Grows
  <1>2. \A i \in 1..Len(discovered) : P!Fetched(i) => P!Fetched(i)'
    BY <1>1, FetchedStays
  <1>3. /\ fetcher' \in [done: Nat, job: Fetching] /\ fetcher'.done = fetcher.done
        /\ fetcher.done \in Nat /\ fetcher.done <= Len(discovered) /\ Len(discovered) \in Nat
    BY <1>1, DiscoveriesGrow DEF FetcherInv
  <1>4. \A i \in 1..fetcher.done : Due(i)' => P!Fetched(i)'
    BY <1>2, <1>3 DEF FetcherInv, Due
  <1> QED  BY <1>3, <1>4 DEF FetcherInv

LEMMA JobIs ==
    ASSUME Topics, FetcherInv
    PROVE  /\ fetcher.job \in Fetching /\ fetcher.done \in Nat /\ P!Idle \in Fetching
           /\ P!Idle.pc = "idle" /\ P!Idle.body = <<>>
           /\ \A p : [fetcher EXCEPT !.job = p].done = fetcher.done
           /\ \A p : [fetcher EXCEPT !.job = p].job = p
           /\ P!HasDiscovery => P!Current \in Found
           /\ P!Reading \in Nat /\ P!Reading > 0
  <1>1. P!Idle \in Fetching /\ P!Idle.pc = "idle" /\ P!Idle.body = <<>>
    BY DEF P!Idle, Fetching, P!Rights
  <1>2. P!HasDiscovery => P!Current \in Found
    BY DEF FetcherInv, Topics, P!Current, P!Reading, P!HasDiscovery
  <1> QED  BY <1>1, <1>2 DEF FetcherInv, P!Reading

(* What is read does not change with the job. *)
LEMMA SameRecord ==
    ASSUME Topics, FetcherInv, UNCHANGED discovered, fetcher'.done = fetcher.done
    PROVE  /\ P!Reading' = P!Reading /\ P!Current' = P!Current
           /\ P!HasDiscovery' = P!HasDiscovery /\ P!Foreign' = P!Foreign
           /\ P!HasDiscovery => discovered'[P!Reading] = P!Current
  BY DEF P!Reading, P!Current, P!HasDiscovery, P!Foreign

LEMMA BackToIdle ==
    ASSUME Topics, FetcherInv, UNCHANGED <<discovered, topic, admissions>>, P!Proceed(P!Idle)
    PROVE  FetcherInv'
  <1>1. fetcher' = [fetcher EXCEPT !.job = P!Idle] /\ fetcher'.job = P!Idle
    BY JobIs DEF P!Proceed
  <1>2. InHand'
    BY <1>1, JobIs DEF InHand
  <1> QED  BY <1>1, <1>2, JobIs, FetcherGoes

(* A discovery that is foreign or was fetched for is committed. *)
LEMMA Commits ==
    ASSUME Topics, FetcherInv, UNCHANGED <<discovered, topic, admissions>>, P!HasDiscovery,
           fetcher' \in [done: Nat, job: Fetching], fetcher'.done = fetcher.done + 1,
           fetcher'.job.pc = "idle", P!Foreign \/ P!Fetched(P!Reading)
    PROVE  FetcherInv'
  <1>1. \A i : (P!Fetched(i) <=> P!Fetched(i)') /\ (Due(i) <=> Due(i)')
    BY DEF P!Fetched, Due
  <1>2. fetcher.done \in Nat /\ Len(discovered) \in Nat /\ fetcher.done < Len(discovered)
    BY DEF FetcherInv, Topics, P!HasDiscovery
  <1>3. Due(P!Reading) => P!Fetched(P!Reading)
    BY DEF Due, P!Foreign, P!Current
  <1>4. \A i \in 1..(fetcher.done + 1) : Due(i) => P!Fetched(i)
    <2>1. SUFFICES ASSUME NEW i \in 1..(fetcher.done + 1), Due(i)
                   PROVE  P!Fetched(i)
      OBVIOUS
    <2>2. CASE i \in 1..fetcher.done
      BY <2>1, <2>2 DEF FetcherInv
    <2>3. CASE i = P!Reading
      BY <2>1, <2>3, <1>3
    <2> QED  BY <1>2, <2>2, <2>3 DEF P!Reading
  <1>5. InHand'
    BY DEF InHand
  <1>6. \A i \in 1..fetcher'.done : Due(i)' => P!Fetched(i)'
    BY <1>1, <1>4
  <1> QED  BY <1>2, <1>5, <1>6 DEF FetcherInv

LEMMA AdmitKeeps == ASSUME Topics, FetcherInv, licence \in [Papers -> P!Rights], P!Admit
                    PROVE  FetcherInv'
  <1>1. PICK rights \in P!LookUp :
            /\ P!Publish(rights)
            /\ P!Proceed([P!Idle EXCEPT !.rights = rights,
                           !.pc = IF P!FetchAllowed(rights) THEN "fetch" ELSE "commit"])
    BY DEF P!Admit
  <1>2. /\ P!HasDiscovery /\ ~P!Foreign /\ UNCHANGED <<discovered, topic>>
        /\ P!Current \in Found
    BY JobIs DEF P!Admit, P!FetcherOnly
  <1>3. rights \in P!Rights
    BY <1>2 DEF P!LookUp, P!Rights, Found
  <1> DEFINE q == [P!Idle EXCEPT !.rights = rights,
                           !.pc = IF P!FetchAllowed(rights) THEN "fetch" ELSE "commit"]
  <1>4. /\ q \in Fetching /\ q.rights = rights
        /\ q.pc = IF P!FetchAllowed(rights) THEN "fetch" ELSE "commit"
    BY <1>3, JobIs DEF Fetching, P!Idle
  <1>5. fetcher' = [fetcher EXCEPT !.job = q]
    BY <1>1 DEF P!Proceed
  <1> HIDE DEF q
  <1>6. fetcher'.job = q /\ fetcher'.done = fetcher.done
    BY <1>5, JobIs
  <1>7. ~P!FetchAllowed(rights) => P!Fetched(P!Reading)'
    <2>1. [paper |-> P!Current.paper, rights |-> rights, from |-> P!Reading] \in admissions'
      BY <1>1 DEF P!Publish
    <2>2. P!Reading' = P!Reading
      BY <1>6 DEF P!Reading
    <2> QED  BY <2>1, <2>2 DEF P!Fetched
  <1>8. InHand'
    BY <1>2, <1>4, <1>6, <1>7, SameRecord DEF InHand
  <1>9. admissions \subseteq admissions'
    BY <1>1 DEF P!Publish
  <1> QED  BY <1>2, <1>4, <1>5, <1>8, <1>9, FetcherGoes

LEMMA FetchBodyKeeps == ASSUME Topics, FetcherInv, P!FetchBody PROVE FetcherInv'
  <1>1. PICK form \in P!Obtainable :
            P!Proceed([fetcher.job EXCEPT !.pc = "emit", !.body = <<P!Body(form)>>])
    BY DEF P!FetchBody
  <1>2. /\ fetcher.job.pc = "fetch" /\ UNCHANGED <<discovered, topic, admissions>>
        /\ P!HasDiscovery /\ ~P!Foreign /\ P!FetchAllowed(fetcher.job.rights)
    BY DEF P!FetchBody, P!FetcherOnly, P!FetcherAt, FetcherInv, InHand
  <1>3. P!Current \in Found /\ fetcher.job \in Fetching /\ P!Reading \in Nat
    BY <1>2, JobIs
  <1>4. form \in P!Bodies \cup {"stub"}
    BY <1>1 DEF P!Obtainable
  <1>5. P!Body(form) = [kind |-> form, paper |-> P!Current.paper, attempt |-> 0,
                        rights |-> fetcher.job.rights, from |-> P!Reading]
    BY DEF P!Body, P!Envelope
  <1> DEFINE q == [fetcher.job EXCEPT !.pc = "emit", !.body = <<P!Body(form)>>]
  <1>6. P!Body(form) \in Raw /\ Answers(P!Body(form))
    <2>1. P!Body(form) \in Raw
      BY <1>3, <1>4, <1>5 DEF Raw, Found, Fetching, P!Bodies
    <2>2. Answers(P!Body(form))
      BY <1>2, <1>5 DEF Answers, Fine
    <2> QED  BY <2>1, <2>2
  <1>7. /\ q \in Fetching /\ q.pc = "emit" /\ q.body = <<P!Body(form)>>
        /\ q.rights = fetcher.job.rights
    <2>1. PICK b : b = P!Body(form)
      OBVIOUS
    <2>2. <<b>> \in Seq(Raw)
      BY <1>6, <2>1
    <2>3. PICK j \in Fetching : j = fetcher.job
      BY <1>3
    <2>4. q = [j EXCEPT !.pc = "emit", !.body = <<b>>]
      BY <2>1, <2>3
    <2> HIDE DEF q
    <2>5. /\ [j EXCEPT !.pc = "emit", !.body = <<b>>] \in Fetching
          /\ [j EXCEPT !.pc = "emit", !.body = <<b>>].pc = "emit"
          /\ [j EXCEPT !.pc = "emit", !.body = <<b>>].body = <<b>>
          /\ [j EXCEPT !.pc = "emit", !.body = <<b>>].rights = j.rights
      BY <2>2, <2>3 DEF Fetching
    <2> QED  BY <2>1, <2>3, <2>4, <2>5
  <1>8. PICK e \in Raw : q.body = <<e>> /\ Answers(e)
    BY <1>6, <1>7
  <1>9. fetcher' = [fetcher EXCEPT !.job = q]
    BY <1>1 DEF P!Proceed
  <1> HIDE DEF q
  <1>10. fetcher'.job = q /\ fetcher'.done = fetcher.done
    BY <1>9, JobIs
  <1>11. Answers(e)' /\ P!HasDiscovery' /\ ~P!Foreign'
    BY <1>2, <1>8, <1>10, SameRecord DEF Answers
  <1>12. InHand'
    BY <1>2, <1>7, <1>8, <1>10, <1>11 DEF InHand
  <1> QED  BY <1>2, <1>7, <1>9, <1>12, FetcherGoes

LEMMA ConflictKeeps == ASSUME Topics, FetcherInv, P!Conflict PROVE FetcherInv'
  <1>1. /\ fetcher.job.pc = "fetch" /\ UNCHANGED <<discovered, topic>>
        /\ P!Publish("conflict") /\ P!Proceed([fetcher.job EXCEPT !.pc = "commit"])
        /\ P!HasDiscovery /\ ~P!Foreign
    BY DEF P!Conflict, P!FetcherOnly, P!FetcherAt, FetcherInv, InHand
  <1> DEFINE q == [fetcher.job EXCEPT !.pc = "commit"]
  <1>2. q \in Fetching /\ q.pc = "commit"
    BY JobIs DEF Fetching
  <1>3. fetcher' = [fetcher EXCEPT !.job = q]
    BY <1>1 DEF P!Proceed
  <1> HIDE DEF q
  <1>4. fetcher'.job = q /\ fetcher'.done = fetcher.done
    BY <1>3, JobIs
  <1>5. ~P!FetchAllowed("conflict")
    BY DEF P!FetchAllowed, P!Status
  <1>6. P!Fetched(P!Reading)'
    <2>1. [paper |-> P!Current.paper, rights |-> "conflict", from |-> P!Reading]
             \in admissions'
      BY <1>1 DEF P!Publish
    <2>2. P!Reading' = P!Reading
      BY <1>4 DEF P!Reading
    <2> QED  BY <1>5, <2>1, <2>2 DEF P!Fetched
  <1>7. InHand'
    BY <1>1, <1>2, <1>4, <1>6, SameRecord DEF InHand
  <1>8. admissions \subseteq admissions'
    BY <1>1 DEF P!Publish
  <1> QED  BY <1>1, <1>2, <1>3, <1>7, <1>8, FetcherGoes

LEMMA PathEmitKeeps == ASSUME Topics, FetcherInv, P!Emit PROVE Grows /\ FetcherInv'
  <1>1. /\ fetcher.job.pc = "emit" /\ UNCHANGED <<discovered, admissions>>
        /\ topic' = topic \o fetcher.job.body
        /\ fetcher' = [fetcher EXCEPT !.job = [fetcher.job EXCEPT !.pc = "commit", !.body = <<>>]]
        /\ P!HasDiscovery /\ ~P!Foreign
    BY DEF P!Emit, P!FetcherOnly, P!FetcherAt, P!Proceed, FetcherInv, InHand
  <1>2. PICK e \in Raw : fetcher.job.body = <<e>> /\ Answers(e)
    BY <1>1 DEF FetcherInv, InHand
  <1>3. topic' = Append(topic, e)
    BY <1>1, <1>2 DEF Topics
  <1>4. Grows
    BY <1>1, <1>2, <1>3 DEF Grows, Answers
  <1> DEFINE q == [fetcher.job EXCEPT !.pc = "commit", !.body = <<>>]
  <1>5. q \in Fetching /\ q.pc = "commit"
    BY JobIs DEF Fetching
  <1>6. fetcher' = [fetcher EXCEPT !.job = q]
    BY <1>1
  <1> HIDE DEF q
  <1>7. /\ fetcher'.job = q /\ fetcher'.done = fetcher.done
        /\ fetcher' \in [done: Nat, job: Fetching]
    BY <1>5, <1>6, JobIs DEF FetcherInv
  <1>8. P!Fetched(P!Reading)'
    <2>1. Len(topic) + 1 \in DOMAIN topic' /\ topic'[Len(topic) + 1] = e
      BY <1>3 DEF Topics
    <2>2. e.from = P!Reading' /\ e.paper = discovered'[P!Reading'].paper
      BY <1>1, <1>2, <1>7, SameRecord DEF Answers
    <2> QED  BY <2>1, <2>2 DEF P!Fetched
  <1>9. \A i \in 1..fetcher'.done : Due(i)' => P!Fetched(i)'
    <2>1. \A i \in 1..Len(discovered) : P!Fetched(i) => P!Fetched(i)'
      BY <1>1, <1>4, FetchedStays
    <2> QED  BY <1>1, <1>4, <1>7, <2>1, DiscoveriesGrow DEF FetcherInv, Due
  <1>10. InHand'
    BY <1>1, <1>5, <1>7, <1>8, SameRecord DEF InHand
  <1> QED  BY <1>1, <1>4, <1>7, <1>9, <1>10 DEF FetcherInv

-----------------------------------------------------------------------------
LEMMA PaperInvInit == ASSUME P!PaperAssumption, P!Init PROVE PaperInv
  <1>1. P!Idle \in Fetching /\ P!Idle.pc = "idle"
    BY DEF P!Idle, Fetching, P!Rights
  <1>2. Topics /\ Silver
    BY DEF P!Init, Topics, Silver
  <1>3. FetcherInv
    BY <1>1 DEF P!Init, FetcherInv, InHand
  <1>4. NormalInv
    BY DEF P!Init, NormalInv
  <1> QED  BY <1>2, <1>3, <1>4 DEF PaperInv, P!Init, P!PaperAssumption

LEMMA OnlyFetch ==
    ASSUME P!PaperAssumption, PaperInv, Grows, FetcherInv',
           faults' \in 0..PathFaults, P!FetcherOnly
    PROVE  PaperInv'
  <1>1. Topics' /\ NormalInv'
    BY TopicGrows, NormalStays DEF PaperInv, P!FetcherOnly
  <1>2. Silver'
    BY DEF PaperInv, P!FetcherOnly, Silver
  <1> QED  BY <1>1, <1>2 DEF PaperInv, P!FetcherOnly

LEMMA FaultStep ==
    ASSUME P!PaperAssumption, PaperInv, P!Fault \/ UNCHANGED faults
    PROVE  faults' \in 0..PathFaults
  BY DEF P!PaperAssumption, PaperInv, P!Fault

LEMMA CommitKeeps ==
    ASSUME P!PaperAssumption, PaperInv, P!Ignore \/ P!Commit
    PROVE  FetcherInv'
  <1>1. PICK f \in [done: Nat, job: Fetching] : f = fetcher
    BY DEF PaperInv, FetcherInv
  <1>2. UNCHANGED <<discovered, topic, admissions>>
    BY DEF P!Ignore, P!Commit, P!FetcherOnly
  <1>3. CASE P!Ignore
    <2>1. /\ f.job.pc = "idle" /\ P!HasDiscovery /\ P!Foreign
          /\ fetcher' = [f EXCEPT !.done = f.done + 1]
      BY <1>1, <1>3 DEF P!Ignore, P!FetcherAt
    <2>2. /\ fetcher' \in [done: Nat, job: Fetching] /\ fetcher'.done = f.done + 1
          /\ fetcher'.job.pc = "idle"
      BY <2>1
    <2> QED  BY <1>1, <1>2, <2>1, <2>2, Commits DEF PaperInv
  <1>4. CASE P!Commit
    <2>1. /\ P!HasDiscovery /\ P!Fetched(P!Reading)
          /\ fetcher' = [done |-> f.done + 1, job |-> P!Idle]
      BY <1>1, <1>4 DEF P!Commit, P!FetcherAt, PaperInv, FetcherInv, InHand
    <2>2. /\ fetcher' \in [done: Nat, job: Fetching] /\ fetcher'.done = f.done + 1
          /\ fetcher'.job.pc = "idle"
      BY <2>1, JobIs DEF PaperInv
    <2> QED  BY <1>1, <1>2, <2>1, <2>2, Commits DEF PaperInv
  <1> QED  BY <1>3, <1>4

LEMMA FetchKeeps ==
    ASSUME P!PaperAssumption, PaperInv, P!Fetch \/ P!FetchError \/ P!FetcherDies
    PROVE  PaperInv'
  <1>1. P!FetcherOnly /\ (P!Fault \/ UNCHANGED faults)
    BY DEF P!Fetch, P!Ignore, P!Admit, P!FetchBody, P!Conflict, P!Emit, P!Commit, P!FetchError,
       P!FetcherDies
  <1>2. faults' \in 0..PathFaults
    BY <1>1, FaultStep
  <1>3. CASE P!Emit
    BY <1>1, <1>2, <1>3, PathEmitKeeps, OnlyFetch DEF PaperInv
  <1>4. CASE ~P!Emit
    <2>1. Grows
      BY <1>4 DEF P!Fetch, P!Ignore, P!Admit, P!FetchBody, P!Conflict, P!Commit, P!FetchError,
         P!FetcherDies, P!FetcherOnly, Grows
    <2>2. CASE P!Admit
      BY <2>2, AdmitKeeps, OnlyFetch, <1>1, <1>2, <2>1 DEF PaperInv
    <2>3. CASE P!FetchBody
      BY <2>3, FetchBodyKeeps, OnlyFetch, <1>1, <1>2, <2>1 DEF PaperInv
    <2>4. CASE P!Conflict
      BY <2>4, ConflictKeeps, OnlyFetch, <1>1, <1>2, <2>1 DEF PaperInv
    <2>5. CASE P!Ignore \/ P!Commit
      BY <2>5, CommitKeeps, OnlyFetch, <1>1, <1>2, <2>1
    <2>6. CASE P!FetchError \/ P!FetcherDies
      <3>1. UNCHANGED <<discovered, topic, admissions>> /\ P!Proceed(P!Idle)
        BY <2>6 DEF P!FetchError, P!FetcherDies, P!FetchFails, P!FetcherOnly
      <3> QED  BY <3>1, BackToIdle, OnlyFetch, <1>1, <1>2, <2>1 DEF PaperInv
    <2> QED  BY <1>4, <2>2, <2>3, <2>4, <2>5, <2>6 DEF P!Fetch
  <1> QED  BY <1>3, <1>4

LEMMA NormalKeeps ==
    ASSUME P!PaperAssumption, PaperInv, P!Normal \/ P!Undoable \/ P!TooOld \/ P!NormalDies
    PROVE  PaperInv'
  <1>1. P!NormalOnly /\ (P!Fault \/ UNCHANGED faults)
    BY DEF P!Normal, P!Skip, P!Missing, P!Normalise, P!SaveNormal, P!Undoable, P!TooOld,
       P!NormalDies
  <1>2. faults' \in 0..PathFaults
    BY <1>1, FaultStep
  <1>3. Topics' /\ FetcherInv' /\ Grows
    BY <1>1, TopicGrows, FetcherStays DEF PaperInv, P!NormalOnly, Grows
  <1>4. PICK n \in [next: Nat, saved: Nat] : n = normal
    BY DEF PaperInv, NormalInv
  <1>5. Len(topic) \in Nat /\ n.saved <= n.next /\ n.next <= Len(topic)
    BY <1>4 DEF PaperInv, NormalInv, Topics
  <1>6. silver \in Seq(Document) /\ Len(silver) \in Nat /\ curator \in 0..Len(silver)
    BY DEF PaperInv, Silver
  <1>7. /\ failures \subseteq failures' /\ aged \subseteq aged' /\ expired \subseteq expired'
        /\ failures' \cup aged' \subseteq failures \cup aged \cup {P!Next1}
    BY DEF P!Normal, P!Skip, P!Missing, P!Normalise, P!SaveNormal, P!Undoable, P!TooOld,
       P!NormalDies, P!Recorded
  <1>8. CASE P!SaveNormal \/ P!NormalDies
    <2>1. UNCHANGED <<failures, expired, aged, silver>>
      BY <1>8 DEF P!SaveNormal, P!NormalDies
    <2>2. /\ normal' \in [next: Nat, saved: Nat] /\ normal'.saved <= normal'.next
          /\ normal'.next <= normal.next
      BY <1>4, <1>5, <1>8 DEF P!SaveNormal, P!NormalDies
    <2>3. \A i : P!Processed(i) <=> P!Processed(i)'
      BY <1>1, <2>1 DEF P!Processed, P!Key, P!NormalOnly
    <2>4. NormalInv'
      BY <1>1, <1>4, <1>5, <2>1, <2>2, <2>3 DEF PaperInv, NormalInv, P!NormalOnly
    <2>5. Silver'
      BY <1>1, <2>1 DEF PaperInv, Silver, P!NormalOnly
    <2> QED  BY <1>1, <1>2, <1>3, <2>4, <2>5 DEF PaperInv, P!NormalOnly
  <1>9. CASE P!Skip \/ P!Missing \/ P!Normalise \/ P!Undoable \/ P!TooOld
    <2>1. P!HasInput /\ P!Passed
      BY <1>9 DEF P!Skip, P!Missing, P!Normalise, P!Undoable, P!TooOld
    <2>2. /\ normal' \in [next: Nat, saved: Nat] /\ normal'.next = P!Next1
          /\ normal'.saved = normal.saved /\ P!Next1 \in 1..Len(topic) /\ P!Next1 = normal.next + 1
      BY <1>4, <1>5, <2>1 DEF P!HasInput, P!Passed, P!Next1
    <2>3. P!Input \in Raw /\ Fine(P!Input) /\ P!Input = topic[P!Next1]
      BY <2>2, <1>3, TopicGrows DEF PaperInv, Topics, P!Input
    <2>4. silver' = silver \/ P!Normalise
      BY <1>9 DEF P!Skip, P!Missing, P!Undoable, P!TooOld
    <2>5. P!Normalise =>
            /\ Silver' /\ \A k \in DOMAIN silver : k \in DOMAIN silver' /\ silver'[k] = silver[k]
            /\ \E k \in DOMAIN silver' : silver'[k].raw = P!Next1
      <3>0. HAVE P!Normalise
      <3> DEFINE s == [paper |-> P!Input.paper, attempt |-> P!Input.attempt,
                       raw |-> P!Next1]
      <3>1. s \in Document /\ s.raw = P!Next1
        BY <2>2, <2>3 DEF Document, Raw
      <3>2. silver' = Append(silver, s)
        BY <3>0 DEF P!Normalise
      <3> HIDE DEF s
      <3>3. /\ silver' \in Seq(Document) /\ Len(silver') = Len(silver) + 1
            /\ silver'[Len(silver) + 1] = s
            /\ \A k \in 1..Len(silver) : silver'[k] = silver[k]
            /\ DOMAIN silver' = 1..(Len(silver) + 1) /\ DOMAIN silver = 1..Len(silver)
        BY <1>6, <3>1, <3>2
      <3>4. curator' \in 0..Len(silver')
        BY <1>1, <1>6, <3>3 DEF P!NormalOnly
      <3>5. \E k \in DOMAIN silver' : silver'[k].raw = P!Next1
        BY <3>1, <3>3, <1>6
      <3> QED  BY <3>3, <3>4, <3>5, <1>6 DEF Silver
    <2>6. Silver' /\ \A k \in DOMAIN silver : k \in DOMAIN silver' /\ silver'[k] = silver[k]
      <3>1. CASE silver' = silver
        BY <1>1, <3>1 DEF PaperInv, Silver, P!NormalOnly
      <3>2. CASE P!Normalise
        BY <2>5, <3>2
      <3> QED  BY <2>4, <3>1, <3>2
    <2>7. \A i : P!Processed(i) => P!Processed(i)'
      BY <1>1, <1>7, <2>6 DEF P!Processed, P!Key, P!NormalOnly
    <2>8. PICK m \in 1..Len(topic) : m = P!Next1
      BY <2>2
    <2>9. topic[m].kind \in P!Bodies => P!Processed(m)'
      <3>1. HAVE topic[m].kind \in P!Bodies
      <3>2. P!Input = topic[m] /\ topic' = topic /\ P!FetchAllowed(P!Input.rights)
        BY <1>1, <2>3, <2>8, <3>1 DEF P!NormalOnly, Fine
      <3>3. CASE P!Skip
        BY <3>1, <3>2, <3>3 DEF P!Skip, P!Skipped, P!Processed, P!Key
      <3>4. CASE P!TooOld \/ P!Missing \/ P!Undoable
        BY <2>8, <3>4 DEF P!TooOld, P!Missing, P!Undoable, P!Recorded, P!Processed
      <3>5. CASE P!Normalise
        BY <2>5, <2>8, <3>5 DEF P!Processed
      <3> QED  BY <1>9, <3>3, <3>4, <3>5
    <2>10. NormalInv'
      <3>1. normal'.next \in Nat /\ normal'.next <= Len(topic') /\ normal'.saved <= normal'.next
        BY <1>1, <1>4, <1>5, <2>2 DEF P!NormalOnly
      <3>2. failures' \cup aged' \subseteq 1..Len(topic')
        BY <1>1, <1>7, <2>2 DEF PaperInv, NormalInv, P!NormalOnly
      <3>3. \A i \in 1..normal'.next : i = m \/ i \in 1..normal.next
        BY <1>4, <2>2, <2>8
      <3>4. \A i \in 1..normal'.next : topic'[i].kind \in P!Bodies => P!Processed(i)'
        BY <1>1, <2>7, <2>9, <3>3 DEF PaperInv, NormalInv, P!NormalOnly
      <3> QED  BY <2>2, <3>1, <3>2, <3>4 DEF NormalInv
    <2> QED  BY <1>1, <1>2, <1>3, <2>6, <2>10 DEF PaperInv, P!NormalOnly
  <1> QED  BY <1>8, <1>9 DEF P!Normal

LEMMA DiscoverKeeps ==
    ASSUME P!PaperAssumption, PaperInv, NEW p \in Papers, P!Discover(p)
    PROVE  PaperInv'
  <1>1. \E d \in Found : discovered' = Append(discovered, d)
    BY DEF P!Discover, Found
  <1>2. Grows
    BY <1>1 DEF Grows, P!Discover
  <1>3. Topics' /\ FetcherInv' /\ NormalInv'
    BY <1>2, TopicGrows, FetcherStays, NormalStays DEF PaperInv, P!Discover
  <1> QED  BY <1>3 DEF PaperInv, P!Discover, Silver

LEMMA CurateKeeps == ASSUME P!PaperAssumption, PaperInv, P!Curate PROVE PaperInv'
  <1>1. faults' \in 0..PathFaults
    <2>1. P!Fault \/ UNCHANGED faults
      BY DEF P!Curate
    <2> QED  BY <2>1, FaultStep
  <1>2. silver \in Seq(Document) /\ Len(silver) \in Nat /\ curator \in 0..Len(silver)
    BY DEF PaperInv, Silver
  <1>3. curator < Len(silver) /\ (curator' = curator \/ curator' = curator + 1)
    BY DEF P!Curate
  <1> DEFINE s == silver[curator + 1]
  <1>4. curator + 1 \in 1..Len(silver)
    BY <1>2, <1>3
  <1>5. s \in Document
    BY <1>2, <1>4
  <1>6. Grows
    <2>1. CASE UNCHANGED topic
      BY <2>1 DEF Grows, P!Curate
    <2>2. CASE topic' # topic
      <3> DEFINE e == [kind |-> "retry", paper |-> s.paper, attempt |-> s.attempt + 1,
                       rights |-> "none", from |-> 0]
      <3>1. topic' = Append(topic, e) /\ UNCHANGED discovered
        BY <2>2 DEF P!Curate, P!Envelope
      <3>2. e \in Raw /\ Fine(e)
        BY <1>5 DEF Raw, Fine, Document, P!Bodies, P!Rights
      <3> HIDE DEF e
      <3> QED  BY <3>1, <3>2 DEF Grows
    <2> QED  BY <2>1, <2>2
  <1>7. Topics' /\ FetcherInv' /\ NormalInv'
    BY <1>6, TopicGrows, FetcherStays, NormalStays DEF PaperInv, P!Curate
  <1>8. Silver'
    <2>1. curator' \in 0..Len(silver) /\ silver' = silver
      BY <1>2, <1>3 DEF P!Curate
    <2> QED  BY <2>1 DEF PaperInv, Silver
  <1> QED  BY <1>1, <1>7, <1>8 DEF PaperInv, P!Curate

LEMMA PaperInvNext ==
    ASSUME P!PaperAssumption, PaperInv, P!Next \/ UNCHANGED P!vars
    PROVE  PaperInv'
  <1>1. CASE P!LoseObject \/ UNCHANGED P!vars
    <2>1. /\ UNCHANGED <<licence, discovered, topic, fetcher, admissions, normal, failures,
                         expired, aged, silver, curator>>
          /\ P!Fault \/ UNCHANGED faults
      BY <1>1 DEF P!LoseObject, P!vars
    <2>2. Topics' /\ FetcherInv' /\ NormalInv'
      BY <2>1, TopicGrows, FetcherStays, NormalStays DEF PaperInv, Grows
    <2> QED  BY <2>1, <2>2, FaultStep DEF PaperInv, Silver
  <1>2. CASE \E p \in Papers : P!Discover(p)
    BY <1>2, DiscoverKeeps
  <1>3. CASE P!Fetch \/ P!FetchError \/ P!FetcherDies
    BY <1>3, FetchKeeps
  <1>4. CASE P!Normal \/ P!Undoable \/ P!TooOld \/ P!NormalDies
    BY <1>4, NormalKeeps
  <1>5. CASE P!Curate
    BY <1>5, CurateKeeps
  <1> QED  BY <1>1, <1>2, <1>3, <1>4, <1>5 DEF P!Next

LEMMA PaperInvSays == ASSUME PaperInv PROVE P!TypeOK /\ P!NothingVanishes
  <1>1. P!TypeOK
    BY DEF PaperInv, P!TypeOK, FetcherInv, NormalInv, Silver, Topics, Fetching
  <1>2. P!NothingVanishes
    BY DEF PaperInv, P!NothingVanishes, FetcherInv, NormalInv, Due
  <1> QED  BY <1>1, <1>2

-----------------------------------------------------------------------------
(* What the pipe holds of a request, and of its answer: one message at most, *)
(* about the document of the caller that waits.                            *)
Asked(d) == down = <<d>> /\ up = <<>>
Answered(d) ==
    /\ down = <<>>
    /\ \E s \in {"success", "document_error", "processing_error"} :
          up = <<[status |-> s, doc |-> d]>>
Quiet == down = <<>> /\ up = <<>>

(* A child that starts has sent nothing or whether it is ready.              *)
Starting ==
    /\ child.pc \in {"building", "idle", "dead"} /\ down = <<>>
    /\ child.pc = "building" => up = <<>>
    /\ \/ up = <<>> /\ child.pc # "idle"
       \/ up = <<[status |-> "ready", doc |-> "none"]>>
       \/ up = <<[status |-> "startup_error", doc |-> "none"]>> /\ child.pc = "dead"

PdfWaiting ==
    \/ child.pc = "idle" /\ (Asked(caller.doc) \/ Answered(caller.doc))
    \/ child.pc = "busy" /\ child.doc = caller.doc /\ Quiet
    \/ child.pc = "dead" /\ (Asked(caller.doc) \/ Answered(caller.doc) \/ Quiet)

PdfInv ==
    /\ caller \in [pc: {"free", "starting", "waiting"}, doc: Documents \cup {"none"}]
    /\ child \in [pc: {"gone", "building", "idle", "busy", "dead"}, doc: Documents \cup {"none"}]
    /\ calls \in 0..CallLimit /\ deaths \in 0..DeathLimit
    /\ caller.pc = "free" => child.pc \in {"gone", "dead"} \/ (child.pc = "idle" /\ Quiet)
    /\ caller.pc = "starting" => Starting
    /\ caller.pc = "waiting" => PdfWaiting
    /\ W!OwnAnswer

LEMMA PdfInvInit == ASSUME W!PdfAssumption PROVE W!Init => PdfInv
  BY DEF W!Init, PdfInv, W!Free, W!Gone, W!OwnAnswer, W!PdfAssumption

LEMMA PdfInvNext == ASSUME W!PdfAssumption, PdfInv, [W!Next]_W!vars PROVE PdfInv'
  <1>1. ASSUME NEW d \in Documents, W!Call(d) PROVE PdfInv'
    <2>1. CASE child.pc \in {"gone", "dead"}
      BY <1>1, <2>1 DEF W!Call, PdfInv, Starting, W!OwnAnswer, W!PdfAssumption
    <2>2. CASE child.pc \notin {"gone", "dead"}
      <3>1. Quiet /\ child.pc = "idle" /\ down' = Append(down, d) /\ UNCHANGED <<child, up>>
        BY <1>1, <2>2 DEF W!Call, PdfInv
      <3>2. down' = <<d>>
        BY <3>1 DEF Quiet
      <3> QED  BY <1>1, <2>2, <3>1, <3>2
               DEF W!Call, PdfInv, PdfWaiting, Asked, Quiet, W!OwnAnswer, W!PdfAssumption
    <2> QED  BY <2>1, <2>2
  <1>2. ASSUME W!Started PROVE PdfInv'
    <2>1. /\ up # <<>> /\ Head(up).status = "ready" /\ caller.pc = "starting"
          /\ caller' = [caller EXCEPT !.pc = "waiting"]
          /\ down' = Append(down, caller.doc) /\ up' = Tail(up)
          /\ UNCHANGED <<child, given, calls, deaths>>
      BY <1>2 DEF W!Started
    <2>2. up = <<[status |-> "ready", doc |-> "none"]>> /\ down = <<>> /\ child.pc \in {"idle", "dead"}
      BY <2>1 DEF PdfInv, Starting
    <2>3. up' = <<>> /\ down' = <<caller.doc>>
      BY <2>1, <2>2
    <2>4. /\ caller' \in [pc: {"free", "starting", "waiting"}, doc: Documents \cup {"none"}]
          /\ caller'.pc = "waiting" /\ caller'.doc = caller.doc
      BY <2>1 DEF PdfInv
    <2> QED  BY <2>1, <2>2, <2>3, <2>4 DEF PdfInv, PdfWaiting, Asked, W!OwnAnswer
  <1>3. ASSUME W!Raise PROVE PdfInv'
    BY <1>3 DEF W!Raise, W!Return, W!Recycle, PdfInv, W!Free, W!Gone, W!OwnAnswer
  <1>4. ASSUME W!NotStarted \/ W!Fails \/ W!TimesOut PROVE PdfInv'
    BY <1>3, <1>4 DEF W!NotStarted, W!Fails, W!TimesOut, W!Raise
  <1>5. ASSUME W!Succeeds PROVE PdfInv'
    <2>1. /\ caller.pc = "waiting" /\ up # <<>> /\ up' = Tail(up) /\ caller' = W!Free
          /\ given' = given \cup {<<caller.doc, Head(up).doc>>}
          /\ UNCHANGED <<child, down, calls, deaths>>
      BY <1>5 DEF W!Succeeds, W!Return
    <2>2. Answered(caller.doc) /\ child.pc \in {"idle", "dead"}
      BY <2>1 DEF PdfInv, PdfWaiting, Asked, Quiet
    <2>3. PICK s : up = <<[status |-> s, doc |-> caller.doc]>> /\ down = <<>>
      BY <2>2 DEF Answered
    <2>4. Head(up).doc = caller.doc /\ up' = <<>>
      BY <2>1, <2>3
    <2>5. W!OwnAnswer'
      BY <2>1, <2>4 DEF PdfInv, W!OwnAnswer
    <2> QED  BY <2>1, <2>2, <2>3, <2>4, <2>5 DEF PdfInv, Quiet, W!Free
  <1>6. ASSUME W!Build PROVE PdfInv'
    <2>1. caller.pc = "starting" /\ up = <<>> /\ down = <<>> /\ child.pc = "building"
      BY <1>6 DEF W!Build, PdfInv, Starting, PdfWaiting
    <2>2. UNCHANGED <<caller, down, given, calls, deaths>>
      BY <1>6 DEF W!Build
    <2>3. \/ child' = [child EXCEPT !.pc = "idle"] /\ up' = Append(up, [status |-> "ready", doc |-> "none"])
          \/ /\ child' = [child EXCEPT !.pc = "dead"]
             /\ up' = Append(up, [status |-> "startup_error", doc |-> "none"])
      BY <1>6 DEF W!Build, W!Send
    <2>4. \/ child' = [child EXCEPT !.pc = "idle"] /\ up' = <<[status |-> "ready", doc |-> "none"]>>
          \/ /\ child' = [child EXCEPT !.pc = "dead"]
             /\ up' = <<[status |-> "startup_error", doc |-> "none"]>>
      BY <2>1, <2>3
    <2> QED  BY <2>1, <2>2, <2>4 DEF PdfInv, Starting, W!OwnAnswer
  <1>7. ASSUME W!Receive PROVE PdfInv'
    <2>1. /\ child.pc = "idle" /\ down # <<>> /\ down' = Tail(down)
          /\ child' = [pc |-> "busy", doc |-> Head(down)]
          /\ UNCHANGED <<caller, up, given, calls, deaths>>
      BY <1>7 DEF W!Receive
    <2>2. caller.pc = "waiting" /\ Asked(caller.doc)
      BY <2>1 DEF PdfInv, Quiet, Starting, PdfWaiting, Answered
    <2>3. down' = <<>> /\ Head(down) = caller.doc /\ up = <<>>
      BY <2>1, <2>2 DEF Asked
    <2> QED  BY <2>1, <2>2, <2>3 DEF PdfInv, PdfWaiting, Quiet, W!OwnAnswer
  <1>8. ASSUME W!Answer PROVE PdfInv'
    <2>1. /\ child.pc = "busy" /\ child' = [pc |-> "idle", doc |-> "none"]
          /\ UNCHANGED <<caller, down, given, calls, deaths>>
      BY <1>8 DEF W!Answer
    <2>2. PICK s \in {"success", "document_error", "processing_error"} :
              up' = Append(up, [status |-> s, doc |-> child.doc])
      BY <1>8 DEF W!Answer, W!Send
    <2>3. caller.pc = "waiting" /\ child.doc = caller.doc /\ Quiet
      BY <2>1 DEF PdfInv, Starting, PdfWaiting
    <2>4. up' = <<[status |-> s, doc |-> caller.doc]>> /\ down = <<>>
      BY <2>2, <2>3 DEF Quiet
    <2>5. Answered(caller.doc)'
      BY <2>1, <2>4 DEF Answered
    <2> QED  BY <2>1, <2>3, <2>5 DEF PdfInv, PdfWaiting, W!OwnAnswer
  <1>9. ASSUME W!ChildDies PROVE PdfInv'
    <2>1. /\ child.pc \notin {"gone", "dead"} /\ child' = [pc |-> "dead", doc |-> "none"]
          /\ down' = <<>> /\ UNCHANGED <<caller, up, given, calls>> /\ deaths' \in 0..DeathLimit
      BY <1>9 DEF W!ChildDies, PdfInv, W!PdfAssumption
    <2>2. caller.pc = "starting" => Starting'
      BY <2>1 DEF PdfInv, Starting
    <2>3. caller.pc = "waiting" => PdfWaiting'
      BY <2>1 DEF PdfInv, PdfWaiting, Asked, Answered, Quiet
    <2> QED  BY <2>1, <2>2, <2>3 DEF PdfInv, W!OwnAnswer
  <1>10. CASE UNCHANGED W!vars
    BY <1>10 DEF W!vars, PdfInv, Starting, PdfWaiting, Asked, Answered, Quiet, W!OwnAnswer
  <1> QED
    BY <1>1, <1>2, <1>4, <1>5, <1>6, <1>7, <1>8, <1>9, <1>10 DEF W!Next, W!Parent

LEMMA PdfInvSays == PdfInv => W!TypeOK /\ W!OwnAnswer
  BY DEF PdfInv, W!TypeOK

-----------------------------------------------------------------------------
(* The composition: a part moves only when it is the part the behaviour is of. *)

(* The cursor of a poller has one owner, whatever the order of the requests of  *)
(* any number of processes (ingest/common/state.py).                        *)
THEOREM CursorHasOneOwner == IngestSpec => []OneOwner
  <1> DEFINE J == part = "lease" => LeaseInv
  <1>1. IngestInit => J
    BY LeaseInvInit, PaperWayAssumption DEF IngestInit
  <1>2. J /\ [IngestNext]_wayVars => J'
    <2> SUFFICES ASSUME J, [IngestNext]_wayVars, part' = "lease" PROVE LeaseInv'
      OBVIOUS
    <2>1. part = "lease" /\ [Lease!Next]_Lease!vars
      BY DEF IngestNext, wayVars, discoveryVars, leaseVars, Lease!vars
    <2> QED  BY <2>1, LeaseInvNext, PaperWayAssumption
  <1>3. J => OneOwner
    BY LeaseInvSays, PaperWayAssumption DEF OneOwner
  <1> QED  BY <1>1, <1>2, <1>3, PTL DEF IngestSpec

(* What a catalogue, an OAI window or a feed shows is handled before the stored  *)
(* cursor passes it, however a pass was paused, failed, resumed or repeated       *)
(* (hf_poller, oaipmh_poller, rss_poller).                                   *)
THEOREM NothingIsMissed == IngestSpec => []NothingMissed
  <1> DEFINE J == /\ part = "hub" => HubInv
                  /\ part = "window" => WindowInv
                  /\ part = "feed" => FeedInv
  <1>1. IngestInit => J
    BY HubInvInit, WindowInvInit, FeedInvInit, PaperWayAssumption DEF IngestInit
  <1>2. J /\ [IngestNext]_wayVars => J'
    <2> SUFFICES ASSUME J, [IngestNext]_wayVars PROVE J'
      OBVIOUS
    <2>1. part' = part
      BY DEF IngestNext, wayVars
    <2>2. ASSUME part = "hub" PROVE HubInv'
      <3>1. [Hub!Next]_Hub!vars
        BY <2>2 DEF IngestNext, wayVars, discoveryVars, hubVars, Hub!vars, Hub!world, Hub!store,
                    Hub!history
      <3> QED  BY <2>2, <3>1, HubInvNext, PaperWayAssumption
    <2>3. ASSUME part = "window" PROVE WindowInv'
      <3>1. [Oai!Next]_Oai!vars
        BY <2>3 DEF IngestNext, wayVars, discoveryVars, windowVars, Oai!vars
      <3> QED  BY <2>3, <3>1, WindowInvNext, PaperWayAssumption
    <2>4. ASSUME part = "feed" PROVE FeedInv'
      <3>1. [Rss!Next]_Rss!vars
        BY <2>4 DEF IngestNext, wayVars, discoveryVars, feedVars, Rss!vars
      <3> QED  BY <2>4, <3>1, FeedInvNext, PaperWayAssumption
    <2> QED  BY <2>1, <2>2, <2>3, <2>4
  <1>3. J => NothingMissed
    BY HubInvSays, WindowInvSays, FeedInvSays, PaperWayAssumption DEF NothingMissed
  <1> QED  BY <1>1, <1>2, <1>3, PTL DEF IngestSpec

(* A README is emitted once, and once more for every pass that failed between    *)
(* its record and its checkpoint or worked beside another (hf_poller).        *)
THEOREM ReadmesAreOnce == IngestSpec => []ReadmeOnce
  <1> DEFINE J == part = "hub" => HubInv /\ BlobInv
  <1>1. IngestInit => J
    BY HubInvInit, BlobInvInit, PaperWayAssumption DEF IngestInit
  <1>2. J /\ [IngestNext]_wayVars => J'
    <2> SUFFICES ASSUME J, [IngestNext]_wayVars, part' = "hub" PROVE HubInv' /\ BlobInv'
      OBVIOUS
    <2>1. part = "hub" /\ [Hub!Next]_Hub!vars
      BY DEF IngestNext, wayVars, discoveryVars, hubVars, Hub!vars, Hub!world, Hub!store,
             Hub!history
    <2> QED  BY <2>1, HubInvNext, BlobInvNext, PaperWayAssumption
  <1>3. J => ReadmeOnce
    BY BlobInvSays DEF ReadmeOnce
  <1> QED  BY <1>1, <1>2, <1>3, PTL DEF IngestSpec

(* Whatever dies between two stages, an envelope that the body fetcher has         *)
(* acknowledged was refused or came to a later record, a body that a snapshot of   *)
(* the normaliser has passed came to a document, a failure or an expiry, and a     *)
(* chain of retries ends (arxiv_html_fetcher, processor/fetcher.py).            *)
THEOREM PapersComeThrough == PathSpec => []PaperComesThrough
  <1> DEFINE J == part = "paper" => PaperInv
  <1>1. PathInit => J
    BY PaperInvInit, PaperWayAssumption DEF PathInit
  <1>2. J /\ [PathNext]_wayVars => J'
    <2> SUFFICES ASSUME J, [PathNext]_wayVars, part' = "paper" PROVE PaperInv'
      OBVIOUS
    <2>1. part = "paper" /\ (P!Next \/ UNCHANGED P!vars)
      BY DEF PathNext, wayVars, bodyVars, paperVars, P!vars
    <2> QED  BY <2>1, PaperInvNext, PaperWayAssumption
  <1>3. J => PaperComesThrough
    BY PaperInvSays DEF PaperComesThrough
  <1> QED  BY <1>1, <1>2, <1>3, PTL DEF PathSpec

(* A document is never given the text of another one, whatever dies while it is   *)
(* asked for (processor/pdf_worker.py).                                       *)
THEOREM AnswersAreOwn == PathSpec => []OwnAnswer
  <1> DEFINE J == part = "pdf" => PdfInv
  <1>1. PathInit => J
    BY PdfInvInit, PaperWayAssumption DEF PathInit
  <1>2. J /\ [PathNext]_wayVars => J'
    <2> SUFFICES ASSUME J, [PathNext]_wayVars, part' = "pdf" PROVE PdfInv'
      OBVIOUS
    <2>1. part = "pdf" /\ [W!Next]_W!vars
      BY DEF PathNext, wayVars, bodyVars, pdfVars, W!vars
    <2> QED  BY <2>1, PdfInvNext, PaperWayAssumption
  <1>3. J => OwnAnswer
    BY PdfInvSays, PaperWayAssumption DEF OwnAnswer
  <1> QED  BY <1>1, <1>2, <1>3, PTL DEF PathSpec
=============================================================================
