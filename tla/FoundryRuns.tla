---------------------------- MODULE FoundryRuns ----------------------------
(***************************************************************************)
(* The foundry's runs: the daily cohort that every replica's queue loop    *)
(* freezes at the boundary and works off in rank order, and the manual     *)
(* snapshots an operator requests (processor/foundry/store.py, worker.py). *)
(*                                                                         *)
(* Papers are claimed, finished, deferred and released under the custody   *)
(* that FoundryQueue implements and CandidateCustody states: a claim is    *)
(* held until its lease lapses, and only its holder's calls pass the       *)
(* fence.  A turn of the loop is cut wherever the code leaves one          *)
(* transaction and enters another; the instants are ticks of one clock.    *)
(***************************************************************************)
EXTENDS Integers, FiniteSets, Sequences

CONSTANTS
    Docs, Workers,
    None,
    Score,          \* the total order ranking_score, ..., doc_id of the papers
    DayTicks,       \* 24 hours, in ticks
    Offset,         \* daily_run_hour_utc of each replica, in ticks after midnight
    NotBefore,      \* daily_not_before_utc
    Horizon,        \* bound: the last tick
    ArrivalLimit,   \* bound: calls of enqueue_candidate
    ManualLimit,    \* bound: manual runs requested
    FaultLimit      \* bound: crashes, failed iterations and leases lost at work

ASSUME RunsAssumption ==
    /\ IsFiniteSet(Docs) /\ IsFiniteSet(Workers)
    /\ Score \in [Docs -> Nat] /\ \A d, e \in Docs : Score[d] = Score[e] => d = e
    /\ DayTicks \in Nat \ {0} /\ Horizon \in Nat /\ NotBefore \in Nat
    /\ Offset \in [Workers -> 0..(DayTicks - 1)]
    /\ ArrivalLimit \in Nat /\ ManualLimit \in Nat /\ FaultLimit \in Nat
    /\ None \notin Docs \cup Workers \cup Int

VARIABLES
    now,            \* the clock
    sequence,       \* control_sequences: candidate_enqueue
    queue,          \* candidate_queue, in the terms of its custody
    daily,          \* daily_runs with daily_run_candidates, by run_date
    manual,         \* manual_runs, by requested_at
    at,             \* where each replica's queue thread is
    faults          \* faults so far

vars == <<now, sequence, queue, daily, manual, at, faults>>

Instant == 0..Horizon
Day == (0 - 1)..(Horizon \div DayTicks)
Ordinal == 0..ArrivalLimit

(* A queued row waits; a processing row is held or its lease has lapsed. *)
Row == [state: {"absent", "queued", "held", "lapsed"}, ordinal: Ordinal,
        arrived: Instant, retry: Instant \cup {None}, holder: Workers \cup {None}]
AbsentRow == [state |-> "absent", ordinal |-> 0, arrived |-> 0, retry |-> None, holder |-> None]

DailyRun == [state: {"running", "completed", "quota_exhausted", "superseded"},
             boundary: Int, cutoff: Ordinal, members: SUBSET Docs, processed: Nat]
ManualRun == [state: {"pending", "running", "completed", "quota_exhausted", "failed"},
              cutoff: Ordinal, max: Nat \cup {None}, processed: Nat]

(* The null is not a run. *)
ASSUME NullAssumption == None \notin DailyRun

(* The queue thread: its stage, the run_day it works for, the cutoff it    *)
(* read with that run, the manual run and the paper it is on.              *)
Stage == {"down", "idle", "anchoring", "superseding", "starting", "daily", "snapshots",
          "manual", "claiming", "emptied", "working", "counting", "completing", "exhausting"}
Position == [pc: Stage, day: Day \cup {None}, cutoff: Ordinal, run: Nat \cup {None},
             doc: Docs \cup {None}]
Idle == [pc |-> "idle", day |-> None, cutoff |-> 0, run |-> None, doc |-> None]

Init ==
    /\ now = 0
    /\ sequence = 0
    /\ queue = [d \in Docs |-> AbsentRow]
    /\ daily = [d \in Day |-> None]
    /\ manual = <<>>
    /\ at = [w \in Workers |-> Idle]
    /\ faults = 0

-----------------------------------------------------------------------------
(* _daily_cohort_boundary: the most recent configured boundary. *)
CurrentDay(w) == (now - Offset[w]) \div DayTicks
Boundary(w, day) == day * DayTicks + Offset[w]

Goto(w, stage) == at' = [at EXCEPT ![w].pc = stage]

(* A snapshot loop returns: a manual one inside a daily one falls back to it. *)
Return(w) ==
    at' = [at EXCEPT ![w] = IF @.run # None /\ @.day # None
                            THEN [@ EXCEPT !.pc = "daily", !.run = None, !.doc = None]
                            ELSE Idle]

(* The loop a worker is in takes its next turn. *)
NextTurn(w) ==
    at' = [at EXCEPT ![w].pc = IF at[w].run # None THEN "manual" ELSE "daily", ![w].doc = None]

Waiting == {d \in Docs : queue[d].state = "queued"}
Without(S) == [d \in Docs |-> IF d \in S THEN AbsentRow ELSE queue[d]]

-----------------------------------------------------------------------------
(* enqueue_candidate: every call draws an ordinal; a new paper and a       *)
(* changed revision of a waiting one take it, its retry time stays.        *)
Arrive(d, changed) ==
    /\ sequence < ArrivalLimit
    /\ sequence' = sequence + 1
    /\ queue' = [queue EXCEPT ![d] =
          IF @.state = "absent"
          THEN [AbsentRow EXCEPT !.state = "queued", !.ordinal = sequence + 1, !.arrived = now]
          ELSE IF @.state = "queued" /\ changed
               THEN [@ EXCEPT !.ordinal = sequence + 1, !.arrived = now]
               ELSE @]
    /\ UNCHANGED <<now, daily, manual, at, faults>>

Active == {r \in DOMAIN manual : manual[r].state \in {"pending", "running"}}

(* request_manual_run: one active run at a time; waiting papers that are    *)
(* 24 hours old at the request are dropped, the others are its snapshot.   *)
RequestManualRun(max) ==
    /\ Active = {} /\ Len(manual) < ManualLimit
    /\ LET stale == {d \in Waiting : queue[d].arrived <= now - DayTicks} IN
          /\ queue' = Without(stale)
          /\ manual' = Append(manual,
                [state |-> IF Waiting \ stale = {} THEN "completed" ELSE "pending",
                 cutoff |-> sequence, max |-> max, processed |-> 0])
    /\ UNCHANGED <<now, sequence, daily, at, faults>>

-----------------------------------------------------------------------------
(* _queue_iteration: the run the clock asks for, and whether it exists yet. *)
ReadSchedule(w) ==
    /\ at[w].pc = "idle"
    /\ IF now < NotBefore THEN Goto(w, "anchoring")
       ELSE LET day == CurrentDay(w) IN
            at' = [at EXCEPT ![w].day = day,
                      ![w].pc = IF daily[day] = None \/ daily[day].boundary # Boundary(w, day)
                                THEN "superseding" ELSE "starting"]
    /\ UNCHANGED <<now, sequence, queue, daily, manual, faults>>

(* expire_active_manual_runs *)
ExpireManualRuns(w) ==
    /\ at[w].pc \in {"anchoring", "superseding"}
    /\ manual' = [r \in DOMAIN manual |->
                     IF r \in Active THEN [manual[r] EXCEPT !.state = "failed"] ELSE manual[r]]
    /\ Goto(w, IF at[w].pc = "anchoring" THEN "idle" ELSE "starting")
    /\ UNCHANGED <<now, sequence, queue, daily, faults>>

(* The runs that start_daily_run finds running on an earlier date. *)
Superseded(day) ==
    [e \in Day |-> IF e < day /\ daily[e] # None /\ daily[e].state = "running"
                   THEN [daily[e] EXCEPT !.state = "superseded"] ELSE daily[e]]

(* The waiting papers of the 24 hours that end at the boundary. *)
Cohort(boundary) ==
    {d \in Waiting : boundary - DayTicks < queue[d].arrived /\ queue[d].arrived <= boundary}

FrozenRun(boundary) ==
    [state |-> IF Cohort(boundary) = {} THEN "completed" ELSE "running",
     boundary |-> boundary, cutoff |-> sequence, members |-> Cohort(boundary), processed |-> 0]

(* Mutant of CommittedRun: a run another replica has committed is rebuilt. *)
NeverCommitted(day, boundary) == daily[day] # None /\ daily[day].boundary # boundary

CommittedRun(day, boundary) == daily[day] # None /\ daily[day].boundary = boundary

(* start_daily_run: supersede older runs; return the committed run of the  *)
(* day, or freeze its cohort and drop every other paper of that age.       *)
StartDailyRun(w) ==
    /\ at[w].pc = "starting"
    /\ LET day == at[w].day
           boundary == Boundary(w, day)
           run == IF CommittedRun(day, boundary) THEN daily[day] ELSE FrozenRun(boundary)
       IN
          /\ daily' = [Superseded(day) EXCEPT ![day] = run]
          /\ queue' = IF CommittedRun(day, boundary) THEN queue
                      ELSE Without({d \in Waiting \ run.members : queue[d].arrived <= boundary})
          /\ at' = [at EXCEPT ![w] =
                IF run.state \in {"completed", "quota_exhausted"}
                THEN [Idle EXCEPT !.pc = "snapshots"]
                ELSE [@ EXCEPT !.pc = "daily", !.cutoff = run.cutoff]]
    /\ UNCHANGED <<now, sequence, manual, faults>>

(* A turn of _run_daily_snapshot: the next boundary has come, the cohort    *)
(* has been counted off, or a pending manual run goes first.               *)
DailyTurn(w) ==
    /\ at[w].pc = "daily"
    /\ LET run == daily[at[w].day] IN
          Goto(w, IF CurrentDay(w) > at[w].day \/ run.processed >= Cardinality(run.members)
                  THEN "completing" ELSE "snapshots")
    /\ UNCHANGED <<now, sequence, queue, daily, manual, faults>>

(* claim_manual_run resumes the running run or starts the oldest pending. *)
ClaimManualRun(w) ==
    /\ at[w].pc = "snapshots"
    /\ IF Active = {}
       THEN /\ at' = [at EXCEPT ![w] = IF @.day = None THEN Idle ELSE [@ EXCEPT !.pc = "claiming"]]
            /\ UNCHANGED manual
       ELSE \E r \in Active :
               /\ \A s \in Active :
                     \/ manual[s].state = manual[r].state /\ r <= s
                     \/ manual[r].state = "running" /\ manual[s].state = "pending"
               /\ manual' = [manual EXCEPT ![r].state = "running"]
               /\ at' = [at EXCEPT ![w].pc = "manual", ![w].run = r]
    /\ UNCHANGED <<now, sequence, queue, daily, faults>>

(* A turn of _run_manual_snapshot: it looks at its limit, not at its state. *)
ManualTurn(w) ==
    /\ at[w].pc = "manual"
    /\ LET run == manual[at[w].run] IN
          Goto(w, IF run.max # None /\ run.processed >= run.max THEN "completing" ELSE "claiming")
    /\ UNCHANGED <<now, sequence, queue, daily, manual, faults>>

-----------------------------------------------------------------------------
Cutoff(w) == IF at[w].run # None THEN manual[at[w].run].cutoff ELSE at[w].cutoff

(* Mutants of InScope: the boundary on the ordinal, or the join with the   *)
(* cohort, is forgotten.                                                   *)
InScopeLate(w, d) == at[w].run # None \/ d \in daily[at[w].day].members
InScopeUnranked(w, d) == queue[d].ordinal <= Cutoff(w)

(* The rows a claim and next_candidate_retry_delay look at: a daily run     *)
(* joins daily_run_candidates, both end at the frozen ordinal.             *)
InScope(w, d) ==
    /\ at[w].run # None \/ d \in daily[at[w].day].members
    /\ queue[d].ordinal <= Cutoff(w)

Held == {d \in Docs : queue[d].state = "held"}

(* _claim_candidate: while nothing is held, the best ranked paper that      *)
(* waits or has lapsed and whose retry time has come.                      *)
Claimable(w) ==
    {d \in Docs : /\ InScope(w, d) /\ Held = {}
                  /\ queue[d].state \in {"queued", "lapsed"}
                  /\ queue[d].retry = None \/ queue[d].retry <= now}

ClaimCandidate(w) ==
    /\ at[w].pc = "claiming"
    /\ \E d \in Claimable(w) :
          /\ \A e \in Claimable(w) : Score[e] <= Score[d]
          /\ queue' = [queue EXCEPT ![d].state = "held", ![d].holder = w]
          /\ at' = [at EXCEPT ![w].pc = "working", ![w].doc = d]
    /\ UNCHANGED <<now, sequence, daily, manual, faults>>

ClaimNothing(w) ==
    /\ at[w].pc = "claiming" /\ Claimable(w) = {}
    /\ Goto(w, "emptied")
    /\ UNCHANGED <<now, sequence, queue, daily, manual, faults>>

(* Mutant of RetryExpected: the boundary on the ordinal is forgotten. *)
RetryExpectedLate(w) ==
    \/ Held # {}
    \/ \E d \in Docs :
          /\ InScopeLate(w, d)
          /\ \/ queue[d].state = "lapsed"
             \/ queue[d].state = "queued" /\ queue[d].retry # None

(* next_candidate_retry_delay is not None: a lease or a retry time is due;  *)
(* a waiting paper without a retry time is NULL to MIN and is not seen.    *)
RetryExpected(w) ==
    \/ Held # {}
    \/ \E d \in Docs :
          /\ InScope(w, d)
          /\ \/ queue[d].state = "lapsed"
             \/ queue[d].state = "queued" /\ queue[d].retry # None

(* The transaction after a claim that found nothing: queue_waiting leads    *)
(* to another turn, queue_empty completes the run.                         *)
AskRetryDelay(w) ==
    /\ at[w].pc = "emptied"
    /\ IF RetryExpected(w) THEN NextTurn(w) ELSE Goto(w, "completing")
    /\ UNCHANGED <<now, sequence, queue, daily, manual, faults>>

-----------------------------------------------------------------------------
(* The claim's fence, in the terms of CandidateCustody: w holds its paper. *)
Holds(w) == LET r == queue[at[w].doc] IN r.state = "held" /\ r.holder = w

(* Mutant of Requeued: claim_owner survives the release. *)
RequeuedOwned(d, retry) == [queue EXCEPT ![d].state = "queued", ![d].retry = retry]

Requeued(d, retry) ==
    [queue EXCEPT ![d].state = "queued", ![d].holder = None, ![d].retry = retry]

(* The pipeline concluded and its outbox is out: finish_candidate. *)
FinishCandidate(w) ==
    /\ at[w].pc = "working"
    /\ IF Holds(w) THEN queue' = Without({at[w].doc}) /\ Goto(w, "counting")
       ELSE UNCHANGED queue /\ Return(w)
    /\ UNCHANGED <<now, sequence, daily, manual, faults>>

(* A provider failed transiently: defer_candidate, then the next turn. *)
DeferCandidate(w) ==
    /\ at[w].pc = "working" /\ now < Horizon
    /\ IF Holds(w) THEN queue' = Requeued(at[w].doc, now + 1) /\ NextTurn(w)
       ELSE UNCHANGED queue /\ Return(w)
    /\ UNCHANGED <<now, sequence, daily, manual, faults>>

(* Anything else was raised: the paper is released if it is still owned;    *)
(* an exhausted budget or day quota ends the run, the rest ends the loop.  *)
FailCandidate(w) ==
    /\ at[w].pc = "working" /\ faults < FaultLimit
    /\ faults' = faults + 1
    /\ queue' = IF Holds(w) THEN Requeued(at[w].doc, None) ELSE queue
    /\ Return(w) \/ at' = [at EXCEPT ![w].pc = "exhausting", ![w].doc = None]
    /\ UNCHANGED <<now, sequence, daily, manual>>

(* record_daily_processed or record_manual_processed *)
RecordProcessed(w) ==
    /\ at[w].pc = "counting"
    /\ IF at[w].run # None
       THEN manual' = [manual EXCEPT ![at[w].run].processed = @ + 1] /\ UNCHANGED daily
       ELSE daily' = [daily EXCEPT ![at[w].day].processed = @ + 1] /\ UNCHANGED manual
    /\ NextTurn(w)
    /\ UNCHANGED <<now, sequence, queue, faults>>

(* finish_daily_run or finish_manual_run: whatever the state of the run. *)
FinishRun(w) ==
    /\ at[w].pc \in {"completing", "exhausting"}
    /\ LET state == IF at[w].pc = "completing" THEN "completed" ELSE "quota_exhausted" IN
          IF at[w].run # None
          THEN manual' = [manual EXCEPT ![at[w].run].state = state] /\ UNCHANGED daily
          ELSE daily' = [daily EXCEPT ![at[w].day].state = state] /\ UNCHANGED manual
    /\ Return(w)
    /\ UNCHANGED <<now, sequence, queue, faults>>

-----------------------------------------------------------------------------
(* A lease runs out: nobody renews it any more, or its renewals are late.  *)
Orphaned(d) ==
    LET w == queue[d].holder IN at[w].pc # "working" \/ at[w].doc # d

LapseOrphaned(d) ==
    /\ queue[d].state = "held" /\ Orphaned(d)
    /\ queue' = [queue EXCEPT ![d].state = "lapsed"]
    /\ UNCHANGED <<now, sequence, daily, manual, at, faults>>

LapseAtWork(d) ==
    /\ queue[d].state = "held" /\ ~Orphaned(d) /\ faults < FaultLimit
    /\ faults' = faults + 1
    /\ queue' = [queue EXCEPT ![d].state = "lapsed"]
    /\ UNCHANGED <<now, sequence, daily, manual, at>>

(* A store call raises: _drain_one ends its snapshot loop, a call outside   *)
(* of it ends the iteration; the row and the counters stay as they are.    *)
StoreUnavailable(w) ==
    /\ at[w].pc \notin {"down", "idle"} /\ faults < FaultLimit
    /\ faults' = faults + 1
    /\ IF at[w].pc \in {"claiming", "emptied", "working", "counting"} THEN Return(w)
       ELSE at' = [at EXCEPT ![w] = Idle]
    /\ UNCHANGED <<now, sequence, queue, daily, manual>>

Crash(w) ==
    /\ at[w].pc # "down" /\ faults < FaultLimit
    /\ faults' = faults + 1
    /\ at' = [at EXCEPT ![w] = [Idle EXCEPT !.pc = "down"]]
    /\ UNCHANGED <<now, sequence, queue, daily, manual>>

(* A replica comes back: recover_expired_candidates. *)
Restart(w) ==
    /\ at[w].pc = "down"
    /\ at' = [at EXCEPT ![w] = Idle]
    /\ queue' = [d \in Docs |-> IF queue[d].state = "lapsed"
                                THEN [queue[d] EXCEPT !.state = "queued", !.holder = None]
                                ELSE queue[d]]
    /\ UNCHANGED <<now, sequence, daily, manual, faults>>

Tick ==
    /\ now < Horizon
    /\ now' = now + 1
    /\ UNCHANGED <<sequence, queue, daily, manual, at, faults>>

-----------------------------------------------------------------------------
Loop(w) ==
    \/ ReadSchedule(w) \/ ExpireManualRuns(w) \/ StartDailyRun(w)
    \/ DailyTurn(w) \/ ClaimManualRun(w) \/ ManualTurn(w)
    \/ ClaimCandidate(w) \/ ClaimNothing(w) \/ AskRetryDelay(w)
    \/ FinishCandidate(w) \/ DeferCandidate(w) \/ FailCandidate(w)
    \/ RecordProcessed(w) \/ FinishRun(w) \/ Restart(w)

Next ==
    \/ \E d \in Docs, changed \in BOOLEAN : Arrive(d, changed)
    \/ \E max \in {None, 1} : RequestManualRun(max)
    \/ \E w \in Workers : Loop(w) \/ StoreUnavailable(w) \/ Crash(w)
    \/ \E d \in Docs : LapseOrphaned(d) \/ LapseAtWork(d)
    \/ Tick

Spec == Init /\ [][Next]_vars

(* The loops of the replicas run, dead ones are restarted, time passes and *)
(* a lease that nobody renews runs out.                                    *)
FairSpec ==
    /\ Spec /\ WF_vars(Tick)
    /\ \A w \in Workers : WF_vars(Loop(w))
    /\ \A d \in Docs : WF_vars(LapseOrphaned(d))
-----------------------------------------------------------------------------
(* Type correctness; a row has a holder exactly while it is processing, a   *)
(* worker has a paper exactly while it works on one.                       *)
TypeOK ==
    /\ now \in Instant /\ sequence \in Ordinal /\ faults \in 0..FaultLimit
    /\ queue \in [Docs -> Row]
    /\ \A d \in Docs : queue[d].holder # None <=> queue[d].state \in {"held", "lapsed"}
    /\ daily \in [Day -> DailyRun \cup {None}]
    /\ manual \in Seq(ManualRun)
    /\ at \in [Workers -> Position]
    /\ \A w \in Workers :
          /\ at[w].day # None /\ at[w].pc \notin {"superseding", "starting"} =>
                daily[at[w].day] # None
          /\ at[w].run # None => at[w].run \in DOMAIN manual
          /\ at[w].doc # None <=> at[w].pc \in {"working", "counting"}

(* A committed cohort is frozen: no replica that starts the same day again, *)
(* however late, changes its members, its cutoff or its boundary.          *)
FrozenCohort ==
    [][\A e \in Day : daily[e] # None =>
          /\ daily'[e] # None
          /\ daily'[e].members = daily[e].members
          /\ daily'[e].cutoff = daily[e].cutoff
          /\ daily'[e].boundary = daily[e].boundary]_vars

(* No paper is counted twice in a run and none is processed that the run    *)
(* did not freeze: what is counted, what is about to be counted and what    *)
(* is left of the cohort never exceed it, although leases lapse, replicas  *)
(* share the run and revisions of finished papers arrive while it goes on.  *)
Counting(e) == {w \in Workers : at[w].pc = "counting" /\ at[w].run = None /\ at[w].day = e}
Left(e) == {d \in daily[e].members : queue[d].state # "absent" /\ queue[d].ordinal <= daily[e].cutoff}
CountedOnce ==
    \A e \in Day : daily[e] # None =>
        daily[e].processed + Cardinality(Counting(e)) + Cardinality(Left(e))
            <= Cardinality(daily[e].members)

(* A daily run works on papers of its own 24 hours only, also when it is    *)
(* started late and newer papers already wait below its cutoff ordinal.    *)
FreshOnly ==
    \A w \in Workers :
        at[w].pc = "working" /\ at[w].run = None /\ Holds(w) =>
            LET boundary == daily[at[w].day].boundary
                arrived == queue[at[w].doc].arrived
            IN  boundary - DayTicks < arrived /\ arrived <= boundary

(* The daily run of each day ends, after crashes, failures and leases lost  *)
(* while its papers were processed; a revision above the cutoff, with the  *)
(* retry time of the one it replaced, does not keep it waiting.  A run, once *)
(* written, stays, so it ends when it is not running again and again.       *)
DailyRunsEnd ==
    \A e \in Day : []<>(daily[e] # None => daily[e].state # "running")

(* A requested manual run is taken up and ends, also when the replica that *)
(* runs it dies or a daily run goes on meanwhile.                          *)
ManualRunsEnd == \A r \in 1..ManualLimit : []<>(r \notin Active)
-----------------------------------------------------------------------------
(* What the documentation says and the code does not guarantee.            *)

(* docs/POSTTRAIN_FOUNDRY.md:227: "Provider errors and minute-window        *)
(* exhaustion leave the current cohort resumable while it is still         *)
(* current": no run completes before its day is over while a paper of its  *)
(* cohort waits.                                                           *)
CompletedRunIsExhausted ==
    [][\A w \in Workers :
          at[w].pc = "completing" /\ at[w].run = None /\ at'[w].pc = "idle"
          /\ CurrentDay(w) = at[w].day /\ daily[at[w].day].state = "running" =>
              \A d \in Left(at[w].day) : queue[d].state # "queued"]_vars
=============================================================================
