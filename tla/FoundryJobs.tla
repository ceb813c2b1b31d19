----------------------------- MODULE FoundryJobs -----------------------------
(***************************************************************************)
(* One paper on its way through FoundryPipeline.process                     *)
(* (processor/foundry/pipeline.py): the state of its job, the provider      *)
(* calls with their events and cached results (ProviderControlPlane.call in *)
(* control.py), the gates of the tasks, the split of its family, and the    *)
(* artifacts (store.py).  The paper is claimed as in FoundryQueue, and a    *)
(* worker that has lost its claim goes on beside its successor.            *)
(*                                                                         *)
(* Each of graph, propose, solve and verify stands for the calls of its     *)
(* stage, which EvidenceGraph, TaskFactory and VerifierCompiler unfold.     *)
(***************************************************************************)
EXTENDS Integers, FiniteSets, FiniteSetsExt

CONSTANTS
    Workers,
    SftTasks, RlTasks,  \* the tasks a design proposes, by their route
    None,
    BenchmarkEvery,     \* every fifth family of a pool goes to the benchmark
    Families,           \* bound: other families that enter a pool, by pool
    FaultLimit          \* bound: crashes, leases lost at work, failures

Tasks == SftTasks \cup RlTasks
Pool == {"sft", "rl"}
PoolOf(t) == IF t \in SftTasks THEN "sft" ELSE "rl"

(* The call keys of a job. *)
Keys == {<<"graph", None>>, <<"propose", None>>}
            \cup ({"solve"} \X Tasks) \cup ({"verify"} \X RlTasks)
Terminal == {"ACCEPTED_SFT", "ACCEPTED_RL", "REJECTED"}
Attempt == Nat \ {0}

ASSUME JobsAssumption ==
    /\ SftTasks \cap RlTasks = {} /\ None \notin Tasks \cup Workers \cup Keys
    /\ IsFiniteSet(Tasks) /\ BenchmarkEvery \in Nat \ {0}
    /\ Families \in [Pool -> Nat] /\ FaultLimit \in Nat

VARIABLES
    state,          \* jobs.state: "none", "working" or a terminal state
    planned, started, closed,   \* the events of calls, by key and attempt
    results,        \* provider_results
    artifacts,      \* the artifacts table: task, status, split
    ordinal,        \* pool_assignments: the ordinal of the family, by pool
    taken,          \* pool_assignments: how many ordinals are taken, by pool
    fate,           \* of a task: "unsolved", or what the gates say of its solutions
    owner, finished, at,
    paid,           \* auxiliary: results that were stored, by key
    faults          \* auxiliary: how often what has failed

job == <<state, planned, started, closed, results, artifacts, paid>>
pools == <<ordinal, taken>>
vars == <<job, pools, fate, owner, finished, at, faults>>

Artifact == Tasks \X {"accepted", "rejected"} \X {"train", "benchmark", "none"}
Point == [pc: {"idle", "open", "plan", "reserve", "generate", "store", "succeed",
               "malformed", "package", "record", "accept", "accept_rl", "finish", "down"},
          key: Keys \cup {None}, attempt: Attempt \cup {0},
          todo: SUBSET Tasks, solved: SUBSET Tasks, records: SUBSET Artifact]
Fault == {"crash", "lapse", "call"}
Idle == [pc |-> "idle", key |-> None, attempt |-> 0,
         todo |-> {}, solved |-> {}, records |-> {}]

Init ==
    /\ state = "none" /\ planned = {} /\ started = {} /\ closed = {}
    /\ results = {} /\ artifacts = {} /\ paid = [k \in Keys |-> 0]
    /\ ordinal = [p \in Pool |-> 0] /\ taken = [p \in Pool |-> 0]
    /\ fate \in [Tasks -> {"unsolved", "unsound", "sound"}]
    /\ owner = None /\ finished = FALSE /\ at = [w \in Workers |-> Idle]
    /\ faults = [f \in Fault |-> 0]

-----------------------------------------------------------------------------
Away == {"idle", "down"}
Go(w, p) == at' = [at EXCEPT ![w] = p]

Fails(f) ==
    /\ faults["crash"] + faults["lapse"] + faults["call"] < FaultLimit
    /\ faults' = [faults EXCEPT ![f] = @ + 1]

Take(w) ==
    /\ at[w].pc = "idle" /\ owner = None /\ ~finished
    /\ owner' = w
    /\ Go(w, [Idle EXCEPT !.pc = "open"])
    /\ UNCHANGED <<job, pools, fate, finished, faults>>

(* The lease runs out under a worker that is dead, or at work. *)
Lapse ==
    /\ owner # None /\ owner' = None
    /\ IF at[owner].pc \in Away THEN UNCHANGED faults ELSE Fails("lapse")
    /\ UNCHANGED <<job, pools, fate, finished, at>>

(* start_job and the transitions up to the first call.  A job in a terminal *)
(* state is not worked on again.                                           *)
StartJob(w) ==
    /\ at[w].pc = "open"
    /\ IF state \in Terminal
       THEN Go(w, [Idle EXCEPT !.pc = "finish"]) /\ UNCHANGED state
       ELSE Go(w, [Idle EXCEPT !.pc = "plan", !.key = <<"graph", None>>]) /\ state' = "working"
    /\ UNCHANGED <<planned, started, closed, results, artifacts, paid, pools, fate,
                   owner, finished, faults>>

(* release_candidate after an exception, if the claim still is the worker's. *)
Abandon(w) ==
    /\ Go(w, Idle) /\ owner' = IF owner = w THEN None ELSE owner

(* The first task of a list. *)
First(ts) == CHOOSE t \in ts : TRUE

Rejected(t) == <<t, "rejected", "none">>

(* What follows an answer: the next stage, or the next task of this one.    *)
(* The gates start with a rejection of every task without a solution.      *)
SolveNext(p) ==
    IF p.todo = {}
    THEN [p EXCEPT !.pc = "package", !.todo = p.solved, !.key = None,
                   !.records = {Rejected(t) : t \in Tasks \ p.solved}]
    ELSE [p EXCEPT !.pc = "plan", !.key = <<"solve", First(p.todo)>>]

Answered(p) ==
    LET t == p.key[2] IN
    CASE p.key[1] = "graph" -> [p EXCEPT !.pc = "plan", !.key = <<"propose", None>>]
      [] p.key[1] = "propose" -> SolveNext([p EXCEPT !.todo = Tasks])
      [] p.key[1] = "solve" ->
            SolveNext([p EXCEPT !.todo = @ \ {t},
                                !.solved = IF fate[t] = "unsolved" THEN @ ELSE @ \cup {t}])
      [] p.key[1] = "verify" -> [p EXCEPT !.pc = "package"]

Numbers(calls) == {c[2] : c \in calls}

(* next_provider_call_attempt *)
NextAttempt == Max({0} \cup Numbers(started)) + 1

(* Mutant of Cached: the results of calls that were marked as succeeded. *)
CachedClosed(k) == k \in results /\ \E c \in closed : c[1] = k

(* cached_provider_result: by key, prompt version and hash of the request. *)
Cached(k) == k \in results

(* control.call up to CALL_PLANNED. *)
PlanCall(w) ==
    /\ at[w].pc = "plan"
    /\ IF Cached(at[w].key)
       THEN Go(w, Answered(at[w])) /\ UNCHANGED <<state, planned>>
       ELSE /\ state' = "working"
            /\ planned' = planned \cup {<<at[w].key, NextAttempt>>}
            /\ Go(w, [at[w] EXCEPT !.pc = "reserve", !.attempt = NextAttempt])
    /\ UNCHANGED <<started, closed, results, artifacts, paid, pools, fate,
                   owner, finished, faults>>

Call(w) == <<at[w].key, at[w].attempt>>

(* quota.reserve, QUOTA_RESERVED and CALL_STARTED. *)
ReserveQuota(w) ==
    /\ at[w].pc = "reserve"
    /\ started' = started \cup {Call(w)} /\ state' = "working"
    /\ Go(w, [at[w] EXCEPT !.pc = "generate"])
    /\ UNCHANGED <<planned, closed, results, artifacts, paid, pools, fate,
                   owner, finished, faults>>

(* QuotaExceededError leaves the call planned. *)
QuotaRefused(w) ==
    /\ at[w].pc = "reserve" /\ Fails("call")
    /\ Abandon(w)
    /\ UNCHANGED <<job, pools, fate, finished>>

(* The provider answers, or its answer is not what was asked for. *)
Generate(w) ==
    /\ at[w].pc = "generate"
    /\ \/ Go(w, [at[w] EXCEPT !.pc = "store"]) /\ UNCHANGED faults
       \/ /\ Fails("call")
          /\ Go(w, [at[w] EXCEPT !.pc = "malformed"])
    /\ UNCHANGED <<job, pools, fate, owner, finished>>

(* record_provider_result and record_trace; the first result of a key stays. *)
RecordResult(w) ==
    /\ at[w].pc = "store"
    /\ results' = results \cup {at[w].key}
    /\ paid' = [paid EXCEPT ![at[w].key] = @ + 1]
    /\ Go(w, [at[w] EXCEPT !.pc = "succeed"])
    /\ UNCHANGED <<state, planned, started, closed, artifacts, pools, fate,
                   owner, finished, faults>>

(* CALL_SUCCEEDED; the quota is reconciled, as in QuotaLedger. *)
CallSucceeded(w) ==
    /\ at[w].pc = "succeed"
    /\ closed' = closed \cup {Call(w)} /\ state' = "working"
    /\ Go(w, Answered(at[w]))
    /\ UNCHANGED <<planned, started, results, artifacts, paid, pools, fate,
                   owner, finished, faults>>

(* CALL_FAILED or CALL_RATE_LIMITED: the paper is released or deferred. *)
CallFailed(w) ==
    /\ at[w].pc \in {"generate", "store"} /\ Fails("call")
    /\ closed' = closed \cup {Call(w)} /\ state' = "working"
    /\ Abandon(w)
    /\ UNCHANGED <<planned, started, results, artifacts, paid, pools, fate,
                   finished>>

(* A ProviderOutputError of any stage ends the job. *)
OutputRejected(w) ==
    /\ at[w].pc = "malformed"
    /\ closed' = closed \cup {Call(w)} /\ state' = "REJECTED"
    /\ Go(w, [Idle EXCEPT !.pc = "finish"])
    /\ UNCHANGED <<planned, started, results, artifacts, paid, pools, fate,
                   owner, finished, faults>>

-----------------------------------------------------------------------------

(* assign_pool_split: an entry stays as it is. *)
OrdinalOf(p) == IF ordinal[p] # 0 THEN ordinal[p] ELSE taken[p] + 1

Split(n) == IF n % BenchmarkEvery = 0 THEN "benchmark" ELSE "train"

AssignPoolSplit(p) ==
    /\ ordinal' = [ordinal EXCEPT ![p] = OrdinalOf(p)]
    /\ taken' = [taken EXCEPT ![p] = IF OrdinalOf(p) > @ THEN OrdinalOf(p) ELSE @]

(* TaskPackager.build: the package of a task, addressed by its content.     *)
Packaged(t, n) == <<t, "accepted", Split(n)>>

(* Grounding, the SFT contract or the acceptance suite of the verifier.      *)
GatesPass(t) == fate[t] = "sound"

(* _validate_and_package, task by task: an RL task needs a verifier first.  *)
PackageTask(w) ==
    LET t == First(at[w].todo)  q == PoolOf(t)
        rest == [at[w] EXCEPT !.todo = @ \ {t}]
    IN
    /\ at[w].pc = "package" /\ at[w].todo # {}
    /\ IF t \in RlTasks /\ at[w].key # <<"verify", t>>
       THEN /\ Go(w, [at[w] EXCEPT !.pc = "plan", !.key = <<"verify", t>>])
            /\ UNCHANGED pools
       ELSE IF GatesPass(t)
       THEN /\ AssignPoolSplit(q)
            /\ Go(w, [rest EXCEPT !.records = @ \cup {Packaged(t, OrdinalOf(q))}])
       ELSE /\ Go(w, [rest EXCEPT !.records = @ \cup {Rejected(t)}])
            /\ UNCHANGED pools
    /\ UNCHANGED <<job, fate, owner, finished, faults>>

(* VERIFIERS_COMPILED and ADVERSARIAL_VALIDATED. *)
EndPackaging(w) ==
    /\ at[w].pc = "package" /\ at[w].todo = {}
    /\ state' = "working"
    /\ Go(w, [at[w] EXCEPT !.pc = "record"])
    /\ UNCHANGED <<planned, started, closed, results, artifacts, paid, pools, fate,
                   owner, finished, faults>>

(* The loop over record_artifact; the ids of accepted records are stable. *)
Unrecorded(w) == at[w].records \ artifacts

RecordArtifact(w) ==
    /\ at[w].pc = "record"
    /\ \/ \E r \in Unrecorded(w) : artifacts' = artifacts \cup {r} /\ UNCHANGED at
       \/ Unrecorded(w) = {} /\ Go(w, [at[w] EXCEPT !.pc = "accept"]) /\ UNCHANGED artifacts
    /\ UNCHANGED <<state, planned, started, closed, results, paid, pools, fate,
                   owner, finished, faults>>

Accepted(S, ts) == \E r \in S : r[1] \in ts /\ r[2] = "accepted"

(* Mutant of Passed: the tasks that were solved. *)
PassedSolved(w) == at[w].solved

(* The tasks with an accepted record. *)
Passed(w) == {t \in Tasks : Accepted(at[w].records, {t})}

(* The last transitions of process: ACCEPTED_SFT and ACCEPTED_RL are two. *)
AcceptJob(w) ==
    LET sft == Passed(w) \cap SftTasks # {}  rl == Passed(w) \cap RlTasks # {} IN
    /\ at[w].pc \in {"accept", "accept_rl"}
    /\ IF at[w].pc = "accept" /\ sft /\ rl
       THEN state' = "ACCEPTED_SFT" /\ Go(w, [at[w] EXCEPT !.pc = "accept_rl"])
       ELSE /\ state' = IF rl THEN "ACCEPTED_RL" ELSE IF sft THEN "ACCEPTED_SFT" ELSE "REJECTED"
            /\ Go(w, [Idle EXCEPT !.pc = "finish"])
    /\ UNCHANGED <<planned, started, closed, results, artifacts, paid, pools, fate,
                   owner, finished, faults>>

(* The outbox and finish_candidate, if the claim still is the worker's. *)
FinishPaper(w) ==
    /\ at[w].pc = "finish"
    /\ finished' = (finished \/ owner = w)
    /\ Abandon(w)
    /\ UNCHANGED <<job, pools, fate, faults>>

-----------------------------------------------------------------------------
(* Another family takes an ordinal of the pool. *)
OtherFamily(p) ==
    /\ taken[p] < Families[p]
    /\ taken' = [taken EXCEPT ![p] = @ + 1]
    /\ UNCHANGED <<job, ordinal, fate, owner, finished, at, faults>>

Crash(w) ==
    /\ at[w].pc # "down" /\ Fails("crash")
    /\ Go(w, [Idle EXCEPT !.pc = "down"])
    /\ UNCHANGED <<job, pools, fate, owner, finished>>

(* interrupted_provider_calls: only of papers that wait in the queue. *)
Interrupted == IF owner = None /\ ~finished /\ state \notin Terminal
               THEN planned \ closed ELSE {}

(* _recover_interrupted_calls of a starting worker. *)
Restart(w) ==
    /\ at[w].pc = "down" /\ Go(w, Idle)
    /\ closed' = closed \cup Interrupted
    /\ state' = IF Interrupted # {} THEN "working" ELSE state
    /\ UNCHANGED <<planned, started, results, artifacts, paid, pools, fate,
                   owner, finished, faults>>

Next ==
    \/ Lapse
    \/ \E p \in Pool : OtherFamily(p)
    \/ \E w \in Workers :
          \/ Take(w) \/ StartJob(w) \/ PlanCall(w) \/ ReserveQuota(w) \/ QuotaRefused(w)
          \/ Generate(w) \/ RecordResult(w) \/ CallSucceeded(w) \/ CallFailed(w)
          \/ OutputRejected(w) \/ PackageTask(w) \/ EndPackaging(w) \/ RecordArtifact(w)
          \/ AcceptJob(w) \/ FinishPaper(w) \/ Crash(w) \/ Restart(w)

Spec == Init /\ [][Next]_vars
-----------------------------------------------------------------------------
(* Type correctness; only calls that were planned are started and closed. *)
TypeOK ==
    /\ state \in {"none", "working"} \cup Terminal
    /\ closed \cup started \subseteq planned /\ planned \subseteq Keys \X Attempt
    /\ results \subseteq Keys /\ artifacts \subseteq Artifact /\ paid \in [Keys -> Nat]
    /\ ordinal \in [Pool -> Nat] /\ taken \in [Pool -> Nat]
    /\ \A p \in Pool : ordinal[p] <= taken[p]
    /\ owner \in Workers \cup {None} /\ finished \in BOOLEAN
    /\ at \in [Workers -> Point] /\ faults \in [Fault -> 0..FaultLimit]

(* pipeline.py:267: completed calls are replayed from the cache and never    *)
(* billed twice.  While no lease is lost at work a result is                 *)
(* stored once, whatever crashes, refusals and failures interrupt it; and   *)
(* without a crash a finished job leaves no call, and no attempt that was   *)
(* planned, without its end.                                               *)
PaidOnce ==
    faults["lapse"] = 0 =>
        /\ \A k \in Keys : paid[k] <= 1
        /\ faults["crash"] = 0 /\ finished =>
            started \subseteq closed /\ Numbers(planned) \subseteq Numbers(closed)

(* A job ends as what its artifacts are: what it accepts was recorded, a     *)
(* rejected one has nothing accepted, and, but for a crash between the last *)
(* two transitions, an accepted environment is not reported as a trajectory. *)
OutcomeIsBacked ==
    faults["lapse"] = 0 =>
        /\ state = "ACCEPTED_SFT" => Accepted(artifacts, SftTasks)
        /\ state = "ACCEPTED_RL" => Accepted(artifacts, RlTasks)
        /\ state = "REJECTED" => ~Accepted(artifacts, Tasks)
        /\ faults["crash"] = 0 /\ finished /\ state = "ACCEPTED_SFT" => ~Accepted(artifacts, RlTasks)

(* A family is in one split of a pool, whatever passes over it are repeated  *)
(* or run side by side while other families are entered.                   *)
OneSplit ==
    \A r, s \in artifacts :
        r[2] = "accepted" /\ s[2] = "accepted" /\ PoolOf(r[1]) = PoolOf(s[1]) => r[3] = s[3]

(* What a paper costs, and what it is said to have come to.                  *)
JobPaidOnce == TypeOK /\ PaidOnce
JobIsBacked == OutcomeIsBacked /\ OneSplit
=============================================================================
