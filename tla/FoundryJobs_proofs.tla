------------------------- MODULE FoundryJobs_proofs -------------------------
(***************************************************************************)
(* Theorems about FoundryJobs, for every set of workers and of tasks, every  *)
(* verdict of the gates, every number of other families and of faults.     *)
(***************************************************************************)
EXTENDS FoundryJobs, WellFoundedInduction, TLAPS

Graph == <<"graph", None>>
Propose == <<"propose", None>>
Calling == {"reserve", "generate", "store", "succeed", "malformed"}
Begun == Calling \ {"reserve"}
Closing == {"record", "accept", "accept_rl"}

(* The calls without which a job, whose tasks fare as in f, is not accepted. *)
Required(f) ==
    {Graph, Propose} \cup {<<"solve", t>> : t \in Tasks}
        \cup {<<"verify", t>> : t \in {u \in RlTasks : f[u] # "unsolved"}}

(* What has its result when a task is being solved, and when one is packaged: *)
(* the tasks that are no longer to do have been through all their calls.    *)
Solving(p, res, f) ==
    /\ {Graph, Propose} \subseteq res
    /\ \A t \in Tasks \ p.todo : <<"solve", t>> \in res
    /\ p.solved = {t \in Tasks \ p.todo : f[t] # "unsolved"}

Packing(p, res, f) ==
    /\ {Graph, Propose} \subseteq res
    /\ \A t \in Tasks : <<"solve", t>> \in res
    /\ \A t \in p.todo : f[t] # "unsolved"
    /\ \A t \in RlTasks \ p.todo : f[t] # "unsolved" => <<"verify", t>> \in res
    /\ \A r \in p.records : r[2] = "accepted" => f[r[1]] = "sound"
    /\ \A t \in Tasks \ p.todo : f[t] = "sound" => Accepted(p.records, {t})

(* The key a worker is at follows from the results it has behind it. *)
Stage(p, res, f) ==
    \/ p.key = Graph /\ p.solved = {}
    \/ p.key = Propose /\ p.solved = {} /\ Graph \in res
    \/ \E t \in p.todo : p.key = <<"solve", t>> /\ Solving(p, res, f)
    \/ \E t \in p.todo \cap RlTasks : p.key = <<"verify", t>> /\ Packing(p, res, f)

Placed(p, pl, res, art, f) ==
    /\ p.pc \in {"plan"} \cup Calling => Stage(p, res, f)
    /\ p.pc \in Calling => <<p.key, p.attempt>> \in pl
    /\ p.pc = "succeed" => p.key \in res
    /\ p.pc = "package" => Packing(p, res, f) /\ p.key \in res \cup {None}
    /\ p.pc \in Closing => Packing(p, res, f) /\ p.todo = {}
    /\ p.pc \in {"accept", "accept_rl"} => p.records \subseteq art
    /\ p.pc = "accept_rl" => Accepted(p.records, RlTasks)

WorkPlaced == \A w \in Workers : Placed(at[w], planned, results, artifacts, fate)

(* The attempts that started have a last one. *)
Bounded == \E b \in Nat : \A c \in started : c[2] <= b

Typed == TypeOK /\ Bounded /\ WorkPlaced

-----------------------------------------------------------------------------
(* Points and keys. *)

LEMMA KeyIs ==
    ASSUME NEW k \in Keys
    PROVE  \/ k = Graph \/ k = Propose
           \/ \E t \in Tasks : k = <<"solve", t>>
           \/ \E t \in RlTasks : k = <<"verify", t>>
  BY DEF Keys, Graph, Propose

LEMMA KeyOfStage ==
    ASSUME NEW p \in Point, NEW res, NEW f, Stage(p, res, f)
    PROVE  p.key \in Keys /\ p.key \in Required(f)
  <1>1. CASE p.key = Graph
    BY <1>1 DEF Required, Keys, Graph
  <1>2. CASE p.key = Propose
    BY <1>2 DEF Required, Keys, Propose
  <1>3. ASSUME NEW t \in p.todo, p.key = <<"solve", t>> PROVE p.key \in Keys /\ p.key \in Required(f)
    BY <1>3 DEF Required, Keys, Point
  <1>4. ASSUME NEW t \in p.todo \cap RlTasks, p.key = <<"verify", t>>, Packing(p, res, f)
        PROVE  p.key \in Keys /\ p.key \in Required(f)
    BY <1>4 DEF Required, Keys, Packing
  <1> QED  BY <1>1, <1>2, <1>3, <1>4 DEF Stage

LEMMA NoneIsNoKey == None \notin Keys
  BY JobsAssumption

LEMMA FirstIsOne == ASSUME NEW ts, ts # {} PROVE First(ts) \in ts
  BY DEF First

LEMMA RejectedType == ASSUME NEW t \in Tasks PROVE Rejected(t) \in Artifact
  BY DEF Rejected, Artifact

LEMMA SolveNextType ==
    ASSUME NEW p \in Point
    PROVE  SolveNext(p) \in Point
  <1>1. CASE p.todo = {}
    <2>1. {Rejected(t) : t \in Tasks \ p.solved} \in SUBSET Artifact
      BY RejectedType
    <2> QED  BY <1>1, <2>1 DEF SolveNext, Point
  <1>2. CASE p.todo # {}
    <2>1. <<"solve", First(p.todo)>> \in Keys
      BY <1>2, FirstIsOne DEF Point, Keys
    <2> QED  BY <1>2, <2>1 DEF SolveNext, Point
  <1> QED  BY <1>1, <1>2

(* What follows an answer, by the kind of the call. *)
LEMMA AnsweredIs ==
    ASSUME NEW p
    PROVE  /\ p.key = Graph => Answered(p) = [p EXCEPT !.pc = "plan", !.key = Propose]
           /\ p.key = Propose => Answered(p) = SolveNext([p EXCEPT !.todo = Tasks])
           /\ \A t : p.key = <<"solve", t>> =>
                Answered(p) = SolveNext([p EXCEPT !.todo = @ \ {t},
                                !.solved = IF fate[t] = "unsolved" THEN @ ELSE @ \cup {t}])
           /\ \A t : p.key = <<"verify", t>> => Answered(p) = [p EXCEPT !.pc = "package"]
  <1>1. p.key = Graph => p.key[1] = "graph"
    BY DEF Graph
  <1>2. p.key = Propose => p.key[1] = "propose"
    BY DEF Propose
  <1>3. \A t : p.key = <<"solve", t>> => p.key[1] = "solve" /\ p.key[2] = t
    OBVIOUS
  <1>4. \A t : p.key = <<"verify", t>> => p.key[1] = "verify" /\ p.key[2] = t
    OBVIOUS
  <1>5. p.key[1] = "graph" => Answered(p) = [p EXCEPT !.pc = "plan", !.key = Propose]
    BY DEF Answered, Propose
  <1>6. p.key[1] = "propose" => Answered(p) = SolveNext([p EXCEPT !.todo = Tasks])
    BY DEF Answered
  <1>7. p.key[1] = "solve" =>
          Answered(p) = SolveNext([p EXCEPT !.todo = @ \ {p.key[2]},
                !.solved = IF fate[p.key[2]] = "unsolved" THEN @ ELSE @ \cup {p.key[2]}])
    BY DEF Answered
  <1>8. p.key[1] = "verify" => Answered(p) = [p EXCEPT !.pc = "package"]
    BY DEF Answered
  <1> QED  BY <1>1, <1>2, <1>3, <1>4, <1>5, <1>6, <1>7, <1>8

LEMMA AnsweredType ==
    ASSUME NEW p \in Point, p.key \in Keys
    PROVE  Answered(p) \in Point
  <1>1. CASE p.key = Graph
    <2>1. Propose \in Keys
      BY DEF Keys, Propose
    <2>2. [p EXCEPT !.pc = "plan", !.key = Propose] \in Point
      BY <2>1 DEF Point
    <2> QED  BY <1>1, <2>2, AnsweredIs
  <1>2. CASE p.key = Propose
    <2>1. [p EXCEPT !.todo = Tasks] \in Point
      BY DEF Point
    <2> QED  BY <1>2, <2>1, AnsweredIs, SolveNextType
  <1>3. ASSUME NEW t \in Tasks, p.key = <<"solve", t>> PROVE Answered(p) \in Point
    <2> DEFINE q == [p EXCEPT !.todo = @ \ {t},
                              !.solved = IF fate[t] = "unsolved" THEN @ ELSE @ \cup {t}]
    <2>1. q \in Point
      BY DEF Point
    <2>2. Answered(p) = SolveNext(q)
      BY <1>3, AnsweredIs
    <2> HIDE DEF q
    <2> QED  BY <2>1, <2>2, SolveNextType
  <1>4. ASSUME NEW t \in RlTasks, p.key = <<"verify", t>> PROVE Answered(p) \in Point
    <2>1. [p EXCEPT !.pc = "package"] \in Point
      BY DEF Point
    <2> QED  BY <1>4, <2>1, AnsweredIs
  <1> QED  BY <1>1, <1>2, <1>3, <1>4, KeyIs

-----------------------------------------------------------------------------
(* Where a worker is. *)

(* What a point rests on only grows. *)
LEMMA StaysPlaced ==
    ASSUME NEW p, NEW f, NEW pl, NEW pl2, NEW res, NEW res2, NEW art, NEW art2,
           pl \subseteq pl2, res \subseteq res2, art \subseteq art2,
           Placed(p, pl, res, art, f)
    PROVE  Placed(p, pl2, res2, art2, f)
  <1>1. Solving(p, res, f) => Solving(p, res2, f)
    BY DEF Solving
  <1>2. Packing(p, res, f) => Packing(p, res2, f)
    BY DEF Packing
  <1>3. Stage(p, res, f) => Stage(p, res2, f)
    BY <1>1, <1>2 DEF Stage
  <1> QED  BY <1>2, <1>3 DEF Placed

(* The stages are begun in order, and packaging with every solution. *)
LEMMA SolveNextPlaced ==
    ASSUME NEW p \in Point, NEW pl, NEW res, NEW art, Solving(p, res, fate)
    PROVE  Placed(SolveNext(p), pl, res, art, fate) /\ SolveNext(p).pc \in {"plan", "package"}
  <1>1. CASE p.todo = {}
    <2> DEFINE q == [p EXCEPT !.pc = "package", !.todo = p.solved, !.key = None,
                              !.records = {Rejected(t) : t \in Tasks \ p.solved}]
    <2>1. SolveNext(p) = q
      BY <1>1 DEF SolveNext
    <2>2. q.pc = "package" /\ q.todo = p.solved /\ q.key = None
          /\ q.records = {Rejected(t) : t \in Tasks \ p.solved}
      BY DEF Point
    <2> HIDE DEF q
    <2>3. \A r \in q.records : r[2] = "rejected"
      BY <2>2 DEF Rejected
    <2>4. p.solved = {t \in Tasks : fate[t] # "unsolved"}
      BY <1>1 DEF Solving
    <2>5. Packing(q, res, fate)
      <3>1. {Graph, Propose} \subseteq res /\ \A t \in Tasks : <<"solve", t>> \in res
        BY <1>1 DEF Solving
      <3>2. \A t \in q.todo : fate[t] # "unsolved"
        BY <2>2, <2>4
      <3>3. \A t \in Tasks \ q.todo : fate[t] = "unsolved"
        BY <2>2, <2>4
      <3>4. RlTasks \subseteq Tasks
        BY DEF Tasks
      <3> QED  BY <2>3, <3>1, <3>2, <3>3, <3>4 DEF Packing
    <2> QED  BY <2>1, <2>2, <2>5 DEF Placed, Calling, Closing
  <1>2. CASE p.todo # {}
    <2> DEFINE q == [p EXCEPT !.pc = "plan", !.key = <<"solve", First(p.todo)>>]
    <2>1. SolveNext(p) = q
      BY <1>2 DEF SolveNext
    <2>2. q.pc = "plan" /\ q.key = <<"solve", First(p.todo)>> /\ q.todo = p.todo
          /\ q.solved = p.solved
      BY DEF Point
    <2> HIDE DEF q
    <2>3. Solving(q, res, fate)
      BY <2>2 DEF Solving
    <2>4. First(p.todo) \in q.todo
      BY <1>2, <2>2, FirstIsOne
    <2>5. Stage(q, res, fate)
      BY <2>2, <2>3, <2>4 DEF Stage
    <2> QED  BY <2>1, <2>2, <2>5 DEF Placed, Calling, Closing
  <1> QED  BY <1>1, <1>2

LEMMA AnsweredPlaced ==
    ASSUME NEW p \in Point, NEW pl, NEW res, NEW art, Stage(p, res, fate), p.key \in res
    PROVE  Placed(Answered(p), pl, res, art, fate) /\ Answered(p).pc \in {"plan", "package"}
  <1>1. CASE p.key = Graph /\ p.solved = {}
    <2> DEFINE q == [p EXCEPT !.pc = "plan", !.key = Propose]
    <2>1. q.pc = "plan" /\ q.key = Propose /\ q.solved = {}
      BY <1>1 DEF Point
    <2>2. Answered(p) = q
      BY <1>1, AnsweredIs
    <2> HIDE DEF q
    <2>3. Stage(q, res, fate)
      BY <1>1, <2>1 DEF Stage
    <2> QED  BY <2>1, <2>2, <2>3 DEF Placed, Calling, Closing
  <1>2. CASE p.key = Propose /\ p.solved = {} /\ Graph \in res
    <2> DEFINE q == [p EXCEPT !.todo = Tasks]
    <2>1. q \in Point /\ q.todo = Tasks /\ q.solved = {}
      BY <1>2 DEF Point
    <2>2. Answered(p) = SolveNext(q)
      BY <1>2, AnsweredIs
    <2> HIDE DEF q
    <2>3. Solving(q, res, fate)
      BY <1>2, <2>1 DEF Solving
    <2> QED  BY <2>1, <2>2, <2>3, SolveNextPlaced
  <1>3. ASSUME NEW t \in p.todo, p.key = <<"solve", t>>, Solving(p, res, fate)
        PROVE  Placed(Answered(p), pl, res, art, fate) /\ Answered(p).pc \in {"plan", "package"}
    <2> DEFINE q == [p EXCEPT !.todo = @ \ {t},
                              !.solved = IF fate[t] = "unsolved" THEN @ ELSE @ \cup {t}]
    <2>1. /\ q \in Point /\ q.todo = p.todo \ {t}
          /\ q.solved = IF fate[t] = "unsolved" THEN p.solved ELSE p.solved \cup {t}
      BY DEF Point
    <2>2. Answered(p) = SolveNext(q)
      BY <1>3, AnsweredIs
    <2> HIDE DEF q
    <2>3. t \in Tasks /\ Tasks \ q.todo = (Tasks \ p.todo) \cup {t}
      BY <2>1 DEF Point
    <2>4. Solving(q, res, fate)
      BY <1>3, <2>1, <2>3 DEF Solving
    <2> QED  BY <2>1, <2>2, <2>4, SolveNextPlaced
  <1>4. ASSUME NEW t \in p.todo \cap RlTasks, p.key = <<"verify", t>>, Packing(p, res, fate)
        PROVE  Placed(Answered(p), pl, res, art, fate) /\ Answered(p).pc \in {"plan", "package"}
    <2> DEFINE q == [p EXCEPT !.pc = "package"]
    <2>1. q.pc = "package" /\ q.key = p.key /\ q.todo = p.todo /\ q.records = p.records
      BY DEF Point
    <2>2. Answered(p) = q
      BY <1>4, AnsweredIs
    <2> HIDE DEF q
    <2>3. Packing(q, res, fate)
      BY <1>4, <2>1 DEF Packing
    <2> QED  BY <2>1, <2>2, <2>3 DEF Placed, Calling, Closing
  <1> QED  BY <1>1, <1>2, <1>3, <1>4 DEF Stage

-----------------------------------------------------------------------------
(* Types. *)

(* Of numbers with a bound one is the largest. *)
LEMMA MaxExists ==
    ASSUME NEW S, S \subseteq Nat, S # {}, NEW b \in Nat, \A x \in S : x <= b
    PROVE  Max(S) \in Nat
  <1> DEFINE U == {n \in Nat : \A x \in S : x <= n}
  <1>1. U \subseteq Nat /\ U # {}
    OBVIOUS
  <1>2. PICK m \in U : \A k \in U : ~(<<k, m>> \in OpToRel(<, Nat))
    BY <1>1, NatLessThanWellFounded, WFMin
  <1>3. m \in Nat /\ (\A x \in S : x <= m) /\ \A k \in Nat : (\A x \in S : x <= k) => ~(k < m)
    BY <1>2 DEF OpToRel
  <1>4. m \in S
    <2> SUFFICES ASSUME m \notin S PROVE FALSE
      OBVIOUS
    <2>1. PICK x \in S : TRUE
      OBVIOUS
    <2>2. \A y \in S : y \in Nat /\ y <= m /\ y # m
      BY <1>3
    <2>3. m - 1 \in Nat
      BY <1>3, <2>1, <2>2
    <2>4. \A y \in S : y <= m - 1
      BY <1>3, <2>2
    <2> QED  BY <1>3, <2>3, <2>4
  <1>5. \A x \in S : m >= x
    BY <1>3
  <1> QED  BY <1>4, <1>5 DEF Max

LEMMA AttemptType ==
    ASSUME TypeOK, Bounded
    PROVE  NextAttempt \in Attempt
  <1> DEFINE S == {0} \cup Numbers(started)
  <1>1. \A c \in started : c[2] \in Nat
    BY DEF TypeOK, Attempt
  <1>2. S \subseteq Nat /\ S # {}
    BY <1>1 DEF Numbers
  <1>3. PICK b \in Nat : \A c \in started : c[2] <= b
    BY DEF Bounded
  <1>4. \A x \in S : x <= b
    BY <1>1, <1>3 DEF Numbers
  <1> HIDE DEF S
  <1>5. Max(S) \in Nat
    BY <1>2, <1>4, MaxExists
  <1>6. NextAttempt = Max(S) + 1
    BY DEF NextAttempt, S
  <1> QED  BY <1>5, <1>6 DEF Attempt

LEMMA IdleType == \A q \in {"idle", "open", "finish", "down"} : [Idle EXCEPT !.pc = q] \in Point
  BY DEF Idle, Point

LEMMA FailsType ==
    ASSUME TypeOK, NEW f \in Fault, Fails(f)
    PROVE  faults' \in [Fault -> 0..FaultLimit] /\ faults[f] < faults'[f]
           /\ \A g \in Fault : g # f => faults'[g] = faults[g]
  <1>1. \A g \in Fault : faults[g] \in Nat /\ faults[g] >= 0
    BY DEF TypeOK
  <1>2. faults["crash"] \in Nat /\ faults["lapse"] \in Nat /\ faults["call"] \in Nat
    BY <1>1 DEF Fault
  <1>3. faults[f] + 1 \in 0..FaultLimit
    BY <1>2, JobsAssumption DEF Fails, Fault
  <1> QED  BY <1>1, <1>3 DEF Fails, TypeOK

LEMMA AbandonType ==
    ASSUME TypeOK, NEW w \in Workers, Abandon(w)
    PROVE  /\ at' \in [Workers -> Point] /\ owner' \in Workers \cup {None}
           /\ at'[w] = Idle /\ \A v \in Workers : v # w => at'[v] = at[v]
  <1>1. Idle \in Point
    BY DEF Idle, Point
  <1> QED  BY <1>1 DEF TypeOK, Abandon, Go

(* A step of one worker, to a point. *)
LEMMA GoType ==
    ASSUME TypeOK, NEW w \in Workers, NEW p \in Point, Go(w, p)
    PROVE  at' \in [Workers -> Point] /\ at'[w] = p /\ \A v \in Workers : v # w => at'[v] = at[v]
  BY DEF TypeOK, Go

LEMMA TypeInit == Init => Typed
  <1> SUFFICES ASSUME Init PROVE Typed
    OBVIOUS
  <1>1. Idle \in Point
    BY DEF Idle, Point
  <1>2. TypeOK
    <2>1. at \in [Workers -> Point] /\ paid \in [Keys -> Nat]
      BY <1>1 DEF Init
    <2>2. ordinal \in [Pool -> Nat] /\ taken \in [Pool -> Nat]
          /\ \A p \in Pool : ordinal[p] <= taken[p]
      BY DEF Init
    <2>3. faults \in [Fault -> 0..FaultLimit]
      BY JobsAssumption DEF Init
    <2> QED  BY <2>1, <2>2, <2>3 DEF Init, TypeOK
  <1>3. Bounded
    BY DEF Init, Bounded
  <1>4. WorkPlaced
    BY DEF Init, WorkPlaced, Idle, Placed, Calling, Closing
  <1> QED  BY <1>2, <1>3, <1>4 DEF Typed

(* The key and the call of a worker that is at one. *)
LEMMA WorkType ==
    ASSUME Typed, NEW w \in Workers
    PROVE  /\ at[w] \in Point
           /\ at[w].pc \in {"plan"} \cup Calling =>
                at[w].key \in Keys /\ at[w].key \in Required(fate) /\ Stage(at[w], results, fate)
           /\ at[w].pc \in Calling => Call(w) \in planned
  <1>1. at[w] \in Point /\ Placed(at[w], planned, results, artifacts, fate)
    BY DEF Typed, TypeOK, WorkPlaced
  <1> QED  BY <1>1, KeyOfStage DEF Placed, Call

-----------------------------------------------------------------------------
(* Every step keeps the types, and where the workers are. *)

Idling == {"idle", "open", "finish", "down"}

LEMMA IdlingPlaced ==
    ASSUME NEW p, p.pc \in Idling, NEW pl, NEW res, NEW art, NEW f
    PROVE  Placed(p, pl, res, art, f)
  BY DEF Placed, Idling, Calling, Closing

LEMMA PlacedStep ==
    ASSUME WorkPlaced, planned \subseteq planned', results \subseteq results',
           artifacts \subseteq artifacts', fate' = fate,
           \A v \in Workers : at'[v] = at[v] \/ Placed(at'[v], planned', results', artifacts', fate)
    PROVE  WorkPlaced'
  <1> SUFFICES ASSUME NEW v \in Workers
               PROVE  Placed(at'[v], planned', results', artifacts', fate)
    BY DEF WorkPlaced
  <1>1. Placed(at[v], planned, results, artifacts, fate)
    BY DEF WorkPlaced
  <1>2. Placed(at[v], planned', results', artifacts', fate)
    BY <1>1, StaysPlaced
  <1> QED  BY <1>2

(* A step that leaves the job as it is and a worker nowhere in it. *)
LEMMA LeaveStep ==
    ASSUME Typed, NEW w \in Workers, NEW q \in Idling,
           at' = [at EXCEPT ![w] = [Idle EXCEPT !.pc = q]],
           planned' = planned, results' = results, artifacts' = artifacts, fate' = fate
    PROVE  at' \in [Workers -> Point] /\ WorkPlaced'
  <1>1. [Idle EXCEPT !.pc = q] \in Point /\ [Idle EXCEPT !.pc = q].pc = q
    BY IdleType DEF Idling, Idle
  <1>2. at' \in [Workers -> Point] /\ at'[w].pc = q /\ \A v \in Workers : v # w => at'[v] = at[v]
    BY <1>1 DEF Typed, TypeOK
  <1>3. Placed(at'[w], planned', results', artifacts', fate)
    BY <1>2, IdlingPlaced
  <1> QED  BY <1>2, <1>3, PlacedStep DEF Typed

LEMMA TakeKeeps == ASSUME Typed, NEW w \in Workers, Take(w) PROVE Typed'
  <1>1. at' \in [Workers -> Point] /\ WorkPlaced'
    BY LeaveStep DEF Take, Go, job, Idling
  <1> QED  BY <1>1 DEF Typed, TypeOK, Bounded, Take, job, pools

LEMMA LapseKeeps == ASSUME Typed, Lapse PROVE Typed'
  <1>1. faults' \in [Fault -> 0..FaultLimit]
    BY FailsType DEF Lapse, Typed, TypeOK, Fault
  <1>2. WorkPlaced'
    BY PlacedStep DEF Lapse, Typed, job
  <1> QED  BY <1>1, <1>2 DEF Typed, TypeOK, Bounded, Lapse, job, pools

LEMMA StartJobKeeps == ASSUME Typed, NEW w \in Workers, StartJob(w) PROVE Typed'
  <1>1. at' \in [Workers -> Point] /\ WorkPlaced' /\ state' \in {"none", "working"} \cup Terminal
    <2>1. CASE state \in Terminal
      BY <2>1, LeaveStep DEF StartJob, Go, Idling
    <2>2. CASE state \notin Terminal
      <3> DEFINE q == [Idle EXCEPT !.pc = "plan", !.key = <<"graph", None>>]
      <3>1. q \in Point /\ q.pc = "plan" /\ q.key = Graph /\ q.solved = {}
        <4>1. <<"graph", None>> \in Keys /\ <<"graph", None>> = Graph
          BY DEF Keys, Graph
        <4> QED  BY <4>1 DEF Idle, Point
      <3>2. Go(w, q) /\ state' = "working"
        BY <2>2 DEF StartJob
      <3> HIDE DEF q
      <3>3. Placed(q, planned', results', artifacts', fate)
        BY <3>1 DEF Placed, Stage, Calling, Closing
      <3>4. at' \in [Workers -> Point] /\ at'[w] = q /\ \A v \in Workers : v # w => at'[v] = at[v]
        BY <3>1, <3>2, GoType DEF Typed
      <3> QED  BY <3>2, <3>3, <3>4, PlacedStep DEF StartJob, Typed
    <2> QED  BY <2>1, <2>2
  <1> QED  BY <1>1 DEF Typed, TypeOK, Bounded, StartJob, pools

LEMMA PlanCallKeeps == ASSUME Typed, NEW w \in Workers, PlanCall(w) PROVE Typed'
  <1>1. at[w] \in Point /\ at[w].pc = "plan" /\ at[w].key \in Keys /\ Stage(at[w], results, fate)
    BY WorkType DEF PlanCall
  <1>2. NextAttempt \in Attempt
    BY AttemptType DEF Typed
  <1>3. CASE at[w].key \in results
    <2>1. Go(w, Answered(at[w])) /\ planned' = planned /\ state' = state
      BY <1>3 DEF PlanCall, Cached
    <2>2. Answered(at[w]) \in Point
      BY <1>1, AnsweredType
    <2>3. Placed(Answered(at[w]), planned', results', artifacts', fate)
      BY <1>1, <1>3, AnsweredPlaced DEF PlanCall
    <2>4. /\ at' \in [Workers -> Point] /\ at'[w] = Answered(at[w])
          /\ \A v \in Workers : v # w => at'[v] = at[v]
      BY <2>1, <2>2, GoType DEF Typed
    <2>5. WorkPlaced'
      BY <2>1, <2>3, <2>4, PlacedStep DEF PlanCall, Typed
    <2> QED  BY <2>1, <2>4, <2>5 DEF Typed, TypeOK, Bounded, PlanCall, pools
  <1>4. CASE at[w].key \notin results
    <2> DEFINE q == [at[w] EXCEPT !.pc = "reserve", !.attempt = NextAttempt]
    <2>1. /\ Go(w, q) /\ planned' = planned \cup {<<at[w].key, NextAttempt>>}
          /\ state' = "working"
      BY <1>4 DEF PlanCall, Cached
    <2>2. /\ q \in Point /\ q.pc = "reserve" /\ q.key = at[w].key /\ q.attempt = NextAttempt
          /\ q.todo = at[w].todo /\ q.solved = at[w].solved /\ q.records = at[w].records
      BY <1>1, <1>2 DEF Point
    <2> HIDE DEF q
    <2>3. Stage(q, results, fate)
      BY <1>1, <2>2 DEF Stage, Solving, Packing
    <2>4. Placed(q, planned', results', artifacts', fate)
      BY <2>1, <2>2, <2>3 DEF Placed, Calling, Closing, PlanCall
    <2>5. at' \in [Workers -> Point] /\ at'[w] = q /\ \A v \in Workers : v # w => at'[v] = at[v]
      BY <2>1, <2>2, GoType DEF Typed
    <2>6. WorkPlaced'
      BY <2>1, <2>4, <2>5, PlacedStep DEF PlanCall, Typed
    <2>7. closed' \cup started' \subseteq planned' /\ planned' \subseteq Keys \X Attempt
      BY <1>1, <1>2, <2>1 DEF PlanCall, Typed, TypeOK
    <2> QED  BY <2>1, <2>5, <2>6, <2>7 DEF Typed, TypeOK, Bounded, PlanCall, pools
  <1> QED  BY <1>3, <1>4

(* A worker that stays at its call. *)
LEMMA CallStep ==
    ASSUME Typed, NEW w \in Workers, NEW q \in Calling,
           at[w].pc \in Calling, q = "succeed" => at[w].key \in results',
           Go(w, [at[w] EXCEPT !.pc = q]),
           planned' = planned, results \subseteq results', artifacts' = artifacts, fate' = fate
    PROVE  at' \in [Workers -> Point] /\ WorkPlaced'
  <1> DEFINE p == [at[w] EXCEPT !.pc = q]
  <1>1. /\ at[w] \in Point /\ Stage(at[w], results, fate)
        /\ <<at[w].key, at[w].attempt>> \in planned
    BY WorkType DEF Call
  <1>2. /\ p \in Point /\ p.pc = q /\ p.key = at[w].key /\ p.attempt = at[w].attempt
        /\ p.todo = at[w].todo /\ p.solved = at[w].solved /\ p.records = at[w].records
    BY <1>1 DEF Point, Calling
  <1>3. at' \in [Workers -> Point] /\ at'[w] = p /\ \A v \in Workers : v # w => at'[v] = at[v]
    BY <1>2, GoType DEF Typed
  <1> HIDE DEF p
  <1>4. Stage(p, results, fate)
    BY <1>1, <1>2 DEF Stage, Solving, Packing
  <1>5. Stage(p, results', fate)
    BY <1>4 DEF Stage, Solving, Packing
  <1>6. Placed(p, planned', results', artifacts', fate)
    BY <1>1, <1>2, <1>5 DEF Placed, Calling, Closing
  <1> QED  BY <1>3, <1>6, PlacedStep DEF Typed

LEMMA ReserveQuotaKeeps == ASSUME Typed, NEW w \in Workers, ReserveQuota(w) PROVE Typed'
  <1>1. at' \in [Workers -> Point] /\ WorkPlaced'
    BY CallStep DEF ReserveQuota, Calling
  <1>2. Call(w) \in planned
    BY WorkType DEF ReserveQuota, Calling
  <1>3. closed' \cup started' \subseteq planned'
    BY <1>2 DEF ReserveQuota, Typed, TypeOK
  <1>4. Bounded'
    <2>1. PICK b \in Nat : \A c \in started : c[2] <= b
      BY DEF Typed, Bounded
    <2>2. at[w].attempt \in Nat /\ Call(w)[2] = at[w].attempt
      <3>1. at[w].attempt \in Attempt \cup {0}
        BY WorkType DEF Point
      <3> QED  BY <3>1 DEF Attempt, Call
    <2>3. PICK d \in Nat : b <= d /\ at[w].attempt <= d
      BY <2>2
    <2>4. \A c \in started : c[2] \in Nat
      BY DEF Typed, TypeOK, Attempt
    <2>5. \A c \in started : c[2] <= d
      BY <2>1, <2>3, <2>4
    <2>6. \A c \in started' : c[2] <= d
      BY <2>2, <2>3, <2>5 DEF ReserveQuota
    <2> QED  BY <2>6 DEF Bounded
  <1> QED  BY <1>1, <1>3, <1>4 DEF Typed, TypeOK, ReserveQuota, pools

(* A worker that abandons its paper. *)
LEMMA AbandonStep ==
    ASSUME Typed, NEW w \in Workers, Abandon(w), planned' = planned, results' = results,
           artifacts' = artifacts, fate' = fate
    PROVE  at' \in [Workers -> Point] /\ WorkPlaced' /\ owner' \in Workers \cup {None}
  <1>1. at' = [at EXCEPT ![w] = [Idle EXCEPT !.pc = "idle"]]
    BY DEF Abandon, Go, Idle
  <1>2. owner' \in Workers \cup {None}
    BY AbandonType DEF Typed
  <1> QED  BY <1>1, <1>2, LeaveStep DEF Idling

LEMMA QuotaRefusedKeeps == ASSUME Typed, NEW w \in Workers, QuotaRefused(w) PROVE Typed'
  <1>1. at' \in [Workers -> Point] /\ WorkPlaced' /\ owner' \in Workers \cup {None}
    BY AbandonStep DEF QuotaRefused, job
  <1>2. faults' \in [Fault -> 0..FaultLimit]
    BY FailsType DEF QuotaRefused, Typed, Fault
  <1> QED  BY <1>1, <1>2 DEF Typed, TypeOK, Bounded, QuotaRefused, job, pools

LEMMA GenerateKeeps == ASSUME Typed, NEW w \in Workers, Generate(w) PROVE Typed'
  <1>1. faults' \in [Fault -> 0..FaultLimit]
    BY FailsType DEF Generate, Typed, TypeOK, Fault
  <1>2. at' \in [Workers -> Point] /\ WorkPlaced'
    <2>1. PICK q \in {"store", "malformed"} : Go(w, [at[w] EXCEPT !.pc = q])
      BY DEF Generate
    <2> QED  BY <2>1, CallStep DEF Generate, Calling, job
  <1> QED  BY <1>1, <1>2 DEF Typed, TypeOK, Bounded, Generate, job, pools

LEMMA RecordResultKeeps == ASSUME Typed, NEW w \in Workers, RecordResult(w) PROVE Typed'
  <1>1. at' \in [Workers -> Point] /\ WorkPlaced'
    BY CallStep DEF RecordResult, Calling
  <1>2. at[w].key \in Keys
    BY WorkType DEF RecordResult, Calling
  <1>3. results' \subseteq Keys /\ paid' \in [Keys -> Nat]
    BY <1>2 DEF RecordResult, Typed, TypeOK
  <1> QED  BY <1>1, <1>3 DEF Typed, TypeOK, Bounded, RecordResult, pools

LEMMA CallSucceededKeeps == ASSUME Typed, NEW w \in Workers, CallSucceeded(w) PROVE Typed'
  <1>1. /\ at[w] \in Point /\ at[w].key \in Keys /\ Stage(at[w], results, fate)
        /\ Call(w) \in planned
    BY WorkType DEF CallSucceeded, Calling
  <1>2. at[w].key \in results
    BY DEF Typed, WorkPlaced, Placed, CallSucceeded
  <1>3. Answered(at[w]) \in Point
    BY <1>1, AnsweredType
  <1>4. Placed(Answered(at[w]), planned', results', artifacts', fate)
    BY <1>1, <1>2, AnsweredPlaced DEF CallSucceeded
  <1>5. /\ at' \in [Workers -> Point] /\ at'[w] = Answered(at[w])
        /\ \A v \in Workers : v # w => at'[v] = at[v]
    BY <1>3, GoType DEF Typed, CallSucceeded
  <1>6. WorkPlaced'
    BY <1>4, <1>5, PlacedStep DEF CallSucceeded, Typed
  <1>7. closed' \cup started' \subseteq planned'
    BY <1>1 DEF CallSucceeded, Typed, TypeOK
  <1> QED  BY <1>5, <1>6, <1>7 DEF Typed, TypeOK, Bounded, CallSucceeded, pools

LEMMA CallFailedKeeps == ASSUME Typed, NEW w \in Workers, CallFailed(w) PROVE Typed'
  <1>1. at' \in [Workers -> Point] /\ WorkPlaced' /\ owner' \in Workers \cup {None}
    BY AbandonStep DEF CallFailed
  <1>2. faults' \in [Fault -> 0..FaultLimit]
    BY FailsType DEF CallFailed, Typed, Fault
  <1>3. Call(w) \in planned
    BY WorkType DEF CallFailed, Calling
  <1>4. closed' \cup started' \subseteq planned'
    BY <1>3 DEF CallFailed, Typed, TypeOK
  <1> QED  BY <1>1, <1>2, <1>4 DEF Typed, TypeOK, Bounded, CallFailed, pools

LEMMA OutputRejectedKeeps == ASSUME Typed, NEW w \in Workers, OutputRejected(w) PROVE Typed'
  <1>1. at' \in [Workers -> Point] /\ WorkPlaced'
    BY LeaveStep DEF OutputRejected, Go, Idling
  <1>2. Call(w) \in planned
    BY WorkType DEF OutputRejected, Calling
  <1>3. closed' \cup started' \subseteq planned'
    BY <1>2 DEF OutputRejected, Typed, TypeOK
  <1> QED  BY <1>1, <1>3 DEF Typed, TypeOK, Bounded, OutputRejected, Terminal, pools

LEMMA OrdinalIs ==
    ASSUME TypeOK, NEW q \in Pool
    PROVE  OrdinalOf(q) \in Nat \ {0}
  BY DEF TypeOK, OrdinalOf

LEMMA PackagedType ==
    ASSUME NEW t \in Tasks, NEW n
    PROVE  Packaged(t, n) \in Artifact
  BY DEF Packaged, Artifact, Split

(* What becomes of a task that is packaged: a verifier first, a package, or a *)
(* rejection.                                                              *)
Asks(w, t) == t \in RlTasks /\ at[w].key # <<"verify", t>>
Recorded(w, t, r) == [at[w] EXCEPT !.todo = @ \ {t}, !.records = @ \cup {r}]

LEMMA PackageTaskIs ==
    ASSUME Typed, NEW w \in Workers, PackageTask(w)
    PROVE  \E t \in at[w].todo :
              /\ t \in Tasks /\ PoolOf(t) \in Pool
              /\ \/ /\ Asks(w, t) /\ Go(w, [at[w] EXCEPT !.pc = "plan", !.key = <<"verify", t>>])
                    /\ UNCHANGED pools
                 \/ /\ ~Asks(w, t) /\ fate[t] = "sound" /\ AssignPoolSplit(PoolOf(t))
                    /\ Go(w, Recorded(w, t, Packaged(t, OrdinalOf(PoolOf(t)))))
                 \/ /\ ~Asks(w, t) /\ fate[t] # "sound" /\ UNCHANGED pools
                    /\ Go(w, Recorded(w, t, Rejected(t)))
  <1>1. First(at[w].todo) \in at[w].todo
    BY FirstIsOne DEF PackageTask
  <1>2. First(at[w].todo) \in Tasks /\ PoolOf(First(at[w].todo)) \in Pool
    BY <1>1, WorkType DEF Point, Pool, PoolOf
  <1>3. at[w] \in Point
    BY WorkType
  <1>4. \A t, r : [[at[w] EXCEPT !.todo = @ \ {t}] EXCEPT !.records = @ \cup {r}] = Recorded(w, t, r)
    BY <1>3 DEF Recorded, Point
  <1>5. PICK t \in at[w].todo : t = First(at[w].todo)
    BY <1>1
  <1>6. CASE Asks(w, t)
    BY <1>2, <1>5, <1>6 DEF PackageTask, Asks
  <1>7. CASE ~Asks(w, t) /\ fate[t] = "sound"
    <2>1. AssignPoolSplit(PoolOf(t)) /\ Go(w, Recorded(w, t, Packaged(t, OrdinalOf(PoolOf(t)))))
      BY <1>4, <1>5, <1>7 DEF PackageTask, GatesPass, Asks
    <2> QED  BY <1>2, <1>5, <1>7, <2>1
  <1>8. CASE ~Asks(w, t) /\ fate[t] # "sound"
    <2>1. UNCHANGED pools /\ Go(w, Recorded(w, t, Rejected(t)))
      BY <1>4, <1>5, <1>8 DEF PackageTask, GatesPass, Asks
    <2> QED  BY <1>2, <1>5, <1>8, <2>1
  <1> QED  BY <1>6, <1>7, <1>8

LEMMA RecordedPlaced ==
    ASSUME Typed, NEW w \in Workers, at[w].pc = "package", NEW t \in at[w].todo, ~Asks(w, t),
           NEW r \in Artifact, r[1] = t, r[2] = "accepted" <=> fate[t] = "sound"
    PROVE  /\ Recorded(w, t, r) \in Point
           /\ Recorded(w, t, r).pc = "package" /\ Recorded(w, t, r).records = at[w].records \cup {r}
           /\ Placed(Recorded(w, t, r), planned, results, artifacts, fate)
  <1> DEFINE q == Recorded(w, t, r)
  <1>1. at[w] \in Point /\ Packing(at[w], results, fate) /\ at[w].key \in results \cup {None}
    BY WorkType DEF Typed, WorkPlaced, Placed
  <1>2. /\ q \in Point /\ q.pc = "package" /\ q.key = at[w].key
        /\ q.todo = at[w].todo \ {t} /\ q.records = at[w].records \cup {r}
    BY <1>1 DEF Recorded, Point
  <1> HIDE DEF q
  <1>3. t \in Tasks /\ fate[t] # "unsolved"
    BY <1>1 DEF Packing, Point
  <1>4. t \in RlTasks => <<"verify", t>> \in results
    BY <1>1, <1>3, NoneIsNoKey DEF Asks, Keys
  <1>5. \A u \in q.todo : fate[u] # "unsolved"
    BY <1>1, <1>2 DEF Packing
  <1>6. \A u \in RlTasks \ q.todo : fate[u] # "unsolved" => <<"verify", u>> \in results
    BY <1>1, <1>2, <1>4 DEF Packing
  <1>7. \A s \in q.records : s[2] = "accepted" => fate[s[1]] = "sound"
    BY <1>1, <1>2 DEF Packing
  <1>8. \A u \in Tasks \ q.todo : fate[u] = "sound" => Accepted(q.records, {u})
    BY <1>1, <1>2 DEF Packing, Accepted
  <1>9. Packing(q, results, fate)
    BY <1>1, <1>5, <1>6, <1>7, <1>8 DEF Packing
  <1>10. Placed(q, planned, results, artifacts, fate)
    BY <1>1, <1>2, <1>9 DEF Placed, Calling, Closing
  <1> QED  BY <1>2, <1>10 DEF q

LEMMA AssignType ==
    ASSUME TypeOK, NEW q \in Pool, AssignPoolSplit(q)
    PROVE  /\ ordinal' \in [Pool -> Nat] /\ taken' \in [Pool -> Nat]
           /\ \A p \in Pool : ordinal'[p] <= taken'[p]
           /\ ordinal'[q] = OrdinalOf(q) /\ \A p \in Pool : p # q => ordinal'[p] = ordinal[p]
  <1>1. OrdinalOf(q) \in Nat
    BY OrdinalIs
  <1>2. ordinal' \in [Pool -> Nat] /\ taken' \in [Pool -> Nat]
    BY <1>1 DEF TypeOK, AssignPoolSplit
  <1>3. ordinal'[q] = OrdinalOf(q) /\ \A p \in Pool : p # q => ordinal'[p] = ordinal[p]
    BY DEF TypeOK, AssignPoolSplit
  <1>4. /\ taken'[q] = IF OrdinalOf(q) > taken[q] THEN OrdinalOf(q) ELSE taken[q]
        /\ \A p \in Pool : p # q => taken'[p] = taken[p]
    BY DEF TypeOK, AssignPoolSplit
  <1>5. taken[q] \in Nat /\ \A p \in Pool : ordinal[p] <= taken[p]
    BY DEF TypeOK
  <1>6. OrdinalOf(q) <= taken'[q]
    BY <1>1, <1>4, <1>5
  <1> QED  BY <1>2, <1>3, <1>4, <1>5, <1>6

LEMMA PackageTaskKeeps == ASSUME Typed, NEW w \in Workers, PackageTask(w) PROVE Typed'
  <1>1. at[w] \in Point /\ at[w].pc = "package" /\ Packing(at[w], results, fate)
    BY WorkType DEF PackageTask, Typed, WorkPlaced, Placed
  <1>2. PICK t \in at[w].todo :
              /\ t \in Tasks /\ PoolOf(t) \in Pool
              /\ \/ /\ Asks(w, t) /\ Go(w, [at[w] EXCEPT !.pc = "plan", !.key = <<"verify", t>>])
                    /\ UNCHANGED pools
                 \/ /\ ~Asks(w, t) /\ fate[t] = "sound" /\ AssignPoolSplit(PoolOf(t))
                    /\ Go(w, Recorded(w, t, Packaged(t, OrdinalOf(PoolOf(t)))))
                 \/ /\ ~Asks(w, t) /\ fate[t] # "sound" /\ UNCHANGED pools
                    /\ Go(w, Recorded(w, t, Rejected(t)))
    BY PackageTaskIs
  <1>3. \E q \in Point : Go(w, q) /\ Placed(q, planned, results, artifacts, fate)
    <2>1. CASE Asks(w, t)
      <3> DEFINE q == [at[w] EXCEPT !.pc = "plan", !.key = <<"verify", t>>]
      <3>1. t \in RlTasks /\ <<"verify", t>> \in Keys
        BY <2>1 DEF Asks, Keys
      <3>2. /\ q \in Point /\ q.pc = "plan" /\ q.key = <<"verify", t>> /\ q.todo = at[w].todo
            /\ q.records = at[w].records
        BY <1>1, <3>1 DEF Point
      <3>3. Go(w, q)
        BY <1>2, <2>1
      <3> HIDE DEF q
      <3>4. Packing(q, results, fate)
        BY <1>1, <3>2 DEF Packing
      <3>5. Stage(q, results, fate)
        BY <3>1, <3>2, <3>4 DEF Stage
      <3>6. Placed(q, planned, results, artifacts, fate)
        BY <3>2, <3>5 DEF Placed, Calling, Closing
      <3> QED  BY <3>2, <3>3, <3>6
    <2>2. CASE ~Asks(w, t) /\ fate[t] = "sound"
      <3> DEFINE r == Packaged(t, OrdinalOf(PoolOf(t)))
      <3>1. r \in Artifact /\ r[1] = t /\ r[2] = "accepted"
        BY <1>2, PackagedType DEF Packaged
      <3>2. Go(w, Recorded(w, t, r))
        BY <1>2, <2>2
      <3> HIDE DEF r
      <3> QED  BY <1>1, <2>2, <3>1, <3>2, RecordedPlaced
    <2>3. CASE ~Asks(w, t) /\ fate[t] # "sound"
      <3> DEFINE r == Rejected(t)
      <3>1. r \in Artifact /\ r[1] = t /\ r[2] = "rejected"
        BY <1>2, RejectedType DEF Rejected
      <3>2. Go(w, Recorded(w, t, r))
        BY <1>2, <2>3
      <3> HIDE DEF r
      <3> QED  BY <1>1, <2>3, <3>1, <3>2, RecordedPlaced
    <2> QED  BY <2>1, <2>2, <2>3
  <1>4. at' \in [Workers -> Point] /\ WorkPlaced'
    <2>1. PICK q \in Point : Go(w, q) /\ Placed(q, planned, results, artifacts, fate)
      BY <1>3
    <2>2. at' \in [Workers -> Point] /\ at'[w] = q /\ \A v \in Workers : v # w => at'[v] = at[v]
      BY <2>1, GoType DEF Typed
    <2> QED  BY <2>1, <2>2, PlacedStep DEF PackageTask, Typed, job
  <1>5. /\ ordinal' \in [Pool -> Nat] /\ taken' \in [Pool -> Nat]
        /\ \A p \in Pool : ordinal'[p] <= taken'[p]
    BY <1>2, AssignType DEF Typed, TypeOK, pools
  <1> QED  BY <1>4, <1>5 DEF Typed, TypeOK, Bounded, PackageTask, job

LEMMA EndPackagingKeeps == ASSUME Typed, NEW w \in Workers, EndPackaging(w) PROVE Typed'
  <1>1. at[w] \in Point /\ Packing(at[w], results, fate) /\ at[w].todo = {}
    BY WorkType DEF EndPackaging, Typed, WorkPlaced, Placed
  <1> DEFINE q == [at[w] EXCEPT !.pc = "record"]
  <1>2. q \in Point /\ q.pc = "record" /\ q.todo = at[w].todo /\ q.records = at[w].records
    BY <1>1 DEF Point
  <1>3. Go(w, q)
    BY DEF EndPackaging
  <1> HIDE DEF q
  <1>4. Packing(q, results, fate)
    BY <1>1, <1>2 DEF Packing
  <1>5. Placed(q, planned, results, artifacts, fate)
    BY <1>1, <1>2, <1>4 DEF Placed, Calling, Closing
  <1>6. at' \in [Workers -> Point] /\ at'[w] = q /\ \A v \in Workers : v # w => at'[v] = at[v]
    BY <1>2, <1>3, GoType DEF Typed
  <1>7. WorkPlaced'
    BY <1>5, <1>6, PlacedStep DEF EndPackaging, Typed
  <1> QED  BY <1>6, <1>7 DEF Typed, TypeOK, Bounded, EndPackaging, pools

LEMMA RecordArtifactKeeps == ASSUME Typed, NEW w \in Workers, RecordArtifact(w) PROVE Typed'
  <1>1. at[w] \in Point /\ Packing(at[w], results, fate) /\ at[w].todo = {}
    BY WorkType DEF RecordArtifact, Typed, WorkPlaced, Placed, Closing
  <1>2. CASE \E r \in Unrecorded(w) : artifacts' = artifacts \cup {r} /\ UNCHANGED at
    <2>1. artifacts \subseteq artifacts' /\ artifacts' \subseteq Artifact
      BY <1>1, <1>2 DEF Unrecorded, Point, Typed, TypeOK
    <2>2. WorkPlaced'
      BY <1>2, <2>1, PlacedStep DEF RecordArtifact, Typed
    <2> QED  BY <1>2, <2>1, <2>2 DEF Typed, TypeOK, Bounded, RecordArtifact, pools
  <1>3. CASE /\ Unrecorded(w) = {} /\ Go(w, [at[w] EXCEPT !.pc = "accept"])
             /\ UNCHANGED artifacts
    <2> DEFINE q == [at[w] EXCEPT !.pc = "accept"]
    <2>1. q \in Point /\ q.pc = "accept" /\ q.todo = at[w].todo /\ q.records = at[w].records
      BY <1>1 DEF Point
    <2>2. Go(w, q)
      BY <1>3
    <2> HIDE DEF q
    <2>3. q.records \subseteq artifacts'
      BY <1>3, <2>1 DEF Unrecorded
    <2>4. Packing(q, results, fate)
      BY <1>1, <2>1 DEF Packing
    <2>5. Placed(q, planned', results', artifacts', fate)
      BY <1>1, <2>1, <2>3, <2>4 DEF Placed, Calling, Closing, RecordArtifact
    <2>6. at' \in [Workers -> Point] /\ at'[w] = q /\ \A v \in Workers : v # w => at'[v] = at[v]
      BY <2>1, <2>2, GoType DEF Typed
    <2>7. WorkPlaced'
      BY <1>3, <2>5, <2>6, PlacedStep DEF RecordArtifact, Typed
    <2> QED  BY <1>3, <2>6, <2>7 DEF Typed, TypeOK, Bounded, RecordArtifact, pools
  <1> QED  BY <1>2, <1>3 DEF RecordArtifact

LEMMA PassedIs ==
    ASSUME NEW w \in Workers, at[w] \in Point
    PROVE  /\ Passed(w) \cap SftTasks # {} <=> Accepted(at[w].records, SftTasks)
           /\ Passed(w) \cap RlTasks # {} <=> Accepted(at[w].records, RlTasks)
  BY DEF Passed, Accepted, Tasks

LEMMA AcceptJobKeeps == ASSUME Typed, NEW w \in Workers, AcceptJob(w) PROVE Typed'
  <1>1. /\ at[w] \in Point /\ Packing(at[w], results, fate) /\ at[w].todo = {}
        /\ at[w].records \subseteq artifacts
    BY WorkType DEF AcceptJob, Typed, WorkPlaced, Placed, Closing
  <1>2. state' \in {"none", "working"} \cup Terminal
    BY DEF AcceptJob, Terminal
  <1>3. at' \in [Workers -> Point] /\ WorkPlaced'
    <2>1. CASE Go(w, [at[w] EXCEPT !.pc = "accept_rl"]) /\ Accepted(at[w].records, RlTasks)
      <3> DEFINE q == [at[w] EXCEPT !.pc = "accept_rl"]
      <3>1. q \in Point /\ q.pc = "accept_rl" /\ q.todo = at[w].todo /\ q.records = at[w].records
        BY <1>1 DEF Point
      <3>2. Go(w, q)
        BY <2>1
      <3> HIDE DEF q
      <3>3. Packing(q, results, fate)
        BY <1>1, <3>1 DEF Packing
      <3>4. Placed(q, planned', results', artifacts', fate)
        BY <1>1, <2>1, <3>1, <3>3 DEF Placed, Calling, Closing, AcceptJob
      <3>5. at' \in [Workers -> Point] /\ at'[w] = q /\ \A v \in Workers : v # w => at'[v] = at[v]
        BY <3>1, <3>2, GoType DEF Typed
      <3> QED  BY <3>4, <3>5, PlacedStep DEF AcceptJob, Typed
    <2>2. CASE Go(w, [Idle EXCEPT !.pc = "finish"])
      BY <2>2, LeaveStep DEF AcceptJob, Go, Idling
    <2> QED  BY <1>1, <2>1, <2>2, PassedIs DEF AcceptJob
  <1> QED  BY <1>2, <1>3 DEF Typed, TypeOK, Bounded, AcceptJob, pools

LEMMA FinishPaperKeeps == ASSUME Typed, NEW w \in Workers, FinishPaper(w) PROVE Typed'
  <1>1. at' \in [Workers -> Point] /\ WorkPlaced' /\ owner' \in Workers \cup {None}
    BY AbandonStep DEF FinishPaper, job
  <1>2. finished' \in BOOLEAN
    BY DEF FinishPaper
  <1> QED  BY <1>1, <1>2 DEF Typed, TypeOK, Bounded, FinishPaper, job, pools

LEMMA OtherFamilyKeeps == ASSUME Typed, NEW p \in Pool, OtherFamily(p) PROVE Typed'
  <1>1. taken' \in [Pool -> Nat] /\ \A q \in Pool : taken[q] <= taken'[q]
    BY DEF Typed, TypeOK, OtherFamily
  <1>2. \A q \in Pool : ordinal[q] <= taken'[q]
    BY <1>1 DEF Typed, TypeOK
  <1>3. WorkPlaced'
    BY PlacedStep DEF OtherFamily, Typed, job
  <1> QED  BY <1>1, <1>2, <1>3 DEF Typed, TypeOK, Bounded, OtherFamily, job

LEMMA CrashKeeps == ASSUME Typed, NEW w \in Workers, Crash(w) PROVE Typed'
  <1>1. at' \in [Workers -> Point] /\ WorkPlaced'
    BY LeaveStep DEF Crash, Go, Idling, job
  <1>2. faults' \in [Fault -> 0..FaultLimit]
    BY FailsType DEF Crash, Typed, Fault
  <1> QED  BY <1>1, <1>2 DEF Typed, TypeOK, Bounded, Crash, job, pools

LEMMA RestartKeeps == ASSUME Typed, NEW w \in Workers, Restart(w) PROVE Typed'
  <1>1. at' = [at EXCEPT ![w] = [Idle EXCEPT !.pc = "idle"]]
    BY DEF Restart, Go, Idle
  <1>2. at' \in [Workers -> Point] /\ WorkPlaced'
    BY <1>1, LeaveStep DEF Restart, Idling
  <1>3. closed' \cup started' \subseteq planned'
    BY DEF Restart, Interrupted, Typed, TypeOK
  <1>4. state' \in {"none", "working"} \cup Terminal
    BY DEF Restart, Typed, TypeOK
  <1> QED  BY <1>2, <1>3, <1>4 DEF Typed, TypeOK, Bounded, Restart, pools

LEMMA TypedStep == Typed /\ [Next]_vars => Typed'
  <1> SUFFICES ASSUME Typed, [Next]_vars PROVE Typed'
    OBVIOUS
  <1>1. CASE UNCHANGED vars
    BY <1>1 DEF vars, job, pools, Typed, TypeOK, Bounded, WorkPlaced
  <1>2. CASE Next
    BY <1>2, LapseKeeps, OtherFamilyKeeps, TakeKeeps, StartJobKeeps, PlanCallKeeps,
       ReserveQuotaKeeps, QuotaRefusedKeeps, GenerateKeeps, RecordResultKeeps,
       CallSucceededKeeps, CallFailedKeeps, OutputRejectedKeeps, PackageTaskKeeps,
       EndPackagingKeeps, RecordArtifactKeeps, AcceptJobKeeps, FinishPaperKeeps, CrashKeeps,
       RestartKeeps DEF Next
  <1> QED  BY <1>1, <1>2

-----------------------------------------------------------------------------
(* What was accepted. *)

(* An artifact is accepted when the gates let its task pass and every call    *)
(* the job needs has its result.                                           *)
ArtifactsEarned ==
    \A r \in artifacts :
        r[2] = "accepted" => fate[r[1]] = "sound" /\ Required(fate) \subseteq results

(* A family that is recorded is in a pool, and in the split of its ordinal. *)
SplitBy(r, ord) == r[2] = "accepted" => ord[PoolOf(r[1])] # 0 /\ r[3] = Split(ord[PoolOf(r[1])])
SplitsFollow ==
    /\ \A r \in artifacts : SplitBy(r, ordinal)
    /\ \A w \in Workers : \A r \in at[w].records : SplitBy(r, ordinal)

Recording == Typed /\ ArtifactsEarned /\ SplitsFollow

(* When nothing is left to package, every call has its result. *)
LEMMA AllCalled ==
    ASSUME NEW p, p.todo = {}, NEW res, NEW f, Packing(p, res, f)
    PROVE  Required(f) \subseteq res
  <1>1. RlTasks \subseteq Tasks
    BY DEF Tasks
  <1> QED  BY <1>1 DEF Packing, Required

LEMMA PoolIs == ASSUME NEW t \in Tasks PROVE PoolOf(t) \in Pool
  BY DEF PoolOf, Pool

LEMMA GoOthers ==
    ASSUME TypeOK, NEW w \in Workers, NEW p, Go(w, p)
    PROVE  at'[w] = p /\ \A v \in Workers : v # w => at'[v] = at[v]
  BY DEF TypeOK, Go

(* Only RecordArtifact writes artifacts; results stay, and so does a fate. *)
LEMMA OnlyGrows ==
    ASSUME [Next]_vars
    PROVE  /\ results \subseteq results' /\ fate' = fate
           /\ artifacts' = artifacts \/ \E w \in Workers : RecordArtifact(w)
  <1>1. CASE UNCHANGED vars
    BY <1>1 DEF vars, job
  <1>2. CASE Lapse
    BY <1>2 DEF Lapse, job
  <1>3. CASE \E p \in Pool : OtherFamily(p)
    BY <1>3 DEF OtherFamily, job
  <1>4. ASSUME NEW w \in Workers,
               \/ Take(w) \/ StartJob(w) \/ PlanCall(w) \/ ReserveQuota(w) \/ QuotaRefused(w)
               \/ Generate(w)
        PROVE  results \subseteq results' /\ fate' = fate /\ artifacts' = artifacts
    BY <1>4 DEF Take, StartJob, PlanCall, ReserveQuota, QuotaRefused, Generate, job
  <1>5. ASSUME NEW w \in Workers,
               \/ RecordResult(w) \/ CallSucceeded(w) \/ CallFailed(w) \/ OutputRejected(w)
               \/ PackageTask(w)
        PROVE  results \subseteq results' /\ fate' = fate /\ artifacts' = artifacts
    BY <1>5 DEF RecordResult, CallSucceeded, CallFailed, OutputRejected, PackageTask, job
  <1>6. ASSUME NEW w \in Workers,
               \/ EndPackaging(w) \/ AcceptJob(w) \/ FinishPaper(w) \/ Crash(w) \/ Restart(w)
        PROVE  results \subseteq results' /\ fate' = fate /\ artifacts' = artifacts
    BY <1>6 DEF EndPackaging, AcceptJob, FinishPaper, Crash, Restart, job
  <1>7. ASSUME NEW w \in Workers, RecordArtifact(w)
        PROVE  results \subseteq results' /\ fate' = fate
    BY <1>7 DEF RecordArtifact
  <1> QED  BY <1>1, <1>2, <1>3, <1>4, <1>5, <1>6, <1>7 DEF Next

(* What RecordArtifact writes is a record of its worker. *)
LEMMA RecordedIs ==
    ASSUME Typed, NEW w \in Workers, RecordArtifact(w)
    PROVE  /\ artifacts' \subseteq artifacts \cup at[w].records
           /\ Required(fate) \subseteq results
           /\ \A r \in at[w].records : r[2] = "accepted" => fate[r[1]] = "sound"
  <1>1. Packing(at[w], results, fate) /\ at[w].todo = {}
    BY DEF RecordArtifact, Typed, WorkPlaced, Placed, Closing
  <1>2. artifacts' \subseteq artifacts \cup at[w].records
    BY DEF RecordArtifact, Unrecorded
  <1> QED  BY <1>1, <1>2, AllCalled DEF Packing

LEMMA EarnedStep ==
    Typed /\ ArtifactsEarned /\ [Next]_vars => ArtifactsEarned'
  <1> SUFFICES ASSUME Typed, ArtifactsEarned, [Next]_vars, NEW r \in artifacts', r[2] = "accepted"
               PROVE  fate'[r[1]] = "sound" /\ Required(fate') \subseteq results'
    BY DEF ArtifactsEarned
  <1>1. results \subseteq results' /\ fate' = fate
    BY OnlyGrows
  <1>2. fate[r[1]] = "sound" /\ Required(fate) \subseteq results
    <2>1. CASE artifacts' = artifacts
      BY <2>1 DEF ArtifactsEarned
    <2>2. ASSUME NEW w \in Workers, RecordArtifact(w)
          PROVE  fate[r[1]] = "sound" /\ Required(fate) \subseteq results
      BY <2>2, RecordedIs DEF ArtifactsEarned
    <2> QED  BY <2>1, <2>2, OnlyGrows
  <1> QED  BY <1>1, <1>2

(* The records of a worker after a step: of those it had, of rejected tasks,  *)
(* and of a task it has packaged.                                          *)
Fresh(r) ==
    \E t \in Tasks : /\ AssignPoolSplit(PoolOf(t))
                     /\ r = Packaged(t, OrdinalOf(PoolOf(t)))

LEMMA SolveNextRecords ==
    ASSUME NEW p \in Point, NEW r \in SolveNext(p).records
    PROVE  r \in p.records \/ r[2] = "rejected"
  <1>1. CASE p.todo = {}
    <2>1. SolveNext(p).records = {Rejected(t) : t \in Tasks \ p.solved}
      BY <1>1 DEF SolveNext, Point
    <2> QED  BY <2>1 DEF Rejected
  <1>2. CASE p.todo # {}
    BY <1>2 DEF SolveNext, Point
  <1> QED  BY <1>1, <1>2

LEMMA AnsweredRecords ==
    ASSUME NEW p \in Point, p.key \in Keys, NEW r \in Answered(p).records
    PROVE  r \in p.records \/ r[2] = "rejected"
  <1>1. CASE p.key = Graph
    <2>1. Answered(p) = [p EXCEPT !.pc = "plan", !.key = Propose]
      BY <1>1, AnsweredIs
    <2> QED  BY <2>1 DEF Point
  <1>2. CASE p.key = Propose
    <2> DEFINE q == [p EXCEPT !.todo = Tasks]
    <2>1. q \in Point /\ q.records = p.records
      BY DEF Point
    <2>2. Answered(p) = SolveNext(q)
      BY <1>2, AnsweredIs
    <2> HIDE DEF q
    <2> QED  BY <2>1, <2>2, SolveNextRecords
  <1>3. ASSUME NEW t \in Tasks, p.key = <<"solve", t>> PROVE r \in p.records \/ r[2] = "rejected"
    <2> DEFINE q == [p EXCEPT !.todo = @ \ {t},
                              !.solved = IF fate[t] = "unsolved" THEN @ ELSE @ \cup {t}]
    <2>1. q \in Point /\ q.records = p.records
      BY DEF Point
    <2>2. Answered(p) = SolveNext(q)
      BY <1>3, AnsweredIs
    <2> HIDE DEF q
    <2> QED  BY <2>1, <2>2, SolveNextRecords
  <1>4. ASSUME NEW t \in RlTasks, p.key = <<"verify", t>> PROVE r \in p.records \/ r[2] = "rejected"
    <2>1. Answered(p) = [p EXCEPT !.pc = "package"]
      BY <1>4, AnsweredIs
    <2> QED  BY <2>1 DEF Point
  <1> QED  BY <1>1, <1>2, <1>3, <1>4, KeyIs

LEMMA RecordsFrom ==
    ASSUME Typed, [Next]_vars, NEW v \in Workers, NEW r \in at'[v].records
    PROVE  r \in at[v].records \/ r[2] = "rejected" \/ Fresh(r)
  <1> USE DEF Typed
  <1> DEFINE Known == r \in at[v].records \/ r[2] = "rejected" \/ Fresh(r)
  <1>0. \A w \in Workers : at[w] \in Point
    BY DEF TypeOK
  <1>1. ASSUME at' = at PROVE Known
    BY <1>1
  <1>2. ASSUME NEW w \in Workers, NEW q, Go(w, [Idle EXCEPT !.pc = q]) PROVE Known
    <2>1. [Idle EXCEPT !.pc = q].records = {}
      BY DEF Idle
    <2> QED  BY <1>2, <2>1, GoOthers
  <1>3. ASSUME NEW w \in Workers, Go(w, Idle) PROVE Known
    <2>1. Idle.records = {}
      BY DEF Idle
    <2> QED  BY <1>3, <2>1, GoOthers
  <1>4. ASSUME NEW w \in Workers, NEW q, q.records = at[w].records, Go(w, q) PROVE Known
    BY <1>4, GoOthers
  <1>5. ASSUME NEW w \in Workers, NEW q, Go(w, [at[w] EXCEPT !.pc = q]) PROVE Known
    <2>1. [at[w] EXCEPT !.pc = q].records = at[w].records
      BY <1>0 DEF Point
    <2> QED  BY <1>4, <1>5, <2>1
  <1>6. ASSUME NEW w \in Workers, at[w].key \in Keys, Go(w, Answered(at[w])) PROVE Known
    <2>1. CASE v = w
      <3>1. r \in Answered(at[w]).records
        BY <1>6, <2>1, GoOthers
      <3>2. at[w] \in Point
        BY <1>0
      <3> QED  BY <1>6, <2>1, <3>1, <3>2, AnsweredRecords
    <2>2. CASE v # w
      BY <1>6, <2>2, GoOthers
    <2> QED  BY <2>1, <2>2
  <1>7. ASSUME NEW w \in Workers, StartJob(w) PROVE Known
    <2>1. CASE state \in Terminal
      BY <1>2, <1>7, <2>1 DEF StartJob
    <2>2. CASE state \notin Terminal
      <3> DEFINE q == [Idle EXCEPT !.pc = "plan", !.key = <<"graph", None>>]
      <3>1. q.records = {}
        BY DEF Idle
      <3>2. Go(w, q)
        BY <1>7, <2>2 DEF StartJob
      <3> HIDE DEF q
      <3> QED  BY <3>1, <3>2, GoOthers
    <2> QED  BY <2>1, <2>2
  <1>8. ASSUME NEW w \in Workers, PlanCall(w) PROVE Known
    <2>1. CASE at[w].key \in results
      BY <1>6, <1>8, <2>1, WorkType DEF PlanCall, Cached
    <2>2. CASE at[w].key \notin results
      <3> DEFINE q == [at[w] EXCEPT !.pc = "reserve", !.attempt = NextAttempt]
      <3>1. q.records = at[w].records
        BY <1>0 DEF Point
      <3>2. Go(w, q)
        BY <1>8, <2>2 DEF PlanCall, Cached
      <3> HIDE DEF q
      <3> QED  BY <1>4, <3>1, <3>2
    <2> QED  BY <2>1, <2>2
  <1>9. ASSUME NEW w \in Workers, CallSucceeded(w) PROVE Known
    BY <1>6, <1>9, WorkType DEF CallSucceeded, Calling
  <1>10. ASSUME NEW w \in Workers, PackageTask(w) PROVE Known
    <2>1. PICK t \in at[w].todo :
              /\ t \in Tasks /\ PoolOf(t) \in Pool
              /\ \/ /\ Asks(w, t) /\ Go(w, [at[w] EXCEPT !.pc = "plan", !.key = <<"verify", t>>])
                    /\ UNCHANGED pools
                 \/ /\ ~Asks(w, t) /\ fate[t] = "sound" /\ AssignPoolSplit(PoolOf(t))
                    /\ Go(w, Recorded(w, t, Packaged(t, OrdinalOf(PoolOf(t)))))
                 \/ /\ ~Asks(w, t) /\ fate[t] # "sound" /\ UNCHANGED pools
                    /\ Go(w, Recorded(w, t, Rejected(t)))
      BY <1>10, PackageTaskIs
    <2>2. CASE Go(w, [at[w] EXCEPT !.pc = "plan", !.key = <<"verify", t>>])
      <3> DEFINE q == [at[w] EXCEPT !.pc = "plan", !.key = <<"verify", t>>]
      <3>1. q.records = at[w].records
        BY <1>0 DEF Point
      <3>2. Go(w, q)
        BY <2>2
      <3> HIDE DEF q
      <3> QED  BY <1>4, <3>1, <3>2
    <2>3. \A s : Recorded(w, t, s).records = at[w].records \cup {s}
      BY <1>0 DEF Recorded, Point
    <2>4. CASE AssignPoolSplit(PoolOf(t)) /\ Go(w, Recorded(w, t, Packaged(t, OrdinalOf(PoolOf(t)))))
      BY <2>1, <2>3, <2>4, GoOthers DEF Fresh
    <2>5. CASE Go(w, Recorded(w, t, Rejected(t)))
      <3>1. Rejected(t)[2] = "rejected"
        BY DEF Rejected
      <3> QED  BY <2>3, <2>5, <3>1, GoOthers
    <2> QED  BY <2>1, <2>2, <2>4, <2>5
  <1> HIDE DEF Known
  <1>11. ASSUME NEW w \in Workers, Take(w) PROVE Known
    BY <1>2, <1>11 DEF Take
  <1>12. ASSUME NEW w \in Workers, ReserveQuota(w) PROVE Known
    BY <1>5, <1>12 DEF ReserveQuota
  <1>13. ASSUME NEW w \in Workers, QuotaRefused(w) PROVE Known
    BY <1>3, <1>13 DEF QuotaRefused, Abandon
  <1>14. ASSUME NEW w \in Workers, Generate(w) PROVE Known
    BY <1>5, <1>14 DEF Generate
  <1>15. ASSUME NEW w \in Workers, RecordResult(w) PROVE Known
    BY <1>5, <1>15 DEF RecordResult
  <1>16. ASSUME NEW w \in Workers, CallFailed(w) PROVE Known
    BY <1>3, <1>16 DEF CallFailed, Abandon
  <1>17. ASSUME NEW w \in Workers, OutputRejected(w) PROVE Known
    BY <1>2, <1>17 DEF OutputRejected
  <1>18. ASSUME NEW w \in Workers, EndPackaging(w) PROVE Known
    BY <1>5, <1>18 DEF EndPackaging
  <1>19. ASSUME NEW w \in Workers, RecordArtifact(w) PROVE Known
    <2>1. at' = at \/ Go(w, [at[w] EXCEPT !.pc = "accept"])
      BY <1>19 DEF RecordArtifact
    <2> QED  BY <1>1, <1>5, <2>1
  <1>20. ASSUME NEW w \in Workers, AcceptJob(w) PROVE Known
    BY <1>2, <1>5, <1>20 DEF AcceptJob
  <1>21. ASSUME NEW w \in Workers, FinishPaper(w) PROVE Known
    BY <1>3, <1>21 DEF FinishPaper, Abandon
  <1>22. ASSUME NEW w \in Workers, Crash(w) PROVE Known
    BY <1>2, <1>22 DEF Crash
  <1>23. ASSUME NEW w \in Workers, Restart(w) PROVE Known
    BY <1>3, <1>23 DEF Restart
  <1>24. ASSUME Lapse \/ (\E p \in Pool : OtherFamily(p)) \/ UNCHANGED vars PROVE Known
    BY <1>1, <1>24 DEF Lapse, OtherFamily, vars
  <1>25. Known
    BY <1>7, <1>8, <1>9, <1>10, <1>11, <1>12, <1>13, <1>14, <1>15, <1>16, <1>17, <1>18, <1>19,
       <1>20, <1>21, <1>22, <1>23, <1>24 DEF Next
  <1> QED  BY <1>25 DEF Known

(* An ordinal that is taken stays. *)
LEMMA OrdinalsStay ==
    ASSUME Typed, [Next]_vars, NEW q \in Pool, ordinal[q] # 0
    PROVE  ordinal'[q] = ordinal[q]
  <1>1. ASSUME NEW w \in Workers, PackageTask(w) PROVE ordinal'[q] = ordinal[q]
    <2>1. CASE UNCHANGED pools
      BY <2>1 DEF pools
    <2>2. ASSUME NEW p \in Pool, AssignPoolSplit(p) PROVE ordinal'[q] = ordinal[q]
      BY <2>2, AssignType DEF Typed, OrdinalOf
    <2> QED  BY <1>1, <2>1, <2>2, PackageTaskIs
  <1>2. ASSUME NEW w \in Workers,
               \/ Take(w) \/ StartJob(w) \/ PlanCall(w) \/ ReserveQuota(w) \/ QuotaRefused(w)
               \/ Generate(w) \/ RecordResult(w) \/ CallSucceeded(w)
        PROVE  ordinal' = ordinal
    BY <1>2 DEF Take, StartJob, PlanCall, ReserveQuota, QuotaRefused, Generate, RecordResult,
       CallSucceeded, pools
  <1>3. ASSUME NEW w \in Workers,
               \/ CallFailed(w) \/ OutputRejected(w) \/ EndPackaging(w) \/ RecordArtifact(w)
               \/ AcceptJob(w) \/ FinishPaper(w) \/ Crash(w) \/ Restart(w)
        PROVE  ordinal' = ordinal
    BY <1>3 DEF CallFailed, OutputRejected, EndPackaging, RecordArtifact, AcceptJob, FinishPaper,
       Crash, Restart, pools
  <1>4. CASE Lapse \/ (\E p \in Pool : OtherFamily(p)) \/ UNCHANGED vars
    BY <1>4 DEF Lapse, OtherFamily, vars, pools
  <1> QED  BY <1>1, <1>2, <1>3, <1>4 DEF Next

LEMMA SplitKept ==
    ASSUME Typed, [Next]_vars, NEW r \in Artifact, SplitBy(r, ordinal)
    PROVE  SplitBy(r, ordinal')
  <1>1. PoolOf(r[1]) \in Pool
    BY PoolIs DEF Artifact
  <1> QED  BY <1>1, OrdinalsStay DEF SplitBy

LEMMA SplitStep == Recording /\ [Next]_vars => SplitsFollow'
  <1> SUFFICES ASSUME Recording, [Next]_vars PROVE SplitsFollow'
    OBVIOUS
  <1>1. Typed /\ Typed' /\ SplitsFollow
    BY TypedStep DEF Recording
  <1>2. \A v \in Workers : at[v] \in Point
    BY <1>1 DEF Typed, TypeOK
  <1>3. \A v \in Workers : \A r \in at[v].records : r \in Artifact /\ SplitBy(r, ordinal')
    <2> SUFFICES ASSUME NEW v \in Workers, NEW r \in at[v].records
                 PROVE  r \in Artifact /\ SplitBy(r, ordinal')
      OBVIOUS
    <2>1. r \in Artifact
      BY <1>2 DEF Point
    <2>2. SplitBy(r, ordinal)
      BY <1>1 DEF SplitsFollow
    <2> QED  BY <1>1, <2>1, <2>2, SplitKept
  <1>4. \A r \in artifacts' : SplitBy(r, ordinal')
    <2>1. \A r \in artifacts : SplitBy(r, ordinal')
      <3> SUFFICES ASSUME NEW r \in artifacts PROVE SplitBy(r, ordinal')
        OBVIOUS
      <3>1. r \in Artifact /\ SplitBy(r, ordinal)
        BY <1>1 DEF SplitsFollow, Typed, TypeOK
      <3> QED  BY <1>1, <3>1, SplitKept
    <2>2. CASE artifacts' = artifacts
      BY <2>1, <2>2
    <2>3. ASSUME NEW w \in Workers, RecordArtifact(w) PROVE \A r \in artifacts' : SplitBy(r, ordinal')
      BY <1>1, <1>3, <2>1, <2>3, RecordedIs
    <2> QED  BY <2>2, <2>3, OnlyGrows
  <1>5. ASSUME NEW v \in Workers, NEW r \in at'[v].records PROVE SplitBy(r, ordinal')
    <2>1. CASE r \in at[v].records
      BY <1>3, <2>1
    <2>2. CASE r[2] = "rejected"
      BY <2>2 DEF SplitBy
    <2>3. CASE Fresh(r)
      <3>1. PICK t \in Tasks : AssignPoolSplit(PoolOf(t)) /\ r = Packaged(t, OrdinalOf(PoolOf(t)))
        BY <2>3 DEF Fresh
      <3>2. PoolOf(t) \in Pool
        BY PoolIs
      <3>3. ordinal'[PoolOf(t)] = OrdinalOf(PoolOf(t))
        BY <1>1, <3>1, <3>2, AssignType DEF Typed
      <3>4. OrdinalOf(PoolOf(t)) \in Nat \ {0}
        BY <1>1, <3>2, OrdinalIs DEF Typed
      <3>5. r[1] = t /\ r[3] = Split(OrdinalOf(PoolOf(t)))
        BY <3>1 DEF Packaged
      <3> QED  BY <3>3, <3>4, <3>5 DEF SplitBy
    <2> QED  BY <1>1, <2>1, <2>2, <2>3, RecordsFrom
  <1> QED  BY <1>4, <1>5 DEF SplitsFollow

LEMMA RecordingInit == Init => Recording
  <1> SUFFICES ASSUME Init PROVE Recording
    OBVIOUS
  <1>1. artifacts = {} /\ \A w \in Workers : at[w].records = {}
    BY DEF Init, Idle
  <1> QED  BY <1>1, TypeInit DEF Recording, ArtifactsEarned, SplitsFollow

LEMMA RecordingStep == Recording /\ [Next]_vars => Recording'
  BY TypedStep, EarnedStep, SplitStep DEF Recording

LEMMA RecordingSplits == Recording => OneSplit
  BY DEF Recording, SplitsFollow, SplitBy, OneSplit

-----------------------------------------------------------------------------
(* While no lease is lost at work. *)

NoLapse == faults["lapse"] = 0
Calm == NoLapse /\ faults["crash"] = 0

(* The steps of a worker at work, and those that give its paper up. *)
Works(w) ==
    \/ StartJob(w) \/ PlanCall(w) \/ ReserveQuota(w) \/ Generate(w) \/ RecordResult(w)
    \/ CallSucceeded(w) \/ OutputRejected(w) \/ PackageTask(w) \/ EndPackaging(w)
    \/ RecordArtifact(w) \/ AcceptJob(w)
Leaves(w) == QuotaRefused(w) \/ CallFailed(w) \/ FinishPaper(w)

LEMMA NextIs ==
    ASSUME [Next]_vars
    PROVE  \/ UNCHANGED vars \/ Lapse \/ \E p \in Pool : OtherFamily(p)
           \/ \E w \in Workers : Take(w) \/ Works(w) \/ Leaves(w) \/ Crash(w) \/ Restart(w)
  BY DEF Next, Works, Leaves

LEMMA OthersStay ==
    ASSUME TypeOK, NEW w \in Workers,
           Take(w) \/ Works(w) \/ Leaves(w) \/ Crash(w) \/ Restart(w)
    PROVE  \A v \in Workers : v # w => at'[v] = at[v]
  <1> DEFINE Rest == \A v \in Workers : v # w => at'[v] = at[v]
  <1>1. ASSUME NEW p, Go(w, p) PROVE Rest
    BY <1>1, GoOthers
  <1>2. ASSUME at' = at PROVE Rest
    BY <1>2
  <1> HIDE DEF Rest
  <1>3. ASSUME Take(w) \/ Crash(w) \/ Restart(w) PROVE Rest
    BY <1>1, <1>3 DEF Take, Crash, Restart
  <1>4. ASSUME Leaves(w) PROVE Rest
    BY <1>1, <1>4 DEF Leaves, QuotaRefused, CallFailed, FinishPaper, Abandon
  <1>5. ASSUME StartJob(w) \/ PlanCall(w) \/ ReserveQuota(w) PROVE Rest
    BY <1>1, <1>5 DEF StartJob, PlanCall, ReserveQuota
  <1>6. ASSUME Generate(w) \/ RecordResult(w) \/ CallSucceeded(w) \/ OutputRejected(w) PROVE Rest
    BY <1>1, <1>6 DEF Generate, RecordResult, CallSucceeded, OutputRejected
  <1>7. ASSUME PackageTask(w) PROVE Rest
    BY <1>1, <1>7 DEF PackageTask
  <1>8. ASSUME EndPackaging(w) \/ AcceptJob(w) PROVE Rest
    BY <1>1, <1>8 DEF EndPackaging, AcceptJob
  <1>9. ASSUME RecordArtifact(w) PROVE Rest
    <2>1. at' = at \/ Go(w, [at[w] EXCEPT !.pc = "accept"])
      BY <1>9 DEF RecordArtifact
    <2> QED  BY <1>1, <1>2, <2>1
  <1>10. Rest
    BY <1>3, <1>4, <1>5, <1>6, <1>7, <1>8, <1>9 DEF Works
  <1> QED  BY <1>10 DEF Rest

(* A worker at work keeps its claim; one that gives up was at work. *)
LEMMA WorksKeeps ==
    ASSUME NEW w \in Workers, Works(w)
    PROVE  at[w].pc \notin Away /\ owner' = owner /\ finished' = finished
  <1>1. CASE StartJob(w) \/ PlanCall(w) \/ ReserveQuota(w) \/ Generate(w)
    BY <1>1 DEF StartJob, PlanCall, ReserveQuota, Generate, Away
  <1>2. CASE RecordResult(w) \/ CallSucceeded(w) \/ OutputRejected(w) \/ PackageTask(w)
    BY <1>2 DEF RecordResult, CallSucceeded, OutputRejected, PackageTask, Away
  <1>3. CASE EndPackaging(w) \/ RecordArtifact(w) \/ AcceptJob(w)
    BY <1>3 DEF EndPackaging, RecordArtifact, AcceptJob, Away
  <1> QED  BY <1>1, <1>2, <1>3 DEF Works

LEMMA LeavesGivesUp ==
    ASSUME TypeOK, NEW w \in Workers, Leaves(w)
    PROVE  /\ at[w].pc \notin Away /\ at'[w] = Idle
           /\ owner' = IF owner = w THEN None ELSE owner
           /\ finished' = finished \/ FinishPaper(w)
  <1>1. Abandon(w)
    BY DEF Leaves, QuotaRefused, CallFailed, FinishPaper
  <1>2. at'[w] = Idle /\ owner' = IF owner = w THEN None ELSE owner
    BY <1>1, GoOthers DEF Abandon
  <1>3. at[w].pc \notin Away /\ (finished' = finished \/ FinishPaper(w))
    BY DEF Leaves, QuotaRefused, CallFailed, FinishPaper, Away
  <1> QED  BY <1>2, <1>3

(* A fault that happened is not forgotten. *)
LEMMA FaultsStay ==
    ASSUME TypeOK, [Next]_vars
    PROVE  /\ NoLapse' => NoLapse
           /\ Calm' => Calm
  <1>1. \A f \in Fault : faults[f] \in Nat
    BY DEF TypeOK
  <1>2. faults' = faults \/ \E f \in Fault : Fails(f)
    <2>1. CASE UNCHANGED vars \/ Lapse \/ \E p \in Pool : OtherFamily(p)
      BY <2>1 DEF vars, Lapse, OtherFamily, Fault
    <2>2. ASSUME NEW w \in Workers, Take(w) \/ Crash(w) \/ Restart(w) \/ Leaves(w)
          PROVE  faults' = faults \/ \E f \in Fault : Fails(f)
      BY <2>2 DEF Take, Crash, Restart, Leaves, QuotaRefused, CallFailed, FinishPaper, Fault
    <2>3. ASSUME NEW w \in Workers,
                 \/ StartJob(w) \/ PlanCall(w) \/ ReserveQuota(w) \/ Generate(w)
                 \/ RecordResult(w) \/ CallSucceeded(w)
          PROVE  faults' = faults \/ \E f \in Fault : Fails(f)
      BY <2>3 DEF StartJob, PlanCall, ReserveQuota, Generate, RecordResult, CallSucceeded, Fault
    <2>4. ASSUME NEW w \in Workers,
                 \/ OutputRejected(w) \/ PackageTask(w) \/ EndPackaging(w)
                 \/ RecordArtifact(w) \/ AcceptJob(w)
          PROVE  faults' = faults \/ \E f \in Fault : Fails(f)
      BY <2>4 DEF OutputRejected, PackageTask, EndPackaging, RecordArtifact, AcceptJob
    <2> QED  BY <2>1, <2>2, <2>3, <2>4, NextIs DEF Works
  <1>3. \A f \in Fault : faults'[f] = 0 => faults[f] = 0
    <2>1. CASE faults' = faults
      BY <2>1
    <2>2. ASSUME NEW g \in Fault, Fails(g) PROVE \A f \in Fault : faults'[f] = 0 => faults[f] = 0
      <3>1. \A f \in Fault : f # g => faults'[f] = faults[f]
        BY <2>2, FailsType
      <3>2. faults'[g] # 0
        <4>1. faults[g] < faults'[g] /\ faults'[g] \in 0..FaultLimit
          BY <2>2, FailsType
        <4> QED  BY <1>1, <4>1
      <3> QED  BY <3>1, <3>2
    <2> QED  BY <1>2, <2>1, <2>2
  <1> QED  BY <1>3 DEF NoLapse, Calm, Fault

(* The paper is with the worker that is at work. *)
Owned ==
    NoLapse => /\ \A w \in Workers : at[w].pc \notin Away => owner = w
               /\ finished => owner = None

LEMMA AloneAtWork ==
    ASSUME Owned, NoLapse, NEW w \in Workers, at[w].pc \notin Away
    PROVE  owner = w /\ ~finished /\ \A v \in Workers : v # w => at[v].pc \in Away
  BY JobsAssumption DEF Owned

LEMMA OwnedStep == Typed /\ Owned /\ [Next]_vars => Owned'
  <1> SUFFICES ASSUME Typed, Owned, [Next]_vars, NoLapse'
               PROVE  /\ \A v \in Workers : at'[v].pc \notin Away => owner' = v
                      /\ finished' => owner' = None
    BY DEF Owned
  <1> DEFINE Goal == /\ \A v \in Workers : at'[v].pc \notin Away => owner' = v
                     /\ finished' => owner' = None
  <1>1. TypeOK /\ NoLapse
    BY FaultsStay DEF Typed
  <1>2. /\ \A v \in Workers : at[v].pc \notin Away => owner = v
        /\ finished => owner = None
    BY <1>1 DEF Owned
  <1>3. CASE UNCHANGED vars \/ \E p \in Pool : OtherFamily(p)
    BY <1>2, <1>3 DEF vars, OtherFamily
  <1>4. CASE Lapse
    <2>1. at[owner].pc \in Away
      <3> SUFFICES ASSUME at[owner].pc \notin Away PROVE FALSE
        OBVIOUS
      <3>1. Fails("lapse")
        BY <1>4 DEF Lapse
      <3>2. faults["lapse"] < faults'["lapse"] /\ faults["lapse"] \in Nat /\ faults'["lapse"] = 0
        BY <1>1, <3>1, FailsType DEF TypeOK, Fault, NoLapse
      <3> QED  BY <3>2
    <2>2. \A v \in Workers : at[v].pc \in Away
      BY <1>2, <2>1
    <2> QED  BY <1>4, <2>2 DEF Lapse
  <1>5. ASSUME NEW w \in Workers, Take(w) PROVE Goal
    <2>1. owner = None /\ ~finished /\ owner' = w /\ finished' = finished
      BY <1>5 DEF Take
    <2>2. \A v \in Workers : at[v].pc \in Away
      BY <1>2, <2>1, JobsAssumption
    <2>3. \A v \in Workers : v # w => at'[v] = at[v]
      BY <1>1, <1>5, OthersStay
    <2> QED  BY <2>1, <2>2, <2>3
  <1>6. ASSUME NEW w \in Workers, Works(w) PROVE Goal
    <2>1. \A v \in Workers : v # w => at'[v] = at[v]
      BY <1>1, <1>6, OthersStay
    <2>2. at[w].pc \notin Away /\ owner' = owner /\ finished' = finished
      BY <1>6, WorksKeeps
    <2> QED  BY <1>2, <2>1, <2>2
  <1>7. ASSUME NEW w \in Workers, Leaves(w) PROVE Goal
    <2>1. \A v \in Workers : v # w => at'[v] = at[v]
      BY <1>1, <1>7, OthersStay
    <2>2. at[w].pc \notin Away /\ at'[w].pc \in Away /\ owner' = IF owner = w THEN None ELSE owner
      BY <1>1, <1>7, LeavesGivesUp DEF Idle, Away
    <2>3. owner = w /\ \A v \in Workers : v # w => at[v].pc \in Away
      BY <1>1, <2>2, AloneAtWork
    <2> QED  BY <2>1, <2>2, <2>3
  <1>8. ASSUME NEW w \in Workers, Crash(w) \/ Restart(w) PROVE Goal
    <2>1. \A v \in Workers : v # w => at'[v] = at[v]
      BY <1>1, <1>8, OthersStay
    <2>2. at'[w].pc \in Away
      BY <1>1, <1>8, GoOthers DEF Crash, Restart, Away, Idle
    <2>3. owner' = owner /\ finished' = finished
      BY <1>8 DEF Crash, Restart
    <2> QED  BY <1>2, <2>1, <2>2, <2>3
  <1> QED  BY <1>3, <1>4, <1>5, <1>6, <1>7, <1>8, NextIs

(* Where each step leads its worker. *)
LEMMA Leads ==
    ASSUME Typed, NEW w \in Workers
    PROVE  /\ StartJob(w) => at'[w].pc = IF state \in Terminal THEN "finish" ELSE "plan"
           /\ PlanCall(w) /\ at[w].key \in results => at'[w].pc \in {"plan", "package"}
           /\ PlanCall(w) /\ at[w].key \notin results =>
                at'[w].pc = "reserve" /\ at'[w].key = at[w].key /\ at'[w].attempt = NextAttempt
           /\ ReserveQuota(w) \/ Generate(w) \/ RecordResult(w) =>
                /\ at'[w].pc \in Begun /\ at'[w].key = at[w].key /\ at'[w].attempt = at[w].attempt
                /\ RecordResult(w) => at'[w].pc = "succeed"
           /\ CallSucceeded(w) => at'[w].pc \in {"plan", "package"}
           /\ OutputRejected(w) => at'[w].pc = "finish"
           /\ PackageTask(w) => at'[w].pc \in {"plan", "package"}
           /\ EndPackaging(w) => at'[w].pc = "record"
           /\ RecordArtifact(w) => at'[w].pc \in {"record", "accept"}
           /\ AcceptJob(w) => at'[w].pc \in {"finish", "accept_rl"}
           /\ Take(w) => at'[w].pc = "open"
           /\ Leaves(w) \/ Restart(w) => at'[w].pc = "idle"
           /\ Crash(w) => at'[w].pc = "down"
  <1>1. at[w] \in Point /\ TypeOK
    BY DEF Typed, TypeOK
  <1>2. \A p : Go(w, p) => at'[w] = p
    BY <1>1, GoOthers
  <1>3. \A q : [Idle EXCEPT !.pc = q].pc = q
    BY DEF Idle
  <1>4. \A q : [at[w] EXCEPT !.pc = q].pc = q /\ [at[w] EXCEPT !.pc = q].key = at[w].key
               /\ [at[w] EXCEPT !.pc = q].attempt = at[w].attempt
    BY <1>1 DEF Point
  <1>5. \A q : Go(w, [Idle EXCEPT !.pc = q]) => at'[w].pc = q
    BY <1>2, <1>3
  <1>6. \A q : Go(w, [at[w] EXCEPT !.pc = q]) =>
            at'[w].pc = q /\ at'[w].key = at[w].key /\ at'[w].attempt = at[w].attempt
    <2> SUFFICES ASSUME NEW q, Go(w, [at[w] EXCEPT !.pc = q])
                 PROVE  at'[w].pc = q /\ at'[w].key = at[w].key /\ at'[w].attempt = at[w].attempt
      OBVIOUS
    <2> DEFINE p == [at[w] EXCEPT !.pc = q]
    <2>1. p.pc = q /\ p.key = at[w].key /\ p.attempt = at[w].attempt
      BY <1>4
    <2>2. Go(w, p)
      OBVIOUS
    <2> HIDE DEF p
    <2> QED  BY <1>2, <2>1, <2>2
  <1>7. StartJob(w) => at'[w].pc = IF state \in Terminal THEN "finish" ELSE "plan"
    <2>1. CASE state \in Terminal
      BY <1>5, <2>1 DEF StartJob
    <2>2. CASE state \notin Terminal
      <3> DEFINE q == [Idle EXCEPT !.pc = "plan", !.key = <<"graph", None>>]
      <3>1. q.pc = "plan"
        BY DEF Idle
      <3>2. StartJob(w) => Go(w, q)
        BY <2>2 DEF StartJob
      <3> HIDE DEF q
      <3> QED  BY <1>2, <2>2, <3>1, <3>2
    <2> QED  BY <2>1, <2>2
  <1>8. PlanCall(w) /\ at[w].key \in results => at'[w].pc \in {"plan", "package"}
    <2> SUFFICES ASSUME PlanCall(w), at[w].key \in results PROVE at'[w].pc \in {"plan", "package"}
      OBVIOUS
    <2>1. Stage(at[w], results, fate)
      BY WorkType DEF PlanCall
    <2>2. Answered(at[w]).pc \in {"plan", "package"}
      BY <1>1, <2>1, AnsweredPlaced
    <2> QED  BY <1>2, <2>2 DEF PlanCall, Cached
  <1>9. PlanCall(w) /\ at[w].key \notin results =>
            at'[w].pc = "reserve" /\ at'[w].key = at[w].key /\ at'[w].attempt = NextAttempt
    <2> DEFINE q == [at[w] EXCEPT !.pc = "reserve", !.attempt = NextAttempt]
    <2>1. q.pc = "reserve" /\ q.key = at[w].key /\ q.attempt = NextAttempt
      BY <1>1 DEF Point
    <2>2. PlanCall(w) /\ at[w].key \notin results => Go(w, q)
      BY DEF PlanCall, Cached
    <2> HIDE DEF q
    <2> QED  BY <1>2, <2>1, <2>2
  <1>10. ReserveQuota(w) \/ Generate(w) \/ RecordResult(w) =>
                /\ at'[w].pc \in Begun /\ at'[w].key = at[w].key /\ at'[w].attempt = at[w].attempt
                /\ RecordResult(w) => at'[w].pc = "succeed"
    <2>1. ReserveQuota(w) => Go(w, [at[w] EXCEPT !.pc = "generate"])
      BY DEF ReserveQuota
    <2>2. Generate(w) => Go(w, [at[w] EXCEPT !.pc = "store"]) \/ Go(w, [at[w] EXCEPT !.pc = "malformed"])
      BY DEF Generate
    <2>3. RecordResult(w) => Go(w, [at[w] EXCEPT !.pc = "succeed"])
      BY DEF RecordResult
    <2> QED  BY <1>6, <2>1, <2>2, <2>3 DEF Begun, Calling
  <1>11. CallSucceeded(w) => at'[w].pc \in {"plan", "package"}
    <2> SUFFICES ASSUME CallSucceeded(w) PROVE at'[w].pc \in {"plan", "package"}
      OBVIOUS
    <2>1. Stage(at[w], results, fate)
      BY WorkType DEF CallSucceeded, Calling
    <2>2. at[w].key \in results
      BY DEF CallSucceeded, Typed, WorkPlaced, Placed
    <2>3. Answered(at[w]).pc \in {"plan", "package"}
      BY <1>1, <2>1, <2>2, AnsweredPlaced
    <2> QED  BY <1>2, <2>3 DEF CallSucceeded
  <1>12. PackageTask(w) => at'[w].pc \in {"plan", "package"}
    <2> SUFFICES ASSUME PackageTask(w) PROVE at'[w].pc \in {"plan", "package"}
      OBVIOUS
    <2>1. PICK t : \/ Go(w, [at[w] EXCEPT !.pc = "plan", !.key = <<"verify", t>>])
                   \/ \E r : Go(w, Recorded(w, t, r))
      BY PackageTaskIs
    <2>2. CASE Go(w, [at[w] EXCEPT !.pc = "plan", !.key = <<"verify", t>>])
      <3> DEFINE q == [at[w] EXCEPT !.pc = "plan", !.key = <<"verify", t>>]
      <3>1. q.pc = "plan"
        BY <1>1 DEF Point
      <3>2. Go(w, q)
        BY <2>2
      <3> HIDE DEF q
      <3> QED  BY <1>2, <3>1, <3>2
    <2>3. CASE \E r : Go(w, Recorded(w, t, r))
      <3>1. \A r : Recorded(w, t, r).pc = "package"
        BY <1>1 DEF Recorded, Point, PackageTask
      <3> QED  BY <1>2, <2>3, <3>1
    <2> QED  BY <2>1, <2>2, <2>3
  <1>13. RecordArtifact(w) => at'[w].pc \in {"record", "accept"}
    <2>1. RecordArtifact(w) => at[w].pc = "record" /\ (at' = at \/ Go(w, [at[w] EXCEPT !.pc = "accept"]))
      BY DEF RecordArtifact
    <2> QED  BY <1>6, <2>1
  <1>14. /\ OutputRejected(w) => at'[w].pc = "finish"
         /\ EndPackaging(w) => at'[w].pc = "record"
         /\ AcceptJob(w) => at'[w].pc \in {"finish", "accept_rl"}
    BY <1>5, <1>6 DEF OutputRejected, EndPackaging, AcceptJob
  <1>15. /\ Take(w) => at'[w].pc = "open"
         /\ Crash(w) => at'[w].pc = "down"
         /\ Leaves(w) \/ Restart(w) => at'[w].pc = "idle"
    <2>1. Idle.pc = "idle"
      BY DEF Idle
    <2>2. Leaves(w) \/ Restart(w) => at'[w] = Idle
      BY <1>1, <1>2, LeavesGivesUp DEF Restart
    <2> QED  BY <1>5, <2>1, <2>2 DEF Take, Crash
  <1> QED  BY <1>7, <1>8, <1>9, <1>10, <1>11, <1>12, <1>13, <1>14, <1>15

(* A result is stored once: a call is only made for a key without one. *)
Unanswered == Calling \ {"succeed"}
Counted ==
    NoLapse => /\ \A k \in Keys : paid[k] = IF k \in results THEN 1 ELSE 0
               /\ \A w \in Workers : at[w].pc \in Unanswered => at[w].key \notin results

(* Only RecordResult stores results. *)
LEMMA ResultsStay ==
    ASSUME [Next]_vars
    PROVE  (results' = results /\ paid' = paid) \/ \E w \in Workers : RecordResult(w)
  <1>1. CASE UNCHANGED vars \/ Lapse \/ \E p \in Pool : OtherFamily(p)
    BY <1>1 DEF vars, Lapse, OtherFamily, job
  <1>2. ASSUME NEW w \in Workers, Take(w) \/ Leaves(w) \/ Crash(w) \/ Restart(w)
        PROVE  results' = results /\ paid' = paid
    BY <1>2 DEF Take, Leaves, QuotaRefused, CallFailed, FinishPaper, Crash, Restart, job
  <1>3. ASSUME NEW w \in Workers,
               StartJob(w) \/ PlanCall(w) \/ ReserveQuota(w) \/ Generate(w) \/ CallSucceeded(w)
        PROVE  results' = results /\ paid' = paid
    BY <1>3 DEF StartJob, PlanCall, ReserveQuota, Generate, CallSucceeded, job
  <1>4. ASSUME NEW w \in Workers,
               \/ OutputRejected(w) \/ PackageTask(w) \/ EndPackaging(w) \/ RecordArtifact(w)
               \/ AcceptJob(w)
        PROVE  results' = results /\ paid' = paid
    BY <1>4 DEF OutputRejected, PackageTask, EndPackaging, RecordArtifact, AcceptJob, job
  <1> QED  BY <1>1, <1>2, <1>3, <1>4, NextIs DEF Works

LEMMA CountedStep == Typed /\ Owned /\ Counted /\ [Next]_vars => Counted'
  <1> SUFFICES ASSUME Typed, Owned, Counted, [Next]_vars, NoLapse' PROVE Counted'
    BY DEF Counted
  <1>1. TypeOK /\ NoLapse
    BY FaultsStay DEF Typed
  <1>2. \A w \in Workers : at[w].pc \in Unanswered => at[w].key \notin results
    BY <1>1 DEF Counted
  <1>3. \A k \in Keys : paid[k] = IF k \in results THEN 1 ELSE 0
    BY <1>1 DEF Counted
  <1>4. CASE UNCHANGED vars \/ Lapse \/ \E p \in Pool : OtherFamily(p)
    <2>1. results' = results /\ paid' = paid /\ at' = at
      BY <1>4 DEF vars, Lapse, OtherFamily, job
    <2> QED  BY <1>2, <1>3, <2>1 DEF Counted
  <1>5. ASSUME NEW w \in Workers, RecordResult(w) PROVE Counted'
    <2>1. at[w].pc = "store" /\ at[w].key \in Keys
      BY <1>5, WorkType DEF RecordResult, Calling
    <2>2. at[w].key \notin results
      BY <1>2, <2>1 DEF Unanswered, Calling
    <2>3. \A v \in Workers : v # w => at[v].pc \in Away /\ at'[v] = at[v]
      BY <1>1, <1>5, <2>1, AloneAtWork, OthersStay DEF Away, Works
    <2>4. at'[w].pc = "succeed"
      BY <1>5, Leads
    <2>5. \A v \in Workers : at'[v].pc \notin Unanswered
      BY <2>3, <2>4 DEF Unanswered, Calling, Away
    <2>6. results' = results \cup {at[w].key} /\ paid' = [paid EXCEPT ![at[w].key] = @ + 1]
      BY <1>5 DEF RecordResult
    <2>7. paid \in [Keys -> Nat]
      BY <1>1 DEF TypeOK
    <2>8. \A k \in Keys : paid'[k] = IF k \in results' THEN 1 ELSE 0
      BY <1>3, <2>1, <2>2, <2>6, <2>7
    <2> QED  BY <2>5, <2>8 DEF Counted
  <1>6. ASSUME NEW w \in Workers, results' = results, paid' = paid,
               Take(w) \/ Works(w) \/ Leaves(w) \/ Crash(w) \/ Restart(w)
        PROVE  Counted'
    <2>1. at'[w].pc \in Unanswered => at'[w].key \notin results
      <3>1. CASE PlanCall(w) /\ at[w].key \notin results
        BY <3>1, Leads
      <3>2. CASE ReserveQuota(w) \/ Generate(w)
        <4>1. at[w].pc \in Unanswered
          BY <3>2 DEF ReserveQuota, Generate, Unanswered, Calling
        <4> QED  BY <1>2, <3>2, <4>1, Leads
      <3>3. CASE RecordResult(w)
        BY <3>3, Leads DEF Unanswered
      <3>4. CASE \/ StartJob(w) \/ CallSucceeded(w) \/ OutputRejected(w) \/ PackageTask(w)
                 \/ EndPackaging(w) \/ RecordArtifact(w) \/ AcceptJob(w)
                 \/ (PlanCall(w) /\ at[w].key \in results)
        <4>1. at'[w].pc \in {"finish", "plan", "package", "record", "accept", "accept_rl"}
          BY <3>4, Leads
        <4> QED  BY <4>1 DEF Unanswered, Calling
      <3>5. CASE Take(w) \/ Leaves(w) \/ Crash(w) \/ Restart(w)
        <4>1. at'[w].pc \in {"open", "idle", "down"}
          BY <3>5, Leads
        <4> QED  BY <4>1 DEF Unanswered, Calling
      <3> QED  BY <1>6, <3>1, <3>2, <3>3, <3>4, <3>5 DEF Works
    <2>2. \A v \in Workers : v # w => at'[v] = at[v]
      BY <1>1, <1>6, OthersStay
    <2> QED  BY <1>2, <1>3, <1>6, <2>1, <2>2 DEF Counted
  <1> QED  BY <1>4, <1>5, <1>6, NextIs, ResultsStay

(* How a job ends: nobody works on one that has ended, and it says what its   *)
(* artifacts are.                                                          *)
Ended ==
    NoLapse =>
        /\ finished => state \in Terminal
        /\ state \in Terminal => \A w \in Workers : at[w].pc \in Idling \cup {"accept_rl"}
        /\ \A w \in Workers : at[w].pc = "finish" => state \in Terminal
        /\ \A w \in Workers : at[w].pc = "accept_rl" => state = "ACCEPTED_SFT"

Backed ==
    NoLapse =>
        /\ state = "ACCEPTED_SFT" => Accepted(artifacts, SftTasks)
        /\ state = "ACCEPTED_RL" => Accepted(artifacts, RlTasks)
        /\ state = "REJECTED" => ~Accepted(artifacts, Tasks)

(* The steps on a job that has not ended. *)
Proceeds(w) ==
    \/ (StartJob(w) /\ state \notin Terminal)
    \/ PlanCall(w) \/ ReserveQuota(w) \/ QuotaRefused(w) \/ Generate(w) \/ RecordResult(w)
    \/ CallSucceeded(w) \/ CallFailed(w) \/ PackageTask(w) \/ EndPackaging(w)
    \/ RecordArtifact(w)

LEMMA ProceedsIs ==
    ASSUME Typed, Owned, Ended, NoLapse, NEW w \in Workers, Proceeds(w)
    PROVE  /\ state \notin Terminal /\ state' \notin Terminal /\ ~finished /\ ~finished'
           /\ at[w].pc \notin Away /\ at'[w].pc \notin {"finish", "accept_rl", "down"}
           /\ \A v \in Workers : v # w => at[v].pc \in Away /\ at'[v] = at[v]
  <1>1. at[w].pc \notin Away /\ (StartJob(w) \/ at[w].pc \notin Idling \cup {"accept_rl"})
    <2>1. CASE PlanCall(w) \/ ReserveQuota(w) \/ QuotaRefused(w) \/ Generate(w) \/ RecordResult(w)
      BY <2>1 DEF PlanCall, ReserveQuota, QuotaRefused, Generate, RecordResult, Away, Idling
    <2>2. CASE \/ CallSucceeded(w) \/ CallFailed(w) \/ PackageTask(w) \/ EndPackaging(w)
               \/ RecordArtifact(w)
      BY <2>2 DEF CallSucceeded, CallFailed, PackageTask, EndPackaging, RecordArtifact, Away, Idling
    <2> QED  BY <2>1, <2>2 DEF Proceeds, StartJob, Away
  <1>2. state \notin Terminal
    <2>1. CASE StartJob(w) /\ at[w].pc \in Idling \cup {"accept_rl"}
      <3>1. at[w].pc = "open"
        BY <2>1 DEF StartJob
      <3>2. Proceeds(w) => state \notin Terminal \/ at[w].pc # "open"
        BY DEF Proceeds, PlanCall, ReserveQuota, QuotaRefused, Generate, RecordResult, CallSucceeded,
           CallFailed, PackageTask, EndPackaging, RecordArtifact
      <3> QED  BY <3>1, <3>2
    <2>2. CASE at[w].pc \notin Idling \cup {"accept_rl"}
      BY <2>2 DEF Ended
    <2> QED  BY <1>1, <2>1, <2>2
  <1>3. state' \notin Terminal
    <2>1. "working" \notin Terminal
      BY DEF Terminal
    <2>2. CASE StartJob(w) \/ PlanCall(w) \/ ReserveQuota(w) \/ QuotaRefused(w) \/ Generate(w)
      BY <1>2, <2>1, <2>2 DEF StartJob, PlanCall, ReserveQuota, QuotaRefused, Generate, job
    <2>3. CASE \/ RecordResult(w) \/ CallSucceeded(w) \/ CallFailed(w) \/ PackageTask(w)
               \/ EndPackaging(w) \/ RecordArtifact(w)
      BY <1>2, <2>1, <2>3 DEF RecordResult, CallSucceeded, CallFailed, PackageTask, EndPackaging,
         RecordArtifact, job
    <2> QED  BY <2>2, <2>3 DEF Proceeds
  <1>4. ~finished /\ \A v \in Workers : v # w => at[v].pc \in Away
    BY <1>1, AloneAtWork
  <1>5. \A v \in Workers : v # w => at'[v] = at[v]
    BY OthersStay DEF Proceeds, Works, Leaves, Typed
  <1>6. finished' = finished
    <2>1. CASE QuotaRefused(w) \/ CallFailed(w)
      BY <2>1 DEF QuotaRefused, CallFailed
    <2>2. CASE Works(w)
      BY <2>2, WorksKeeps
    <2> QED  BY <2>1, <2>2 DEF Proceeds, Works
  <1>7. at'[w].pc \notin {"finish", "accept_rl", "down"}
    <2>1. CASE QuotaRefused(w) \/ CallFailed(w)
      <3>1. at'[w].pc = "idle"
        BY <2>1, Leads DEF Leaves
      <3> QED  BY <3>1
    <2>2. CASE ReserveQuota(w) \/ Generate(w) \/ RecordResult(w)
      <3>1. at'[w].pc \in Begun
        BY <2>2, Leads
      <3> QED  BY <3>1 DEF Begun, Calling
    <2>3. CASE \/ (StartJob(w) /\ state \notin Terminal) \/ PlanCall(w) \/ CallSucceeded(w)
               \/ PackageTask(w) \/ EndPackaging(w) \/ RecordArtifact(w)
      <3>1. at'[w].pc \in {"plan", "package", "reserve", "record", "accept"}
        BY <2>3, Leads
      <3> QED  BY <3>1
    <2> QED  BY <2>1, <2>2, <2>3 DEF Proceeds
  <1> QED  BY <1>1, <1>2, <1>3, <1>4, <1>5, <1>6, <1>7

(* Every other step, and what it does to the job. *)
LEMMA Steps ==
    ASSUME [Next]_vars
    PROVE  \/ UNCHANGED vars \/ Lapse \/ \E p \in Pool : OtherFamily(p)
           \/ \E w \in Workers :
                 \/ Take(w) \/ Proceeds(w) \/ (StartJob(w) /\ state \in Terminal)
                 \/ OutputRejected(w) \/ AcceptJob(w) \/ FinishPaper(w) \/ Crash(w) \/ Restart(w)
  BY NextIs DEF Works, Leaves, Proceeds

LEMMA EndedStep == Typed /\ Owned /\ Ended /\ [Next]_vars => Ended'
  <1> SUFFICES ASSUME Typed, Owned, Ended, [Next]_vars, NoLapse' PROVE Ended'
    BY DEF Ended
  <1>1. TypeOK /\ NoLapse
    BY FaultsStay DEF Typed
  <1>2. /\ finished => state \in Terminal
        /\ state \in Terminal => \A w \in Workers : at[w].pc \in Idling \cup {"accept_rl"}
        /\ \A w \in Workers : at[w].pc = "finish" => state \in Terminal
        /\ \A w \in Workers : at[w].pc = "accept_rl" => state = "ACCEPTED_SFT"
    BY <1>1 DEF Ended
  <1>3. CASE UNCHANGED vars \/ Lapse \/ \E p \in Pool : OtherFamily(p)
    <2>1. finished' = finished /\ state' = state /\ at' = at
      BY <1>3 DEF vars, Lapse, OtherFamily, job
    <2> QED  BY <1>2, <2>1 DEF Ended
  <1>4. ASSUME NEW w \in Workers, Proceeds(w) PROVE Ended'
    <2>1. /\ state' \notin Terminal /\ ~finished' /\ at'[w].pc \notin {"finish", "accept_rl"}
          /\ \A v \in Workers : v # w => at[v].pc \in Away /\ at'[v] = at[v]
      BY <1>1, <1>4, ProceedsIs
    <2>2. \A v \in Workers : at'[v].pc \notin {"finish", "accept_rl"}
      BY <2>1 DEF Away
    <2> QED  BY <2>1, <2>2 DEF Ended
  <1>5. ASSUME NEW w \in Workers, state' = state, finished' = finished,
               Take(w) \/ (StartJob(w) /\ state \in Terminal) \/ Crash(w) \/ Restart(w)
        PROVE  Ended'
    <2>1. \A v \in Workers : v # w => at'[v] = at[v]
      BY <1>1, <1>5, OthersStay DEF Works
    <2>2. at'[w].pc \in Idling /\ (at'[w].pc = "finish" => state \in Terminal)
      BY <1>5, Leads DEF Idling
    <2>3. at'[w].pc # "accept_rl"
      BY <2>2 DEF Idling
    <2> QED  BY <1>2, <1>5, <2>1, <2>2, <2>3 DEF Ended
  <1>6. ASSUME NEW w \in Workers, OutputRejected(w) \/ AcceptJob(w) PROVE Ended'
    <2>1. at[w].pc \notin Away /\ finished' = finished /\ \A v \in Workers : v # w => at'[v] = at[v]
      BY <1>1, <1>6, WorksKeeps, OthersStay DEF Works
    <2>2. ~finished /\ \A v \in Workers : v # w => at[v].pc \in Away
      BY <1>1, <2>1, AloneAtWork
    <2>3. state' \in Terminal
      BY <1>6 DEF OutputRejected, AcceptJob, Terminal
    <2>4. at'[w].pc \in {"finish", "accept_rl"}
      BY <1>6, Leads
    <2>5. at'[w].pc = "accept_rl" => state' = "ACCEPTED_SFT"
      <3>1. CASE OutputRejected(w)
        BY <3>1, Leads
      <3>2. CASE AcceptJob(w)
        <4>1. \/ state' = "ACCEPTED_SFT" /\ Go(w, [at[w] EXCEPT !.pc = "accept_rl"])
              \/ Go(w, [Idle EXCEPT !.pc = "finish"])
          BY <3>2 DEF AcceptJob
        <4>2. Go(w, [Idle EXCEPT !.pc = "finish"]) => at'[w].pc = "finish"
          BY <1>1, GoOthers DEF Idle
        <4> QED  BY <4>1, <4>2
      <3> QED  BY <1>6, <3>1, <3>2
    <2>6. \A v \in Workers : v # w => at'[v].pc \in Idling /\ at'[v].pc \notin {"finish", "accept_rl"}
      BY <2>1, <2>2 DEF Away, Idling
    <2>7. at'[w].pc \in Idling \cup {"accept_rl"}
      BY <2>4 DEF Idling
    <2> QED  BY <2>1, <2>2, <2>3, <2>5, <2>6, <2>7 DEF Ended
  <1>7. ASSUME NEW w \in Workers, FinishPaper(w) PROVE Ended'
    <2>1. state' = state /\ state \in Terminal
      BY <1>2, <1>7 DEF FinishPaper, job
    <2>2. at'[w].pc = "idle"
      BY <1>7, Leads DEF Leaves
    <2>3. \A v \in Workers : v # w => at'[v] = at[v]
      BY <1>1, <1>7, OthersStay DEF Leaves
    <2> QED  BY <1>2, <2>1, <2>2, <2>3 DEF Ended, Idling
  <1>8. ASSUME NEW w \in Workers, Restart(w), state' # state PROVE Ended'
    <2>1. owner = None /\ ~finished /\ state \notin Terminal /\ state' = "working"
      BY <1>8 DEF Restart, Interrupted
    <2>2. \A v \in Workers : at[v].pc \in Away
      BY <1>1, <2>1, JobsAssumption DEF Owned
    <2>3. \A v \in Workers : at'[v].pc \in Away
      <3>1. at'[w].pc = "idle" /\ \A v \in Workers : v # w => at'[v] = at[v]
        BY <1>1, <1>8, Leads, OthersStay
      <3> QED  BY <2>2, <3>1 DEF Away
    <2>4. finished' = finished
      BY <1>8 DEF Restart
    <2> QED  BY <2>1, <2>3, <2>4 DEF Ended, Away, Terminal
  <1>9. ASSUME NEW w \in Workers,
               Take(w) \/ (StartJob(w) /\ state \in Terminal) \/ Crash(w) \/ Restart(w)
        PROVE  finished' = finished /\ (Restart(w) \/ state' = state)
    BY <1>9 DEF Take, StartJob, Crash, Restart, job
  <1> QED  BY <1>3, <1>4, <1>5, <1>6, <1>7, <1>8, <1>9, Steps

LEMMA BackedStep ==
    Recording /\ Owned /\ Counted /\ Ended /\ Backed /\ [Next]_vars => Backed'
  <1> SUFFICES ASSUME Recording, Owned, Counted, Ended, Backed, [Next]_vars, NoLapse'
               PROVE  Backed'
    BY DEF Backed
  <1>1. Typed /\ TypeOK /\ ArtifactsEarned /\ NoLapse
    BY FaultsStay DEF Typed, Recording
  <1>2. CASE state' = state /\ artifacts' = artifacts
    BY <1>1, <1>2 DEF Backed
  <1>3. CASE state' \notin Terminal
    BY <1>3 DEF Backed, Terminal
  <1>4. ASSUME NEW w \in Workers, OutputRejected(w) PROVE Backed'
    <2>1. state' = "REJECTED" /\ artifacts' = artifacts /\ at[w].pc = "malformed"
      BY <1>4 DEF OutputRejected
    <2>2. at[w].key \in Required(fate) /\ at[w].key \notin results
      BY <1>1, <2>1, WorkType DEF Counted, Unanswered, Calling
    <2>3. ~Accepted(artifacts, Tasks)
      BY <1>1, <2>2 DEF ArtifactsEarned, Accepted
    <2> QED  BY <2>1, <2>3 DEF Backed
  <1>5. ASSUME NEW w \in Workers, AcceptJob(w) PROVE Backed'
    <2>1. /\ at[w] \in Point /\ Packing(at[w], results, fate) /\ at[w].todo = {}
          /\ at[w].records \subseteq artifacts
      BY <1>1, <1>5, WorkType DEF AcceptJob, Typed, WorkPlaced, Placed, Closing
    <2>2. artifacts' = artifacts
      BY <1>5 DEF AcceptJob
    <2>3. \A ts : Accepted(at[w].records, ts) => Accepted(artifacts, ts)
      BY <2>1 DEF Accepted
    <2>4. Accepted(artifacts, Tasks) =>
             Accepted(at[w].records, SftTasks) \/ Accepted(at[w].records, RlTasks)
      <3> SUFFICES ASSUME NEW r \in artifacts, r[1] \in Tasks, r[2] = "accepted"
                   PROVE  Accepted(at[w].records, SftTasks) \/ Accepted(at[w].records, RlTasks)
        BY DEF Accepted
      <3>1. fate[r[1]] = "sound"
        BY <1>1 DEF ArtifactsEarned
      <3>2. Accepted(at[w].records, {r[1]})
        BY <2>1, <3>1 DEF Packing
      <3> QED  BY <3>2 DEF Accepted, Tasks
    <2>5. /\ state' = "ACCEPTED_SFT" => Accepted(at[w].records, SftTasks)
          /\ state' = "ACCEPTED_RL" => Accepted(at[w].records, RlTasks)
          /\ state' = "REJECTED" => /\ ~Accepted(at[w].records, SftTasks)
                                    /\ ~Accepted(at[w].records, RlTasks)
      BY <1>5, <2>1, PassedIs DEF AcceptJob
    <2> QED  BY <2>2, <2>3, <2>4, <2>5 DEF Backed
  <1>6. ASSUME NEW w \in Workers, Proceeds(w) PROVE Backed'
    <2>1. state' \notin Terminal
      BY <1>1, <1>6, ProceedsIs
    <2> QED  BY <1>3, <2>1
  <1>7. CASE UNCHANGED vars \/ Lapse \/ \E p \in Pool : OtherFamily(p)
    <2>1. state' = state /\ artifacts' = artifacts
      BY <1>7 DEF vars, Lapse, OtherFamily, job
    <2> QED  BY <1>2, <2>1
  <1>8. ASSUME NEW w \in Workers,
               \/ Take(w) \/ (StartJob(w) /\ state \in Terminal) \/ FinishPaper(w) \/ Crash(w)
               \/ Restart(w)
        PROVE  Backed'
    <2>1. artifacts' = artifacts /\ (state' = state \/ state' = "working")
      BY <1>8 DEF Take, StartJob, FinishPaper, Crash, Restart, job
    <2>2. "working" \notin Terminal
      BY DEF Terminal
    <2> QED  BY <1>2, <1>3, <2>1, <2>2
  <1> QED  BY <1>4, <1>5, <1>6, <1>7, <1>8, Steps

(* Until the second of the last two transitions an accepted environment is    *)
(* still to be reported.                                                   *)
Reported ==
    Calm => (state = "ACCEPTED_SFT" /\ Accepted(artifacts, RlTasks) =>
                \E w \in Workers : at[w].pc = "accept_rl")

LEMMA ReportedStep ==
    Recording /\ Owned /\ Ended /\ Reported /\ [Next]_vars => Reported'
  <1> SUFFICES ASSUME Recording, Owned, Ended, Reported, [Next]_vars, Calm',
                      state' = "ACCEPTED_SFT", Accepted(artifacts', RlTasks)
               PROVE  \E w \in Workers : at'[w].pc = "accept_rl"
    BY DEF Reported
  <1> DEFINE Goal == \E w \in Workers : at'[w].pc = "accept_rl"
  <1>1. Typed /\ TypeOK /\ ArtifactsEarned /\ NoLapse /\ Calm
    BY FaultsStay DEF Typed, Recording, Calm
  <1>2. ASSUME state' = state, artifacts' = artifacts, at' = at PROVE Goal
    BY <1>1, <1>2 DEF Reported
  <1>3. ASSUME NEW w \in Workers, state' = state, artifacts' = artifacts,
               at[w].pc # "accept_rl", \A v \in Workers : v # w => at'[v] = at[v]
        PROVE  Goal
    BY <1>1, <1>3 DEF Reported
  <1>4. ASSUME NEW w \in Workers, Proceeds(w) PROVE Goal
    <2>1. state' \notin Terminal
      BY <1>1, <1>4, ProceedsIs
    <2> QED  BY <2>1 DEF Terminal
  <1>5. ASSUME UNCHANGED vars \/ Lapse \/ \E p \in Pool : OtherFamily(p) PROVE Goal
    <2>1. state' = state /\ artifacts' = artifacts /\ at' = at
      BY <1>5 DEF vars, Lapse, OtherFamily, job
    <2> QED  BY <1>2, <2>1
  <1>6. ASSUME NEW w \in Workers, OutputRejected(w) PROVE Goal
    BY <1>6 DEF OutputRejected
  <1>7. ASSUME NEW w \in Workers, AcceptJob(w) PROVE Goal
    <2>1. /\ at[w] \in Point /\ Packing(at[w], results, fate) /\ at[w].todo = {}
          /\ at[w].pc = "accept_rl" => Accepted(at[w].records, RlTasks)
      BY <1>1, <1>7, WorkType DEF AcceptJob, Typed, WorkPlaced, Placed, Closing
    <2>2. Accepted(at[w].records, RlTasks)
      <3>1. PICK r \in artifacts' : r[1] \in RlTasks /\ r[2] = "accepted"
        BY DEF Accepted
      <3>2. fate[r[1]] = "sound"
        BY <1>1, <1>7, <3>1 DEF ArtifactsEarned, AcceptJob
      <3>3. Accepted(at[w].records, {r[1]})
        BY <2>1, <3>1, <3>2 DEF Packing, Tasks
      <3> QED  BY <3>1, <3>3 DEF Accepted
    <2>3. Go(w, [at[w] EXCEPT !.pc = "accept_rl"])
      BY <1>7, <2>1, <2>2, PassedIs DEF AcceptJob
    <2>4. at'[w].pc = "accept_rl"
      BY <1>1, <2>1, <2>3, GoOthers DEF Point
    <2> QED  BY <2>4
  <1>8. ASSUME NEW w \in Workers,
               \/ Take(w) \/ (StartJob(w) /\ state \in Terminal) \/ FinishPaper(w) \/ Crash(w)
               \/ Restart(w)
        PROVE  Goal
    <2>1. \A v \in Workers : v # w => at'[v] = at[v]
      BY <1>1, <1>8, OthersStay DEF Works, Leaves
    <2>2. CASE Crash(w)
      <3>1. faults["crash"] = 0 /\ faults'["crash"] = 0
        BY <1>1 DEF Calm
      <3>2. faults["crash"] < faults'["crash"]
        BY <1>1, <2>2, FailsType DEF Crash, Fault
      <3> QED  BY <3>1, <3>2
    <2>3. CASE ~Crash(w)
      <3>1. artifacts' = artifacts /\ at[w].pc # "accept_rl"
        BY <1>8, <2>3 DEF Take, StartJob, FinishPaper, Restart, job
      <3>2. state' = state
        BY <1>8, <2>3 DEF Take, StartJob, FinishPaper, Restart, job
      <3> QED  BY <1>3, <2>1, <3>1, <3>2
    <2> QED  BY <2>2, <2>3
  <1> HIDE DEF Goal
  <1>9. Goal
    BY <1>4, <1>5, <1>6, <1>7, <1>8, Steps
  <1> QED  BY <1>9 DEF Goal

-----------------------------------------------------------------------------
(* While no worker dies either, every call has its end.  The attempt of a     *)
(* call that was refused its quota is the next one's; so is a job not at its  *)
(* end while such an attempt is open.                                      *)

Logged ==
    Calm =>
        /\ \A w \in Workers : at[w].pc # "down"
        /\ \A c \in started \ closed : \E w \in Workers : at[w].pc \in Begun /\ c = Call(w)
        /\ \A w \in Workers : at[w].pc = "reserve" => at[w].attempt = NextAttempt
        /\ Numbers(planned) \subseteq Numbers(started) \cup {NextAttempt}
        /\ \A w \in Workers : at[w].pc \in Begun => Numbers(planned) \subseteq Numbers(started)
        /\ \/ Numbers(planned) \subseteq Numbers(started)
           \/ state \notin Terminal /\ ~(Required(fate) \subseteq results)

(* The steps that neither begin nor end a call. *)
Quiet(w) ==
    \/ Take(w) \/ StartJob(w) \/ (PlanCall(w) /\ at[w].key \in results) \/ QuotaRefused(w)
    \/ PackageTask(w) \/ EndPackaging(w) \/ RecordArtifact(w) \/ AcceptJob(w) \/ FinishPaper(w)

LEMMA QuietIs ==
    ASSUME Typed, NEW w \in Workers, Quiet(w)
    PROVE  /\ planned' = planned /\ started' = started /\ closed' = closed
           /\ results' = results /\ fate' = fate
           /\ at[w].pc \notin Begun /\ at'[w].pc \notin Calling \cup {"down"}
           /\ \A v \in Workers : v # w => at'[v] = at[v]
           /\ state' = state \/ state' \notin Terminal \/ Required(fate) \subseteq results
  <1>1. TypeOK
    BY DEF Typed
  <1>2. "working" \notin Terminal
    BY DEF Terminal
  <1>3. \A v \in Workers : v # w => at'[v] = at[v]
    BY <1>1, OthersStay DEF Quiet, Works, Leaves
  <1>4. at'[w].pc \notin Calling \cup {"down"}
    <2>1. at'[w].pc \in {"open", "finish", "plan", "package", "idle", "record", "accept", "accept_rl"}
      BY Leads DEF Quiet, Leaves
    <2> QED  BY <2>1 DEF Calling
  <1>5. CASE Take(w) \/ StartJob(w) \/ QuotaRefused(w) \/ FinishPaper(w)
    <2>1. /\ planned' = planned /\ started' = started /\ closed' = closed
          /\ results' = results /\ fate' = fate /\ at[w].pc \notin Begun
      BY <1>5 DEF Take, StartJob, QuotaRefused, FinishPaper, job, Begun, Calling
    <2>2. state' = state \/ state' = "working"
      BY <1>5 DEF Take, StartJob, QuotaRefused, FinishPaper, job
    <2> QED  BY <1>2, <1>3, <1>4, <2>1, <2>2
  <1>6. CASE PlanCall(w) /\ at[w].key \in results
    <2>1. /\ planned' = planned /\ started' = started /\ closed' = closed
          /\ results' = results /\ fate' = fate /\ at[w].pc \notin Begun /\ state' = state
      BY <1>6 DEF PlanCall, Cached, Begun, Calling
    <2> QED  BY <1>3, <1>4, <2>1
  <1>7. CASE PackageTask(w) \/ EndPackaging(w) \/ RecordArtifact(w)
    <2>1. /\ planned' = planned /\ started' = started /\ closed' = closed
          /\ results' = results /\ fate' = fate /\ at[w].pc \notin Begun
      BY <1>7 DEF PackageTask, EndPackaging, RecordArtifact, job, Begun, Calling
    <2>2. state' = state \/ state' = "working"
      BY <1>7 DEF PackageTask, EndPackaging, RecordArtifact, job
    <2> QED  BY <1>2, <1>3, <1>4, <2>1, <2>2
  <1>8. CASE AcceptJob(w)
    <2>1. /\ planned' = planned /\ started' = started /\ closed' = closed
          /\ results' = results /\ fate' = fate /\ at[w].pc \notin Begun
      BY <1>8 DEF AcceptJob, Begun, Calling
    <2>2. Packing(at[w], results, fate) /\ at[w].todo = {}
      BY <1>8 DEF AcceptJob, Typed, WorkPlaced, Placed, Closing
    <2> QED  BY <1>3, <1>4, <2>1, <2>2, AllCalled
  <1> QED  BY <1>5, <1>6, <1>7, <1>8 DEF Quiet

(* A step within a call, and one that ends it. *)
Within(w) == Generate(w) \/ RecordResult(w)
Ends(w) == CallSucceeded(w) \/ CallFailed(w) \/ OutputRejected(w)

LEMMA WithinIs ==
    ASSUME Typed, NEW w \in Workers, Within(w)
    PROVE  /\ planned' = planned /\ started' = started /\ closed' = closed
           /\ at[w].pc \in Begun /\ at'[w].pc \in Begun
           /\ at'[w].key = at[w].key /\ at'[w].attempt = at[w].attempt
           /\ \A v \in Workers : v # w => at'[v] = at[v]
  <1>1. /\ planned' = planned /\ started' = started /\ closed' = closed /\ at[w].pc \in Begun
    BY DEF Within, Generate, RecordResult, job, Begun, Calling
  <1>2. \A v \in Workers : v # w => at'[v] = at[v]
    BY OthersStay DEF Within, Works, Typed
  <1> QED  BY <1>1, <1>2, Leads DEF Within

LEMMA EndsIs ==
    ASSUME Typed, NEW w \in Workers, Ends(w)
    PROVE  /\ planned' = planned /\ started' = started /\ closed' = closed \cup {Call(w)}
           /\ at[w].pc \in Begun /\ at'[w].pc \notin Calling \cup {"down"}
           /\ \A v \in Workers : v # w => at'[v] = at[v]
  <1>1. /\ planned' = planned /\ started' = started /\ closed' = closed \cup {Call(w)}
        /\ at[w].pc \in Begun
    BY DEF Ends, CallSucceeded, CallFailed, OutputRejected, Begun, Calling
  <1>2. \A v \in Workers : v # w => at'[v] = at[v]
    BY OthersStay DEF Ends, Works, Leaves, Typed
  <1>3. at'[w].pc \in {"plan", "package", "idle", "finish"}
    BY Leads DEF Ends, Leaves
  <1> QED  BY <1>1, <1>2, <1>3 DEF Calling

LEMMA NumbersOf ==
    ASSUME NEW S, NEW k, NEW n
    PROVE  Numbers(S \cup {<<k, n>>}) = Numbers(S) \cup {n}
  <1>1. <<k, n>>[2] = n
    OBVIOUS
  <1>2. \A x : x \in Numbers(S \cup {<<k, n>>}) <=> x \in Numbers(S) \/ x = n
    BY <1>1 DEF Numbers
  <1> QED  BY <1>2

LEMMA StepsOfCalls ==
    ASSUME [Next]_vars
    PROVE  \/ UNCHANGED vars \/ Lapse \/ \E p \in Pool : OtherFamily(p)
           \/ \E w \in Workers :
                 \/ Quiet(w) \/ (PlanCall(w) /\ at[w].key \notin results) \/ ReserveQuota(w)
                 \/ Within(w) \/ Ends(w) \/ Crash(w) \/ Restart(w)
  BY NextIs DEF Works, Leaves, Quiet, Within, Ends

LEMMA LoggedStep == Typed /\ Owned /\ Logged /\ [Next]_vars => Logged'
  <1> SUFFICES ASSUME Typed, Owned, Logged, [Next]_vars, Calm' PROVE Logged'
    BY DEF Logged
  <1>1. TypeOK /\ Calm /\ NoLapse
    BY FaultsStay DEF Typed, Calm
  <1>2. /\ \A w \in Workers : at[w].pc # "down"
        /\ \A c \in started \ closed : \E w \in Workers : at[w].pc \in Begun /\ c = Call(w)
        /\ \A w \in Workers : at[w].pc = "reserve" => at[w].attempt = NextAttempt
        /\ Numbers(planned) \subseteq Numbers(started) \cup {NextAttempt}
        /\ \A w \in Workers : at[w].pc \in Begun => Numbers(planned) \subseteq Numbers(started)
        /\ \/ Numbers(planned) \subseteq Numbers(started)
           \/ state \notin Terminal /\ ~(Required(fate) \subseteq results)
    BY <1>1 DEF Logged
  <1>3. CASE UNCHANGED vars \/ Lapse \/ \E p \in Pool : OtherFamily(p)
    <2>1. /\ planned' = planned /\ started' = started /\ closed' = closed /\ results' = results
          /\ fate' = fate /\ state' = state /\ at' = at
      BY <1>3 DEF vars, Lapse, OtherFamily, job
    <2> QED  BY <1>2, <2>1 DEF Logged, Call, NextAttempt
  <1>4. ASSUME NEW w \in Workers, Quiet(w) PROVE Logged'
    <2>1. /\ planned' = planned /\ started' = started /\ closed' = closed
          /\ results' = results /\ fate' = fate
          /\ at[w].pc \notin Begun /\ at'[w].pc \notin Calling \cup {"down"}
          /\ \A v \in Workers : v # w => at'[v] = at[v]
          /\ state' = state \/ state' \notin Terminal \/ Required(fate) \subseteq results
      BY <1>4, QuietIs
    <2>2. NextAttempt' = NextAttempt
      BY <2>1 DEF NextAttempt
    <2>3. \A c \in started' \ closed' : \E v \in Workers : at'[v].pc \in Begun /\ c = Call(v)'
      BY <1>2, <2>1 DEF Call
    <2>4. at'[w].pc # "down" /\ at'[w].pc # "reserve" /\ at'[w].pc \notin Begun
      BY <2>1 DEF Begun, Calling
    <2>5. \/ Numbers(planned') \subseteq Numbers(started')
          \/ state' \notin Terminal /\ ~(Required(fate') \subseteq results')
      BY <1>2, <2>1
    <2> QED  BY <1>2, <2>1, <2>2, <2>3, <2>4, <2>5 DEF Logged
  <1>5. ASSUME NEW w \in Workers, PlanCall(w), at[w].key \notin results PROVE Logged'
    <2>1. at[w].pc = "plan" /\ at[w].key \in Required(fate)
      BY <1>5, WorkType DEF PlanCall
    <2>2. /\ planned' = planned \cup {<<at[w].key, NextAttempt>>} /\ state' = "working"
          /\ started' = started /\ closed' = closed /\ results' = results /\ fate' = fate
      BY <1>5 DEF PlanCall, Cached
    <2>3. NextAttempt' = NextAttempt
      BY <2>2 DEF NextAttempt
    <2>4. at'[w].pc = "reserve" /\ at'[w].attempt = NextAttempt
      BY <1>5, Leads
    <2>5. \A v \in Workers : v # w => at[v].pc \in Away /\ at'[v] = at[v]
      BY <1>1, <1>5, <2>1, AloneAtWork, OthersStay DEF Away, Works
    <2>6. \A v \in Workers : at[v].pc \notin Begun /\ at'[v].pc \notin Begun
      BY <2>1, <2>4, <2>5 DEF Away, Begun, Calling
    <2>7. Numbers(planned') = Numbers(planned) \cup {NextAttempt}
      BY <2>2, NumbersOf
    <2>8. Numbers(planned') \subseteq Numbers(started') \cup {NextAttempt'}
      BY <1>2, <2>2, <2>3, <2>7
    <2>9. \A v \in Workers : at'[v].pc # "down"
      BY <1>2, <2>4, <2>5
    <2>10. \A v \in Workers : at'[v].pc = "reserve" => at'[v].attempt = NextAttempt'
      BY <1>2, <2>3, <2>4, <2>5
    <2>11. started' \ closed' = {}
      BY <1>2, <2>2, <2>6
    <2>12. state' \notin Terminal /\ ~(Required(fate') \subseteq results')
      BY <1>5, <2>1, <2>2 DEF Terminal
    <2> QED  BY <2>6, <2>8, <2>9, <2>10, <2>11, <2>12 DEF Logged
  <1>6. ASSUME NEW w \in Workers, ReserveQuota(w) PROVE Logged'
    <2>1. /\ at[w].pc = "reserve" /\ started' = started \cup {Call(w)} /\ planned' = planned
          /\ closed' = closed
      BY <1>6 DEF ReserveQuota
    <2>2. at'[w].pc \in Begun /\ at'[w].key = at[w].key /\ at'[w].attempt = at[w].attempt
      BY <1>6, Leads
    <2>3. \A v \in Workers : v # w => at[v].pc \in Away /\ at'[v] = at[v]
      BY <1>1, <1>6, <2>1, AloneAtWork, OthersStay DEF Away, Works
    <2>4. Numbers(started') = Numbers(started) \cup {NextAttempt}
      <3>1. Call(w) = <<at[w].key, NextAttempt>>
        BY <1>2, <2>1 DEF Call
      <3>2. started' = started \cup {<<at[w].key, NextAttempt>>}
        BY <2>1, <3>1
      <3>3. Numbers(started \cup {<<at[w].key, NextAttempt>>}) = Numbers(started) \cup {NextAttempt}
        BY NumbersOf
      <3> QED  BY <3>2, <3>3
    <2>5. Numbers(planned') \subseteq Numbers(started')
      BY <1>2, <2>1, <2>4
    <2>6. \A v \in Workers : at'[v].pc # "down" /\ at'[v].pc # "reserve"
      BY <2>2, <2>3, <1>2 DEF Away, Begun, Calling
    <2>7. \A c \in started' \ closed' : \E v \in Workers : at'[v].pc \in Begun /\ c = Call(v)'
      <3> SUFFICES ASSUME NEW c \in started' \ closed'
                   PROVE  \E v \in Workers : at'[v].pc \in Begun /\ c = Call(v)'
        OBVIOUS
      <3>1. CASE c = Call(w)
        BY <2>2, <3>1 DEF Call
      <3>2. CASE c # Call(w)
        <4>1. PICK v \in Workers : at[v].pc \in Begun /\ c = Call(v)
          BY <1>2, <2>1, <3>2
        <4>2. v # w
          BY <3>2, <4>1
        <4> QED  BY <2>3, <4>1, <4>2 DEF Call
      <3> QED  BY <3>1, <3>2
    <2> QED  BY <2>5, <2>6, <2>7 DEF Logged
  <1>7. ASSUME NEW w \in Workers, Within(w) PROVE Logged'
    <2>1. /\ planned' = planned /\ started' = started /\ closed' = closed
          /\ at[w].pc \in Begun /\ at'[w].pc \in Begun
          /\ at'[w].key = at[w].key /\ at'[w].attempt = at[w].attempt
          /\ \A v \in Workers : v # w => at'[v] = at[v]
      BY <1>7, WithinIs
    <2>2. Numbers(planned') \subseteq Numbers(started')
      BY <1>2, <2>1
    <2>3. NextAttempt' = NextAttempt
      BY <2>1 DEF NextAttempt
    <2>4. \A c \in started' \ closed' : \E v \in Workers : at'[v].pc \in Begun /\ c = Call(v)'
      BY <1>2, <2>1 DEF Call
    <2>5. at'[w].pc # "down" /\ at'[w].pc # "reserve"
      BY <2>1 DEF Begun, Calling
    <2> QED  BY <1>2, <2>1, <2>2, <2>3, <2>4, <2>5 DEF Logged
  <1>8. ASSUME NEW w \in Workers, Ends(w) PROVE Logged'
    <2>1. /\ planned' = planned /\ started' = started /\ closed' = closed \cup {Call(w)}
          /\ at[w].pc \in Begun /\ at'[w].pc \notin Calling \cup {"down"}
          /\ \A v \in Workers : v # w => at'[v] = at[v]
      BY <1>8, EndsIs
    <2>2. Numbers(planned') \subseteq Numbers(started')
      BY <1>2, <2>1
    <2>3. NextAttempt' = NextAttempt
      BY <2>1 DEF NextAttempt
    <2>4. \A c \in started' \ closed' : \E v \in Workers : at'[v].pc \in Begun /\ c = Call(v)'
      <3> SUFFICES ASSUME NEW c \in started' \ closed'
                   PROVE  \E v \in Workers : at'[v].pc \in Begun /\ c = Call(v)'
        OBVIOUS
      <3>1. PICK v \in Workers : at[v].pc \in Begun /\ c = Call(v)
        BY <1>2, <2>1
      <3>2. v # w
        BY <2>1, <3>1
      <3> QED  BY <2>1, <3>1, <3>2 DEF Call
    <2>5. at'[w].pc # "down" /\ at'[w].pc # "reserve"
      BY <2>1 DEF Calling
    <2> QED  BY <1>2, <2>1, <2>2, <2>3, <2>4, <2>5 DEF Logged
  <1>9. ASSUME NEW w \in Workers, Crash(w) PROVE FALSE
    <2>1. faults["crash"] = 0 /\ faults'["crash"] = 0
      BY <1>1 DEF Calm
    <2>2. faults["crash"] < faults'["crash"]
      BY <1>1, <1>9, FailsType DEF Crash, Fault
    <2> QED  BY <2>1, <2>2
  <1>10. ASSUME NEW w \in Workers, Restart(w) PROVE FALSE
    BY <1>2, <1>10 DEF Restart
  <1> QED  BY <1>3, <1>4, <1>5, <1>6, <1>7, <1>8, <1>9, <1>10, StepsOfCalls

-----------------------------------------------------------------------------
(* The theorems. *)

JobInv == Recording /\ Owned /\ Counted /\ Ended /\ Backed /\ Reported /\ Logged

LEMMA JobInit == Init => JobInv
  <1> SUFFICES ASSUME Init PROVE JobInv
    OBVIOUS
  <1>1. \A w \in Workers : at[w].pc = "idle"
    BY DEF Init, Idle
  <1>2. Owned /\ Ended /\ Backed /\ Reported
    BY <1>1 DEF Init, Owned, Ended, Backed, Reported, Away, Idling, Terminal
  <1>3. Counted
    BY <1>1 DEF Init, Counted, Unanswered, Calling
  <1>4. Logged
    BY <1>1 DEF Init, Logged, Numbers, Begun, Calling
  <1> QED  BY <1>2, <1>3, <1>4, RecordingInit DEF JobInv

LEMMA JobStep == JobInv /\ [Next]_vars => JobInv'
  BY RecordingStep, OwnedStep, CountedStep, EndedStep, BackedStep, ReportedStep, LoggedStep
     DEF JobInv, Recording

(* A finished job has nobody at work, so no call is left without its end. *)
LEMMA JobPays == JobInv => PaidOnce
  <1> SUFFICES ASSUME JobInv, NoLapse
               PROVE  /\ \A k \in Keys : paid[k] <= 1
                      /\ faults["crash"] = 0 /\ finished =>
                            /\ started \subseteq closed
                            /\ Numbers(planned) \subseteq Numbers(closed)
    BY DEF PaidOnce, NoLapse
  <1>1. \A k \in Keys : paid[k] <= 1
    BY DEF JobInv, Counted
  <1>2. ASSUME faults["crash"] = 0, finished
        PROVE  started \subseteq closed /\ Numbers(planned) \subseteq Numbers(closed)
    <2>1. Calm
      BY <1>2 DEF Calm
    <2>2. owner = None /\ state \in Terminal
      BY <1>2 DEF JobInv, Owned, Ended
    <2>3. \A w \in Workers : at[w].pc \in Away
      BY <2>2, JobsAssumption DEF JobInv, Owned
    <2>4. \A w \in Workers : at[w].pc \notin Begun
      BY <2>3 DEF Away, Begun, Calling
    <2>5. started \subseteq closed
      BY <2>1, <2>4 DEF JobInv, Logged
    <2>6. Numbers(planned) \subseteq Numbers(started)
      BY <2>1, <2>2 DEF JobInv, Logged
    <2> QED  BY <2>5, <2>6 DEF Numbers
  <1> QED  BY <1>1, <1>2

LEMMA JobBacks == JobInv => OutcomeIsBacked
  <1> SUFFICES ASSUME JobInv, NoLapse
               PROVE  /\ state = "ACCEPTED_SFT" => Accepted(artifacts, SftTasks)
                      /\ state = "ACCEPTED_RL" => Accepted(artifacts, RlTasks)
                      /\ state = "REJECTED" => ~Accepted(artifacts, Tasks)
                      /\ faults["crash"] = 0 /\ finished /\ state = "ACCEPTED_SFT" =>
                            ~Accepted(artifacts, RlTasks)
    BY DEF OutcomeIsBacked, NoLapse
  <1>1. ASSUME faults["crash"] = 0, finished, state = "ACCEPTED_SFT", Accepted(artifacts, RlTasks)
        PROVE  FALSE
    <2>1. PICK w \in Workers : at[w].pc = "accept_rl"
      BY <1>1 DEF JobInv, Reported, Calm
    <2>2. owner = None /\ owner = w
      BY <1>1, <2>1 DEF JobInv, Owned, Away
    <2> QED  BY <2>2, JobsAssumption
  <1> QED  BY <1>1 DEF JobInv, Backed

(* Types are kept, and only calls that were planned are started and closed. *)
THEOREM JobsTypeCorrect == Spec => []TypeOK
  <1>1. Typed => TypeOK
    BY DEF Typed
  <1> QED  BY <1>1, TypeInit, TypedStep, PTL DEF Spec

(* A family that two tasks or two passes enter into a pool is in one split of  *)
(* it, however many workers are at work on the paper at once.              *)
THEOREM SplitsAreOne == Spec => []OneSplit
  BY RecordingInit, RecordingStep, RecordingSplits, PTL DEF Spec

(* Every result is stored once while no lease is lost at work; without a crash *)
(* a finished job leaves no call and no attempt open.                      *)
THEOREM JobsPayOnce == Spec => []JobPaidOnce
  <1>1. JobInv => JobPaidOnce
    BY JobPays DEF JobInv, Recording, Typed, JobPaidOnce
  <1> QED  BY <1>1, JobInit, JobStep, PTL DEF Spec

(* A job ends as what its artifacts are, and its family is in one split. *)
THEOREM JobsAreBacked == Spec => []JobIsBacked
  <1>1. JobInv => JobIsBacked
    BY JobBacks, RecordingSplits DEF JobInv, JobIsBacked
  <1> QED  BY <1>1, JobInit, JobStep, PTL DEF Spec

=============================================================================
