------------------------ MODULE FoundryRuns_proofs ------------------------
(***************************************************************************)
(* Theorems about FoundryRuns, for every set of papers and replicas: type   *)
(* correctness, what one step may do to a run, a paper and a worker, and    *)
(* the properties of the daily cohort.                                     *)
(***************************************************************************)
EXTENDS FoundryRuns, FiniteSetTheorems, TLAPS

-----------------------------------------------------------------------------
(* The part of TypeOK about the tables. *)
TablesOK ==
    /\ now \in Instant /\ sequence \in Ordinal /\ faults \in 0..FaultLimit
    /\ queue \in [Docs -> Row]
    /\ \A d \in Docs : queue[d].holder # None <=> queue[d].state \in {"held", "lapsed"}
    /\ daily \in [Day -> DailyRun \cup {None}]
    /\ manual \in Seq(ManualRun)

(* The part of TypeOK about one worker, and what each stage of its loop     *)
(* knows of the run it is in, which makes type correctness inductive.      *)
WorkerOK(w) ==
    /\ at[w].day # None /\ at[w].pc \notin {"superseding", "starting"} => daily[at[w].day] # None
    /\ at[w].run # None => at[w].run \in DOMAIN manual
    /\ at[w].doc # None <=> at[w].pc \in {"working", "counting"}
    /\ at[w].pc \in {"idle", "down", "anchoring"} => at[w].day = None /\ at[w].run = None
    /\ at[w].pc \in {"superseding", "starting", "daily"} => at[w].day # None
    /\ at[w].pc \in {"superseding", "starting", "daily", "snapshots"} => at[w].run = None
    /\ at[w].pc = "manual" => at[w].run # None
    /\ at[w].pc \in {"claiming", "emptied", "working", "counting", "completing", "exhausting"} =>
          at[w].day # None \/ at[w].run # None

TypeInv == TablesOK /\ at \in [Workers -> Position] /\ \A w \in Workers : WorkerOK(w)

USE DEF Instant, Ordinal

LEMMA Constants ==
    /\ DayTicks \in Nat /\ DayTicks > 0 /\ Horizon \in Nat /\ NotBefore \in Nat
    /\ \A w \in Workers : Offset[w] \in Nat /\ Offset[w] < DayTicks
    /\ ArrivalLimit \in Nat /\ FaultLimit \in Nat
    /\ None \notin Docs /\ None \notin Workers /\ None \notin Int
  BY RunsAssumption

LEMMA DivisionBounds ==
    ASSUME NEW a \in Int, NEW b \in Nat \ {0}
    PROVE  /\ a \div b \in Int
           /\ b * (a \div b) <= a /\ a < b * (a \div b) + b
  <1>1. a \div b \in Int
    OBVIOUS
  <1> DEFINE p == b * (a \div b)
             r == a % b
  <1>2. a = p + r
    BY Z3T(30)
  <1>3. r \in 0..(b - 1)
    BY SMTT(30)
  <1>4. p \in Int
    BY <1>1
  <1> HIDE DEF p, r
  <1>5. p <= a /\ a < p + b
    BY <1>2, <1>3, <1>4
  <1> QED  BY <1>1, <1>5 DEF p

(* The day the clock asks for is one of the days of the model. *)
LEMMA CurrentDayInRange ==
    ASSUME now \in Instant, NEW w \in Workers
    PROVE  CurrentDay(w) \in Day
  <1> DEFINE a == now - Offset[w]
             q == a \div DayTicks
             h == Horizon \div DayTicks
  <1>0. a \in Int /\ Horizon \in Int /\ DayTicks \in Nat \ {0}
    BY Constants
  <1> HIDE DEF a
  <1>1. q \in Int /\ DayTicks * q <= a /\ a < DayTicks * q + DayTicks
    BY <1>0, DivisionBounds, Zenon
  <1>2. h \in Int /\ DayTicks * h <= Horizon /\ Horizon < DayTicks * h + DayTicks
    BY <1>0, DivisionBounds, Zenon
  <1> HIDE DEF q, h
  <1>3. 0 - 1 <= q
    <2> SUFFICES ASSUME q <= 0 - 2 PROVE FALSE
      BY <1>1
    <2>1. DayTicks * q <= DayTicks * (0 - 2)
      BY <1>1, Constants
    <2> QED  BY <2>1, <1>1, Constants DEF a
  <1>4. q <= h
    <2> SUFFICES ASSUME q >= h + 1 PROVE FALSE
      BY <1>1, <1>2
    <2>1. DayTicks * q >= DayTicks * (h + 1)
      BY <1>1, <1>2, Constants
    <2> QED  BY <2>1, <1>1, <1>2, Constants DEF a
  <1> QED  BY <1>1, <1>2, <1>3, <1>4, Constants DEF CurrentDay, Day, q, h, a

-----------------------------------------------------------------------------
LEMMA TypeInvImplies == TypeInv => TypeOK
  BY DEF TypeInv, TablesOK, WorkerOK, TypeOK

LEMMA TypeInit == Init => TypeInv
  <1> SUFFICES ASSUME Init PROVE TypeInv
    OBVIOUS
  <1>1. Idle \in Position
    BY Constants DEF Idle, Position, Stage
  <1>2. AbsentRow \in Row
    BY Constants DEF AbsentRow, Row
  <1>3. TablesOK
    BY <1>2, Constants DEF Init, TablesOK, AbsentRow
  <1> QED  BY <1>1, <1>3 DEF Init, TypeInv, WorkerOK, Idle

(* A step that moves one worker keeps the others in place as long as the    *)
(* runs they refer to stay.                                                *)
RunsStay ==
    /\ \A e \in Day : daily[e] # None => daily'[e] # None
    /\ DOMAIN manual \subseteq DOMAIN manual'

LEMMA WorkerMoves ==
    ASSUME TypeInv, RunsStay, NEW w \in Workers, NEW p \in Position,
           at' = [at EXCEPT ![w] = p], WorkerOK(w)'
    PROVE  at' \in [Workers -> Position] /\ \A v \in Workers : WorkerOK(v)'
  <1>1. at' \in [Workers -> Position] /\ \A v \in Workers \ {w} : at'[v] = at[v]
    BY DEF TypeInv
  <1>2. ASSUME NEW v \in Workers \ {w} PROVE WorkerOK(v)'
    <2>1. at[v].day \in Day \cup {None} /\ WorkerOK(v) /\ at'[v] = at[v]
      BY <1>1 DEF TypeInv, Position
    <2> QED  BY <2>1 DEF WorkerOK, RunsStay
  <1> QED  BY <1>1, <1>2

LEMMA WorkersStay ==
    ASSUME TypeInv, RunsStay, at' = at
    PROVE  at' \in [Workers -> Position] /\ \A v \in Workers : WorkerOK(v)'
  <1>1. ASSUME NEW v \in Workers PROVE WorkerOK(v)'
    <2>1. at[v].day \in Day \cup {None} /\ WorkerOK(v) /\ at'[v] = at[v]
      BY DEF TypeInv, Position
    <2> QED  BY <2>1 DEF WorkerOK, RunsStay
  <1> QED  BY <1>1 DEF TypeInv

(* The tables after the helpers of the actions. *)
LEMMA WithoutType ==
    ASSUME TablesOK, NEW S, queue' = Without(S)
    PROVE  /\ queue' \in [Docs -> Row]
           /\ \A d \in Docs : queue'[d].holder # None <=> queue'[d].state \in {"held", "lapsed"}
  <1>1. AbsentRow \in Row /\ AbsentRow.holder = None /\ AbsentRow.state = "absent"
    BY Constants DEF AbsentRow, Row
  <1> HIDE DEF AbsentRow
  <1> QED  BY <1>1 DEF TablesOK, Without

LEMMA RowType ==
    ASSUME TablesOK, NEW d \in Docs, NEW r \in Row, r.holder # None <=> r.state \in {"held", "lapsed"},
           queue' = [queue EXCEPT ![d] = r]
    PROVE  /\ queue' \in [Docs -> Row]
           /\ \A e \in Docs : queue'[e].holder # None <=> queue'[e].state \in {"held", "lapsed"}
  BY DEF TablesOK

LEMMA ManualUpdate ==
    ASSUME TablesOK, NEW r \in DOMAIN manual, NEW m \in ManualRun, manual' = [manual EXCEPT ![r] = m]
    PROVE  manual' \in Seq(ManualRun) /\ DOMAIN manual' = DOMAIN manual
  BY DEF TablesOK

LEMMA DailyUpdate ==
    ASSUME TablesOK, NEW e \in Day, NEW x \in DailyRun, daily' = [daily EXCEPT ![e] = x]
    PROVE  /\ daily' \in [Day -> DailyRun \cup {None}]
           /\ \A f \in Day : daily[f] # None => daily'[f] # None
  <1>1. x # None
    BY NullAssumption
  <1> QED  BY <1>1 DEF TablesOK

(* Records are never the model's null, so a field of them can be updated. *)
LEMMA ReturnPosition ==
    ASSUME TypeInv, NEW w \in Workers, at[w].pc \notin {"superseding", "starting"}, Return(w), RunsStay
    PROVE  at' \in [Workers -> Position] /\ \A v \in Workers : WorkerOK(v)'
  <1>1. WorkerOK(w) /\ at[w] \in Position
    BY DEF TypeInv
  <1>2. CASE at[w].run # None /\ at[w].day # None
    <2> DEFINE p == [at[w] EXCEPT !.pc = "daily", !.run = None, !.doc = None]
    <2>1. p \in Position
      BY <1>1 DEF Position, Stage
    <2>2. at' = [at EXCEPT ![w] = p]
      BY <1>2 DEF Return
    <2>3. at'[w] = p
      BY <2>2 DEF TypeInv
    <2>4. p.pc = "daily" /\ p.run = None /\ p.doc = None /\ p.day = at[w].day
      BY <1>1 DEF Position
    <2>5. daily'[at[w].day] # None
      BY <1>1, <1>2 DEF WorkerOK, RunsStay, Position
    <2>6. WorkerOK(w)'
      BY <2>3, <2>4, <2>5, <1>2 DEF WorkerOK
    <2> QED  BY <2>1, <2>2, <2>6, WorkerMoves
  <1>3. CASE ~(at[w].run # None /\ at[w].day # None)
    <2>1. Idle \in Position
      BY Constants DEF Idle, Position, Stage
    <2>2. at' = [at EXCEPT ![w] = Idle]
      BY <1>3 DEF Return
    <2>3. WorkerOK(w)'
      BY <2>2 DEF WorkerOK, Idle, TypeInv
    <2> QED  BY <2>1, <2>2, <2>3, WorkerMoves
  <1> QED  BY <1>2, <1>3

(* A worker that goes to a stage and keeps its run. *)
Agrees(w, stage) ==
    /\ at[w].day # None /\ stage \notin {"superseding", "starting"} => daily[at[w].day] # None
    /\ at[w].doc # None <=> stage \in {"working", "counting"}
    /\ stage \in {"idle", "down", "anchoring"} => at[w].day = None /\ at[w].run = None
    /\ stage \in {"superseding", "starting", "daily"} => at[w].day # None
    /\ stage \in {"superseding", "starting", "daily", "snapshots"} => at[w].run = None
    /\ stage = "manual" => at[w].run # None
    /\ stage \in {"claiming", "emptied", "working", "counting", "completing", "exhausting"} =>
          at[w].day # None \/ at[w].run # None

LEMMA GotoPosition ==
    ASSUME TypeInv, NEW w \in Workers, NEW stage \in Stage, Agrees(w, stage), Goto(w, stage), RunsStay
    PROVE  at' \in [Workers -> Position] /\ \A v \in Workers : WorkerOK(v)'
  <1> DEFINE p == [at[w] EXCEPT !.pc = stage]
  <1>1. WorkerOK(w) /\ at[w] \in Position
    BY DEF TypeInv
  <1>2. p \in Position
    BY <1>1 DEF Position
  <1>3. /\ p.pc = stage /\ p.run = at[w].run /\ p.doc = at[w].doc /\ p.day = at[w].day
    BY <1>1 DEF Position
  <1>4. at' = [at EXCEPT ![w] = p]
    BY DEF Goto
  <1>5. at'[w] = p
    BY <1>4 DEF TypeInv
  <1> HIDE DEF p
  <1>6. at[w].day # None => (daily[at[w].day] # None => daily'[at[w].day] # None)
    BY <1>1 DEF Position, RunsStay
  <1>7. at[w].run # None => at[w].run \in DOMAIN manual'
    BY <1>1 DEF WorkerOK, RunsStay
  <1>8. WorkerOK(w)'
    BY <1>3, <1>5, <1>6, <1>7 DEF WorkerOK, Agrees
  <1> QED  BY <1>2, <1>4, <1>8, WorkerMoves

LEMMA NextTurnPosition ==
    ASSUME TypeInv, NEW w \in Workers, NextTurn(w), RunsStay,
           at[w].pc \in {"emptied", "working", "counting"}
    PROVE  at' \in [Workers -> Position] /\ \A v \in Workers : WorkerOK(v)'
  <1> DEFINE p == [at[w] EXCEPT !.pc = IF at[w].run # None THEN "manual" ELSE "daily", !.doc = None]
  <1>1. WorkerOK(w) /\ at[w] \in Position
    BY DEF TypeInv
  <1>2. p \in Position
    BY <1>1 DEF Position, Stage
  <1>3. /\ p.pc = IF at[w].run # None THEN "manual" ELSE "daily"
        /\ p.run = at[w].run /\ p.doc = None /\ p.day = at[w].day
    BY <1>1 DEF Position
  <1>4. at' = [at EXCEPT ![w] = p]
    BY DEF NextTurn
  <1>5. at'[w] = p
    BY <1>4 DEF TypeInv
  <1> HIDE DEF p
  <1>6. at[w].day # None => (daily[at[w].day] # None => daily'[at[w].day] # None)
    BY <1>1 DEF Position, RunsStay
  <1>7. at[w].run # None => at[w].run \in DOMAIN manual'
    BY <1>1 DEF WorkerOK, RunsStay
  <1>8. WorkerOK(w)'
    BY <1>1, <1>3, <1>5, <1>6, <1>7 DEF WorkerOK
  <1> QED  BY <1>2, <1>4, <1>8, WorkerMoves

LEMMA IdlePosition ==
    ASSUME TypeInv, RunsStay, NEW w \in Workers, NEW stage \in {"idle", "down", "snapshots"},
           at' = [at EXCEPT ![w] = [Idle EXCEPT !.pc = stage]]
    PROVE  at' \in [Workers -> Position] /\ \A v \in Workers : WorkerOK(v)'
  <1> DEFINE p == [Idle EXCEPT !.pc = stage]
  <1>1. p \in Position
    BY Constants DEF Idle, Position, Stage
  <1>2. p.pc = stage /\ p.day = None /\ p.run = None /\ p.doc = None
    BY DEF Idle
  <1>3. at' = [at EXCEPT ![w] = p] /\ at'[w] = p
    BY DEF TypeInv
  <1> HIDE DEF p
  <1>4. WorkerOK(w)'
    BY <1>2, <1>3 DEF WorkerOK
  <1> QED  BY <1>1, <1>3, <1>4, WorkerMoves

-----------------------------------------------------------------------------
(* The steps that change the papers only. *)
LEMMA ArrivalTypes ==
    ASSUME TypeInv, NEW d \in Docs, NEW changed \in BOOLEAN, Arrive(d, changed)
    PROVE  TypeInv'
  <1> DEFINE r == IF queue[d].state = "absent"
                  THEN [AbsentRow EXCEPT !.state = "queued", !.ordinal = sequence + 1, !.arrived = now]
                  ELSE IF queue[d].state = "queued" /\ changed
                       THEN [queue[d] EXCEPT !.ordinal = sequence + 1, !.arrived = now]
                       ELSE queue[d]
  <1>1. queue[d] \in Row /\ (queue[d].holder # None <=> queue[d].state \in {"held", "lapsed"})
        /\ sequence + 1 \in Ordinal /\ now \in Instant
    BY Constants DEF TypeInv, TablesOK, Arrive
  <1>2. r \in Row /\ (r.holder # None <=> r.state \in {"held", "lapsed"})
    BY <1>1, Constants DEF Row, AbsentRow
  <1>3. queue' = [queue EXCEPT ![d] = r]
    BY DEF Arrive
  <1> HIDE DEF r
  <1>4. TablesOK'
    BY <1>1, <1>2, <1>3, RowType DEF TypeInv, TablesOK, Arrive
  <1> QED  BY <1>4, WorkersStay DEF TypeInv, Arrive, RunsStay

LEMMA LapseTypes ==
    ASSUME TypeInv, NEW d \in Docs, LapseOrphaned(d) \/ LapseAtWork(d)
    PROVE  TypeInv'
  <1> DEFINE r == [queue[d] EXCEPT !.state = "lapsed"]
  <1>1. queue[d] \in Row /\ queue[d].holder # None
    BY DEF TypeInv, TablesOK, LapseOrphaned, LapseAtWork
  <1>2. r \in Row /\ r.holder # None /\ r.state = "lapsed"
    BY <1>1 DEF Row
  <1>3. queue' = [queue EXCEPT ![d] = r]
    BY DEF LapseOrphaned, LapseAtWork
  <1> HIDE DEF r
  <1>4. TablesOK'
    BY <1>2, <1>3, RowType, Constants DEF TypeInv, TablesOK, LapseOrphaned, LapseAtWork
  <1> QED  BY <1>4, WorkersStay DEF TypeInv, LapseOrphaned, LapseAtWork, RunsStay

LEMMA RequestTypes ==
    ASSUME TypeInv, NEW max \in {None, 1}, RequestManualRun(max)
    PROVE  TypeInv'
  <1> DEFINE stale == {d \in Waiting : queue[d].arrived <= now - DayTicks}
             m == [state |-> IF Waiting \ stale = {} THEN "completed" ELSE "pending",
                   cutoff |-> sequence, max |-> max, processed |-> 0]
  <1>1. m \in ManualRun
    BY Constants DEF ManualRun, TypeInv, TablesOK
  <1>2. queue' = Without(stale) /\ manual' = Append(manual, m)
    BY DEF RequestManualRun
  <1> HIDE DEF stale, m
  <1>3. manual' \in Seq(ManualRun) /\ DOMAIN manual \subseteq DOMAIN manual'
    BY <1>1, <1>2 DEF TypeInv, TablesOK
  <1>4. TablesOK'
    BY <1>2, <1>3, WithoutType DEF TypeInv, TablesOK, RequestManualRun
  <1> QED  BY <1>3, <1>4, WorkersStay DEF TypeInv, RequestManualRun, RunsStay

-----------------------------------------------------------------------------
(* The steps of the queue loop. *)
LEMMA ScheduleTypes ==
    ASSUME TypeInv, NEW w \in Workers, ReadSchedule(w)
    PROVE  TypeInv'
  <1>1. TablesOK' /\ RunsStay /\ WorkerOK(w) /\ at[w] \in Position /\ at[w].pc = "idle"
    BY DEF TypeInv, TablesOK, ReadSchedule, RunsStay
  <1>2. CASE now < NotBefore
    <2>1. Goto(w, "anchoring") /\ Agrees(w, "anchoring") /\ "anchoring" \in Stage
      BY <1>1, <1>2 DEF ReadSchedule, Agrees, WorkerOK, Stage
    <2> QED  BY <1>1, <2>1, GotoPosition DEF TypeInv
  <1>3. CASE ~(now < NotBefore)
    <2> DEFINE day == CurrentDay(w)
               pc == IF daily[day] = None \/ daily[day].boundary # Boundary(w, day)
                     THEN "superseding" ELSE "starting"
               p == [at[w] EXCEPT !.day = day, !.pc = pc]
    <2>1. day \in Day /\ day # None
      BY CurrentDayInRange, Constants DEF TypeInv, TablesOK, Day
    <2>2. pc \in {"superseding", "starting"}
      OBVIOUS
    <2>3. at' = [at EXCEPT ![w] = p]
      BY <1>1, <1>3 DEF ReadSchedule, Position, TypeInv
    <2> HIDE DEF day, pc
    <2>4. p \in Position /\ p.day = day /\ p.pc = pc /\ p.run = None /\ p.doc = None
      BY <1>1, <2>1, <2>2 DEF Position, Stage, WorkerOK
    <2>5. at'[w] = p
      BY <2>3 DEF TypeInv
    <2> HIDE DEF p
    <2>6. WorkerOK(w)'
      BY <2>1, <2>2, <2>4, <2>5 DEF WorkerOK
    <2> QED  BY <1>1, <2>3, <2>4, <2>6, WorkerMoves DEF TypeInv
  <1> QED  BY <1>2, <1>3

LEMMA ExpireTypes ==
    ASSUME TypeInv, NEW w \in Workers, ExpireManualRuns(w)
    PROVE  TypeInv'
  <1> DEFINE expired(r) == IF r \in Active THEN [manual[r] EXCEPT !.state = "failed"] ELSE manual[r]
  <1>1. ASSUME NEW r \in DOMAIN manual PROVE expired(r) \in ManualRun
    <2>1. manual[r] \in ManualRun
      BY DEF TypeInv, TablesOK
    <2> QED  BY <2>1 DEF ManualRun
  <1>2. manual' = [r \in DOMAIN manual |-> expired(r)]
    BY DEF ExpireManualRuns
  <1> HIDE DEF expired
  <1>3. manual' \in Seq(ManualRun) /\ DOMAIN manual' = DOMAIN manual
    BY <1>1, <1>2 DEF TypeInv, TablesOK
  <1>4. TablesOK' /\ RunsStay
    BY <1>3 DEF TypeInv, TablesOK, ExpireManualRuns, RunsStay
  <1>5. WorkerOK(w) /\ at[w].pc \in {"anchoring", "superseding"}
    BY DEF TypeInv, ExpireManualRuns
  <1>6. PICK stage \in {"idle", "starting"} : Goto(w, stage) /\ Agrees(w, stage) /\ stage \in Stage
    BY <1>5 DEF ExpireManualRuns, Agrees, WorkerOK, Stage
  <1> QED  BY <1>4, <1>6, GotoPosition DEF TypeInv

(* The steps that read and only choose the next stage. *)
LEMMA TurnTypes ==
    ASSUME TypeInv, NEW w \in Workers, DailyTurn(w) \/ ManualTurn(w) \/ ClaimNothing(w)
    PROVE  TypeInv'
  <1>1. TablesOK' /\ RunsStay /\ WorkerOK(w)
    BY DEF TypeInv, TablesOK, DailyTurn, ManualTurn, ClaimNothing, RunsStay
  <1>2. PICK stage \in Stage : Goto(w, stage) /\ Agrees(w, stage)
    BY <1>1 DEF DailyTurn, ManualTurn, ClaimNothing, Agrees, WorkerOK, Stage
  <1> QED  BY <1>1, <1>2, GotoPosition DEF TypeInv

LEMMA RetryDelayTypes ==
    ASSUME TypeInv, NEW w \in Workers, AskRetryDelay(w)
    PROVE  TypeInv'
  <1>1. TablesOK' /\ RunsStay /\ WorkerOK(w) /\ at[w].pc = "emptied"
    BY DEF TypeInv, TablesOK, AskRetryDelay, RunsStay
  <1>2. CASE NextTurn(w)
    BY <1>1, <1>2, NextTurnPosition DEF TypeInv
  <1>3. CASE Goto(w, "completing")
    <2>1. Agrees(w, "completing") /\ "completing" \in Stage
      BY <1>1 DEF Agrees, WorkerOK, Stage
    <2> QED  BY <1>1, <1>3, <2>1, GotoPosition DEF TypeInv
  <1> QED  BY <1>2, <1>3 DEF AskRetryDelay

LEMMA ClaimRunTypes ==
    ASSUME TypeInv, NEW w \in Workers, ClaimManualRun(w)
    PROVE  TypeInv'
  <1>1. WorkerOK(w) /\ at[w] \in Position /\ at[w].pc = "snapshots"
    BY DEF TypeInv, ClaimManualRun
  <1>2. CASE Active = {}
    <2>1. TablesOK' /\ RunsStay
      BY <1>2 DEF TypeInv, TablesOK, ClaimManualRun, RunsStay
    <2>2. CASE at[w].day = None
      <3>1. at' = [at EXCEPT ![w] = [Idle EXCEPT !.pc = "idle"]]
        BY <1>2, <2>2 DEF ClaimManualRun, Idle
      <3> QED  BY <2>1, <3>1, IdlePosition DEF TypeInv
    <2>3. CASE at[w].day # None
      <3>1. Goto(w, "claiming")
        BY <1>2, <2>3 DEF ClaimManualRun, Goto
      <3>2. Agrees(w, "claiming") /\ "claiming" \in Stage
        BY <1>1, <2>3 DEF Agrees, WorkerOK, Stage
      <3> QED  BY <2>1, <3>1, <3>2, GotoPosition DEF TypeInv
    <2> QED  BY <2>2, <2>3
  <1>3. CASE Active # {}
    <2>1. PICK r \in Active :
             /\ manual' = [manual EXCEPT ![r].state = "running"]
             /\ at' = [at EXCEPT ![w].pc = "manual", ![w].run = r]
      BY <1>3 DEF ClaimManualRun
    <2> DEFINE m == [manual[r] EXCEPT !.state = "running"]
               p == [at[w] EXCEPT !.pc = "manual", !.run = r]
    <2>2. r \in DOMAIN manual /\ r \in Nat /\ manual[r] \in ManualRun
      BY DEF Active, TypeInv, TablesOK
    <2>3. m \in ManualRun /\ manual' = [manual EXCEPT ![r] = m]
      BY <2>1, <2>2 DEF ManualRun
    <2>4. manual' \in Seq(ManualRun) /\ DOMAIN manual' = DOMAIN manual
      BY <2>2, <2>3, ManualUpdate DEF TypeInv
    <2>5. TablesOK' /\ RunsStay
      BY <2>4 DEF TypeInv, TablesOK, ClaimManualRun, RunsStay
    <2>6. /\ p \in Position /\ p.pc = "manual" /\ p.run = r
          /\ p.day = at[w].day /\ p.doc = at[w].doc
      BY <1>1, <2>2 DEF Position, Stage
    <2>7. at' = [at EXCEPT ![w] = p] /\ at'[w] = p
      BY <2>1, <1>1 DEF TypeInv, Position
    <2> HIDE DEF p, m
    <2>8. at[w].day # None => daily'[at[w].day] # None
      BY <1>1, <2>5 DEF WorkerOK, RunsStay, Position
    <2>9. r # None
      BY <2>2, Constants
    <2>10. WorkerOK(w)'
      BY <1>1, <2>2, <2>4, <2>6, <2>7, <2>8, <2>9 DEF WorkerOK
    <2> QED  BY <2>5, <2>6, <2>7, <2>10, WorkerMoves DEF TypeInv
  <1> QED  BY <1>2, <1>3

(* The run a replica starts or finds committed, and the runs it supersedes. *)
StartedRun(w) ==
    IF CommittedRun(at[w].day, Boundary(w, at[w].day)) THEN daily[at[w].day]
    ELSE FrozenRun(Boundary(w, at[w].day))

LEMMA StartFacts ==
    ASSUME TypeInv, NEW w \in Workers, at[w].pc = "starting"
    PROVE  /\ at[w].day \in Day /\ Boundary(w, at[w].day) \in Int
           /\ StartedRun(w) \in DailyRun
           /\ Superseded(at[w].day) \in [Day -> DailyRun \cup {None}]
           /\ \A e \in Day : daily[e] # None => Superseded(at[w].day)[e] # None
  <1>1. at[w].day \in Day
    BY DEF TypeInv, WorkerOK, Position
  <1>2. Boundary(w, at[w].day) \in Int
    BY <1>1, Constants DEF Boundary, Day
  <1>3. FrozenRun(Boundary(w, at[w].day)) \in DailyRun
    <2>1. Cohort(Boundary(w, at[w].day)) \subseteq Docs
      BY DEF Cohort, Waiting
    <2> QED  BY <1>2, <2>1 DEF FrozenRun, DailyRun, TypeInv, TablesOK
  <1>4. StartedRun(w) \in DailyRun
    BY <1>1, <1>3 DEF StartedRun, CommittedRun, TypeInv, TablesOK
  <1>5. ASSUME NEW e \in Day
        PROVE  /\ Superseded(at[w].day)[e] \in DailyRun \cup {None}
               /\ daily[e] # None => Superseded(at[w].day)[e] # None
    <2>1. CASE e < at[w].day /\ daily[e] # None /\ daily[e].state = "running"
      <3>1. daily[e] \in DailyRun
        BY <2>1 DEF TypeInv, TablesOK
      <3>2. [daily[e] EXCEPT !.state = "superseded"] \in DailyRun
        BY <3>1 DEF DailyRun
      <3> QED  BY <2>1, <3>2, NullAssumption DEF Superseded
    <2>2. CASE ~(e < at[w].day /\ daily[e] # None /\ daily[e].state = "running")
      BY <2>2 DEF Superseded, TypeInv, TablesOK
    <2> QED  BY <2>1, <2>2
  <1> QED  BY <1>1, <1>2, <1>4, <1>5 DEF Superseded

LEMMA StartTypes ==
    ASSUME TypeInv, NEW w \in Workers, StartDailyRun(w)
    PROVE  TypeInv'
  <1> DEFINE run == StartedRun(w)
             old == Superseded(at[w].day)
  <1>1. at[w].pc = "starting" /\ WorkerOK(w) /\ at[w] \in Position
    BY DEF TypeInv, StartDailyRun
  <1>2. /\ at[w].day \in Day /\ run \in DailyRun /\ old \in [Day -> DailyRun \cup {None}]
        /\ \A e \in Day : daily[e] # None => old[e] # None
    BY <1>1, StartFacts
  <1>3. /\ daily' = [old EXCEPT ![at[w].day] = run]
        /\ at' = [at EXCEPT ![w] =
              IF run.state \in {"completed", "quota_exhausted"}
              THEN [Idle EXCEPT !.pc = "snapshots"]
              ELSE [at[w] EXCEPT !.pc = "daily", !.cutoff = run.cutoff]]
        /\ UNCHANGED <<now, sequence, manual, faults>>
    BY DEF StartDailyRun, StartedRun
  <1>4. PICK S : queue' = queue \/ queue' = Without(S)
    <2> DEFINE S == {d \in Waiting \ run.members : queue[d].arrived <= Boundary(w, at[w].day)}
    <2>1. queue' = queue \/ queue' = Without(S)
      BY DEF StartDailyRun, StartedRun
    <2> HIDE DEF S
    <2> QED  BY <2>1
  <1> HIDE DEF run, old
  <1>5. run # None
    BY <1>2, NullAssumption
  <1>6. TablesOK'
    <2>1. daily' \in [Day -> DailyRun \cup {None}]
      BY <1>2, <1>3
    <2>2. /\ queue' \in [Docs -> Row]
          /\ \A d \in Docs : queue'[d].holder # None <=> queue'[d].state \in {"held", "lapsed"}
      BY <1>4, WithoutType DEF TypeInv, TablesOK
    <2> QED  BY <1>3, <2>1, <2>2 DEF TypeInv, TablesOK
  <1>7. RunsStay /\ daily'[at[w].day] # None
    BY <1>2, <1>3, <1>5 DEF RunsStay
  <1>8. CASE run.state \in {"completed", "quota_exhausted"}
    <2>1. at' = [at EXCEPT ![w] = [Idle EXCEPT !.pc = "snapshots"]]
      BY <1>3, <1>8
    <2> QED  BY <1>6, <1>7, <2>1, IdlePosition DEF TypeInv
  <1>9. CASE ~(run.state \in {"completed", "quota_exhausted"})
    <2> DEFINE p == [at[w] EXCEPT !.pc = "daily", !.cutoff = run.cutoff]
    <2>1. run.cutoff \in Ordinal
      BY <1>2 DEF DailyRun
    <2>2. /\ p \in Position /\ p.pc = "daily" /\ p.day = at[w].day
          /\ p.run = at[w].run /\ p.doc = at[w].doc
      BY <1>1, <2>1 DEF Position, Stage
    <2>3. at' = [at EXCEPT ![w] = p] /\ at'[w] = p
      BY <1>3, <1>9 DEF TypeInv
    <2> HIDE DEF p
    <2>4. WorkerOK(w)'
      BY <1>1, <1>7, <2>2, <2>3 DEF WorkerOK
    <2> QED  BY <1>6, <1>7, <2>2, <2>3, <2>4, WorkerMoves DEF TypeInv
  <1> QED  BY <1>8, <1>9

LEMMA ClaimTypes ==
    ASSUME TypeInv, NEW w \in Workers, ClaimCandidate(w)
    PROVE  TypeInv'
  <1>1. PICK d \in Docs :
           /\ queue' = [queue EXCEPT ![d].state = "held", ![d].holder = w]
           /\ at' = [at EXCEPT ![w].pc = "working", ![w].doc = d]
    BY DEF ClaimCandidate, Claimable
  <1> DEFINE r == [queue[d] EXCEPT !.state = "held", !.holder = w]
             p == [at[w] EXCEPT !.pc = "working", !.doc = d]
  <1>2. WorkerOK(w) /\ at[w] \in Position /\ queue[d] \in Row /\ at[w].pc = "claiming"
    BY DEF TypeInv, TablesOK, ClaimCandidate
  <1>3. r \in Row /\ r.state = "held" /\ r.holder = w /\ w # None /\ d # None
    BY <1>2, Constants DEF Row
  <1>4. /\ p \in Position /\ p.pc = "working" /\ p.doc = d
        /\ p.day = at[w].day /\ p.run = at[w].run
    BY <1>2 DEF Position, Stage
  <1>5. queue' = [queue EXCEPT ![d] = r]
    BY <1>1, <1>2 DEF Row, TypeInv, TablesOK
  <1>6. at' = [at EXCEPT ![w] = p] /\ at'[w] = p
    BY <1>1, <1>2 DEF TypeInv, Position
  <1> HIDE DEF r, p
  <1>7. TablesOK' /\ RunsStay
    BY <1>3, <1>5, RowType DEF TypeInv, TablesOK, ClaimCandidate, RunsStay
  <1>8. /\ daily' = daily /\ manual' = manual
        /\ at[w].day # None => daily[at[w].day] # None
        /\ at[w].run # None => at[w].run \in DOMAIN manual
        /\ at[w].day # None \/ at[w].run # None
    BY <1>2 DEF WorkerOK, ClaimCandidate
  <1>9. WorkerOK(w)'
    BY <1>3, <1>4, <1>6, <1>8 DEF WorkerOK
  <1> QED  BY <1>4, <1>6, <1>7, <1>9, WorkerMoves DEF TypeInv

(* A paper that goes back to the queue. *)
LEMMA RequeuedType ==
    ASSUME TablesOK, NEW d \in Docs, NEW retry \in Instant \cup {None}, queue' = Requeued(d, retry)
    PROVE  /\ queue' \in [Docs -> Row]
           /\ \A e \in Docs : queue'[e].holder # None <=> queue'[e].state \in {"held", "lapsed"}
  <1> DEFINE r == [queue[d] EXCEPT !.state = "queued", !.holder = None, !.retry = retry]
  <1>1. queue[d] \in Row
    BY DEF TablesOK
  <1>2. r \in Row /\ r.state = "queued" /\ r.holder = None
    BY <1>1 DEF Row
  <1>3. queue' = [queue EXCEPT ![d] = r]
    BY <1>1 DEF Requeued, TablesOK, Row
  <1> HIDE DEF r
  <1> QED  BY <1>2, <1>3, RowType

(* A worker on a paper has one. *)
LEMMA WorkingDoc ==
    ASSUME TypeInv, NEW w \in Workers, at[w].pc \in {"working", "counting"}
    PROVE  at[w].doc \in Docs /\ WorkerOK(w)
  BY DEF TypeInv, WorkerOK, Position

LEMMA FinishTypes ==
    ASSUME TypeInv, NEW w \in Workers, FinishCandidate(w)
    PROVE  TypeInv'
  <1>1. at[w].pc = "working" /\ at[w].doc \in Docs /\ WorkerOK(w) /\ RunsStay
    BY WorkingDoc DEF FinishCandidate, RunsStay
  <1>2. CASE Holds(w)
    <2>1. TablesOK'
      BY <1>2, WithoutType DEF TypeInv, TablesOK, FinishCandidate
    <2>2. Goto(w, "counting") /\ Agrees(w, "counting") /\ "counting" \in Stage
      BY <1>1, <1>2 DEF FinishCandidate, Agrees, WorkerOK, Stage
    <2> QED  BY <1>1, <2>1, <2>2, GotoPosition DEF TypeInv
  <1>3. CASE ~Holds(w)
    <2>1. TablesOK' /\ Return(w)
      BY <1>3 DEF TypeInv, TablesOK, FinishCandidate
    <2> QED  BY <1>1, <2>1, ReturnPosition DEF TypeInv
  <1> QED  BY <1>2, <1>3

LEMMA DeferTypes ==
    ASSUME TypeInv, NEW w \in Workers, DeferCandidate(w)
    PROVE  TypeInv'
  <1>1. /\ at[w].pc = "working" /\ at[w].doc \in Docs /\ WorkerOK(w) /\ RunsStay
        /\ now + 1 \in Instant
    BY WorkingDoc, Constants DEF DeferCandidate, RunsStay, TypeInv, TablesOK
  <1>2. CASE Holds(w)
    <2>1. TablesOK'
      BY <1>1, <1>2, RequeuedType DEF TypeInv, TablesOK, DeferCandidate
    <2> QED  BY <1>1, <1>2, <2>1, NextTurnPosition DEF TypeInv, DeferCandidate
  <1>3. CASE ~Holds(w)
    <2>1. TablesOK' /\ Return(w)
      BY <1>3 DEF TypeInv, TablesOK, DeferCandidate
    <2> QED  BY <1>1, <2>1, ReturnPosition DEF TypeInv
  <1> QED  BY <1>2, <1>3

LEMMA FailTypes ==
    ASSUME TypeInv, NEW w \in Workers, FailCandidate(w)
    PROVE  TypeInv'
  <1>1. at[w].pc = "working" /\ at[w].doc \in Docs /\ WorkerOK(w) /\ at[w] \in Position /\ RunsStay
    BY WorkingDoc DEF FailCandidate, RunsStay, TypeInv
  <1>2. /\ queue' \in [Docs -> Row]
        /\ \A d \in Docs : queue'[d].holder # None <=> queue'[d].state \in {"held", "lapsed"}
    BY <1>1, RequeuedType DEF FailCandidate, TypeInv, TablesOK
  <1>3. TablesOK'
    BY <1>2, Constants DEF TypeInv, TablesOK, FailCandidate
  <1>4. CASE Return(w)
    BY <1>1, <1>3, <1>4, ReturnPosition DEF TypeInv
  <1>5. CASE at' = [at EXCEPT ![w].pc = "exhausting", ![w].doc = None]
    <2> DEFINE p == [at[w] EXCEPT !.pc = "exhausting", !.doc = None]
    <2>1. /\ p \in Position /\ p.pc = "exhausting" /\ p.doc = None
          /\ p.day = at[w].day /\ p.run = at[w].run
      BY <1>1 DEF Position, Stage
    <2>2. at' = [at EXCEPT ![w] = p] /\ at'[w] = p
      BY <1>1, <1>5 DEF TypeInv, Position
    <2> HIDE DEF p
    <2>3. at[w].day # None => daily'[at[w].day] # None
      BY <1>1 DEF WorkerOK, RunsStay, Position
    <2>4. WorkerOK(w)'
      BY <1>1, <2>1, <2>2, <2>3 DEF WorkerOK, FailCandidate
    <2> QED  BY <1>1, <1>3, <2>1, <2>2, <2>4, WorkerMoves DEF TypeInv
  <1> QED  BY <1>4, <1>5 DEF FailCandidate

(* The run of a worker that counts or finishes is an existing one. *)
LEMMA RunUpdates ==
    ASSUME TypeInv, NEW w \in Workers, RecordProcessed(w) \/ FinishRun(w)
    PROVE  TablesOK' /\ RunsStay
  <1>1. WorkerOK(w) /\ at[w] \in Position
        /\ at[w].pc \in {"counting", "completing", "exhausting"}
    BY DEF TypeInv, RecordProcessed, FinishRun
  <1>2. CASE at[w].run # None
    <2> DEFINE r == at[w].run
    <2>1. r \in DOMAIN manual /\ manual[r] \in ManualRun
      BY <1>1, <1>2 DEF WorkerOK, TypeInv, TablesOK
    <2>2. PICK state \in {"completed", "quota_exhausted"} :
             \/ manual' = [manual EXCEPT ![r].processed = @ + 1]
             \/ manual' = [manual EXCEPT ![r].state = state]
      BY <1>2 DEF RecordProcessed, FinishRun
    <2>3. /\ [manual[r] EXCEPT !.processed = @ + 1] \in ManualRun
          /\ [manual[r] EXCEPT !.state = state] \in ManualRun
      BY <2>1 DEF ManualRun
    <2>4. \E m \in ManualRun : manual' = [manual EXCEPT ![r] = m]
      BY <2>1, <2>2, <2>3 DEF ManualRun
    <2>5. manual' \in Seq(ManualRun) /\ DOMAIN manual' = DOMAIN manual
      BY <2>1, <2>4, ManualUpdate DEF TypeInv
    <2> QED  BY <1>2, <2>5 DEF TypeInv, TablesOK, RunsStay, RecordProcessed, FinishRun
  <1>3. CASE at[w].run = None
    <2> DEFINE e == at[w].day
    <2>1. e \in Day /\ daily[e] \in DailyRun
      BY <1>1, <1>3 DEF WorkerOK, TypeInv, TablesOK, Position
    <2>2. PICK state \in {"completed", "quota_exhausted"} :
             \/ daily' = [daily EXCEPT ![e].processed = @ + 1]
             \/ daily' = [daily EXCEPT ![e].state = state]
      BY <1>3 DEF RecordProcessed, FinishRun
    <2>3. /\ [daily[e] EXCEPT !.processed = @ + 1] \in DailyRun
          /\ [daily[e] EXCEPT !.state = state] \in DailyRun
      BY <2>1 DEF DailyRun
    <2>4. \E x \in DailyRun : daily' = [daily EXCEPT ![e] = x]
      BY <2>1, <2>2, <2>3 DEF DailyRun
    <2>5. /\ daily' \in [Day -> DailyRun \cup {None}]
          /\ \A f \in Day : daily[f] # None => daily'[f] # None
      BY <2>1, <2>4, DailyUpdate DEF TypeInv
    <2> QED  BY <1>3, <2>5 DEF TypeInv, TablesOK, RunsStay, RecordProcessed, FinishRun
  <1> QED  BY <1>2, <1>3

LEMMA OtherTypes ==
    ASSUME TypeInv, NEW w \in Workers, StoreUnavailable(w) \/ Crash(w) \/ Restart(w)
    PROVE  TypeInv'
  <1>1. TablesOK' /\ RunsStay
    <2>1. ASSUME NEW d \in Docs
          PROVE  LET r == IF queue[d].state = "lapsed"
                          THEN [queue[d] EXCEPT !.state = "queued", !.holder = None] ELSE queue[d]
                 IN  r \in Row /\ (r.holder # None <=> r.state \in {"held", "lapsed"})
      BY DEF TypeInv, TablesOK, Row
    <2>2. CASE Restart(w)
      BY <2>1, <2>2 DEF TypeInv, TablesOK, RunsStay, Restart
    <2> QED  BY <2>2, Constants DEF TypeInv, TablesOK, RunsStay, StoreUnavailable, Crash
  <1>2. CASE StoreUnavailable(w) /\ Return(w)
    <2>1. at[w].pc \notin {"superseding", "starting"} \/ at' = [at EXCEPT ![w] = Idle]
      BY <1>2 DEF StoreUnavailable
    <2>2. [Idle EXCEPT !.pc = "idle"] = Idle
      BY DEF Idle
    <2> QED  BY <1>1, <1>2, <2>1, <2>2, ReturnPosition, IdlePosition DEF TypeInv
  <1>3. CASE at' = [at EXCEPT ![w] = Idle]
    <2>1. [Idle EXCEPT !.pc = "idle"] = Idle
      BY DEF Idle
    <2> QED  BY <1>1, <1>3, <2>1, IdlePosition DEF TypeInv
  <1>4. CASE at' = [at EXCEPT ![w] = [Idle EXCEPT !.pc = "down"]]
    BY <1>1, <1>4, IdlePosition DEF TypeInv
  <1> QED  BY <1>2, <1>3, <1>4 DEF StoreUnavailable, Crash, Restart

LEMMA TypeStep == TypeInv /\ [Next]_vars => TypeInv'
  <1> SUFFICES ASSUME TypeInv, [Next]_vars PROVE TypeInv'
    OBVIOUS
  <1>1. ASSUME NEW d \in Docs, NEW changed \in BOOLEAN, Arrive(d, changed) PROVE TypeInv'
    BY <1>1, ArrivalTypes
  <1>2. ASSUME NEW max \in {None, 1}, RequestManualRun(max) PROVE TypeInv'
    BY <1>2, RequestTypes
  <1>3. ASSUME NEW d \in Docs, LapseOrphaned(d) \/ LapseAtWork(d) PROVE TypeInv'
    BY <1>3, LapseTypes
  <1>4. ASSUME NEW w \in Workers, Loop(w) \/ StoreUnavailable(w) \/ Crash(w) PROVE TypeInv'
    <2>1. CASE ReadSchedule(w)
      BY <2>1, ScheduleTypes
    <2>2. CASE ExpireManualRuns(w)
      BY <2>2, ExpireTypes
    <2>3. CASE StartDailyRun(w)
      BY <2>3, StartTypes
    <2>4. CASE DailyTurn(w) \/ ManualTurn(w) \/ ClaimNothing(w)
      BY <2>4, TurnTypes
    <2>5. CASE ClaimManualRun(w)
      BY <2>5, ClaimRunTypes
    <2>6. CASE ClaimCandidate(w)
      BY <2>6, ClaimTypes
    <2>7. CASE AskRetryDelay(w)
      BY <2>7, RetryDelayTypes
    <2>8. CASE FinishCandidate(w)
      BY <2>8, FinishTypes
    <2>9. CASE DeferCandidate(w)
      BY <2>9, DeferTypes
    <2>10. CASE FailCandidate(w)
      BY <2>10, FailTypes
    <2>11. CASE RecordProcessed(w)
      <3>1. TablesOK' /\ RunsStay
        BY <2>11, RunUpdates
      <3>2. at[w].pc = "counting" /\ NextTurn(w)
        BY <2>11 DEF RecordProcessed
      <3> QED  BY <3>1, <3>2, NextTurnPosition DEF TypeInv
    <2>12. CASE FinishRun(w)
      <3>1. TablesOK' /\ RunsStay
        BY <2>12, RunUpdates
      <3>2. at[w].pc \in {"completing", "exhausting"} /\ Return(w)
        BY <2>12 DEF FinishRun
      <3> QED  BY <3>1, <3>2, ReturnPosition DEF TypeInv
    <2>13. CASE StoreUnavailable(w) \/ Crash(w) \/ Restart(w)
      BY <2>13, OtherTypes
    <2> QED  BY <1>4, <2>1, <2>2, <2>3, <2>4, <2>5, <2>6, <2>7, <2>8, <2>9, <2>10, <2>11, <2>12,
                <2>13 DEF Loop
  <1>5. CASE Tick
    <2>1. TablesOK' /\ RunsStay
      BY <1>5, Constants DEF Tick, TypeInv, TablesOK, RunsStay
    <2> QED  BY <1>5, <2>1, WorkersStay DEF Tick, TypeInv
  <1>6. CASE UNCHANGED vars
    <2>1. TablesOK' /\ RunsStay
      BY <1>6 DEF vars, TypeInv, TablesOK, RunsStay
    <2> QED  BY <1>6, <2>1, WorkersStay DEF vars, TypeInv
  <1> QED  BY <1>1, <1>2, <1>3, <1>4, <1>5, <1>6 DEF Next

(* Every reachable state is well typed; the fields that a stage of the      *)
(* queue loop uses are there when it uses them.                            *)
THEOREM RunsTypeCorrect == Spec => []TypeOK
  <1>1. Spec => []TypeInv
    BY TypeInit, TypeStep, PTL DEF Spec
  <1> QED  BY <1>1, TypeInvImplies, PTL

-----------------------------------------------------------------------------
(***************************************************************************)
(* What one step of the foundry's runs may do to a daily run, to a paper   *)
(* and to a worker: three case distinctions over the actions, which every  *)
(* invariant of the cohort is then proved from.                            *)
(***************************************************************************)

(* The boundary of a run is that of its date, whoever computes it. *)
BoundariesOK ==
    \A e \in Day : daily[e] # None => \A w \in Workers : daily[e].boundary = Boundary(w, e)

-----------------------------------------------------------------------------
(* What a step may do to a run. *)
SameCore(e) ==
    /\ daily[e] # None /\ daily'[e] # None
    /\ daily'[e].members = daily[e].members
    /\ daily'[e].cutoff = daily[e].cutoff
    /\ daily'[e].boundary = daily[e].boundary

Counts(w, e) == RecordProcessed(w) /\ at[w].run = None /\ at[w].day = e

Freezes(w, e) ==
    StartDailyRun(w) /\ at[w].day = e /\ daily[e] = None /\ daily'[e] = FrozenRun(Boundary(w, e))

DailyStep(e) ==
    \/ daily'[e] = daily[e]
    \/ SameCore(e) /\ daily'[e].processed = daily[e].processed
    \/ SameCore(e) /\ daily'[e].processed = daily[e].processed + 1 /\ \E w \in Workers : Counts(w, e)
    \/ \E w \in Workers : Freezes(w, e)

LEMMA SupersededCore ==
    ASSUME TypeInv, NEW day \in Day, NEW e \in Day, daily[e] # None
    PROVE  LET x == Superseded(day)[e] IN
               /\ x # None /\ x.members = daily[e].members /\ x.cutoff = daily[e].cutoff
               /\ x.boundary = daily[e].boundary /\ x.processed = daily[e].processed
  <1>1. daily[e] \in DailyRun
    BY DEF TypeInv, TablesOK
  <1> DEFINE y == [daily[e] EXCEPT !.state = "superseded"]
  <1>2. /\ y \in DailyRun /\ y.members = daily[e].members /\ y.cutoff = daily[e].cutoff
        /\ y.boundary = daily[e].boundary /\ y.processed = daily[e].processed
    BY <1>1 DEF DailyRun
  <1>3. y # None
    BY <1>2, NullAssumption
  <1>4. Superseded(day)[e] = y \/ Superseded(day)[e] = daily[e]
    BY DEF Superseded
  <1> HIDE DEF y
  <1> QED  BY <1>2, <1>3, <1>4

LEMMA StartDailyStep ==
    ASSUME TypeInv, BoundariesOK, NEW w \in Workers, StartDailyRun(w), NEW e \in Day
    PROVE  DailyStep(e)
  <1> DEFINE day == at[w].day
  <1>1. day \in Day /\ Superseded(day) \in [Day -> DailyRun \cup {None}]
    BY StartFacts DEF StartDailyRun
  <1>2. daily' = [Superseded(day) EXCEPT ![day] = StartedRun(w)]
    BY DEF StartDailyRun, StartedRun
  <1>3. CASE e # day
    <2>1. daily'[e] = Superseded(day)[e]
      BY <1>1, <1>2, <1>3
    <2>2. CASE daily[e] = None
      <3>1. Superseded(day)[e] = daily[e]
        BY <2>2 DEF Superseded
      <3> QED  BY <2>1, <3>1 DEF DailyStep
    <2>3. CASE daily[e] # None
      BY <1>1, <2>1, <2>3, SupersededCore DEF DailyStep, SameCore
    <2> QED  BY <2>2, <2>3
  <1>4. CASE e = day
    <2>1. daily'[e] = StartedRun(w)
      BY <1>1, <1>2, <1>4
    <2>2. CASE daily[e] = None
      <3>1. StartedRun(w) = FrozenRun(Boundary(w, e))
        BY <1>4, <2>2 DEF StartedRun, CommittedRun
      <3>2. Freezes(w, e)
        BY <1>4, <2>1, <2>2, <3>1 DEF Freezes
      <3> QED  BY <3>2 DEF DailyStep
    <2>3. CASE daily[e] # None
      <3>1. CommittedRun(day, Boundary(w, day))
        BY <1>4, <2>3 DEF BoundariesOK, CommittedRun
      <3>2. daily'[e] = daily[e]
        BY <1>4, <2>1, <3>1 DEF StartedRun
      <3> QED  BY <3>2 DEF DailyStep
    <2> QED  BY <2>2, <2>3
  <1> QED  BY <1>3, <1>4

LEMMA UpdateDailyStep ==
    ASSUME TypeInv, NEW w \in Workers, RecordProcessed(w) \/ FinishRun(w), NEW e \in Day
    PROVE  DailyStep(e)
  <1>1. CASE at[w].run # None \/ at[w].day # e
    <2>1. daily'[e] = daily[e]
      BY <1>1 DEF RecordProcessed, FinishRun, TypeInv, TablesOK
    <2> QED  BY <2>1 DEF DailyStep
  <1>2. CASE at[w].run = None /\ at[w].day = e
    <2>1. daily[e] # None
      BY <1>2, Constants DEF TypeInv, WorkerOK, RecordProcessed, FinishRun, Day
    <2>2. daily[e] \in DailyRun
      BY <2>1 DEF TypeInv, TablesOK
    <2>3. CASE RecordProcessed(w)
      <3> DEFINE x == [daily[e] EXCEPT !.processed = @ + 1]
      <3>1. daily'[e] = x
        BY <1>2, <2>3 DEF RecordProcessed, TypeInv, TablesOK
      <3>2. /\ x \in DailyRun /\ x.members = daily[e].members /\ x.cutoff = daily[e].cutoff
            /\ x.boundary = daily[e].boundary /\ x.processed = daily[e].processed + 1
        BY <2>2 DEF DailyRun
      <3> HIDE DEF x
      <3>3. SameCore(e) /\ daily'[e].processed = daily[e].processed + 1
        BY <2>1, <3>1, <3>2, NullAssumption DEF SameCore
      <3> QED  BY <1>2, <2>3, <3>3 DEF DailyStep, Counts
    <2>4. CASE FinishRun(w)
      <3> DEFINE s == IF at[w].pc = "completing" THEN "completed" ELSE "quota_exhausted"
                 x == [daily[e] EXCEPT !.state = s]
      <3>1. daily'[e] = x
        BY <1>2, <2>4 DEF FinishRun, TypeInv, TablesOK
      <3>2. /\ x \in DailyRun /\ x.members = daily[e].members /\ x.cutoff = daily[e].cutoff
            /\ x.boundary = daily[e].boundary /\ x.processed = daily[e].processed
        BY <2>2 DEF DailyRun
      <3> HIDE DEF x
      <3>3. SameCore(e) /\ daily'[e].processed = daily[e].processed
        BY <2>1, <3>1, <3>2, NullAssumption DEF SameCore
      <3> QED  BY <3>3 DEF DailyStep
    <2> QED  BY <2>3, <2>4
  <1> QED  BY <1>1, <1>2

LEMMA DailySteps ==
    ASSUME TypeInv, BoundariesOK, [Next]_vars, NEW e \in Day
    PROVE  DailyStep(e)
  <1>1. ASSUME NEW w \in Workers, StartDailyRun(w) PROVE DailyStep(e)
    BY <1>1, StartDailyStep
  <1>2. ASSUME NEW w \in Workers, RecordProcessed(w) \/ FinishRun(w) PROVE DailyStep(e)
    BY <1>2, UpdateDailyStep
  <1>3. ASSUME daily' = daily PROVE DailyStep(e)
    BY <1>3 DEF DailyStep
  <1>4. ASSUME NEW w \in Workers, Loop(w) \/ StoreUnavailable(w) \/ Crash(w) PROVE DailyStep(e)
    BY <1>1, <1>2, <1>3, <1>4 DEF Loop, ReadSchedule, ExpireManualRuns, DailyTurn, ClaimManualRun,
       ManualTurn, ClaimCandidate, ClaimNothing, AskRetryDelay, FinishCandidate, DeferCandidate,
       FailCandidate, Restart, StoreUnavailable, Crash
  <1> QED  BY <1>3, <1>4 DEF Next, vars, Arrive, RequestManualRun, LapseOrphaned, LapseAtWork, Tick

-----------------------------------------------------------------------------
(* What a step may do to a paper. *)
RowStep(d) ==
    /\ \/ queue'[d].state = "absent"
       \/ /\ queue[d].state # "absent"
          /\ queue'[d].ordinal = queue[d].ordinal /\ queue'[d].arrived = queue[d].arrived
       \/ queue'[d].state = "queued" /\ queue'[d].ordinal = sequence + 1
    /\ queue'[d].state = "held" =>
          \/ queue[d].state = "held" /\ queue'[d].holder = queue[d].holder
          \/ \E w \in Workers : ClaimCandidate(w) /\ at'[w].doc = d /\ queue'[d].holder = w

LEMMA KeptRow ==
    ASSUME NEW d \in Docs, queue'[d] = queue[d]
    PROVE  RowStep(d)
  BY DEF RowStep

LEMMA AbsentStep ==
    ASSUME NEW d \in Docs, queue'[d] = AbsentRow
    PROVE  RowStep(d)
  BY DEF RowStep, AbsentRow

LEMMA WithoutStep ==
    ASSUME NEW S, queue' = Without(S), NEW d \in Docs
    PROVE  RowStep(d)
  <1>1. queue'[d] = AbsentRow \/ queue'[d] = queue[d]
    BY DEF Without
  <1> QED  BY <1>1, KeptRow, AbsentStep

LEMMA RequeuedStep ==
    ASSUME TypeInv, NEW f \in Docs, queue[f].state # "absent", NEW retry, queue' = Requeued(f, retry),
           NEW d \in Docs
    PROVE  RowStep(d)
  <1>1. queue[f] \in Row /\ queue \in [Docs -> Row]
    BY DEF TypeInv, TablesOK
  <1>2. CASE d # f
    BY <1>1, <1>2, KeptRow DEF Requeued
  <1>3. CASE d = f
    <2>1. /\ queue'[d].state = "queued" /\ queue'[d].ordinal = queue[d].ordinal
          /\ queue'[d].arrived = queue[d].arrived
      BY <1>1, <1>3 DEF Requeued, Row
    <2> QED  BY <1>3, <2>1 DEF RowStep
  <1> QED  BY <1>2, <1>3

LEMMA ClaimStep ==
    ASSUME TypeInv, NEW w \in Workers, ClaimCandidate(w), NEW d \in Docs
    PROVE  RowStep(d)
  <1>1. PICK f \in Docs :
           /\ queue[f].state \in {"queued", "lapsed"}
           /\ queue' = [queue EXCEPT ![f].state = "held", ![f].holder = w]
           /\ at' = [at EXCEPT ![w].pc = "working", ![w].doc = f]
    BY DEF ClaimCandidate, Claimable
  <1>2. queue[f] \in Row /\ queue \in [Docs -> Row] /\ at[w] \in Position /\ at \in [Workers -> Position]
    BY DEF TypeInv, TablesOK
  <1>3. CASE d # f
    BY <1>1, <1>2, <1>3, KeptRow
  <1>4. CASE d = f
    <2>1. /\ queue'[d].holder = w /\ queue'[d].ordinal = queue[d].ordinal
          /\ queue'[d].arrived = queue[d].arrived
      BY <1>1, <1>2, <1>4 DEF Row
    <2>2. at'[w].doc = d
      BY <1>1, <1>2, <1>4 DEF Position
    <2> QED  BY <1>1, <1>4, <2>1, <2>2 DEF RowStep
  <1> QED  BY <1>3, <1>4

LEMMA ArriveStep ==
    ASSUME TypeInv, NEW f \in Docs, NEW changed \in BOOLEAN, Arrive(f, changed), NEW d \in Docs
    PROVE  RowStep(d)
  <1>1. queue[f] \in Row /\ queue \in [Docs -> Row]
    BY DEF TypeInv, TablesOK
  <1>2. CASE d # f
    BY <1>1, <1>2, KeptRow DEF Arrive
  <1>3. CASE d = f /\ queue[d].state = "absent"
    <2>1. queue'[d] = [AbsentRow EXCEPT !.state = "queued", !.ordinal = sequence + 1, !.arrived = now]
      BY <1>1, <1>3 DEF Arrive
    <2>2. queue'[d].state = "queued" /\ queue'[d].ordinal = sequence + 1
      BY <2>1 DEF AbsentRow
    <2> QED  BY <2>2 DEF RowStep
  <1>4. CASE d = f /\ queue[d].state = "queued" /\ changed
    <2>1. queue'[d] = [queue[d] EXCEPT !.ordinal = sequence + 1, !.arrived = now]
      BY <1>1, <1>4 DEF Arrive
    <2>2. queue'[d].state = "queued" /\ queue'[d].ordinal = sequence + 1
      BY <1>1, <1>4, <2>1 DEF Row
    <2> QED  BY <2>2 DEF RowStep
  <1>5. CASE d = f /\ queue[d].state # "absent" /\ ~(queue[d].state = "queued" /\ changed)
    <2>1. queue'[d] = queue[d]
      BY <1>1, <1>5 DEF Arrive
    <2> QED  BY <2>1, KeptRow
  <1> QED  BY <1>2, <1>3, <1>4, <1>5

LEMMA RowSteps ==
    ASSUME TypeInv, [Next]_vars, NEW d \in Docs
    PROVE  RowStep(d)
  <1>1. ASSUME queue' = queue PROVE RowStep(d)
    BY <1>1, KeptRow
  <1>2. ASSUME NEW w \in Workers, Loop(w) \/ StoreUnavailable(w) \/ Crash(w) PROVE RowStep(d)
    <2>1. CASE ClaimCandidate(w)
      BY <2>1, ClaimStep
    <2>2. CASE StartDailyRun(w)
      <3> DEFINE S == {f \in Waiting \ StartedRun(w).members :
                         queue[f].arrived <= Boundary(w, at[w].day)}
      <3>1. queue' = queue \/ queue' = Without(S)
        BY <2>2 DEF StartDailyRun, StartedRun
      <3> HIDE DEF S
      <3> QED  BY <1>1, <3>1, WithoutStep
    <2>3. CASE FinishCandidate(w)
      BY <1>1, <2>3, WithoutStep DEF FinishCandidate
    <2>4. CASE DeferCandidate(w) \/ FailCandidate(w)
      <3>1. at[w].doc \in Docs
        BY <2>4, WorkingDoc DEF DeferCandidate, FailCandidate
      <3>2. Holds(w) => queue[at[w].doc].state # "absent"
        BY DEF Holds
      <3> QED  BY <1>1, <2>4, <3>1, <3>2, RequeuedStep DEF DeferCandidate, FailCandidate
    <2>5. CASE Restart(w)
      <3>1. queue[d] \in Row
        BY DEF TypeInv, TablesOK
      <3>2. CASE queue[d].state = "lapsed"
        <4>1. queue'[d] = [queue[d] EXCEPT !.state = "queued", !.holder = None]
          BY <2>5, <3>2 DEF Restart
        <4> QED  BY <3>1, <3>2, <4>1 DEF RowStep, Row
      <3>3. CASE queue[d].state # "lapsed"
        BY <2>5, <3>3, KeptRow DEF Restart
      <3> QED  BY <3>2, <3>3
    <2> QED  BY <1>1, <1>2, <2>1, <2>2, <2>3, <2>4, <2>5 DEF Loop, ReadSchedule, ExpireManualRuns,
           DailyTurn, ClaimManualRun, ManualTurn, ClaimNothing, AskRetryDelay, RecordProcessed,
           FinishRun, StoreUnavailable, Crash
  <1>3. ASSUME NEW f \in Docs, LapseOrphaned(f) \/ LapseAtWork(f) PROVE RowStep(d)
    <2>1. queue[f] \in Row /\ queue \in [Docs -> Row] /\ queue[f].state = "held"
          /\ queue' = [queue EXCEPT ![f].state = "lapsed"]
      BY <1>3 DEF TypeInv, TablesOK, LapseOrphaned, LapseAtWork
    <2>2. CASE d # f
      BY <2>1, <2>2, KeptRow
    <2>3. CASE d = f
      BY <2>1, <2>3 DEF RowStep, Row
    <2> QED  BY <2>2, <2>3
  <1>4. ASSUME NEW f \in Docs, NEW changed \in BOOLEAN, Arrive(f, changed) PROVE RowStep(d)
    BY <1>4, ArriveStep
  <1>5. ASSUME NEW max \in {None, 1}, RequestManualRun(max) PROVE RowStep(d)
    <2> DEFINE S == {f \in Waiting : queue[f].arrived <= now - DayTicks}
    <2>1. queue' = Without(S)
      BY <1>5 DEF RequestManualRun
    <2> HIDE DEF S
    <2> QED  BY <2>1, WithoutStep
  <1> QED  BY <1>1, <1>2, <1>3, <1>4, <1>5 DEF Next, vars, Tick

-----------------------------------------------------------------------------
(* What a step may do to a worker. *)
KeepsRun(v) ==
    at'[v].day = at[v].day /\ at'[v].run = at[v].run /\ at'[v].cutoff = at[v].cutoff

WorkerStep(v) ==
    \/ at'[v] = at[v]
    \/ /\ at'[v].pc \notin {"working", "counting"}
       /\ \/ at'[v].day = None
          \/ at'[v].pc \in {"superseding", "starting"}
          \/ /\ at[v].pc \notin {"superseding", "starting"}
             /\ at'[v].day = at[v].day /\ at'[v].cutoff = at[v].cutoff
          \/ StartDailyRun(v) /\ at'[v].day = at[v].day /\ at'[v].cutoff = StartedRun(v).cutoff
    \/ ClaimCandidate(v) /\ KeepsRun(v) /\ at'[v].pc = "working"
    \/ FinishCandidate(v) /\ Holds(v) /\ KeepsRun(v) /\ at'[v].pc = "counting"

LEMMA MovedWorker ==
    ASSUME TypeInv, NEW w \in Workers, NEW p, at' = [at EXCEPT ![w] = p]
    PROVE  at'[w] = p /\ \A v \in Workers \ {w} : WorkerStep(v)
  BY DEF TypeInv, WorkerStep

LEMMA GotoStep ==
    ASSUME TypeInv, NEW w \in Workers, NEW stage \in Stage, Goto(w, stage),
           stage \notin {"working", "counting"},
           at[w].pc \in {"superseding", "starting"} => stage \in {"superseding", "starting"},
           NEW v \in Workers
    PROVE  WorkerStep(v)
  <1> DEFINE p == [at[w] EXCEPT !.pc = stage]
  <1>1. at[w] \in Position
    BY DEF TypeInv
  <1>2. p.pc = stage /\ p.day = at[w].day /\ p.cutoff = at[w].cutoff
    BY <1>1 DEF Position
  <1>3. at' = [at EXCEPT ![w] = p]
    BY DEF Goto
  <1> HIDE DEF p
  <1>4. at'[w] = p /\ \A u \in Workers \ {w} : WorkerStep(u)
    BY <1>3, MovedWorker
  <1>5. WorkerStep(w)
    BY <1>2, <1>4 DEF WorkerStep
  <1> QED  BY <1>4, <1>5

LEMMA NextTurnStep ==
    ASSUME TypeInv, NEW w \in Workers, NextTurn(w), at[w].pc \notin {"superseding", "starting"},
           NEW v \in Workers
    PROVE  WorkerStep(v)
  <1> DEFINE p == [at[w] EXCEPT !.pc = IF at[w].run # None THEN "manual" ELSE "daily", !.doc = None]
  <1>1. at[w] \in Position
    BY DEF TypeInv
  <1>2. p.pc \in {"manual", "daily"} /\ p.day = at[w].day /\ p.cutoff = at[w].cutoff
    BY <1>1 DEF Position
  <1>3. at' = [at EXCEPT ![w] = p]
    BY <1>1 DEF NextTurn, TypeInv, Position
  <1> HIDE DEF p
  <1>4. at'[w] = p /\ \A u \in Workers \ {w} : WorkerStep(u)
    BY <1>3, MovedWorker
  <1>5. WorkerStep(w)
    BY <1>2, <1>4 DEF WorkerStep
  <1> QED  BY <1>4, <1>5

LEMMA IdleStep ==
    ASSUME TypeInv, NEW w \in Workers, NEW stage \in {"idle", "down", "snapshots"},
           at' = [at EXCEPT ![w] = [Idle EXCEPT !.pc = stage]], NEW v \in Workers
    PROVE  WorkerStep(v)
  <1> DEFINE p == [Idle EXCEPT !.pc = stage]
  <1>1. p.pc = stage /\ p.day = None
    BY DEF Idle
  <1> HIDE DEF p
  <1>2. at'[w] = p /\ \A u \in Workers \ {w} : WorkerStep(u)
    BY MovedWorker DEF p
  <1>3. WorkerStep(w)
    BY <1>1, <1>2 DEF WorkerStep
  <1> QED  BY <1>2, <1>3

LEMMA ReturnStep ==
    ASSUME TypeInv, NEW w \in Workers, Return(w), at[w].pc \notin {"superseding", "starting"},
           NEW v \in Workers
    PROVE  WorkerStep(v)
  <1>1. CASE at[w].run # None /\ at[w].day # None
    <2> DEFINE p == [at[w] EXCEPT !.pc = "daily", !.run = None, !.doc = None]
    <2>1. at[w] \in Position
      BY DEF TypeInv
    <2>2. p.pc = "daily" /\ p.day = at[w].day /\ p.cutoff = at[w].cutoff
      BY <2>1 DEF Position
    <2>3. at' = [at EXCEPT ![w] = p]
      BY <1>1 DEF Return
    <2> HIDE DEF p
    <2>4. at'[w] = p /\ \A u \in Workers \ {w} : WorkerStep(u)
      BY <2>3, MovedWorker
    <2>5. WorkerStep(w)
      BY <2>2, <2>4 DEF WorkerStep
    <2> QED  BY <2>4, <2>5
  <1>2. CASE ~(at[w].run # None /\ at[w].day # None)
    <2>1. at' = [at EXCEPT ![w] = [Idle EXCEPT !.pc = "idle"]]
      BY <1>2 DEF Return, Idle
    <2> QED  BY <2>1, IdleStep
  <1> QED  BY <1>1, <1>2

LEMMA StartStep ==
    ASSUME TypeInv, NEW w \in Workers, StartDailyRun(w), NEW v \in Workers
    PROVE  WorkerStep(v)
  <1> DEFINE run == StartedRun(w)
  <1>1. at[w] \in Position
    BY DEF TypeInv
  <1>2. at' = [at EXCEPT ![w] =
           IF run.state \in {"completed", "quota_exhausted"}
           THEN [Idle EXCEPT !.pc = "snapshots"]
           ELSE [at[w] EXCEPT !.pc = "daily", !.cutoff = run.cutoff]]
    BY DEF StartDailyRun, StartedRun
  <1> HIDE DEF run
  <1>3. CASE run.state \in {"completed", "quota_exhausted"}
    BY <1>2, <1>3, IdleStep
  <1>4. CASE ~(run.state \in {"completed", "quota_exhausted"})
    <2> DEFINE p == [at[w] EXCEPT !.pc = "daily", !.cutoff = run.cutoff]
    <2>1. p.pc = "daily" /\ p.day = at[w].day /\ p.cutoff = run.cutoff
      BY <1>1 DEF Position
    <2>2. at' = [at EXCEPT ![w] = p]
      BY <1>2, <1>4
    <2> HIDE DEF p
    <2>3. at'[w] = p /\ \A u \in Workers \ {w} : WorkerStep(u)
      BY <2>2, MovedWorker
    <2>4. WorkerStep(w)
      BY <2>1, <2>3 DEF WorkerStep, run
    <2> QED  BY <2>3, <2>4
  <1> QED  BY <1>3, <1>4

LEMMA WorkerSteps ==
    ASSUME TypeInv, [Next]_vars, NEW v \in Workers
    PROVE  WorkerStep(v)
  <1>1. ASSUME at' = at PROVE WorkerStep(v)
    BY <1>1 DEF WorkerStep
  <1>2. ASSUME NEW w \in Workers, Loop(w) \/ StoreUnavailable(w) \/ Crash(w) PROVE WorkerStep(v)
    <2> USE DEF Stage
    <2>1. at[w] \in Position /\ WorkerOK(w)
      BY DEF TypeInv
    <2>2. CASE ReadSchedule(w)
      <3>1. CASE Goto(w, "anchoring")
        BY <2>2, <3>1, GotoStep DEF ReadSchedule
      <3>2. CASE ~(now < NotBefore)
        <4> DEFINE day == CurrentDay(w)
                   pc == IF daily[day] = None \/ daily[day].boundary # Boundary(w, day)
                         THEN "superseding" ELSE "starting"
                   p == [at[w] EXCEPT !.day = day, !.pc = pc]
        <4>1. at' = [at EXCEPT ![w] = p]
          BY <2>1, <2>2, <3>2 DEF ReadSchedule, Position, TypeInv
        <4>2. pc \in {"superseding", "starting"}
          OBVIOUS
        <4> HIDE DEF pc, day
        <4>3. p.pc \in {"superseding", "starting"}
          BY <2>1, <4>2 DEF Position
        <4> HIDE DEF p
        <4>4. at'[w] = p /\ \A u \in Workers \ {w} : WorkerStep(u)
          BY <4>1, MovedWorker
        <4>5. WorkerStep(w)
          BY <4>3, <4>4 DEF WorkerStep
        <4> QED  BY <4>4, <4>5
      <3> QED  BY <2>2, <3>1, <3>2 DEF ReadSchedule
    <2>3. CASE ExpireManualRuns(w)
      <3>1. CASE at[w].pc = "anchoring"
        <4>1. Goto(w, "idle")
          BY <2>3, <3>1 DEF ExpireManualRuns
        <4> QED  BY <3>1, <4>1, GotoStep
      <3>2. CASE at[w].pc # "anchoring"
        <4>1. Goto(w, "starting")
          BY <2>3, <3>2 DEF ExpireManualRuns
        <4> QED  BY <4>1, GotoStep
      <3> QED  BY <3>1, <3>2
    <2>4. CASE StartDailyRun(w)
      BY <2>4, StartStep
    <2>5. CASE DailyTurn(w) \/ ManualTurn(w) \/ ClaimNothing(w)
      <3>1. PICK stage \in Stage : Goto(w, stage) /\ stage \notin {"working", "counting"}
        BY <2>5 DEF DailyTurn, ManualTurn, ClaimNothing
      <3> QED  BY <2>5, <3>1, GotoStep DEF DailyTurn, ManualTurn, ClaimNothing
    <2>6. CASE ClaimManualRun(w)
      <3>1. CASE Active = {} /\ at[w].day = None
        <4>1. at' = [at EXCEPT ![w] = [Idle EXCEPT !.pc = "idle"]]
          BY <2>6, <3>1 DEF ClaimManualRun, Idle
        <4> QED  BY <4>1, IdleStep
      <3>2. CASE Active = {} /\ at[w].day # None
        <4>1. Goto(w, "claiming")
          BY <2>6, <3>2 DEF ClaimManualRun, Goto
        <4> QED  BY <2>6, <4>1, GotoStep DEF ClaimManualRun
      <3>3. CASE Active # {}
        <4>1. PICK r \in Active : at' = [at EXCEPT ![w].pc = "manual", ![w].run = r]
          BY <2>6, <3>3 DEF ClaimManualRun
        <4> DEFINE p == [at[w] EXCEPT !.pc = "manual", !.run = r]
        <4>2. at' = [at EXCEPT ![w] = p]
          BY <2>1, <4>1 DEF TypeInv, Position
        <4>3. p.pc = "manual" /\ p.day = at[w].day /\ p.cutoff = at[w].cutoff
          BY <2>1 DEF Position
        <4> HIDE DEF p
        <4>4. at'[w] = p /\ \A u \in Workers \ {w} : WorkerStep(u)
          BY <4>2, MovedWorker
        <4>5. WorkerStep(w)
          BY <2>6, <4>3, <4>4 DEF WorkerStep, ClaimManualRun
        <4> QED  BY <4>4, <4>5
      <3> QED  BY <3>1, <3>2, <3>3
    <2>7. CASE ClaimCandidate(w)
      <3>1. PICK d \in Docs : at' = [at EXCEPT ![w].pc = "working", ![w].doc = d]
        BY <2>7 DEF ClaimCandidate, Claimable
      <3> DEFINE p == [at[w] EXCEPT !.pc = "working", !.doc = d]
      <3>2. at' = [at EXCEPT ![w] = p]
        BY <2>1, <3>1 DEF TypeInv, Position
      <3>3. /\ p.pc = "working" /\ p.day = at[w].day /\ p.run = at[w].run
            /\ p.cutoff = at[w].cutoff
        BY <2>1 DEF Position
      <3> HIDE DEF p
      <3>4. at'[w] = p /\ \A u \in Workers \ {w} : WorkerStep(u)
        BY <3>2, MovedWorker
      <3>5. WorkerStep(w)
        BY <2>7, <3>3, <3>4 DEF WorkerStep, KeepsRun
      <3> QED  BY <3>4, <3>5
    <2>8. CASE AskRetryDelay(w)
      <3>1. NextTurn(w) \/ Goto(w, "completing")
        BY <2>8 DEF AskRetryDelay
      <3> QED  BY <2>8, <3>1, NextTurnStep, GotoStep DEF AskRetryDelay
    <2>9. CASE FinishCandidate(w)
      <3>1. CASE Holds(w)
        <4> DEFINE p == [at[w] EXCEPT !.pc = "counting"]
        <4>1. at' = [at EXCEPT ![w] = p]
          BY <2>9, <3>1 DEF FinishCandidate, Goto
        <4>2. /\ p.pc = "counting" /\ p.day = at[w].day /\ p.run = at[w].run
              /\ p.cutoff = at[w].cutoff
          BY <2>1 DEF Position
        <4> HIDE DEF p
        <4>3. at'[w] = p /\ \A u \in Workers \ {w} : WorkerStep(u)
          BY <4>1, MovedWorker
        <4>4. WorkerStep(w)
          BY <2>9, <3>1, <4>2, <4>3 DEF WorkerStep, KeepsRun
        <4> QED  BY <4>3, <4>4
      <3>2. CASE ~Holds(w)
        BY <2>9, <3>2, ReturnStep DEF FinishCandidate
      <3> QED  BY <3>1, <3>2
    <2>10. CASE DeferCandidate(w)
      BY <2>10, NextTurnStep, ReturnStep DEF DeferCandidate
    <2>11. CASE FailCandidate(w)
      <3>1. CASE at' = [at EXCEPT ![w].pc = "exhausting", ![w].doc = None]
        <4> DEFINE p == [at[w] EXCEPT !.pc = "exhausting", !.doc = None]
        <4>1. at' = [at EXCEPT ![w] = p]
          BY <2>1, <3>1 DEF TypeInv, Position
        <4>2. p.pc = "exhausting" /\ p.day = at[w].day /\ p.cutoff = at[w].cutoff
          BY <2>1 DEF Position
        <4> HIDE DEF p
        <4>3. at'[w] = p /\ \A u \in Workers \ {w} : WorkerStep(u)
          BY <4>1, MovedWorker
        <4>4. WorkerStep(w)
          BY <2>11, <4>2, <4>3 DEF WorkerStep, FailCandidate
        <4> QED  BY <4>3, <4>4
      <3> QED  BY <2>11, <3>1, ReturnStep DEF FailCandidate
    <2>12. CASE RecordProcessed(w)
      BY <2>12, NextTurnStep DEF RecordProcessed
    <2>13. CASE FinishRun(w)
      BY <2>13, ReturnStep DEF FinishRun
    <2>14. CASE StoreUnavailable(w) /\ Return(w) /\ at[w].pc \in {"claiming", "emptied", "working", "counting"}
      BY <2>14, ReturnStep
    <2>15. CASE at' = [at EXCEPT ![w] = Idle]
      <3>1. [Idle EXCEPT !.pc = "idle"] = Idle
        BY DEF Idle
      <3> QED  BY <2>15, <3>1, IdleStep
    <2>16. CASE Crash(w)
      BY <2>16, IdleStep DEF Crash
    <2>17. StoreUnavailable(w) \/ Restart(w) =>
             \/ StoreUnavailable(w) /\ Return(w) /\ at[w].pc \in {"claiming", "emptied", "working", "counting"}
             \/ at' = [at EXCEPT ![w] = Idle]
      BY DEF StoreUnavailable, Restart
    <2> QED  BY <1>2, <2>2, <2>3, <2>4, <2>5, <2>6, <2>7, <2>8, <2>9, <2>10, <2>11, <2>12, <2>13,
                <2>14, <2>15, <2>16, <2>17 DEF Loop
  <1> QED  BY <1>1, <1>2 DEF Next, vars, Arrive, RequestManualRun, LapseOrphaned, LapseAtWork, Tick

-----------------------------------------------------------------------------
(***************************************************************************)
(* The daily cohort, for replicas that agree on the boundary hour: it is   *)
(* frozen, what a run works on arrived in its own 24 hours, and a run      *)
(* counts each of its papers at most once.                                 *)
(***************************************************************************)

USE DEF Instant, Ordinal

SameHour == \A v, w \in Workers : Offset[v] = Offset[w]

(* A run is cut off at an ordinal that was drawn before it was frozen, and  *)
(* a worker of the run remembers that ordinal.                             *)
CutoffsOK ==
    /\ \A e \in Day : daily[e] # None => daily[e].cutoff <= sequence
    /\ \A w \in Workers :
          at[w].day # None /\ at[w].pc \notin {"superseding", "starting"} =>
              at[w].cutoff = daily[at[w].day].cutoff

(* What is left of a cohort arrived in the 24 hours before its boundary. *)
LeftFresh ==
    \A e \in Day : daily[e] # None =>
        \A d \in Left(e) : /\ daily[e].boundary - DayTicks < queue[d].arrived
                           /\ queue[d].arrived <= daily[e].boundary

(* A paper that a daily run works on and still holds is left of its cohort. *)
WorkOK ==
    \A w \in Workers :
        at[w].pc = "working" /\ at[w].run = None /\ Holds(w) => at[w].doc \in Left(at[w].day)

(* The inductive invariant. *)
CohortInv == TypeInv /\ BoundariesOK /\ CutoffsOK /\ LeftFresh /\ WorkOK /\ CountedOnce

LEMMA CohortInit == Init => CohortInv
  <1> SUFFICES ASSUME Init PROVE CohortInv
    OBVIOUS
  <1>1. TypeInv
    BY TypeInit
  <1>2. \A e \in Day : daily[e] = None
    BY DEF Init
  <1>3. \A w \in Workers : at[w].day = None /\ at[w].pc = "idle"
    BY DEF Init, Idle
  <1> QED  BY <1>1, <1>2, <1>3 DEF CohortInv, BoundariesOK, CutoffsOK, LeftFresh, WorkOK, CountedOnce

-----------------------------------------------------------------------------
LEMMA BoundariesStep ==
    ASSUME SameHour, TypeInv, BoundariesOK, [Next]_vars
    PROVE  BoundariesOK'
  <1> SUFFICES ASSUME NEW e \in Day, daily'[e] # None, NEW w \in Workers
               PROVE  daily'[e].boundary = Boundary(w, e)
    BY DEF BoundariesOK, Boundary
  <1>1. CASE daily'[e] = daily[e] \/ SameCore(e)
    BY <1>1 DEF BoundariesOK, SameCore
  <1>2. CASE \E v \in Workers : Freezes(v, e)
    <2>1. PICK v \in Workers : daily'[e] = FrozenRun(Boundary(v, e))
      BY <1>2 DEF Freezes
    <2>2. daily'[e].boundary = Boundary(v, e)
      BY <2>1 DEF FrozenRun
    <2> QED  BY <2>2 DEF Boundary, SameHour
  <1> QED  BY <1>1, <1>2, DailySteps DEF DailyStep

(* A run that exists keeps its cohort, its cutoff and its boundary. *)
LEMMA CoreStays ==
    ASSUME TypeInv, BoundariesOK, [Next]_vars, NEW e \in Day, daily[e] # None
    PROVE  SameCore(e)
  BY DailySteps DEF DailyStep, SameCore, Freezes

LEMMA SequenceGrows ==
    ASSUME TypeInv, [Next]_vars
    PROVE  sequence \in Nat /\ sequence' \in Nat /\ sequence <= sequence'
  <1>1. sequence \in Nat
    BY Constants DEF TypeInv, TablesOK
  <1>2. ASSUME NEW w \in Workers, Loop(w) \/ StoreUnavailable(w) \/ Crash(w)
        PROVE  sequence' = sequence
    BY <1>2 DEF Loop, ReadSchedule, ExpireManualRuns, StartDailyRun, DailyTurn, ClaimManualRun,
       ManualTurn, ClaimCandidate, ClaimNothing, AskRetryDelay, FinishCandidate, DeferCandidate,
       FailCandidate, RecordProcessed, FinishRun, Restart, StoreUnavailable, Crash
  <1>3. sequence' = sequence \/ sequence' = sequence + 1
    BY <1>2 DEF Next, vars, Arrive, RequestManualRun, LapseOrphaned, LapseAtWork, Tick
  <1> QED  BY <1>1, <1>3

LEMMA CutoffsStep ==
    ASSUME TypeInv, BoundariesOK, CutoffsOK, [Next]_vars
    PROVE  CutoffsOK'
  <1>1. ASSUME NEW e \in Day, daily'[e] # None PROVE daily'[e].cutoff <= sequence'
    <2>1. CASE daily[e] # None
      <3>1. daily[e] \in DailyRun /\ daily[e].cutoff <= sequence
        BY <2>1 DEF TypeInv, TablesOK, CutoffsOK
      <3>2. daily'[e].cutoff = daily[e].cutoff
        BY <2>1, CoreStays DEF SameCore
      <3> QED  BY <3>1, <3>2, SequenceGrows, Constants DEF DailyRun
    <2>2. CASE daily[e] = None
      <3>1. PICK w \in Workers : Freezes(w, e)
        BY <1>1, <2>2, DailySteps DEF DailyStep, SameCore
      <3>2. daily'[e].cutoff = sequence
        BY <3>1 DEF Freezes, FrozenRun
      <3> QED  BY <3>2, SequenceGrows
    <2> QED  BY <2>1, <2>2
  <1>2. ASSUME NEW v \in Workers, at'[v].day # None, at'[v].pc \notin {"superseding", "starting"}
        PROVE  at'[v].cutoff = daily'[at'[v].day].cutoff
    <2>1. at[v].day \in Day \cup {None} /\ WorkerOK(v)
      BY DEF TypeInv, Position
    <2>2. CASE /\ at'[v].day = at[v].day /\ at'[v].cutoff = at[v].cutoff
               /\ at[v].pc \notin {"superseding", "starting"}
      <3> DEFINE e == at[v].day
      <3>1. e \in Day /\ daily[e] # None
        BY <1>2, <2>1, <2>2 DEF WorkerOK
      <3>2. at[v].cutoff = daily[e].cutoff
        BY <1>2, <2>2 DEF CutoffsOK
      <3>3. SameCore(e)
        BY <3>1, CoreStays
      <3> QED  BY <2>2, <3>2, <3>3 DEF SameCore
    <2>3. CASE /\ StartDailyRun(v) /\ at'[v].day = at[v].day
               /\ at'[v].cutoff = StartedRun(v).cutoff
      <3>1. at[v].day \in Day /\ Superseded(at[v].day) \in [Day -> DailyRun \cup {None}]
        BY <2>3, StartFacts DEF StartDailyRun
      <3>2. daily' = [Superseded(at[v].day) EXCEPT ![at[v].day] = StartedRun(v)]
        BY <2>3 DEF StartDailyRun, StartedRun
      <3> QED  BY <2>3, <3>1, <3>2
    <2>4. ClaimCandidate(v) \/ FinishCandidate(v) => at[v].pc \notin {"superseding", "starting"}
      BY DEF ClaimCandidate, FinishCandidate
    <2> QED  BY <1>2, <2>2, <2>3, <2>4, WorkerSteps DEF WorkerStep, KeepsRun
  <1> QED  BY <1>1, <1>2 DEF CutoffsOK

-----------------------------------------------------------------------------
(* A revision draws an ordinal above every cutoff: what is left of a cohort *)
(* was left before, in the same revision.                                  *)
LEMMA LeftShrinks ==
    ASSUME TypeInv, BoundariesOK, CutoffsOK, [Next]_vars, NEW e \in Day, daily[e] # None,
           NEW d \in Left(e)'
    PROVE  d \in Left(e) /\ queue'[d].arrived = queue[d].arrived
  <1>1. SameCore(e)
    BY CoreStays
  <1>2. d \in daily'[e].members /\ queue'[d].state # "absent" /\ queue'[d].ordinal <= daily'[e].cutoff
    BY DEF Left
  <1>3. daily[e] \in DailyRun /\ d \in Docs
    BY <1>1, <1>2 DEF TypeInv, TablesOK, DailyRun, SameCore
  <1>4. queue'[d].ordinal # sequence + 1
    <2>1. daily[e].cutoff \in Nat /\ daily[e].cutoff <= sequence /\ sequence \in Nat
      BY <1>3, SequenceGrows, Constants DEF CutoffsOK, DailyRun
    <2> QED  BY <1>1, <1>2, <2>1 DEF SameCore
  <1>5. /\ queue[d].state # "absent" /\ queue'[d].ordinal = queue[d].ordinal
        /\ queue'[d].arrived = queue[d].arrived
    BY <1>2, <1>3, <1>4, RowSteps DEF RowStep
  <1> QED  BY <1>1, <1>2, <1>5 DEF Left, SameCore

LEMMA LeftFreshStep ==
    ASSUME TypeInv, BoundariesOK, CutoffsOK, LeftFresh, [Next]_vars
    PROVE  LeftFresh'
  <1> SUFFICES ASSUME NEW e \in Day, daily'[e] # None, NEW d \in Left(e)'
               PROVE  /\ daily'[e].boundary - DayTicks < queue'[d].arrived
                      /\ queue'[d].arrived <= daily'[e].boundary
    BY DEF LeftFresh
  <1>1. CASE daily[e] # None
    BY <1>1, CoreStays, LeftShrinks DEF LeftFresh, SameCore
  <1>2. CASE daily[e] = None
    <2>1. PICK w \in Workers : Freezes(w, e)
      BY <1>2, DailySteps DEF DailyStep, SameCore
    <2> DEFINE B == Boundary(w, e)
               S == {f \in Waiting \ FrozenRun(B).members : queue[f].arrived <= B}
    <2>2. daily'[e].boundary = B /\ daily'[e].members = Cohort(B)
      BY <2>1 DEF Freezes, FrozenRun
    <2>3. queue' = Without(S)
      BY <2>1 DEF Freezes, StartDailyRun, CommittedRun
    <2>4. d \in Cohort(B) /\ queue'[d].state # "absent"
      BY <2>2 DEF Left
    <2>5. d \in Docs /\ B - DayTicks < queue[d].arrived /\ queue[d].arrived <= B
      BY <2>4 DEF Cohort, Waiting
    <2> HIDE DEF S
    <2>6. queue'[d] = queue[d]
      BY <2>3, <2>4, <2>5 DEF Without, AbsentRow
    <2> QED  BY <2>2, <2>5, <2>6
  <1> QED  BY <1>1, <1>2

(* A claim of a daily run takes a paper that is left of its cohort, and no  *)
(* step takes it away from the holder.                                     *)
LEMMA WorkStep ==
    ASSUME TypeInv, BoundariesOK, CutoffsOK, WorkOK, [Next]_vars
    PROVE  WorkOK'
  <1> SUFFICES ASSUME NEW v \in Workers, at'[v].pc = "working", at'[v].run = None, Holds(v)'
               PROVE  (at[v].doc \in Left(at[v].day))'
    BY DEF WorkOK
  <1> DEFINE d == at'[v].doc
             e == at'[v].day
  <1>1. queue'[d].state = "held" /\ queue'[d].holder = v
    BY DEF Holds
  <1>2. SUFFICES /\ d \in daily'[e].members /\ queue'[d].state # "absent"
                 /\ queue'[d].ordinal <= daily'[e].cutoff
    BY DEF Left
  <1>3. WorkerOK(v) /\ at[v] \in Position /\ TypeInv'
    BY TypeStep DEF TypeInv
  <1>4. d \in Docs /\ e \in Day /\ daily'[e] # None
    <2>1. WorkerOK(v)' /\ (at[v] \in Position)'
      BY <1>3 DEF TypeInv
    <2> QED  BY <2>1 DEF WorkerOK, Position
  <1>5. CASE at'[v] = at[v]
    <2>1. daily[e] # None
      BY <1>3, <1>4, <1>5, Constants DEF WorkerOK, Day
    <2>2. ~ClaimCandidate(v)
      BY <1>5 DEF ClaimCandidate
    <2>3. queue[d].state = "held" /\ queue[d].holder = v
      BY <1>1, <1>4, <2>2, RowSteps DEF RowStep
    <2>4. d \in Left(e)
      BY <1>5, <2>3 DEF WorkOK, Holds
    <2>5. queue'[d].ordinal = queue[d].ordinal
      BY <1>1, <1>4, RowSteps DEF RowStep
    <2> QED  BY <1>1, <1>4, <2>1, <2>4, <2>5, CoreStays DEF Left, SameCore
  <1>6. CASE ClaimCandidate(v) /\ KeepsRun(v)
    <2>1. PICK f \in Docs :
             /\ InScope(v, f)
             /\ queue' = [queue EXCEPT ![f].state = "held", ![f].holder = v]
             /\ at' = [at EXCEPT ![v].pc = "working", ![v].doc = f]
      BY <1>6 DEF ClaimCandidate, Claimable
    <2>2. d = f
      BY <1>3, <2>1 DEF TypeInv, Position
    <2>3. daily' = daily /\ at[v].pc = "claiming" /\ at[v].day = e /\ at[v].run = None
      BY <1>6 DEF ClaimCandidate, KeepsRun
    <2>4. at[v].cutoff = daily[e].cutoff
      BY <1>4, <2>3, Constants DEF CutoffsOK, Day
    <2>5. queue'[d].ordinal = queue[d].ordinal
      BY <1>4, <2>1, <2>2 DEF TypeInv, TablesOK, Row
    <2> QED  BY <1>1, <2>1, <2>2, <2>3, <2>4, <2>5 DEF InScope, Cutoff
  <1> QED  BY <1>5, <1>6, WorkerSteps DEF WorkerStep

-----------------------------------------------------------------------------
(* The sets that are counted are finite, whatever the state. *)
CountsFinite ==
    \A e \in Day : daily[e] # None =>
        /\ IsFiniteSet(Counting(e)) /\ IsFiniteSet(Left(e)) /\ IsFiniteSet(daily[e].members)
        /\ Left(e) \subseteq daily[e].members
        /\ daily[e].processed \in Nat

LEMMA FiniteCounts == TypeInv => CountsFinite
  <1> SUFFICES ASSUME TypeInv, NEW e \in Day, daily[e] # None
               PROVE  /\ IsFiniteSet(Counting(e)) /\ IsFiniteSet(Left(e))
                      /\ IsFiniteSet(daily[e].members) /\ Left(e) \subseteq daily[e].members
                      /\ daily[e].processed \in Nat
    BY DEF CountsFinite
  <1>1. daily[e].members \in SUBSET Docs /\ daily[e].processed \in Nat
    BY DEF TypeInv, TablesOK, DailyRun
  <1>2. Left(e) \in SUBSET Docs /\ Counting(e) \in SUBSET Workers /\ Left(e) \subseteq daily[e].members
    BY <1>1 DEF Left, Counting
  <1>3. IsFiniteSet(Docs) /\ IsFiniteSet(Workers)
    BY RunsAssumption
  <1>4. IsFiniteSet(Left(e)) /\ IsFiniteSet(Counting(e)) /\ IsFiniteSet(daily[e].members)
    BY <1>1, <1>2, <1>3, FS_Subset
  <1> QED  BY <1>1, <1>2, <1>4

LEMMA FiniteCountsNext == TypeInv' => CountsFinite'
  BY FiniteCounts, PTL

(* Whoever is about to count was about to, or has just finished a paper. *)
Finishes(v, e) ==
    FinishCandidate(v) /\ Holds(v) /\ at[v].run = None /\ at[v].day = e

LEMMA CountingStep ==
    ASSUME TypeInv, [Next]_vars, NEW e \in Day, NEW v \in Counting(e)'
    PROVE  v \in Workers /\ ((v \in Counting(e) /\ at'[v] = at[v]) \/ Finishes(v, e))
  <1>1. v \in Workers /\ at'[v].pc = "counting" /\ at'[v].run = None /\ at'[v].day = e
    BY DEF Counting
  <1> QED  BY <1>1, WorkerSteps DEF WorkerStep, KeepsRun, Finishes, Counting

(* A run that is frozen now is counted from nothing. *)
LEMMA NobodyCounts ==
    ASSUME TypeInv, [Next]_vars, NEW e \in Day, daily[e] = None
    PROVE  Counting(e)' = {}
  <1> SUFFICES ASSUME NEW v \in Counting(e)' PROVE FALSE
    OBVIOUS
  <1>1. v \in Workers /\ at[v].day = e /\ at[v].pc \in {"working", "counting"}
    BY CountingStep DEF Counting, Finishes, FinishCandidate
  <1> QED  BY <1>1, Constants DEF TypeInv, WorkerOK, Day

LEMMA FrozenCount ==
    ASSUME TypeInv, CountsFinite', [Next]_vars, NEW e \in Day, daily'[e] # None,
           NEW w \in Workers, Freezes(w, e)
    PROVE  daily'[e].processed + Cardinality(Counting(e)') + Cardinality(Left(e)')
             <= Cardinality(daily'[e].members)
  <1>1. daily'[e].processed = 0
    BY DEF Freezes, FrozenRun
  <1>2. Cardinality(Counting(e)') = 0
    BY NobodyCounts, FS_EmptySet DEF Freezes
  <1> DEFINE M == daily'[e].members
             L == Left(e)'
  <1>3. IsFiniteSet(M) /\ L \in SUBSET M
    BY DEF CountsFinite
  <1> HIDE DEF M, L
  <1>4. Cardinality(M) \in Nat /\ Cardinality(L) \in Nat /\ Cardinality(L) <= Cardinality(M)
    BY <1>3, FS_Subset, FS_CardinalityType
  <1> QED  BY <1>1, <1>2, <1>4 DEF M, L

(* A run that goes on: what one step moves from left to counting and from   *)
(* counting to counted.                                                    *)
LEMMA RunningCount ==
    ASSUME TypeInv, BoundariesOK, CutoffsOK, WorkOK, CountsFinite, [Next]_vars,
           NEW e \in Day, daily[e] # None,
           daily[e].processed + Cardinality(Counting(e)) + Cardinality(Left(e))
             <= Cardinality(daily[e].members)
    PROVE  daily'[e].processed + Cardinality(Counting(e)') + Cardinality(Left(e)')
             <= Cardinality(daily'[e].members)
  <1> DEFINE m == Cardinality(daily[e].members)
             p == daily[e].processed
             C == Counting(e)
             L == Left(e)
             D == Counting(e)'
             K == Left(e)'
  <1>1. daily'[e].members = daily[e].members /\ K \in SUBSET L
    BY CoreStays, LeftShrinks DEF SameCore
  <1>2. /\ IsFiniteSet(C) /\ IsFiniteSet(L) /\ p \in Nat /\ m \in Nat
        /\ Cardinality(C) \in Nat /\ Cardinality(L) \in Nat
    BY FS_CardinalityType DEF CountsFinite
  <1>3. \A v \in D : v \in Workers /\ ((v \in C /\ at'[v] = at[v]) \/ Finishes(v, e))
    BY CountingStep
  <1>4. /\ Cardinality(K) \in Nat /\ Cardinality(K) <= Cardinality(L)
    BY <1>1, <1>2, FS_Subset, FS_CardinalityType
  <1>5. CASE daily'[e].processed = p + 1 /\ \E w \in Workers : Counts(w, e)
    <2>1. PICK w \in Workers : Counts(w, e)
      BY <1>5
    <2>2. w \in C
      BY <2>1 DEF Counts, RecordProcessed, Counting
    <2>3. at'[w].pc # "counting" /\ \A v \in Workers \ {w} : at'[v] = at[v]
      BY <2>1 DEF Counts, RecordProcessed, NextTurn, TypeInv, Position
    <2>4. \A v \in Workers : ~Finishes(v, e)
      <3>1. ASSUME NEW v \in Workers, Finishes(v, e) PROVE FALSE
        <4>1. at[v].pc = "working" /\ at'[v].pc = "counting"
          BY <3>1 DEF Finishes, FinishCandidate, Goto, TypeInv, Position
        <4> QED  BY <2>3, <4>1
      <3> QED  BY <3>1
    <2>5. w \notin D
      BY <2>3 DEF Counting
    <2>6. D \in SUBSET (C \ {w})
      BY <1>3, <2>4, <2>5
    <2> HIDE DEF C, D
    <2>7. IsFiniteSet(C \ {w}) /\ Cardinality(C \ {w}) = Cardinality(C) - 1
      BY <1>2, <2>2, FS_RemoveElement
    <2>8. Cardinality(D) \in Nat /\ Cardinality(D) <= Cardinality(C) - 1
      BY <2>6, <2>7, FS_Subset, FS_CardinalityType
    <2> HIDE DEF K, L, p, m
    <2>9. p + Cardinality(C) + Cardinality(L) <= m
      BY DEF p, C, L, m
    <2>10. daily'[e].processed + Cardinality(D) + Cardinality(K) <= m
      BY <1>2, <1>4, <1>5, <2>8, <2>9
    <2> QED  BY <1>1, <2>10 DEF D, K, m
  <1>6. CASE daily'[e].processed = p /\ \E v \in Workers : Finishes(v, e)
    <2>1. PICK v \in Workers : Finishes(v, e)
      BY <1>6
    <2> DEFINE d == at[v].doc
    <2>2. d \in L
      BY <2>1 DEF WorkOK, Finishes, FinishCandidate
    <2>3. d \notin K
      <3>1. d \in Docs
        BY <2>1, WorkingDoc DEF Finishes, FinishCandidate
      <3>2. queue'[d].state = "absent"
        BY <2>1, <3>1 DEF Finishes, FinishCandidate, Without, AbsentRow
      <3> QED  BY <3>2 DEF Left
    <2>4. \A u \in Workers \ {v} : at'[u] = at[u]
      BY <2>1 DEF Finishes, FinishCandidate, Goto, TypeInv
    <2>5. \A u \in Workers \ {v} : ~Finishes(u, e)
      <3>1. ASSUME NEW u \in Workers \ {v}, Finishes(u, e) PROVE FALSE
        <4>1. at[u].pc = "working" /\ at'[u].pc = "counting"
          BY <3>1 DEF Finishes, FinishCandidate, Goto, TypeInv, Position
        <4> QED  BY <2>4, <4>1
      <3> QED  BY <3>1
    <2>6. D \in SUBSET (C \cup {v})
      BY <1>3, <2>5
    <2>7. K \in SUBSET (L \ {d})
      BY <1>1, <2>3
    <2> HIDE DEF C, D, K, L, d
    <2>8. IsFiniteSet(C \cup {v}) /\ Cardinality(C \cup {v}) <= Cardinality(C) + 1
      <3>1. /\ IsFiniteSet(C \cup {v})
            /\ Cardinality(C \cup {v}) = IF v \in C THEN Cardinality(C) ELSE Cardinality(C) + 1
        BY <1>2, FS_AddElement, Zenon
      <3> QED  BY <1>2, <3>1
    <2>9. IsFiniteSet(L \ {d}) /\ Cardinality(L \ {d}) = Cardinality(L) - 1
      BY <1>2, <2>2, FS_RemoveElement
    <2>10. Cardinality(D) \in Nat /\ Cardinality(D) <= Cardinality(C) + 1
      <3>1. Cardinality(D) \in Nat /\ Cardinality(D) <= Cardinality(C \cup {v})
        BY <2>6, <2>8, FS_Subset, FS_CardinalityType
      <3>2. Cardinality(C \cup {v}) \in Nat
        BY <2>8, FS_CardinalityType
      <3> QED  BY <1>2, <2>8, <3>1, <3>2
    <2>11. Cardinality(K) <= Cardinality(L) - 1
      BY <2>7, <2>9, FS_Subset
    <2> HIDE DEF p, m
    <2>12. p + Cardinality(C) + Cardinality(L) <= m
      BY DEF p, C, L, m
    <2>13. daily'[e].processed + Cardinality(D) + Cardinality(K) <= m
      BY <1>2, <1>4, <1>6, <2>10, <2>11, <2>12
    <2> QED  BY <1>1, <2>13 DEF D, K, m
  <1>7. CASE daily'[e].processed = p /\ \A v \in Workers : ~Finishes(v, e)
    <2>1. D \in SUBSET C
      BY <1>3, <1>7
    <2> HIDE DEF C, D, K, L
    <2>2. Cardinality(D) \in Nat /\ Cardinality(D) <= Cardinality(C)
      BY <1>2, <2>1, FS_Subset, FS_CardinalityType
    <2> HIDE DEF p, m
    <2>3. p + Cardinality(C) + Cardinality(L) <= m
      BY DEF p, C, L, m
    <2>4. daily'[e].processed + Cardinality(D) + Cardinality(K) <= m
      BY <1>2, <1>4, <1>7, <2>2, <2>3
    <2> QED  BY <1>1, <2>4 DEF D, K, m
  <1>8. \/ daily'[e].processed = p
        \/ daily'[e].processed = p + 1 /\ \E w \in Workers : Counts(w, e)
    BY DailySteps DEF DailyStep, Freezes
  <1> QED  BY <1>5, <1>6, <1>7, <1>8

LEMMA CountedStep == CohortInv /\ TypeInv' /\ [Next]_vars => CountedOnce'
  <1> SUFFICES ASSUME CohortInv, TypeInv', [Next]_vars, NEW e \in Day, daily'[e] # None
               PROVE  daily'[e].processed + Cardinality(Counting(e)') + Cardinality(Left(e)')
                        <= Cardinality(daily'[e].members)
    BY DEF CountedOnce
  <1>1. CountsFinite /\ CountsFinite'
    BY FiniteCounts, FiniteCountsNext DEF CohortInv
  <1>2. CASE daily[e] # None
    BY <1>1, <1>2, RunningCount DEF CohortInv, CountedOnce
  <1>3. CASE daily[e] = None
    <2>1. PICK w \in Workers : Freezes(w, e)
      BY <1>3, DailySteps DEF CohortInv, DailyStep, SameCore
    <2> QED  BY <1>1, <2>1, FrozenCount DEF CohortInv
  <1> QED  BY <1>2, <1>3

-----------------------------------------------------------------------------
LEMMA CohortStep == ASSUME SameHour PROVE CohortInv /\ [Next]_vars => CohortInv'
  <1> SUFFICES ASSUME CohortInv, [Next]_vars PROVE CohortInv'
    OBVIOUS
  <1> USE DEF CohortInv
  <1>1. TypeInv'
    BY TypeStep
  <1>2. BoundariesOK'
    BY BoundariesStep
  <1>3. CutoffsOK'
    BY CutoffsStep
  <1>4. LeftFresh'
    BY LeftFreshStep
  <1>5. WorkOK'
    BY WorkStep
  <1>6. CountedOnce'
    BY <1>1, CountedStep
  <1> QED  BY <1>1, <1>2, <1>3, <1>4, <1>5, <1>6

LEMMA CohortCorrect == ASSUME SameHour PROVE Spec => []CohortInv
  BY CohortInit, CohortStep, PTL DEF Spec

(* A committed cohort is frozen: no step of any replica, however late,      *)
(* changes its members, its cutoff or its boundary.                        *)
THEOREM CohortsFrozen == ASSUME SameHour PROVE Spec => FrozenCohort
  <1> DEFINE Frozen ==
        \A e \in Day : daily[e] # None =>
            /\ daily'[e] # None
            /\ daily'[e].members = daily[e].members
            /\ daily'[e].cutoff = daily[e].cutoff
            /\ daily'[e].boundary = daily[e].boundary
  <1>1. CohortInv /\ [Next]_vars => Frozen
    BY CoreStays DEF CohortInv, SameCore
  <1>2. CohortInv /\ [Next]_vars => [Frozen]_vars
    BY <1>1
  <1> QED  BY <1>2, CohortCorrect, PTL DEF Spec, FrozenCohort

(* A daily run works on papers of its own 24 hours only. *)
THEOREM WorkIsFresh == ASSUME SameHour PROVE Spec => []FreshOnly
  <1>1. CohortInv => FreshOnly
    <2> SUFFICES ASSUME CohortInv, NEW w \in Workers,
                        at[w].pc = "working", at[w].run = None, Holds(w)
                 PROVE  LET boundary == daily[at[w].day].boundary
                            arrived == queue[at[w].doc].arrived
                        IN  boundary - DayTicks < arrived /\ arrived <= boundary
      BY DEF FreshOnly
    <2>1. at[w].day \in Day /\ daily[at[w].day] # None
      BY Constants DEF CohortInv, TypeInv, WorkerOK, Position, Day
    <2>2. at[w].doc \in Left(at[w].day)
      BY DEF CohortInv, WorkOK
    <2> QED  BY <2>1, <2>2 DEF CohortInv, LeftFresh
  <1> QED  BY <1>1, CohortCorrect, PTL

(* No run counts a paper twice, and none counts a paper it did not freeze. *)
THEOREM PapersCountedOnce == ASSUME SameHour PROVE Spec => []CountedOnce
  <1>1. CohortInv => CountedOnce
    BY DEF CohortInv
  <1> QED  BY <1>1, CohortCorrect, PTL
=============================================================================
