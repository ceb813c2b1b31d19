------------------------ MODULE FoundryOutbox_proofs ------------------------
(***************************************************************************)
(* Theorems about FoundryOutbox, for every set of workers, of jobs and of   *)
(* their records, every batch size and number of attempts, claims and       *)
(* failures.                                                               *)
(*                                                                         *)
(* What a worker does moves its own point and its own sink, and rows are    *)
(* only added: so the invariant is stated of a point p, a sink s and the    *)
(* set R of the records with rows, and grows with R.                       *)
(***************************************************************************)
EXTENDS FoundryOutbox, TLAPS

Sink == [buffer: SUBSET Record, jobs: SUBSET Jobs,
         known: [Table -> (SUBSET Record) \cup {None}],
         written: SUBSET Record, twice: BOOLEAN, unsure: BOOLEAN]
Flushes == {"events", "artifacts", "marking"}

Working == {"pipeline", "staging", "restaging", "delivering"}

Rows == {r \in Record : rows[r] > 0}
In(R, t) == {r \in R : TableOf(r) = t}

(* Who has nothing left to stage, who has one record, and who has a job.     *)
Tidy(p) ==
    /\ p.pc \in {"idle", "pipeline", "delivering", "down"} => p.todo = {}
    /\ p.pc = "staging" => \E r \in Record : p.todo = {r}
    /\ p.pc \in Flushes /\ p.then \in {"idle", "pipeline", "delivering"} => p.todo = {}
    /\ p.pc \in Working => p.job \in Jobs
    /\ p.pc \in Flushes /\ p.then \in Working => p.job \in Jobs

Tables(s, R) ==
    /\ \A t \in Table : s.known[t] # None => s.known[t] \subseteq In(R, t)
    /\ s.written \subseteq R

(* Between flushes a sink knows of everything it appended, unless it is unsure. *)
Cache(s, R) ==
    /\ Tables(s, R)
    /\ ~s.unsure =>
          /\ ~s.twice
          /\ \A t \in Table : s.known[t] # None => In(s.written, t) \subseteq s.known[t]

(* In a flush of table t it is what the attempt goes by that knows.         *)
Trying(p, s, R, t) ==
    /\ Tables(s, R)
    /\ p.ids # None => p.ids \subseteq In(R, t)
    /\ ~s.unsure =>
          /\ ~s.twice
          /\ \A u \in Table : s.known[u] # None /\ (u # t \/ p.try = 1)
                                => In(s.written, u) \subseteq s.known[u]
          /\ p.ids # None => In(s.written, t) \subseteq p.ids
          /\ p.try # 1 => p.ids = None /\ In(s.buffer, t) # {}

Worker(p, s, R) ==
    /\ Tidy(p)
    /\ p.pc \notin Table => Cache(s, R)
    /\ \A t \in Table : p.pc = t => Trying(p, s, R, t)

Fits(p, s, S) == s.buffer \cup p.todo \subseteq S

Plain ==
    /\ stored \subseteq Record /\ published \subseteq Jobs /\ finished \subseteq Jobs
    /\ owner \in [Jobs -> Workers \cup {None}]
    /\ rows \in [Record -> Nat] /\ Rows \subseteq stored
    /\ crashes \in Nat /\ refusals \in Nat

Good ==
    /\ Plain
    /\ at \in [Workers -> Point] /\ sink \in [Workers -> Sink]
    /\ \A w \in Workers : Fits(at[w], sink[w], stored) /\ Worker(at[w], sink[w], Rows)

(* Without a crash or a refusal every record is in a table or in the hands of *)
(* a worker, and nobody is in a recovery.                                  *)
Calm == crashes + refusals = 0
Holds(p, s, r) == r \in s.buffer \/ (p.pc = "staging" /\ r \in p.todo)
Awake(p) == p.pc \notin {"down", "recovering"} /\ (p.pc \in Flushes => p.then # "recovering")
Kept ==
    Calm => /\ \A w \in Workers : Awake(at[w])
            /\ \A r \in stored : r \in Rows \/ \E w \in Workers : Holds(at[w], sink[w], r)

-----------------------------------------------------------------------------
(* Sinks and points. *)

LEMMA EmptyType == EmptySink \in Sink
  BY DEF EmptySink, Sink

LEMMA IdleIs ==
    ASSUME NEW q \in {"idle", "down"}, OutboxAssumption
    PROVE  /\ [Idle EXCEPT !.pc = q] \in Point /\ [Idle EXCEPT !.pc = q].pc = q
           /\ [Idle EXCEPT !.pc = q].todo = {}
  BY DEF Idle, Point, OutboxAssumption

LEMMA InTableIs == \A t \in Table : InTable(t) = In(Rows, t)
  BY DEF InTable, In, Rows

LEMMA RecordTable == \A r \in Record : TableOf(r) \in Table
  BY DEF TableOf, Table

LEMMA CacheGrows ==
    ASSUME NEW s, NEW R, NEW Q, R \subseteq Q, Cache(s, R)
    PROVE  Cache(s, Q)
  BY DEF Cache, Tables, In

LEMMA TryingGrows ==
    ASSUME NEW p, NEW s, NEW R, NEW Q, NEW t, R \subseteq Q, Trying(p, s, R, t)
    PROVE  Trying(p, s, Q, t)
  BY DEF Trying, Tables, In

LEMMA WorkerGrows ==
    ASSUME NEW p, NEW s, NEW R, NEW Q, R \subseteq Q, Worker(p, s, R)
    PROVE  Worker(p, s, Q)
  BY CacheGrows, TryingGrows DEF Worker

(* A worker outside of a flush. *)
LEMMA Outside ==
    ASSUME NEW p, NEW s, NEW R, p.pc \notin Table, Tidy(p), Cache(s, R)
    PROVE  Worker(p, s, R)
  BY DEF Worker

LEMMA CacheOf ==
    ASSUME NEW p, NEW s, NEW R, p.pc \notin Table, Worker(p, s, R)
    PROVE  Tidy(p) /\ Cache(s, R)
  BY DEF Worker

(* What a step of one worker has to keep. *)
LEMMA Moves ==
    ASSUME Good, NEW w \in Workers, NEW p \in Point, NEW s \in Sink, Plain',
           at' = [at EXCEPT ![w] = p], sink' = [sink EXCEPT ![w] = s],
           stored \subseteq stored', Rows \subseteq Rows',
           Fits(p, s, stored'), Worker(p, s, Rows')
    PROVE  Good'
  <1>1. at' \in [Workers -> Point] /\ sink' \in [Workers -> Sink]
    BY DEF Good
  <1>2. ASSUME NEW v \in Workers
        PROVE  Fits(at'[v], sink'[v], stored') /\ Worker(at'[v], sink'[v], Rows')
    <2>1. CASE v = w
      <3>1. at'[v] = p /\ sink'[v] = s
        BY <2>1 DEF Good
      <3> QED  BY <3>1
    <2>2. CASE v # w
      <3>1. at'[v] = at[v] /\ sink'[v] = sink[v]
        BY <2>2 DEF Good
      <3>2. Fits(at[v], sink[v], stored') /\ Worker(at[v], sink[v], Rows')
        BY WorkerGrows DEF Good, Fits
      <3> QED  BY <3>1, <3>2
    <2> QED  BY <2>1, <2>2
  <1> QED  BY <1>1, <1>2 DEF Good

(* The same for what is kept of the records. *)
LEMMA Keeps ==
    ASSUME Good, Kept, NEW w \in Workers, NEW p, NEW s,
           at' = [at EXCEPT ![w] = p], sink' = [sink EXCEPT ![w] = s],
           Rows \subseteq Rows', Calm' => Calm,
           Calm => Awake(p),
           \A r \in stored' \ stored : Holds(p, s, r),
           Calm => \A r \in stored : Holds(at[w], sink[w], r) => Holds(p, s, r) \/ r \in Rows'
    PROVE  Kept'
  <1> SUFFICES ASSUME Calm'
               PROVE  /\ \A v \in Workers : Awake(at'[v])
                      /\ \A r \in stored' :
                            r \in Rows' \/ \E v \in Workers : Holds(at'[v], sink'[v], r)
    BY DEF Kept
  <1>1. at'[w] = p /\ sink'[w] = s
    BY DEF Good
  <1>2. \A v \in Workers : v # w => at'[v] = at[v] /\ sink'[v] = sink[v]
    BY DEF Good
  <1>3. \A v \in Workers : Awake(at'[v])
    BY <1>1, <1>2 DEF Kept
  <1>4. ASSUME NEW r \in stored', r \notin Rows'
        PROVE  \E v \in Workers : Holds(at'[v], sink'[v], r)
    <2>1. CASE r \notin stored
      BY <1>1, <2>1
    <2>2. CASE r \in stored
      <3>1. PICK v \in Workers : Holds(at[v], sink[v], r)
        BY <1>4, <2>2 DEF Kept
      <3>2. CASE v = w
        BY <1>1, <1>4, <2>2, <3>1, <3>2
      <3>3. CASE v # w
        BY <1>2, <3>1, <3>3
      <3> QED  BY <3>2, <3>3
    <2> QED  BY <2>1, <2>2
  <1> QED  BY <1>3, <1>4

Inv == Good /\ Kept

LEMMA InvInit == OutboxAssumption /\ Init => Inv
  <1> SUFFICES ASSUME OutboxAssumption, Init PROVE Inv
    OBVIOUS
  <1>1. Rows = {} /\ rows \in [Record -> Nat]
    BY DEF Init, Rows
  <1>2. Plain
    BY <1>1 DEF Init, Plain
  <1>3. Idle \in Point /\ Idle.pc = "idle" /\ Idle.todo = {}
    BY DEF Idle, Point, OutboxAssumption
  <1>4. Cache(EmptySink, {}) /\ EmptySink.buffer = {}
    BY DEF EmptySink, Cache, Tables, In
  <1>5. Worker(Idle, EmptySink, {}) /\ Fits(Idle, EmptySink, {})
    BY <1>3, <1>4, Outside DEF Tidy, Table, Flushes, Working, Fits
  <1>6. Good
    BY <1>1, <1>2, <1>3, <1>5, EmptyType DEF Init, Good
  <1>7. Kept
    BY <1>3 DEF Init, Kept, Awake, Flushes
  <1> QED  BY <1>6, <1>7 DEF Inv

(* A step that leaves the records, the mark and the rows alone.              *)
LEMMA OnlyMoves ==
    ASSUME Inv, NEW w \in Workers, NEW p \in Point, NEW s \in Sink,
           UNCHANGED <<stored, published, finished, rows, crashes, refusals>>,
           owner' \in [Jobs -> Workers \cup {None}],
           at' = [at EXCEPT ![w] = p], sink' = [sink EXCEPT ![w] = s],
           Fits(p, s, stored), Worker(p, s, Rows),
           Calm => Awake(p) /\ \A r \in stored :
                      Holds(at[w], sink[w], r) => Holds(p, s, r) \/ r \in Rows
    PROVE  Inv'
  <1>1. Rows' = Rows /\ stored' = stored /\ (Calm' <=> Calm)
    BY DEF Rows, Calm
  <1>2. Plain'
    BY <1>1 DEF Inv, Good, Plain
  <1>3. Good'
    BY <1>1, <1>2, Moves DEF Inv
  <1>4. Kept'
    BY <1>1, Keeps DEF Inv
  <1> QED  BY <1>3, <1>4 DEF Inv

LEMMA ReleasedType ==
    ASSUME Good, NEW w \in Workers
    PROVE  Released(w) \in [Jobs -> Workers \cup {None}]
  BY DEF Good, Plain, Released

(* A worker that is through with its paper, or gives it up, holding nothing. *)
LEMMA ComesHome ==
    ASSUME Inv, OutboxAssumption, NEW w \in Workers,
           UNCHANGED <<stored, published, finished, rows, crashes, refusals>>,
           owner' \in [Jobs -> Workers \cup {None}],
           at[w].pc \notin Table \cup {"staging", "down", "recovering"},
           at' = [at EXCEPT ![w] = Idle], sink' = sink
    PROVE  Inv'
  <1>1. Idle \in Point /\ Idle.pc = "idle" /\ Idle.todo = {}
    BY DEF Idle, Point, OutboxAssumption
  <1>2. /\ sink[w] \in Sink /\ sink' = [sink EXCEPT ![w] = sink[w]]
        /\ Fits(at[w], sink[w], stored) /\ Worker(at[w], sink[w], Rows)
    BY DEF Inv, Good
  <1>3. Cache(sink[w], Rows)
    BY <1>2, CacheOf
  <1>4. Worker(Idle, sink[w], Rows) /\ Fits(Idle, sink[w], stored)
    BY <1>1, <1>2, <1>3, Outside DEF Tidy, Table, Flushes, Working, Fits
  <1>5. Awake(Idle) /\ \A r : Holds(at[w], sink[w], r) => Holds(Idle, sink[w], r)
    BY <1>1 DEF Awake, Flushes, Holds
  <1> QED  BY <1>1, <1>2, <1>4, <1>5, OnlyMoves

LEMMA TakeKeeps ==
    ASSUME Inv, OutboxAssumption, NEW w \in Workers, NEW j \in Jobs, Take(w, j)
    PROVE  Inv'
  <1> DEFINE p == [Idle EXCEPT !.pc = "pipeline", !.job = j]
  <1>1. p \in Point /\ p.pc = "pipeline" /\ p.todo = {} /\ p.job \in Jobs
    <2>1. Idle \in Point /\ Idle.todo = {}
      BY DEF Idle, Point, OutboxAssumption
    <2> QED  BY <2>1 DEF Point
  <1>2. /\ at[w].pc = "idle" /\ at' = [at EXCEPT ![w] = p]
        /\ sink[w] \in Sink /\ sink' = [sink EXCEPT ![w] = sink[w]]
        /\ Fits(at[w], sink[w], stored) /\ Worker(at[w], sink[w], Rows)
        /\ owner' \in [Jobs -> Workers \cup {None}]
    BY DEF Take, Inv, Good, Plain
  <1> HIDE DEF p
  <1>3. Cache(sink[w], Rows)
    BY <1>2, CacheOf DEF Table
  <1>4. Worker(p, sink[w], Rows) /\ Fits(p, sink[w], stored)
    BY <1>1, <1>2, <1>3, Outside DEF Tidy, Table, Flushes, Working, Fits
  <1>5. Awake(p) /\ \A r : Holds(at[w], sink[w], r) => Holds(p, sink[w], r)
    BY <1>1, <1>2 DEF Awake, Flushes, Holds
  <1> QED  BY <1>1, <1>2, <1>4, <1>5, OnlyMoves DEF Take

LEMMA LapseKeeps == ASSUME Inv, NEW j \in Jobs, Lapse(j) PROVE Inv'
  <1>1. /\ stored' = stored /\ at' = at /\ sink' = sink /\ Rows' = Rows /\ (Calm' <=> Calm)
    BY DEF Lapse, Rows, Calm
  <1>2. Plain'
    BY <1>1 DEF Lapse, Inv, Good, Plain
  <1>3. Good' /\ Kept'
    BY <1>1, <1>2 DEF Inv, Good, Kept
  <1> QED  BY <1>3 DEF Inv

(* A record is stored, and the worker has it to stage. *)
LEMMA AppendKeeps ==
    ASSUME Inv, NEW w \in Workers, NEW k \in Kinds, Append(w, k)
    PROVE  Inv'
  <1> DEFINE r == <<at[w].job, k>>
             p == [at[w] EXCEPT !.pc = "staging", !.todo = {r}]
  <1>1. /\ at[w] \in Point /\ at[w].pc = "pipeline" /\ sink[w] \in Sink
        /\ at' = [at EXCEPT ![w] = p] /\ sink' = [sink EXCEPT ![w] = sink[w]]
        /\ Fits(at[w], sink[w], stored) /\ Worker(at[w], sink[w], Rows)
        /\ stored' = stored \cup {r} /\ UNCHANGED <<finished, owner, rows, crashes, refusals>>
        /\ published' \in {published, published \ {at[w].job}}
    BY DEF Append, Recorded, Inv, Good
  <1>2. Tidy(at[w]) /\ Cache(sink[w], Rows)
    BY <1>1, CacheOf DEF Table
  <1>3. r \in Record
    BY <1>1, <1>2 DEF Tidy, Working, Record
  <1>4. p \in Point /\ p.pc = "staging" /\ p.todo = {r} /\ p.job = at[w].job
    BY <1>1, <1>3 DEF Point
  <1> HIDE DEF p, r
  <1>5. Rows' = Rows /\ (Calm' <=> Calm)
    BY <1>1 DEF Rows, Calm
  <1>6. Plain'
    BY <1>1, <1>3, <1>5 DEF Inv, Good, Plain
  <1>7. Worker(p, sink[w], Rows)
    <2>1. Tidy(p)
      BY <1>1, <1>2, <1>3, <1>4 DEF Tidy, Working, Flushes
    <2> QED  BY <1>2, <1>4, <2>1, Outside DEF Table
  <1>8. Fits(p, sink[w], stored')
    BY <1>1, <1>4 DEF Fits
  <1>9. Good'
    BY <1>1, <1>4, <1>5, <1>6, <1>7, <1>8, Moves DEF Inv
  <1>10. Awake(p) /\ Holds(p, sink[w], r)
    BY <1>4 DEF Awake, Flushes, Holds
  <1>11. \A q : Holds(at[w], sink[w], q) => Holds(p, sink[w], q)
    BY <1>1 DEF Holds
  <1>12. Kept'
    BY <1>1, <1>5, <1>10, <1>11, Keeps DEF Inv
  <1> QED  BY <1>9, <1>12 DEF Inv

(* A flush begins with what the sink knows of the first table. *)
LEMMA FlushingIs ==
    ASSUME OutboxAssumption, NEW q \in Point, NEW s \in Sink, NEW R, Cache(s, R),
           NEW then \in {"idle", "pipeline", "restaging", "delivering", "recovering"},
           then \in {"idle", "pipeline", "delivering"} => q.todo = {},
           then \in Working => q.job \in Jobs
    PROVE  /\ Flushing(q, s, then) \in Point
           /\ Flushing(q, s, then).pc = "events" /\ Flushing(q, s, then).then = then
           /\ Flushing(q, s, then).todo = q.todo
           /\ Worker(Flushing(q, s, then), s, R)
  <1> DEFINE p == Flushing(q, s, then)
  <1>1. s.known["events"] \in (SUBSET Record) \cup {None} /\ 1 \in 1..Attempts
    BY DEF Sink, Table, OutboxAssumption
  <1>2. /\ p \in Point /\ p.pc = "events" /\ p.then = then /\ p.todo = q.todo
        /\ p.job = q.job /\ p.ids = s.known["events"] /\ p.try = 1
    BY <1>1 DEF Flushing, Point
  <1> HIDE DEF p
  <1>3. Tidy(p)
    BY <1>2 DEF Tidy, Flushes, Working
  <1>4. Trying(p, s, R, "events")
    BY <1>2 DEF Cache, Tables, Trying, Table
  <1>5. Worker(p, s, R)
    BY <1>2, <1>3, <1>4 DEF Worker, Table
  <1> QED  BY <1>2, <1>5 DEF p

LEMMA StageKeeps ==
    ASSUME Inv, OutboxAssumption, NEW w \in Workers, NEW r \in at[w].todo, NEW then,
           \/ at[w].pc = "staging" /\ then = "pipeline"
           \/ at[w].pc \in {"restaging", "recovering"} /\ then = at[w].pc,
           Stage(w, r, then),
           UNCHANGED <<stored, published, finished, owner, rows, crashes, refusals>>
    PROVE  Inv'
  <1> DEFINE s == [sink[w] EXCEPT !.buffer = @ \cup {r}, !.jobs = @ \cup {r[1]}]
             q == [at[w] EXCEPT !.todo = @ \ {r}, !.pc = then]
             p == IF Cardinality(s.buffer) >= BatchSize THEN Flushing(q, s, then) ELSE q
  <1>1. /\ at[w] \in Point /\ sink[w] \in Sink
        /\ at' = [at EXCEPT ![w] = p] /\ sink' = [sink EXCEPT ![w] = s]
        /\ Fits(at[w], sink[w], stored) /\ Worker(at[w], sink[w], Rows)
        /\ owner' \in [Jobs -> Workers \cup {None}]
    BY DEF Stage, Inv, Good, Plain
  <1>2. Tidy(at[w]) /\ Cache(sink[w], Rows)
    BY <1>1, CacheOf DEF Table
  <1>3. r \in Record /\ r[1] \in Jobs /\ r \in stored
    BY <1>1 DEF Point, Record, Fits
  <1>4. /\ s \in Sink /\ s.buffer = sink[w].buffer \cup {r} /\ s.known = sink[w].known
        /\ s.written = sink[w].written /\ s.twice = sink[w].twice /\ s.unsure = sink[w].unsure
    BY <1>1, <1>3 DEF Sink
  <1>5. /\ q \in Point /\ q.pc = then /\ q.todo = at[w].todo \ {r} /\ q.job = at[w].job
    BY <1>1 DEF Point
  <1> HIDE DEF s, q
  <1>6. Cache(s, Rows)
    BY <1>2, <1>4 DEF Cache, Tables
  <1>7. then \in {"idle", "pipeline", "delivering"} => q.todo = {}
    BY <1>2, <1>5 DEF Tidy
  <1>8. then \in Working => q.job \in Jobs
    BY <1>2, <1>5 DEF Tidy, Working
  <1>9. Tidy(q)
    BY <1>5, <1>7, <1>8 DEF Tidy, Flushes, Working
  <1>10. /\ p \in Point /\ p.pc \in {then, "events"} /\ p.todo = q.todo /\ Worker(p, s, Rows)
         /\ p.pc = "events" => p.then = then
    <2>1. CASE Cardinality(s.buffer) >= BatchSize
      BY <1>4, <1>5, <1>6, <1>7, <1>8, <2>1, FlushingIs
    <2>2. CASE ~(Cardinality(s.buffer) >= BatchSize)
      BY <1>5, <1>6, <1>9, <2>2, Outside DEF Table
    <2> QED  BY <2>1, <2>2
  <1> HIDE DEF p
  <1>11. Fits(p, s, stored)
    BY <1>1, <1>3, <1>4, <1>5, <1>10 DEF Fits
  <1>12. Calm => Awake(p)
    BY <1>1, <1>10 DEF Inv, Kept, Awake, Flushes
  <1>13. \A x : Holds(at[w], sink[w], x) => Holds(p, s, x)
    <2>1. at[w].pc = "staging" => at[w].todo = {r}
      BY <1>2 DEF Tidy
    <2> QED  BY <1>4, <2>1 DEF Holds
  <1> QED  BY <1>1, <1>4, <1>10, <1>11, <1>12, <1>13, OnlyMoves

LEMMA EmitKeeps ==
    ASSUME Inv, OutboxAssumption, NEW w \in Workers, Emit(w) PROVE Inv'
  BY StageKeeps DEF Emit

LEMMA RestageKeeps ==
    ASSUME Inv, OutboxAssumption, NEW w \in Workers, Restage(w) PROVE Inv'
  <1>1. PICK r \in FirstOf(at[w].todo) : Stage(w, r, at[w].pc)
    BY DEF Restage
  <1>2. r \in at[w].todo
    BY DEF FirstOf
  <1> QED  BY <1>1, <1>2, StageKeeps DEF Restage

(* Steps of a worker whose sink stays as it is, outside of a flush. *)
LEMMA PointMoves ==
    ASSUME Inv, NEW w \in Workers, NEW p \in Point,
           UNCHANGED <<stored, published, finished, owner, sink, rows, crashes, refusals>>,
           at' = [at EXCEPT ![w] = p], at[w].pc \notin Table \cup {"staging"},
           p.todo \subseteq stored, Worker(p, sink[w], Rows), Calm => Awake(p)
    PROVE  Inv'
  <1>1. /\ sink[w] \in Sink /\ sink' = [sink EXCEPT ![w] = sink[w]]
        /\ owner' \in [Jobs -> Workers \cup {None}] /\ Fits(at[w], sink[w], stored)
    BY DEF Inv, Good, Plain
  <1>2. Fits(p, sink[w], stored) /\ \A r : Holds(at[w], sink[w], r) => Holds(p, sink[w], r)
    BY <1>1 DEF Fits, Holds
  <1> QED  BY <1>1, <1>2, OnlyMoves

LEMMA BeginOutboxKeeps ==
    ASSUME Inv, OutboxAssumption, NEW w \in Workers, BeginOutbox(w) PROVE Inv'
  <1> DEFINE p == [at[w] EXCEPT !.pc = "restaging", !.todo = Of(at[w].job)]
  <1>1. /\ at[w] \in Point /\ at[w].pc = "pipeline" /\ stored \subseteq Record
        /\ Worker(at[w], sink[w], Rows)
    BY DEF BeginOutbox, Inv, Good, Plain
  <1>2. Tidy(at[w]) /\ Cache(sink[w], Rows)
    BY <1>1, CacheOf DEF Table
  <1>3. CASE owner[at[w].job] = w
    <2>1. at' = [at EXCEPT ![w] = p]
      BY <1>3 DEF BeginOutbox
    <2>2. p \in Point /\ p.pc = "restaging" /\ p.todo \subseteq stored /\ p.job = at[w].job
      BY <1>1 DEF Point, Of
    <2> HIDE DEF p
    <2>3. Tidy(p)
      BY <1>1, <1>2, <2>2 DEF Tidy, Flushes, Working
    <2>4. Worker(p, sink[w], Rows) /\ Awake(p)
      BY <1>2, <2>2, <2>3, Outside DEF Table, Awake, Flushes
    <2> QED  BY <1>1, <2>1, <2>2, <2>4, PointMoves DEF BeginOutbox, Table
  <1>4. CASE owner[at[w].job] # w
    <2>1. at' = [at EXCEPT ![w] = Idle]
      BY <1>4 DEF BeginOutbox
    <2> QED  BY <1>1, <2>1, ComesHome DEF BeginOutbox, Table, Inv, Good, Plain
  <1> QED  BY <1>3, <1>4

(* A worker begins a flush with nothing left to stage. *)
LEMMA FlushKeeps ==
    ASSUME Inv, OutboxAssumption, NEW w \in Workers,
           NEW then \in {"idle", "delivering", "recovering"},
           at[w].pc \notin Flushes \cup {"staging"}, at[w].todo = {},
           then \in Working => at[w].job \in Jobs,
           Calm => then # "recovering",
           at' = [at EXCEPT ![w] = Flushing(at[w], sink[w], then)],
           UNCHANGED <<stored, published, finished, owner, sink, rows, crashes, refusals>>
    PROVE  Inv'
  <1>1. at[w] \in Point /\ sink[w] \in Sink /\ Worker(at[w], sink[w], Rows)
    BY DEF Inv, Good
  <1>2. Cache(sink[w], Rows)
    BY <1>1, CacheOf DEF Table, Flushes
  <1> DEFINE p == Flushing(at[w], sink[w], then)
  <1>3. /\ p \in Point /\ p.pc = "events" /\ p.then = then /\ p.todo = {}
        /\ Worker(p, sink[w], Rows)
    BY <1>1, <1>2, FlushingIs
  <1> HIDE DEF p
  <1>4. Calm => Awake(p)
    BY <1>3 DEF Awake
  <1> QED  BY <1>3, <1>4, PointMoves DEF Table, Flushes, p

LEMMA EndRestageKeeps ==
    ASSUME Inv, OutboxAssumption, NEW w \in Workers, EndRestage(w) PROVE Inv'
  <1>1. /\ at[w] \in Point /\ at[w].pc \in {"restaging", "recovering"} /\ at[w].todo = {}
        /\ Worker(at[w], sink[w], Rows)
    BY DEF EndRestage, Inv, Good
  <1>2. Tidy(at[w]) /\ Cache(sink[w], Rows)
    BY <1>1, CacheOf DEF Table
  <1>3. Calm => at[w].pc # "recovering"
    BY DEF Inv, Kept, Awake
  <1>4. ASSUME at' = [at EXCEPT ![w] = Flushing(@, sink[w],
                  IF at[w].pc = "restaging" THEN "delivering" ELSE "recovering")]
        PROVE  Inv'
    <2>1. CASE at[w].pc = "restaging"
      BY <1>1, <1>2, <1>4, <2>1, FlushKeeps DEF EndRestage, Flushes, Tidy, Working
    <2>2. CASE at[w].pc = "recovering"
      BY <1>1, <1>3, <1>4, <2>2, FlushKeeps DEF EndRestage, Flushes, Working
    <2> QED  BY <1>1, <2>1, <2>2
  <1>5. ASSUME at[w].pc = "restaging", at' = [at EXCEPT ![w].pc = "delivering"]
        PROVE  Inv'
    <2> DEFINE p == [at[w] EXCEPT !.pc = "delivering"]
    <2>1. p \in Point /\ p.pc = "delivering" /\ p.todo = {} /\ p.job = at[w].job
      BY <1>1 DEF Point
    <2>2. at' = [at EXCEPT ![w] = p]
      BY <1>5
    <2> HIDE DEF p
    <2>3. Worker(p, sink[w], Rows)
      BY <1>2, <1>5, <2>1, Outside DEF Tidy, Working, Flushes, Table
    <2>4. Awake(p)
      BY <2>1 DEF Awake, Flushes
    <2> QED  BY <1>1, <2>1, <2>2, <2>3, <2>4, PointMoves DEF EndRestage, Table
  <1>6. ASSUME at[w].pc = "recovering", at' = [at EXCEPT ![w] = Idle]
        PROVE  Inv'
    <2>1. Idle \in Point /\ Idle.pc = "idle" /\ Idle.todo = {}
      BY DEF Idle, Point, OutboxAssumption
    <2>2. Worker(Idle, sink[w], Rows)
      BY <1>2, <2>1, Outside DEF Tidy, Working, Flushes, Table
    <2>3. Awake(Idle)
      BY <2>1 DEF Awake, Flushes
    <2> QED  BY <1>6, <2>1, <2>2, <2>3, PointMoves DEF EndRestage, Table
  <1> QED  BY <1>1, <1>4, <1>5, <1>6 DEF EndRestage

LEMMA FlushDueKeeps ==
    ASSUME Inv, OutboxAssumption, NEW w \in Workers, FlushDue(w) PROVE Inv'
  <1>1. at[w].pc = "idle" /\ Worker(at[w], sink[w], Rows)
    BY DEF FlushDue, Inv, Good
  <1>2. at[w].todo = {}
    BY <1>1 DEF Worker, Tidy
  <1> QED  BY <1>1, <1>2, FlushKeeps DEF FlushDue, Flushes, Working

LEMMA FinishKeeps ==
    ASSUME Inv, OutboxAssumption, NEW w \in Workers, Finish(w) PROVE Inv'
  <1>1. at[w].pc = "delivering" /\ Worker(at[w], sink[w], Rows) /\ sink[w] \in Sink
    BY DEF Finish, Inv, Good
  <1>2. at[w].job \in Jobs /\ Cache(sink[w], Rows)
    BY <1>1, CacheOf DEF Tidy, Working, Table
  <1>3. /\ stored' = stored /\ Rows' = Rows /\ (Calm' <=> Calm)
        /\ at' = [at EXCEPT ![w] = Idle] /\ sink' = [sink EXCEPT ![w] = sink[w]]
    BY DEF Finish, Rows, Calm, Inv, Good
  <1>4. Plain'
    BY <1>2, <1>3, ReleasedType DEF Finish, Inv, Good, Plain
  <1>5. Idle \in Point /\ Idle.pc = "idle" /\ Idle.todo = {}
    BY DEF Idle, Point, OutboxAssumption
  <1>6. Worker(Idle, sink[w], Rows) /\ Fits(Idle, sink[w], stored)
    BY <1>2, <1>5, Outside DEF Tidy, Working, Flushes, Table, Fits, Inv, Good
  <1>7. Good'
    BY <1>1, <1>3, <1>4, <1>5, <1>6, Moves DEF Inv
  <1>8. Awake(Idle) /\ \A r : Holds(at[w], sink[w], r) => Holds(Idle, sink[w], r)
    BY <1>1, <1>5 DEF Awake, Flushes, Holds
  <1>9. Kept'
    BY <1>3, <1>8, Keeps DEF Inv
  <1> QED  BY <1>7, <1>9 DEF Inv

LEMMA PipelineFailsKeeps ==
    ASSUME Inv, OutboxAssumption, NEW w \in Workers, PipelineFails(w) PROVE Inv'
  BY ComesHome, ReleasedType DEF PipelineFails, Table, Inv

LEMMA MarkPublishedKeeps ==
    ASSUME Inv, NEW w \in Workers, MarkPublished(w) PROVE Inv'
  <1> DEFINE p == [at[w] EXCEPT !.pc = at[w].then]
             s == [sink[w] EXCEPT !.jobs = {}]
  <1>1. /\ at[w] \in Point /\ at[w].pc = "marking" /\ sink[w] \in Sink
        /\ at' = [at EXCEPT ![w] = p] /\ sink' = [sink EXCEPT ![w] = s]
        /\ Fits(at[w], sink[w], stored) /\ Worker(at[w], sink[w], Rows)
    BY DEF MarkPublished, Inv, Good
  <1>2. Tidy(at[w]) /\ Cache(sink[w], Rows)
    BY <1>1, CacheOf DEF Table
  <1>3. /\ p \in Point /\ p.pc = at[w].then /\ p.todo = at[w].todo /\ p.job = at[w].job
        /\ p.pc \in {"idle", "pipeline", "restaging", "delivering", "recovering"}
    BY <1>1 DEF Point
  <1>4. /\ s \in Sink /\ s.buffer = sink[w].buffer /\ s.known = sink[w].known
        /\ s.written = sink[w].written /\ s.twice = sink[w].twice /\ s.unsure = sink[w].unsure
    BY <1>1 DEF Sink
  <1> HIDE DEF p, s
  <1>5. /\ stored' = stored /\ Rows' = Rows /\ (Calm' <=> Calm)
    BY DEF MarkPublished, Rows, Calm
  <1>6. Plain'
    BY <1>1, <1>5 DEF MarkPublished, Inv, Good, Plain, Sink
  <1>7. Tidy(p)
    BY <1>1, <1>2, <1>3 DEF Tidy, Flushes, Working
  <1>8. Cache(s, Rows)
    BY <1>2, <1>4 DEF Cache, Tables
  <1>9. Worker(p, s, Rows)
    BY <1>3, <1>7, <1>8, Outside DEF Table
  <1>10. Fits(p, s, stored)
    BY <1>1, <1>3, <1>4 DEF Fits
  <1>11. Good'
    BY <1>1, <1>3, <1>4, <1>5, <1>6, <1>9, <1>10, Moves DEF Inv
  <1>12. Calm => Awake(p)
    BY <1>1, <1>3 DEF Inv, Kept, Awake, Flushes
  <1>13. \A r : Holds(at[w], sink[w], r) => Holds(p, s, r)
    BY <1>1, <1>4 DEF Holds
  <1>14. Kept'
    BY <1>1, <1>5, <1>12, <1>13, Keeps DEF Inv
  <1> QED  BY <1>11, <1>14 DEF Inv

-----------------------------------------------------------------------------
(* Inside a flush. *)

(* What an attempt finds to append, and what it goes by. *)
LEMMA PendingIs ==
    ASSUME Good, NEW w \in Workers, NEW t \in Table, at[w].pc = t
    PROVE  /\ Pending(w, t) \subseteq In(sink[w].buffer, t)
           /\ In(sink[w].buffer, t) \subseteq Ids(w, t) \cup Pending(w, t)
           /\ Ids(w, t) \subseteq In(Rows, t)
           /\ ~sink[w].unsure => In(sink[w].written, t) \subseteq Ids(w, t)
           /\ Buffered(w, t) = In(sink[w].buffer, t)
           /\ sink[w].buffer \subseteq stored /\ stored \subseteq Record
  <1>1. Trying(at[w], sink[w], Rows, t) /\ Fits(at[w], sink[w], stored)
    BY DEF Good, Worker
  <1>2. Buffered(w, t) = In(sink[w].buffer, t)
    BY DEF Buffered, In
  <1>3. Ids(w, t) \subseteq In(Rows, t)
    BY <1>1, InTableIs DEF Ids, Trying
  <1>4. ~sink[w].unsure => In(sink[w].written, t) \subseteq Ids(w, t)
    <2>1. CASE at[w].ids = None
      BY <1>1, <2>1, InTableIs DEF Ids, Trying, Tables, In
    <2>2. CASE at[w].ids # None
      BY <1>1, <2>2 DEF Ids, Trying
    <2> QED  BY <2>1, <2>2
  <1>5. sink[w].buffer \subseteq stored /\ stored \subseteq Record
    BY <1>1 DEF Fits, Good, Plain
  <1> QED  BY <1>2, <1>3, <1>4, <1>5 DEF Pending

LEMMA AppendedIs ==
    ASSUME Good, NEW w \in Workers, NEW t \in Table, at[w].pc = t,
           rows' = Appended(w, t)
    PROVE  /\ rows' \in [Record -> Nat] /\ Rows' = Rows \cup Pending(w, t)
           /\ Rows' \subseteq stored
  <1>1. Pending(w, t) \subseteq Record /\ Pending(w, t) \subseteq stored
    BY PendingIs DEF In
  <1>2. rows \in [Record -> Nat] /\ Rows \subseteq stored
    BY DEF Good, Plain
  <1>3. \A r \in Record : rows'[r] = rows[r] + IF r \in Pending(w, t) THEN 1 ELSE 0
    BY DEF Appended
  <1>4. rows' \in [Record -> Nat]
    BY <1>2 DEF Appended
  <1>5. Rows' = Rows \cup Pending(w, t)
    BY <1>1, <1>2, <1>3 DEF Rows
  <1> QED  BY <1>1, <1>2, <1>4, <1>5

(* A sink that is sure of what it wrote appends nothing of it again. *)
LEMMA NotedIs ==
    ASSUME Good, NEW w \in Workers, NEW t \in Table, at[w].pc = t
    PROVE  /\ Noted(w, t) \in Sink
           /\ Noted(w, t).buffer = sink[w].buffer /\ Noted(w, t).known = sink[w].known
           /\ Noted(w, t).unsure = sink[w].unsure
           /\ Noted(w, t).written = sink[w].written \cup Pending(w, t)
           /\ ~sink[w].unsure => ~Noted(w, t).twice
  <1>1. sink[w] \in Sink /\ Trying(at[w], sink[w], Rows, t)
    BY DEF Good, Worker
  <1>2. Pending(w, t) \subseteq Record
    BY PendingIs DEF In
  <1>3. (Pending(w, t) \cap sink[w].written # {}) \in BOOLEAN
    OBVIOUS
  <1>4. /\ Noted(w, t) \in Sink
        /\ Noted(w, t).buffer = sink[w].buffer /\ Noted(w, t).known = sink[w].known
        /\ Noted(w, t).unsure = sink[w].unsure
        /\ Noted(w, t).written = sink[w].written \cup Pending(w, t)
        /\ Noted(w, t).twice = (sink[w].twice \/ Pending(w, t) \cap sink[w].written # {})
    BY <1>1, <1>2, <1>3 DEF Noted, Sink
  <1>5. ~sink[w].unsure => Pending(w, t) \cap sink[w].written = {}
    BY PendingIs DEF Pending, In
  <1>6. ~sink[w].unsure => ~sink[w].twice
    BY <1>1 DEF Trying
  <1> QED  BY <1>4, <1>5, <1>6

(* The tables know of what is appended, and other tables are not touched.   *)
LEMMA NotedTables ==
    ASSUME Good, NEW w \in Workers, NEW t \in Table, at[w].pc = t
    PROVE  /\ Tables(Noted(w, t), Rows \cup Pending(w, t))
           /\ \A u \in Table : u # t => In(Noted(w, t).written, u) = In(sink[w].written, u)
  <1>1. Tables(sink[w], Rows)
    BY DEF Good, Worker, Trying
  <1>2. \A u \in Table : In(Rows, u) \subseteq In(Rows \cup Pending(w, t), u)
    BY DEF In
  <1>3. Tables(Noted(w, t), Rows \cup Pending(w, t))
    BY <1>1, <1>2, NotedIs DEF Tables
  <1>4. \A u \in Table : u # t => In(Pending(w, t), u) = {}
    BY PendingIs DEF In
  <1> QED  BY <1>3, <1>4, NotedIs DEF In

(* After a commit the sink knows what it wrote. *)
LEMMA LearnedCache ==
    ASSUME Good, NEW w \in Workers, NEW t \in Table, at[w].pc = t,
           NEW s, s = [Noted(w, t) EXCEPT !.buffer = Cleared(w, t),
                                          !.known[t] = Learned(w, t)]
    PROVE  /\ s \in Sink /\ s.buffer = sink[w].buffer \ In(sink[w].buffer, t)
           /\ Cache(s, Rows \cup Pending(w, t))
  <1> DEFINE n == Noted(w, t)
  <1>1. /\ n \in Sink /\ n.buffer = sink[w].buffer /\ n.known = sink[w].known
        /\ n.unsure = sink[w].unsure /\ n.written = sink[w].written \cup Pending(w, t)
        /\ ~sink[w].unsure => ~n.twice
    BY NotedIs
  <1>2. Trying(at[w], sink[w], Rows, t) /\ sink[w] \in Sink
    BY DEF Good, Worker
  <1>3. Tables(n, Rows \cup Pending(w, t))
    BY NotedTables
  <1>4. \A u \in Table : u # t => In(n.written, u) = In(sink[w].written, u)
    BY NotedTables
  <1>5. /\ Pending(w, t) \subseteq In(sink[w].buffer, t) /\ Buffered(w, t) = In(sink[w].buffer, t)
        /\ Ids(w, t) \subseteq In(Rows, t) /\ In(sink[w].buffer, t) \subseteq Record
        /\ ~sink[w].unsure => In(sink[w].written, t) \subseteq Ids(w, t)
    BY PendingIs DEF In
  <1>6. Learned(w, t) \in (SUBSET Record) \cup {None} /\ Cleared(w, t) \subseteq Record
    BY <1>1, <1>2, <1>5 DEF Learned, Cleared, Sink, In, Rows
  <1>7. s = [n EXCEPT !.buffer = Cleared(w, t), !.known[t] = Learned(w, t)]
    OBVIOUS
  <1> DEFINE k == [n.known EXCEPT ![t] = Learned(w, t)]
  <1>8. k \in [Table -> (SUBSET Record) \cup {None}]
    BY <1>1, <1>6 DEF Sink
  <1>9. s = [n EXCEPT !.buffer = Cleared(w, t), !.known = k]
    BY <1>7
  <1> HIDE DEF n, k
  <1>10. /\ s \in Sink /\ s.buffer = Cleared(w, t) /\ s.unsure = n.unsure /\ s.twice = n.twice
        /\ s.written = n.written /\ s.known = k
    BY <1>1, <1>6, <1>8, <1>9 DEF Sink
  <1>11. s.known[t] = Learned(w, t) /\ \A u \in Table : u # t => s.known[u] = sink[w].known[u]
    BY <1>1, <1>2, <1>10 DEF Sink, k
  <1>12. Learned(w, t) # None => Learned(w, t) \subseteq In(Rows \cup Pending(w, t), t)
    BY <1>2, <1>5 DEF Learned, Trying, Tables, In
  <1>13. Tables(s, Rows \cup Pending(w, t))
    <2>1. s.written \subseteq Rows \cup Pending(w, t)
      BY <1>3, <1>10 DEF Tables
    <2>2. ASSUME NEW u \in Table, s.known[u] # None
          PROVE  s.known[u] \subseteq In(Rows \cup Pending(w, t), u)
      <3>1. CASE u = t
        BY <1>11, <1>12, <2>2, <3>1
      <3>2. CASE u # t
        <4>1. s.known[u] = n.known[u]
          BY <1>1, <1>11, <3>2
        <4> QED  BY <1>3, <2>2, <4>1 DEF Tables
      <3> QED  BY <3>1, <3>2
    <2> QED  BY <2>1, <2>2 DEF Tables
  <1>14. ASSUME ~s.unsure, Learned(w, t) # None
         PROVE  In(s.written, t) \subseteq Learned(w, t)
    <2>1. CASE Buffered(w, t) = {}
      <3>1. Pending(w, t) = {}
        BY <1>5, <2>1
      <3>3. s.written = sink[w].written
        BY <1>1, <1>10, <3>1
      <3>2. at[w].try = 1 /\ Learned(w, t) = sink[w].known[t]
        BY <1>1, <1>2, <1>5, <1>10, <1>14, <2>1 DEF Trying, Learned
      <3> QED  BY <1>1, <1>2, <1>10, <1>14, <3>2, <3>3 DEF Trying
    <2>2. CASE Buffered(w, t) # {}
      BY <1>1, <1>5, <1>10, <1>14, <2>2 DEF Learned, In
    <2> QED  BY <2>1, <2>2
  <1>15. ASSUME ~s.unsure, NEW u \in Table, u # t, s.known[u] # None
         PROVE  In(s.written, u) \subseteq s.known[u]
    BY <1>1, <1>2, <1>4, <1>10, <1>11, <1>15 DEF Trying
  <1>16. Cache(s, Rows \cup Pending(w, t))
    BY <1>1, <1>10, <1>11, <1>13, <1>14, <1>15 DEF Cache
  <1> QED  BY <1>5, <1>10, <1>16 DEF Cleared

(* A step of a flush: rows may be added, what was staged stays or has rows. *)
LEMMA FlushMoves ==
    ASSUME Inv, NEW w \in Workers, NEW p \in Point, NEW s \in Sink,
           at[w].pc \in Flushes,
           UNCHANGED <<stored, published, finished, crashes, refusals>>,
           owner' \in [Jobs -> Workers \cup {None}],
           rows' \in [Record -> Nat], Rows \subseteq Rows', Rows' \subseteq stored,
           at' = [at EXCEPT ![w] = p], sink' = [sink EXCEPT ![w] = s],
           Fits(p, s, stored), Worker(p, s, Rows'), Calm => Awake(p),
           Calm => sink[w].buffer \subseteq s.buffer \cup Rows'
    PROVE  Inv'
  <1>1. stored' = stored /\ (Calm' <=> Calm)
    BY DEF Calm
  <1>2. Plain'
    BY <1>1 DEF Inv, Good, Plain
  <1>3. Good'
    BY <1>1, <1>2, Moves DEF Inv
  <1>4. Kept'
    BY <1>1, Keeps DEF Inv, Holds, Flushes
  <1> QED  BY <1>3, <1>4 DEF Inv

(* Who flushes without a failure is not in a recovery, and keeps its errand. *)
LEMMA Onward ==
    ASSUME Inv, NEW w \in Workers, NEW p, at[w].pc \in Flushes, p.pc \in Flushes,
           p.then = at[w].then, p.todo = at[w].todo, p.job = at[w].job
    PROVE  Tidy(p) /\ (Calm => Awake(p))
  <1>1. Tidy(at[w])
    BY DEF Inv, Good, Worker
  <1>2. Calm => Awake(at[w])
    BY DEF Inv, Kept
  <1>3. p.pc \notin {"idle", "pipeline", "staging", "restaging", "delivering", "down", "recovering"}
    BY DEF Flushes
  <1>4. Tidy(p)
    BY <1>1, <1>3 DEF Tidy, Working
  <1>5. Calm => Awake(p)
    BY <1>2, <1>3 DEF Awake
  <1> QED  BY <1>4, <1>5

LEMMA AppendUniqueKeeps ==
    ASSUME Inv, OutboxAssumption, NEW w \in Workers, NEW t \in Table, AppendUnique(w, t)
    PROVE  Inv'
  <1> DEFINE s == [Noted(w, t) EXCEPT !.buffer = Cleared(w, t), !.known[t] = Learned(w, t)]
             a == [at[w] EXCEPT !.pc = "artifacts", !.ids = sink[w].known["artifacts"],
                                !.try = 1]
             m == [at[w] EXCEPT !.pc = "marking", !.ids = None, !.try = 1]
             p == IF t = "events" THEN a ELSE m
  <1>1. /\ Good /\ at[w].pc = t /\ at[w] \in Point /\ sink[w] \in Sink
        /\ at' = [at EXCEPT ![w] = p] /\ sink' = [sink EXCEPT ![w] = s]
        /\ Fits(at[w], sink[w], stored) /\ t \in Flushes
    BY DEF AppendUnique, Inv, Good, Table, Flushes
  <1>2. rows' = Appended(w, t)
    BY DEF AppendUnique
  <1>3. /\ s \in Sink /\ s.buffer = sink[w].buffer \ In(sink[w].buffer, t)
        /\ Cache(s, Rows \cup Pending(w, t))
    <2>1. Good /\ at[w].pc = t
      BY <1>1
    <2>2. s = [Noted(w, t) EXCEPT !.buffer = Cleared(w, t), !.known[t] = Learned(w, t)]
      OBVIOUS
    <2> HIDE DEF s, p, a, m
    <2>3. \A x : x = [Noted(w, t) EXCEPT !.buffer = Cleared(w, t), !.known[t] = Learned(w, t)] =>
              /\ x \in Sink /\ x.buffer = sink[w].buffer \ In(sink[w].buffer, t)
              /\ Cache(x, Rows \cup Pending(w, t))
      BY <2>1, LearnedCache, Zenon
    <2> QED  BY <2>2, <2>3, Zenon
  <1>4. t = "events" => s.known["artifacts"] = sink[w].known["artifacts"]
    <2>1. Noted(w, t) \in Sink /\ Noted(w, t).known = sink[w].known
      BY <1>1, NotedIs
    <2> QED  BY <2>1 DEF Sink
  <1>5. /\ rows' \in [Record -> Nat] /\ Rows' = Rows \cup Pending(w, t) /\ Rows' \subseteq stored
    BY <1>1, <1>2, AppendedIs
  <1>6. 1 \in 1..Attempts /\ sink[w].known["artifacts"] \in (SUBSET Record) \cup {None}
    BY <1>1 DEF Sink, Table, OutboxAssumption
  <1>7. /\ p \in Point /\ p.pc = IF t = "events" THEN "artifacts" ELSE "marking"
        /\ p.then = at[w].then /\ p.todo = at[w].todo /\ p.job = at[w].job
        /\ t = "events" => p.try = 1 /\ p.ids = sink[w].known["artifacts"]
    BY <1>1, <1>6 DEF Point
  <1> HIDE DEF s, p, a, m
  <1>8. Tidy(p) /\ (Calm => Awake(p))
    BY <1>1, <1>7, Onward DEF Flushes
  <1>9. Worker(p, s, Rows')
    <2>1. CASE t = "events"
      <3>1. Trying(p, s, Rows', "artifacts")
        BY <1>3, <1>4, <1>5, <1>7, <2>1 DEF Cache, Tables, Trying, Table
      <3> QED  BY <1>7, <1>8, <2>1, <3>1 DEF Worker, Table
    <2>2. CASE t # "events"
      BY <1>3, <1>5, <1>7, <1>8, <2>2, Outside DEF Table
    <2> QED  BY <2>1, <2>2
  <1>10. Fits(p, s, stored)
    BY <1>1, <1>3, <1>7 DEF Fits
  <1>11. sink[w].buffer \subseteq s.buffer \cup Rows'
    <2>1. In(sink[w].buffer, t) \subseteq Ids(w, t) \cup Pending(w, t) /\ Ids(w, t) \subseteq In(Rows, t)
      BY <1>1, PendingIs
    <2>2. In(Rows, t) \subseteq Rows
      BY DEF In
    <2> QED  BY <1>3, <1>5, <2>1, <2>2
  <1>12. owner' \in [Jobs -> Workers \cup {None}]
    BY <1>1 DEF AppendUnique, Good, Plain
  <1>13. UNCHANGED <<stored, published, finished, crashes, refusals>>
    BY DEF AppendUnique
  <1>14. at[w].pc \in Flushes /\ Rows \subseteq Rows' /\ (Calm => Awake(p))
    BY <1>1, <1>5, <1>8
  <1>15. p \in Point /\ s \in Sink /\ at' = [at EXCEPT ![w] = p] /\ sink' = [sink EXCEPT ![w] = s]
    BY <1>1, <1>3, <1>7
  <1> HIDE DEF AppendUnique
  <1> QED  BY <1>5, <1>9, <1>10, <1>11, <1>12, <1>13, <1>14, <1>15, FlushMoves

(* A conflict leaves the buffer, and the next attempt reads the ids again.   *)
LEMMA CommitConflictKeeps ==
    ASSUME Inv, OutboxAssumption, NEW w \in Workers, NEW t \in Table, CommitConflict(w, t)
    PROVE  Inv'
  <1> DEFINE p == [at[w] EXCEPT !.try = @ + 1, !.ids = None]
  <1>1. /\ Good /\ at[w].pc = t /\ at[w] \in Point /\ sink[w] \in Sink
        /\ at' = [at EXCEPT ![w] = p] /\ at[w].try < Attempts /\ In(sink[w].buffer, t) # {}
        /\ Fits(at[w], sink[w], stored) /\ Trying(at[w], sink[w], Rows, t) /\ t \in Flushes
    BY DEF CommitConflict, Retried, Inv, Good, Worker, Table, Flushes, Buffered, In
  <1>2. at[w].try + 1 \in 1..Attempts /\ at[w].try + 1 # 1
    BY <1>1 DEF Point, OutboxAssumption
  <1>3. /\ p \in Point /\ p.pc = t /\ p.then = at[w].then /\ p.todo = at[w].todo
        /\ p.job = at[w].job /\ p.try # 1 /\ p.ids = None
    BY <1>1, <1>2 DEF Point
  <1> HIDE DEF p
  <1>4. Tidy(p) /\ (Calm => Awake(p))
    BY <1>1, <1>3, Onward
  <1>5. owner' \in [Jobs -> Workers \cup {None}]
    BY <1>1 DEF CommitConflict, Good, Plain
  <1>6. ASSUME rows' = Appended(w, t), sink' = [sink EXCEPT ![w] = Noted(w, t)]
        PROVE  Inv'
    <2>1. rows' \in [Record -> Nat] /\ Rows' = Rows \cup Pending(w, t) /\ Rows' \subseteq stored
      BY <1>1, <1>6, AppendedIs
    <2>2. /\ Noted(w, t) \in Sink /\ Noted(w, t).buffer = sink[w].buffer
          /\ Noted(w, t).known = sink[w].known /\ Noted(w, t).unsure = sink[w].unsure
          /\ ~sink[w].unsure => ~Noted(w, t).twice
      BY <1>1, NotedIs
    <2>3. /\ Tables(Noted(w, t), Rows')
          /\ \A u \in Table : u # t => In(Noted(w, t).written, u) = In(sink[w].written, u)
      BY <1>1, <2>1, NotedTables
    <2>4. Trying(p, Noted(w, t), Rows', t)
      BY <1>1, <1>3, <2>2, <2>3 DEF Trying
    <2>5. Worker(p, Noted(w, t), Rows') /\ Fits(p, Noted(w, t), stored)
      BY <1>1, <1>3, <1>4, <2>2, <2>4 DEF Worker, Fits
    <2> QED  BY <1>1, <1>3, <1>4, <1>5, <1>6, <2>1, <2>2, <2>5, FlushMoves DEF CommitConflict
  <1>7. ASSUME UNCHANGED <<rows, sink>> PROVE Inv'
    <2>1. rows' \in [Record -> Nat] /\ Rows' = Rows /\ Rows \subseteq stored
      BY <1>7 DEF Rows, Inv, Good, Plain
    <2>2. Trying(p, sink[w], Rows, t)
      BY <1>1, <1>3 DEF Trying
    <2>3. Worker(p, sink[w], Rows) /\ Fits(p, sink[w], stored)
      BY <1>1, <1>3, <1>4, <2>2 DEF Worker, Fits
    <2>4. sink' = [sink EXCEPT ![w] = sink[w]]
      BY <1>7 DEF Inv, Good
    <2> QED  BY <1>1, <1>3, <1>4, <1>5, <2>1, <2>3, <2>4, FlushMoves DEF CommitConflict
  <1> QED  BY <1>6, <1>7 DEF CommitConflict

(* A flush is given up; a recovery never is while nobody has been killed.    *)
LEMMA GivenUpKeeps ==
    ASSUME Inv, OutboxAssumption, NEW w \in Workers, NEW s \in Sink, GivenUp(w, s),
           at[w].pc \in Flushes,
           UNCHANGED <<stored, published, finished, crashes, refusals>>,
           rows' \in [Record -> Nat], Rows \subseteq Rows', Rows' \subseteq stored,
           s.buffer = sink[w].buffer, Cache(s, Rows')
    PROVE  Inv'
  <1>1. owner' \in [Jobs -> Workers \cup {None}]
    BY ReleasedType DEF GivenUp, Inv
  <1>2. Fits(at[w], sink[w], stored)
    BY DEF Inv, Good
  <1>3. CASE at[w].then = "recovering"
    <2> DEFINE p == [Idle EXCEPT !.pc = "down"]
    <2>1. at' = [at EXCEPT ![w] = p] /\ sink' = [sink EXCEPT ![w] = EmptySink]
      BY <1>3 DEF GivenUp
    <2>2. p \in Point /\ p.pc = "down" /\ p.todo = {}
      BY IdleIs
    <2> HIDE DEF p
    <2>3. Cache(EmptySink, Rows') /\ EmptySink.buffer = {} /\ EmptySink \in Sink
      BY EmptyType DEF EmptySink, Cache, Tables, In
    <2>4. Worker(p, EmptySink, Rows') /\ Fits(p, EmptySink, stored)
      BY <2>2, <2>3, Outside DEF Tidy, Table, Flushes, Working, Fits
    <2>5. ~Calm
      BY <1>3 DEF Inv, Kept, Awake
    <2> QED  BY <1>1, <2>1, <2>2, <2>3, <2>4, <2>5, FlushMoves
  <1>4. CASE at[w].then # "recovering"
    <2>1. at' = [at EXCEPT ![w] = Idle] /\ sink' = [sink EXCEPT ![w] = s]
      BY <1>4 DEF GivenUp
    <2>2. Idle \in Point /\ Idle.pc = "idle" /\ Idle.todo = {}
      BY DEF Idle, Point, OutboxAssumption
    <2>3. Worker(Idle, s, Rows') /\ Fits(Idle, s, stored)
      BY <1>2, <2>2, Outside DEF Tidy, Table, Flushes, Working, Fits
    <2>4. Awake(Idle)
      BY <2>2 DEF Awake, Flushes
    <2> QED  BY <1>1, <2>1, <2>2, <2>3, <2>4, FlushMoves
  <1> QED  BY <1>3, <1>4

LEMMA AppendFailsKeeps ==
    ASSUME Inv, OutboxAssumption, NEW w \in Workers, NEW t \in Table, AppendFails(w, t)
    PROVE  Inv'
  <1>1. /\ Good /\ at[w].pc = t /\ at[w] \in Point /\ sink[w] \in Sink
        /\ Trying(at[w], sink[w], Rows, t) /\ t \in Flushes
    BY DEF AppendFails, Inv, Good, Worker, Table, Flushes
  <1>2. ASSUME UNCHANGED rows, GivenUp(w, [sink[w] EXCEPT !.unsure = @ \/ at[w].try > 1])
        PROVE  Inv'
    <2> DEFINE s == [sink[w] EXCEPT !.unsure = @ \/ at[w].try > 1]
    <2>1. (at[w].try > 1) \in BOOLEAN /\ at[w].try \in 1..Attempts /\ Attempts \in Nat
      BY <1>1 DEF Point, OutboxAssumption
    <2>2. /\ s \in Sink /\ s.buffer = sink[w].buffer /\ s.known = sink[w].known
          /\ s.written = sink[w].written /\ s.twice = sink[w].twice
          /\ s.unsure = (sink[w].unsure \/ at[w].try > 1)
      BY <1>1, <2>1 DEF Sink
    <2>3. GivenUp(w, s)
      BY <1>2
    <2> HIDE DEF s
    <2>4. ~s.unsure => ~sink[w].unsure /\ at[w].try = 1
      <3>1. at[w].try > 1 \/ at[w].try = 1
        BY <2>1
      <3> QED  BY <2>2, <3>1, Zenon
    <2>5. Cache(s, Rows)
      BY <1>1, <2>2, <2>4 DEF Trying, Tables, Cache
    <2>6. rows' \in [Record -> Nat] /\ Rows' = Rows /\ Rows \subseteq stored
      BY <1>1, <1>2 DEF Rows, Good, Plain
    <2> QED  BY <1>1, <2>2, <2>3, <2>5, <2>6, GivenUpKeeps DEF AppendFails
  <1>3. ASSUME rows' = Appended(w, t), GivenUp(w, [Noted(w, t) EXCEPT !.unsure = TRUE])
        PROVE  Inv'
    <2> DEFINE s == [Noted(w, t) EXCEPT !.unsure = TRUE]
    <2>1. rows' \in [Record -> Nat] /\ Rows' = Rows \cup Pending(w, t) /\ Rows' \subseteq stored
      BY <1>1, <1>3, AppendedIs
    <2>2. /\ Noted(w, t) \in Sink /\ Noted(w, t).buffer = sink[w].buffer
          /\ Tables(Noted(w, t), Rows')
      BY <1>1, <2>1, NotedIs, NotedTables
    <2>3. /\ s \in Sink /\ s.buffer = sink[w].buffer /\ s.unsure
          /\ s.known = Noted(w, t).known /\ s.written = Noted(w, t).written
      BY <2>2 DEF Sink
    <2>4. GivenUp(w, s)
      BY <1>3
    <2> HIDE DEF s
    <2>5. Cache(s, Rows')
      BY <2>2, <2>3 DEF Tables, Cache
    <2> QED  BY <1>1, <2>1, <2>3, <2>4, <2>5, GivenUpKeeps DEF AppendFails
  <1> QED  BY <1>2, <1>3 DEF AppendFails

LEMMA MarkFailsKeeps ==
    ASSUME Inv, OutboxAssumption, NEW w \in Workers, MarkFails(w) PROVE Inv'
  <1> DEFINE s == [sink[w] EXCEPT !.jobs = {}]
  <1>1. /\ at[w].pc = "marking" /\ sink[w] \in Sink /\ Worker(at[w], sink[w], Rows)
        /\ GivenUp(w, s)
    BY DEF MarkFails, Inv, Good
  <1>2. /\ s \in Sink /\ s.buffer = sink[w].buffer /\ s.known = sink[w].known
        /\ s.written = sink[w].written /\ s.twice = sink[w].twice /\ s.unsure = sink[w].unsure
    BY <1>1 DEF Sink
  <1> HIDE DEF s
  <1>3. Cache(s, Rows)
    BY <1>1, <1>2, CacheOf DEF Table, Cache, Tables
  <1>4. rows' \in [Record -> Nat] /\ Rows' = Rows /\ Rows \subseteq stored
    BY DEF MarkFails, Rows, Inv, Good, Plain
  <1> QED  BY <1>1, <1>2, <1>3, <1>4, GivenUpKeeps DEF MarkFails, Flushes

-----------------------------------------------------------------------------
(* Refusals, crashes and restarts. *)

(* After any of them nothing is asked of the records any more. *)
LEMMA Restless ==
    ASSUME Inv, NEW w \in Workers, NEW p \in Point, NEW s \in Sink,
           UNCHANGED <<stored, published, finished, rows>>,
           owner' \in [Jobs -> Workers \cup {None}],
           crashes' \in Nat, refusals' \in Nat, crashes' + refusals' # 0,
           at' = [at EXCEPT ![w] = p], sink' = [sink EXCEPT ![w] = s],
           Fits(p, s, stored), Worker(p, s, Rows)
    PROVE  Inv'
  <1>1. Rows' = Rows /\ stored' = stored
    BY DEF Rows
  <1>2. Plain'
    BY <1>1 DEF Inv, Good, Plain
  <1>3. Good'
    BY <1>1, <1>2, Moves DEF Inv
  <1>4. Kept'
    BY DEF Kept, Calm
  <1> QED  BY <1>3, <1>4 DEF Inv

LEMMA EmitFailsKeeps ==
    ASSUME Inv, OutboxAssumption, NEW w \in Workers, EmitFails(w) PROVE Inv'
  <1>1. /\ at[w].pc = "staging" /\ sink[w] \in Sink /\ Worker(at[w], sink[w], Rows)
        /\ Fits(at[w], sink[w], stored)
        /\ at' = [at EXCEPT ![w] = Idle] /\ sink' = [sink EXCEPT ![w] = sink[w]]
    BY DEF EmitFails, Inv, Good
  <1>2. /\ crashes' \in Nat /\ refusals' \in Nat /\ crashes' + refusals' # 0
        /\ owner' \in [Jobs -> Workers \cup {None}]
    BY ReleasedType DEF EmitFails, Inv, Good, Plain
  <1>3. Idle \in Point /\ Idle.pc = "idle" /\ Idle.todo = {}
    BY DEF Idle, Point, OutboxAssumption
  <1>4. Worker(Idle, sink[w], Rows) /\ Fits(Idle, sink[w], stored)
    BY <1>1, <1>3, CacheOf, Outside DEF Tidy, Table, Flushes, Working, Fits
  <1> QED  BY <1>1, <1>2, <1>3, <1>4, Restless DEF EmitFails

LEMMA CrashKeeps ==
    ASSUME Inv, OutboxAssumption, NEW w \in Workers, Crash(w) PROVE Inv'
  <1> DEFINE p == [Idle EXCEPT !.pc = "down"]
  <1>1. at' = [at EXCEPT ![w] = p] /\ sink' = [sink EXCEPT ![w] = EmptySink]
    BY DEF Crash
  <1>2. /\ crashes' \in Nat /\ refusals' \in Nat /\ crashes' + refusals' # 0
        /\ owner' \in [Jobs -> Workers \cup {None}]
    BY DEF Crash, Inv, Good, Plain
  <1>3. p \in Point /\ p.pc = "down" /\ p.todo = {}
    BY IdleIs
  <1> HIDE DEF p
  <1>4. Cache(EmptySink, Rows) /\ EmptySink.buffer = {} /\ EmptySink \in Sink
    BY EmptyType DEF EmptySink, Cache, Tables, In
  <1>5. Worker(p, EmptySink, Rows) /\ Fits(p, EmptySink, stored)
    BY <1>3, <1>4, Outside DEF Tidy, Table, Flushes, Working, Fits
  <1> QED  BY <1>1, <1>2, <1>3, <1>4, <1>5, Restless DEF Crash

(* Only who was killed, or whose recovery failed, starts again. *)
LEMMA RestartKeeps ==
    ASSUME Inv, OutboxAssumption, NEW w \in Workers, Restart(w) PROVE Inv'
  <1> DEFINE p == [Idle EXCEPT !.pc = "recovering", !.todo = Recoverable]
  <1>1. /\ at[w].pc = "down" /\ sink[w] \in Sink /\ Worker(at[w], sink[w], Rows)
        /\ Fits(at[w], sink[w], stored) /\ stored \subseteq Record
        /\ at' = [at EXCEPT ![w] = p] /\ sink' = [sink EXCEPT ![w] = sink[w]]
    BY DEF Restart, Inv, Good, Plain
  <1>2. Idle \in Point
    BY DEF Idle, Point, OutboxAssumption
  <1>3. Recoverable \subseteq stored
    BY DEF Recoverable
  <1>4. p \in Point /\ p.pc = "recovering" /\ p.todo = Recoverable
    BY <1>1, <1>2, <1>3 DEF Point
  <1> HIDE DEF p
  <1>5. Worker(p, sink[w], Rows) /\ Fits(p, sink[w], stored)
    BY <1>1, <1>3, <1>4, CacheOf, Outside DEF Tidy, Table, Flushes, Working, Fits
  <1>6. crashes + refusals # 0 /\ crashes \in Nat /\ refusals \in Nat
    BY <1>1 DEF Inv, Kept, Calm, Awake, Good, Plain
  <1>7. owner' \in [Jobs -> Workers \cup {None}]
    BY DEF Restart, Inv, Good, Plain
  <1> QED  BY <1>1, <1>4, <1>5, <1>6, <1>7, Restless DEF Restart

-----------------------------------------------------------------------------
LEMMA InvNext == ASSUME Inv, OutboxAssumption, Next PROVE Inv'
  <1>1. ASSUME NEW j \in Jobs, Lapse(j) PROVE Inv'
    BY <1>1, LapseKeeps
  <1>2. ASSUME NEW w \in Workers, NEW j \in Jobs, Take(w, j) PROVE Inv'
    BY <1>2, TakeKeeps
  <1>3. ASSUME NEW w \in Workers, NEW k \in Kinds, Append(w, k) PROVE Inv'
    BY <1>3, AppendKeeps
  <1>4. ASSUME NEW w \in Workers, Emit(w) \/ BeginOutbox(w) \/ Restage(w) PROVE Inv'
    BY <1>4, EmitKeeps, BeginOutboxKeeps, RestageKeeps
  <1>5. ASSUME NEW w \in Workers, EndRestage(w) \/ Finish(w) PROVE Inv'
    BY <1>5, EndRestageKeeps, FinishKeeps
  <1>6. ASSUME NEW w \in Workers, FlushDue(w) \/ MarkPublished(w) PROVE Inv'
    BY <1>6, FlushDueKeeps, MarkPublishedKeeps
  <1>7. ASSUME NEW w \in Workers, NEW t \in Table,
               AppendUnique(w, t) \/ CommitConflict(w, t) \/ AppendFails(w, t)
        PROVE  Inv'
    BY <1>7, AppendUniqueKeeps, CommitConflictKeeps, AppendFailsKeeps
  <1>8. ASSUME NEW w \in Workers, MarkFails(w) \/ PipelineFails(w) PROVE Inv'
    BY <1>8, MarkFailsKeeps, PipelineFailsKeeps
  <1>9. ASSUME NEW w \in Workers, EmitFails(w) \/ Crash(w) \/ Restart(w) PROVE Inv'
    BY <1>9, EmitFailsKeeps, CrashKeeps, RestartKeeps
  <1> QED  BY <1>1, <1>2, <1>3, <1>4, <1>5, <1>6, <1>7, <1>8, <1>9 DEF Next

LEMMA InvStutter == ASSUME Inv, UNCHANGED vars PROVE Inv'
  <1>1. /\ stored' = stored /\ published' = published /\ finished' = finished
        /\ owner' = owner /\ at' = at /\ sink' = sink /\ rows' = rows
        /\ crashes' = crashes /\ refusals' = refusals
    BY DEF vars
  <1>2. Rows' = Rows /\ (Calm' <=> Calm)
    BY <1>1 DEF Rows, Calm
  <1>3. Good'
    BY <1>1, <1>2 DEF Inv, Good, Plain
  <1>4. Kept'
    BY <1>1, <1>2 DEF Inv, Kept
  <1> QED  BY <1>3, <1>4 DEF Inv

THEOREM OutboxInvariant == ASSUME OutboxAssumption PROVE Spec => []Inv
  <1>1. Init => Inv
    BY InvInit
  <1>2. Inv /\ [Next]_vars => Inv'
    BY InvNext, InvStutter
  <1> QED  BY <1>1, <1>2, PTL DEF Spec

LEMMA InvSays == Inv => TypeOK /\ NothingStranded /\ WrittenOnce
  <1> SUFFICES ASSUME Inv PROVE TypeOK /\ NothingStranded /\ WrittenOnce
    OBVIOUS
  <1>1. TypeOK
    BY DEF Inv, Good, Plain, Fits, TypeOK, Rows
  <1>2. ASSUME Calm, NEW r \in stored PROVE Safe(r)
    <2>1. r \in Rows \/ \E w \in Workers : Holds(at[w], sink[w], r)
      BY <1>2 DEF Inv, Kept
    <2> QED  BY <2>1 DEF Holds, Safe, Staged, Rows
  <1>3. ASSUME NEW w \in Workers, sink[w].twice PROVE sink[w].unsure
    <2>1. Worker(at[w], sink[w], Rows)
      BY DEF Inv, Good
    <2> QED  BY <1>3, <2>1 DEF Worker, Cache, Trying, Table
  <1> QED  BY <1>1, <1>2, <1>3 DEF NothingStranded, WrittenOnce, Calm

(* Nothing is staged or has a row that the database does not hold, and every *)
(* part of the state has its type (processor/foundry/worker.py, lakehouse.py). *)
THEOREM OutboxTypeCorrect == ASSUME OutboxAssumption PROVE Spec => []TypeOK
  BY InvSays, OutboxInvariant, PTL

(* While no process is killed and Kafka refuses nothing, a job that is marked *)
(* as published has every record in a table or in the hands of a worker that *)
(* still stages it: whoever lost the claim, and whatever flush was cut short. *)
THEOREM NothingIsStranded == ASSUME OutboxAssumption PROVE Spec => []NothingStranded
  BY InvSays, OutboxInvariant, PTL

(* A worker appends no record twice after a conflict or a commit of unknown  *)
(* outcome (_append_unique of lakehouse.py), unless it gave a flush up.      *)
THEOREM RecordsWrittenOnce == ASSUME OutboxAssumption PROVE Spec => []WrittenOnce
  BY InvSays, OutboxInvariant, PTL
=============================================================================
