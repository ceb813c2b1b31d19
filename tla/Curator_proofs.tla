--------------------------- MODULE Curator_proofs ---------------------------
(***************************************************************************)
(* Theorems about Curator, for every set of payloads, every similarity and   *)
(* bucket layout, every log, batch size, age limit and number of crashes,    *)
(* and whatever the other partitions observe.                              *)
(***************************************************************************)
EXTENDS Curator, WellFoundedInduction, TLAPS

-----------------------------------------------------------------------------
(* The index. *)

LEMMA ObservationType == ASSUME NEW p \in Payloads PROVE Observation(p) \in Submission
  BY CuratorAssumption DEF Observation, Submission

LEMMA CandidatesType ==
    ASSUME NEW i \in Index, NEW s \in Submission
    PROVE  Candidates(i, s) \subseteq Submission
  <1>1. KeysOf[s.sig] \subseteq Keys
    BY IndexAssumption DEF Submission
  <1>2. \A k \in Keys : i.owner[k] \in Submission \cup {None}
    BY DEF Index
  <1> QED  BY <1>1, <1>2 DEF Candidates

LEMMA ObservedType ==
    ASSUME NEW i \in Index, NEW s \in Submission
    PROVE  Observed(i, s) \in Index
  <1>1. KeysOf[s.sig] \subseteq Keys
    BY IndexAssumption DEF Submission
  <1>2. Registered(i, s) \in Index
    BY <1>1 DEF Registered, Index
  <1> QED  BY <1>2 DEF Observed

(* Of the matches one has the least cluster id. *)
LEMMA FirstExists ==
    ASSUME NEW C, C \subseteq Submission, C # {}
    PROVE  \E c \in C : First(c, C)
  <1> DEFINE T == {Rank[c] : c \in C}
  <1>1. T \subseteq Nat /\ T # {}
    BY IndexAssumption
  <1>2. PICK n \in T : \A k \in T : ~(<<k, n>> \in OpToRel(<, Nat))
    BY <1>1, NatLessThanWellFounded, WFMin
  <1>3. \A k \in T : ~(k < n)
    BY <1>1, <1>2 DEF OpToRel
  <1>4. \A k \in T : n <= k
    <2>1. n \in Nat /\ \A k \in T : k \in Nat
      BY <1>1
    <2> QED  BY <1>3, <2>1
  <1> QED  BY <1>4 DEF First

-----------------------------------------------------------------------------
(* Types. *)

LEMMA SettleType ==
    ASSUME TypeOK, NEW o \in Offset, NEW r \in Decision \cup Dropped, Settle(o, r)
    PROVE  /\ proc' \in Process /\ proc'.pc = "deciding" /\ proc'.decision = None
           /\ proc'.read = proc.read /\ proc'.upto = proc.upto /\ proc'.outbox = proc.outbox
           /\ proc'.results = [proc.results EXCEPT ![o] = r]
  BY DEF TypeOK, Settle, Process

LEMMA ResumedType ==
    ASSUME NEW n \in 0..LogLength, NEW c \in 0..CrashLimit
    PROVE  Resumed(n, c) \in Process
  <1>1. NoResults \in [Offset -> Decision \cup Dropped \cup {None}]
    BY DEF NoResults
  <1>2. {} \in SUBSET Message
    OBVIOUS
  <1> QED  BY <1>1, <1>2 DEF Resumed, Process

LEMMA TypeInit == Init => TypeOK
  <1> SUFFICES ASSUME Init PROVE TypeOK
    OBVIOUS
  <1>1. proc \in Process
    BY CuratorAssumption, ResumedType DEF Init
  <1>2. index \in Index
    BY DEF Init, EmptyIndex, Index
  <1>3. frontier <= proc.read /\ proc.pc # "caching" /\ 0 \in 0..LogLength /\ 0 \in 0..Horizon
    BY CuratorAssumption DEF Init, Resumed
  <1> QED  BY <1>1, <1>2, <1>3 DEF Init, TypeOK

(* Where the process reads is not before its snapshot; a batch is read first  *)
(* to last.                                                                *)
Ordered == proc.read <= proc.upto

LEMMA DecisionsAreOf ==
    ASSUME TypeOK, NEW o \in Batch
    PROVE  o \in Offset /\ log[o] \in Payloads /\ proc.results[o] \in Decision \cup Dropped \cup {None}
  <1>1. o \in Offset
    BY CuratorAssumption DEF TypeOK, Process, Batch, Offset
  <1> QED  BY <1>1 DEF TypeOK, Process

LEMMA TypeStep == TypeOK /\ Ordered /\ [Next]_vars => TypeOK' /\ Ordered'
  <1> SUFFICES ASSUME TypeOK, Ordered, [Next]_vars PROVE TypeOK' /\ Ordered'
    OBVIOUS
  <1> USE DEF Ordered
  <1>0. CASE UNCHANGED vars
    BY <1>0 DEF TypeOK, vars
  <1>1. CASE Read
    <2>1. PICK upto \in (proc.read + 1)..LogLength :
            proc' = [proc EXCEPT !.pc = "prefetching", !.upto = upto,
                                 !.results = LookedUp((proc.read + 1)..upto)]
      BY <1>1 DEF Read
    <2>2. LookedUp((proc.read + 1)..upto) \in [Offset -> Decision \cup Dropped \cup {None}]
      BY DEF LookedUp, TypeOK, Dropped
    <2>3. upto \in 0..LogLength /\ proc.read <= upto
      BY CuratorAssumption DEF TypeOK, Process
    <2> QED  BY <1>1, <2>1, <2>2, <2>3 DEF Read, TypeOK, Process
  <1>2. CASE Prefetch
    <2>1. AgeChecked \in [Offset -> Decision \cup Dropped \cup {None}]
      BY DEF AgeChecked, TypeOK, Process, Dropped
    <2>2. \A P \in SUBSET Payloads : Skips(P) \in SUBSET Docs
      BY CuratorAssumption DEF Skips
    <2>3. {log[o] : o \in {b \in Batch : AgeChecked[b] = None}} \in SUBSET Payloads
      BY DecisionsAreOf
    <2> DEFINE skips == Skips({log[o] : o \in {b \in Batch : AgeChecked[b] = None}})
    <2>4. \/ proc' = [proc EXCEPT !.pc = "deciding", !.results = AgeChecked, !.retry = 0,
                                  !.skips = skips]
          \/ proc' = [proc EXCEPT !.results = AgeChecked, !.retry = 1 - @]
          \/ proc' = [proc EXCEPT !.pc = "deciding", !.results = AgeChecked, !.retry = 0]
      BY <1>2 DEF Prefetch
    <2>5. proc.pc = "prefetching" /\ skips \in SUBSET Docs /\ 1 - proc.retry \in {0, 1}
      BY <1>2, <2>2, <2>3 DEF Prefetch, TypeOK, Process
    <2> HIDE DEF skips
    <2>6. proc' \in Process /\ proc'.pc # "caching" /\ proc'.read = proc.read /\ proc'.upto = proc.upto
      <3>1. proc \in Process
        BY DEF TypeOK
      <3>2. CASE proc' = [proc EXCEPT !.pc = "deciding", !.results = AgeChecked, !.retry = 0,
                                      !.skips = skips]
        BY <2>1, <2>5, <3>1, <3>2 DEF Process
      <3>3. CASE proc' = [proc EXCEPT !.results = AgeChecked, !.retry = 1 - @]
        BY <2>1, <2>5, <3>1, <3>3 DEF Process
      <3>4. CASE proc' = [proc EXCEPT !.pc = "deciding", !.results = AgeChecked, !.retry = 0]
        BY <2>1, <2>5, <3>1, <3>4 DEF Process
      <3> QED  BY <2>4, <3>2, <3>3, <3>4
    <2> QED  BY <1>2, <2>6 DEF Prefetch, TypeOK
  <1>3. CASE Return
    <2> DEFINE decided == {o \in Batch : proc.results[o] \notin Dropped}
               out == UNION {{[topic |-> t, offset |-> o, decision |-> proc.results[o]] :
                                 t \in Topics(proc.results[o])} : o \in decided}
    <2>1. \A o \in decided : o \in Offset /\ proc.results[o] \in Decision
      BY <1>3, DecisionsAreOf DEF Return, Undecided
    <2>2. \A d : Topics(d) \subseteq {"decisions", "curated", "raw"}
      BY DEF Topics
    <2>3. out \subseteq Message
      BY <2>1, <2>2 DEF Message
    <2>4. proc' = [proc EXCEPT !.pc = "publishing", !.outbox = out]
      BY <1>3 DEF Return
    <2>5. proc' \in Process /\ proc'.pc # "caching" /\ proc'.read = proc.read /\ proc'.upto = proc.upto
      BY <2>3, <2>4 DEF TypeOK, Process
    <2>6. dropped' \in [Offset -> Dropped \cup {None}]
      BY <1>3 DEF Return, TypeOK
    <2> QED  BY <1>3, <2>5, <2>6 DEF Return, TypeOK
  <1>4. CASE Publish
    <2>1. PICK m \in proc.outbox : published' = published \cup {m}
                                   /\ proc' = [proc EXCEPT !.outbox = @ \ {m}]
      BY <1>4 DEF Publish
    <2>2. m \in Message
      BY DEF TypeOK, Process
    <2>3. proc' \in Process /\ proc'.pc = proc.pc /\ proc'.read = proc.read
          /\ proc'.upto = proc.upto /\ proc'.decision = proc.decision
      BY <2>1 DEF TypeOK, Process
    <2> QED  BY <1>4, <2>1, <2>2, <2>3 DEF Publish, TypeOK
  <1>5. CASE EndBatch
    <2>1. proc.upto \in 0..LogLength /\ proc.crashes \in 0..CrashLimit /\ proc.read \in 0..LogLength
      BY DEF TypeOK, Process
    <2>2. proc' \in Process /\ proc'.read = proc.upto /\ proc'.upto = proc.upto /\ proc'.pc = "idle"
      BY <1>5, <2>1, ResumedType DEF EndBatch, Resumed
    <2> QED  BY <1>5, <2>1, <2>2, CuratorAssumption DEF EndBatch, TypeOK
  <1>6. CASE RaiseUnavailable \/ Crash
    <2>1. PICK c \in 0..CrashLimit : proc' = Resumed(frontier, c)
      BY <1>6, CuratorAssumption DEF RaiseUnavailable, Crash, TypeOK, Process
    <2>2. proc' \in Process /\ proc'.read = frontier /\ proc'.upto = frontier /\ proc'.pc = "idle"
      BY <2>1, ResumedType DEF Resumed, TypeOK
    <2> QED  BY <1>6, <2>2, CuratorAssumption DEF RaiseUnavailable, Crash, TypeOK
  <1>7. CASE \E o \in Offset : DropExpired(o) \/ TakeCached(o) \/ FailDocument(o) \/ FailHandoff(o)
    <2> PICK o \in Offset : DropExpired(o) \/ TakeCached(o) \/ FailDocument(o) \/ FailHandoff(o)
      BY <1>7
    <2>1. cache[log[o]] \in Decision \cup {None} /\ Aged \in Dropped /\ Failed \in Dropped
      BY DEF TypeOK, Dropped
    <2>2. PICK r \in Decision \cup Dropped : Settle(o, r)
      BY <2>1 DEF DropExpired, TakeCached, FailDocument, FailHandoff
    <2>3. UNCHANGED <<now, log, frontier, index, cache, published, dropped>>
      BY DEF DropExpired, TakeCached, FailDocument, FailHandoff
    <2> QED  BY <2>2, <2>3, SettleType DEF TypeOK
  <1>8. CASE \E o \in Offset : CurateOne(o)
    <2> PICK o \in Offset : CurateOne(o)
      BY <1>8
    <2>1. Route(log[o]) \in {"pretrain", "quarantine", "retry"} /\ Scored(log[o]) \in BOOLEAN
      BY DEF Route, Scored
    <2>2. [route |-> Route(log[o]), scored |-> Scored(log[o])] \in Decision
      BY <2>1 DEF Decision
    <2>3. proc' \in Process /\ proc'.read = proc.read /\ proc'.upto = proc.upto
          /\ proc'.decision \in Decision
      BY <2>2 DEF CurateOne, TypeOK, Process
    <2>4. index' \in Index
      BY ObservedType, ObservationType DEF CurateOne, TypeOK
    <2> QED  BY <2>3, <2>4, NoDecisionAssumption DEF CurateOne, TypeOK
  <1>9. CASE \E o \in Offset : CacheDecision(o)
    <2> PICK o \in Offset : CacheDecision(o)
      BY <1>9
    <2>1. PICK d \in HandedOff(proc.decision) : cache' = Put(log[o], d) /\ Settle(o, d)
      BY DEF CacheDecision
    <2>2. proc.decision \in Decision
      BY DEF CacheDecision, TypeOK, Process
    <2>3. d \in Decision
      BY <2>1, <2>2 DEF HandedOff, Decision
    <2>4. cache' \in [Payloads -> Decision \cup {None}]
      BY <2>1, <2>3 DEF Put, TypeOK
    <2> QED  BY <2>1, <2>3, <2>4, SettleType DEF CacheDecision, TypeOK
  <1>10. CASE Snapshot
    BY <1>10, CuratorAssumption DEF Snapshot, TypeOK, Process
  <1>11. CASE Tick
    BY <1>11, CuratorAssumption DEF Tick, TypeOK
  <1>12. CASE \E s \in Elsewhere : ObserveElsewhere(s)
    <2> PICK s \in Elsewhere : ObserveElsewhere(s)
      BY <1>12
    <2>1. index' \in Index
      BY ObservedType, CuratorAssumption DEF ObserveElsewhere, TypeOK
    <2> QED  BY <2>1 DEF ObserveElsewhere, TypeOK
  <1> QED
    BY <1>0, <1>1, <1>2, <1>3, <1>4, <1>5, <1>6, <1>7, <1>8, <1>9, <1>10, <1>11, <1>12
       DEF Next, Step

-----------------------------------------------------------------------------
(* What holds between the tables, the batch and the topics.                 *)

(* Whoever owns a bucket is registered; no band table is brought along.     *)
IndexOK ==
    /\ index.legacy = {}
    /\ \A k \in Keys : index.owner[k] # None => index.owner[k] \in index.clusters

Anchored(s) ==
    \E c \in index.clusters : c = s \/ (c.doc = s.doc /\ c \in Candidates(index, s))
AnchoredIf(decision, p) == decision.route = "pretrain" => Anchored(Observation(p))

(* An acceptance that is cached was observed.                               *)
CacheOK == \A p \in Payloads : cache[p] # None => AnchoredIf(cache[p], p)

(* The decisions of the batch are those of the cache.                       *)
BatchOK ==
    /\ Ordered
    /\ \A o \in Batch : proc.results[o] \in Decision => proc.results[o] = cache[log[o]]

(* The decision that waits to be cached is the first one of its payload.     *)
Front(o) == o \in Undecided /\ \A b \in Undecided : o <= b
CachingOK ==
    proc.pc = "caching" => \A o \in Offset : Front(o) =>
        cache[log[o]] = None /\ AnchoredIf(proc.decision, log[o])

(* What is sent carries the cached decision and is in a topic of it.         *)
SentOK ==
    \A m \in published \cup proc.outbox :
        m.decision = cache[log[m.offset]] /\ m.topic \in Topics(m.decision)

Copy(t, o) == [topic |-> t, offset |-> o, decision |-> cache[log[o]]]
Through(o, sent) ==
    \/ dropped[o] # None
    \/ cache[log[o]] # None /\ \A t \in Topics(cache[log[o]]) : Copy(t, o) \in sent

(* What is behind the process is published or was dropped; of the batch that *)
(* it publishes the rest waits in the outbox.                              *)
ReadOK ==
    /\ \A o \in 1..proc.read : Through(o, published)
    /\ proc.pc = "publishing" => \A o \in Batch : Through(o, published \cup proc.outbox)

CuratorInv ==
    TypeOK /\ IndexOK /\ CacheOK /\ BatchOK /\ CachingOK /\ SentOK /\ ReadOK

-----------------------------------------------------------------------------
LEMMA DecisionsAreNotDropped == Decision \cap Dropped = {} /\ None \notin Decision \cup Dropped
  BY NoDecisionAssumption DEF Decision, Dropped, Aged, Failed

(* The index and the tables only grow, so that what was observed stays       *)
(* observed, and what is through stays through.                            *)
Growth ==
    /\ log' = log /\ published \subseteq published'
    /\ \A p \in Payloads : cache[p] # None => cache'[p] = cache[p]
    /\ \A o \in Offset : dropped[o] # None => dropped'[o] # None
    /\ \A s \in Submission : Anchored(s) => Anchored(s)'

LEMMA Observing ==
    ASSUME TypeOK, IndexOK, NEW s \in Submission, index' = Observed(index, s)
    PROVE  /\ IndexOK'
           /\ \A u \in Submission : Anchored(u) => Anchored(u)'
           /\ ~IsNearDuplicate(index, s) => Anchored(s)'
  <1>1. ~UsesLegacyBands(index) /\ index \in Index
    BY DEF IndexOK, UsesLegacyBands, TypeOK
  <1>2. CASE Matches(index, s) = {}
    <2>1. index' = [index EXCEPT !.clusters = @ \cup {s},
                        !.owner = [k \in Keys |-> IF k \in KeysOf[s.sig] /\ index.owner[k] = None
                                                  THEN s ELSE index.owner[k]]]
      BY <1>1, <1>2 DEF Observed, IsNew, Registered
    <2>2. /\ index'.clusters = index.clusters \cup {s} /\ index'.legacy = index.legacy
          /\ \A k \in Keys : index'.owner[k] = IF k \in KeysOf[s.sig] /\ index.owner[k] = None
                                               THEN s ELSE index.owner[k]
      BY <1>1, <2>1 DEF Index
    <2>3. IndexOK'
      BY <2>2 DEF IndexOK
    <2>4. ASSUME NEW u \in Submission, Anchored(u) PROVE Anchored(u)'
      <3>1. KeysOf[u.sig] \subseteq Keys
        BY IndexAssumption DEF Submission
      <3>2. Candidates(index, u) \subseteq Candidates(index', u)
        BY <2>2, <3>1 DEF Candidates
      <3> QED  BY <2>2, <2>4, <3>2 DEF Anchored
    <2>5. Anchored(s)'
      BY <2>2 DEF Anchored
    <2> QED  BY <2>3, <2>4, <2>5
  <1>3. CASE Matches(index, s) # {}
    <2>1. index' = index
      BY <1>1, <1>3 DEF Observed, IsNew
    <2>2. ASSUME ~IsNearDuplicate(index, s) PROVE Anchored(s)'
      <3>1. Matches(index, s) \subseteq Candidates(index, s)
        BY DEF Matches
      <3>2. PICK c \in Matches(index, s) : First(c, Matches(index, s))
        BY <1>1, <1>3, <3>1, FirstExists, CandidatesType
      <3>3. c.doc = s.doc
        BY <1>1, <2>2, <3>2 DEF IsNearDuplicate
      <3>4. KeysOf[s.sig] \subseteq Keys
        BY IndexAssumption DEF Submission
      <3>5. c \in index.clusters
        BY <3>1, <3>2, <3>4 DEF Candidates, IndexOK
      <3> QED  BY <2>1, <3>1, <3>2, <3>3, <3>5 DEF Anchored
    <2>3. IndexOK' /\ \A u \in Submission : Anchored(u) => Anchored(u)'
      BY <2>1 DEF IndexOK, Anchored
    <2> QED  BY <2>2, <2>3
  <1> QED  BY <1>2, <1>3

LEMMA IndexStays ==
    ASSUME IndexOK, index' = index
    PROVE  IndexOK' /\ \A s \in Submission : Anchored(s) => Anchored(s)'
  BY DEF IndexOK, Anchored

LEMMA CacheStays ==
    ASSUME CacheOK, Growth, cache' = cache
    PROVE  CacheOK'
  BY ObservationType DEF CacheOK, Growth, AnchoredIf, Observation

LEMMA SentStays ==
    ASSUME TypeOK, SentOK, Growth,
           published' \cup proc'.outbox \subseteq published \cup proc.outbox
    PROVE  SentOK'
  <1> SUFFICES ASSUME NEW m \in published \cup proc.outbox
               PROVE  m.decision = cache'[log'[m.offset]] /\ m.topic \in Topics(m.decision)
    BY DEF SentOK
  <1>1. m \in Message
    BY DEF TypeOK, Process
  <1>2. m.offset \in Offset /\ m.decision \in Decision
    BY <1>1 DEF Message
  <1>3. log[m.offset] \in Payloads
    BY <1>2 DEF TypeOK
  <1>4. cache[log[m.offset]] # None
    BY <1>2, DecisionsAreNotDropped DEF SentOK
  <1> QED  BY <1>3, <1>4 DEF SentOK, Growth

LEMMA PublishedStays ==
    ASSUME TypeOK, Growth, NEW o \in Offset, Through(o, published)
    PROVE  Through(o, published)'
  <1>1. log[o] \in Payloads
    BY DEF TypeOK
  <1> QED  BY <1>1 DEF Through, Growth, Copy

LEMMA HandledStays ==
    ASSUME TypeOK, Growth, NEW o \in Offset, Through(o, published \cup proc.outbox),
           published \cup proc.outbox \subseteq published' \cup proc'.outbox
    PROVE  Through(o, published \cup proc.outbox)'
  <1>1. log[o] \in Payloads
    BY DEF TypeOK
  <1> QED  BY <1>1 DEF Through, Growth, Copy

(* A step of the process that leaves the tables alone.                      *)
LEMMA QuietStep ==
    ASSUME CuratorInv, TypeOK', BatchOK', UNCHANGED <<log, index, cache, published, dropped>>,
           proc'.pc # "caching", proc'.outbox \subseteq proc.outbox,
           proc'.pc = "publishing" => proc' = proc,
           \A o \in 1..proc'.read : Through(o, published)
    PROVE  CuratorInv'
  <1>1. Growth /\ IndexOK'
    BY IndexStays DEF Growth, CuratorInv
  <1>2. CacheOK' /\ CachingOK'
    BY <1>1, CacheStays DEF CuratorInv, CachingOK
  <1>3. SentOK'
    BY <1>1, SentStays DEF CuratorInv
  <1>4. ReadOK'
    <2>1. \A o \in 1..proc'.read : Through(o, published)'
      BY DEF Through, Copy
    <2>2. CASE proc' = proc
      BY <2>1, <2>2 DEF CuratorInv, ReadOK, Through, Copy, Batch
    <2>3. CASE proc'.pc # "publishing"
      BY <2>1, <2>3 DEF ReadOK
    <2> QED  BY <2>1, <2>2, <2>3
  <1> QED  BY <1>1, <1>2, <1>3, <1>4 DEF CuratorInv

(* A step that only lets the index, the cache or the topics grow.           *)
LEMMA GrowingStep ==
    ASSUME CuratorInv, TypeOK', Growth, IndexOK', CacheOK', BatchOK', CachingOK',
           proc'.pc \in {proc.pc, "deciding", "caching"}, proc'.read = proc.read,
           proc'.upto = proc.upto,
           published' \cup proc'.outbox = published \cup proc.outbox
    PROVE  CuratorInv'
  <1>1. SentOK'
    BY SentStays DEF CuratorInv
  <1>2. Batch' = Batch /\ Batch \subseteq Offset /\ 1..proc.read \subseteq Offset
    <2>1. proc.read \in 0..LogLength
      BY DEF CuratorInv, TypeOK, Process
    <2>2. 1..proc.read \subseteq Offset
      BY <2>1, CuratorAssumption DEF Offset
    <2> QED  BY <2>2, DecisionsAreOf DEF Batch, CuratorInv
  <1>3. \A o \in 1..proc'.read : Through(o, published)'
    BY <1>2, PublishedStays DEF CuratorInv, ReadOK
  <1>4. ASSUME proc'.pc = "publishing", NEW o \in Batch
        PROVE  Through(o, published \cup proc.outbox)'
    BY <1>2, <1>4, HandledStays DEF CuratorInv, ReadOK
  <1>5. ReadOK'
    BY <1>2, <1>3, <1>4 DEF ReadOK
  <1> QED  BY <1>1, <1>5 DEF CuratorInv

(* A step that leaves the process alone keeps what holds of its batch.       *)
LEMMA BatchStays ==
    ASSUME CuratorInv, Growth, proc'.upto = proc.upto, proc'.read = proc.read,
           proc'.results = proc.results
    PROVE  BatchOK'
  <1>1. Batch' = Batch /\ \A o \in Batch : log[o] \in Payloads
    BY DecisionsAreOf DEF Batch, CuratorInv
  <1> QED
    BY <1>1, DecisionsAreNotDropped DEF CuratorInv, BatchOK, Ordered, Growth

-----------------------------------------------------------------------------
(* The actions.                                                            *)

LEMMA ReadSound == ASSUME CuratorInv, TypeOK', Ordered', Read PROVE CuratorInv'
  <1>1. PICK upto \in (proc.read + 1)..LogLength :
          proc' = [proc EXCEPT !.pc = "prefetching", !.upto = upto,
                               !.results = LookedUp((proc.read + 1)..upto)]
    BY DEF Read
  <1>2. /\ proc'.pc = "prefetching" /\ proc'.read = proc.read /\ proc'.upto = upto
        /\ proc'.outbox = proc.outbox /\ proc'.results = LookedUp((proc.read + 1)..upto)
    BY <1>1 DEF CuratorInv, TypeOK, Process
  <1>3. BatchOK'
    <2>1. Batch' = (proc.read + 1)..upto /\ Batch' \subseteq Offset
      <3>1. proc.read \in 0..LogLength
        BY DEF CuratorInv, TypeOK, Process
      <3>2. (proc.read + 1)..upto \subseteq Offset
        BY <3>1, CuratorAssumption DEF Offset
      <3> QED  BY <1>2, <3>2 DEF Batch
    <2>2. ASSUME NEW o \in Batch', proc'.results[o] \in Decision
          PROVE  proc'.results[o] = cache[log[o]]
      BY <1>2, <2>1, <2>2, DecisionsAreNotDropped DEF LookedUp, Dropped
    <2> QED  BY <2>2 DEF BatchOK, Read
  <1> QED  BY <1>2, <1>3, QuietStep DEF Read, CuratorInv, ReadOK

LEMMA PrefetchSound == ASSUME CuratorInv, TypeOK', Ordered', Prefetch PROVE CuratorInv'
  <1>1. /\ proc'.pc \in {"prefetching", "deciding"} /\ proc'.read = proc.read
        /\ proc'.upto = proc.upto /\ proc'.outbox = proc.outbox /\ proc'.results = AgeChecked
    <2>1. proc \in Process /\ proc.pc = "prefetching"
      BY DEF Prefetch, CuratorInv, TypeOK
    <2>2. \E skips : \/ proc' = [proc EXCEPT !.pc = "deciding", !.results = AgeChecked, !.retry = 0,
                                              !.skips = skips]
                     \/ proc' = [proc EXCEPT !.results = AgeChecked, !.retry = 1 - @]
                     \/ proc' = [proc EXCEPT !.pc = "deciding", !.results = AgeChecked, !.retry = 0]
      BY DEF Prefetch
    <2> QED  BY <2>1, <2>2 DEF Process
  <1>2. BatchOK'
    <2>1. Batch' = Batch /\ \A o \in Batch : o \in Offset
      BY <1>1, DecisionsAreOf DEF Batch, CuratorInv
    <2>2. ASSUME NEW o \in Batch, proc'.results[o] \in Decision
          PROVE  proc'.results[o] = cache[log[o]]
      BY <1>1, <2>1, <2>2, DecisionsAreNotDropped DEF AgeChecked, Dropped, CuratorInv, BatchOK
    <2> QED  BY <2>1, <2>2 DEF BatchOK, Prefetch
  <1> QED  BY <1>1, <1>2, QuietStep DEF Prefetch, CuratorInv, ReadOK

(* A result that is no decision, or the cached one.                          *)
LEMMA SettledBatch ==
    ASSUME CuratorInv, Ordered', NEW o \in Offset, NEW r \in Decision \cup Dropped, Settle(o, r),
           Growth, r \in Decision => r = cache'[log[o]]
    PROVE  BatchOK'
  <1>1. /\ proc'.read = proc.read /\ proc'.upto = proc.upto
        /\ proc'.results = [proc.results EXCEPT ![o] = r]
    BY SettleType DEF CuratorInv
  <1>2. Batch' = Batch /\ \A b \in Batch : b \in Offset /\ log[b] \in Payloads
    BY <1>1, DecisionsAreOf DEF Batch, CuratorInv
  <1>3. \A b \in Offset : proc'.results[b] = IF b = o THEN r ELSE proc.results[b]
    BY <1>1 DEF CuratorInv, TypeOK, Process
  <1>4. ASSUME NEW b \in Batch, proc'.results[b] \in Decision
        PROVE  proc'.results[b] = cache'[log[b]]
    BY <1>2, <1>3, <1>4, DecisionsAreNotDropped DEF CuratorInv, BatchOK, Growth
  <1> QED  BY <1>2, <1>4 DEF BatchOK, Growth

LEMMA SettleSound ==
    ASSUME CuratorInv, TypeOK', Ordered', NEW o \in Offset,
           DropExpired(o) \/ TakeCached(o) \/ FailDocument(o) \/ FailHandoff(o)
    PROVE  CuratorInv'
  <1>1. cache[log[o]] \in Decision \cup {None} /\ Aged \in Dropped /\ Failed \in Dropped
    BY DEF CuratorInv, TypeOK, Dropped
  <1>2. PICK r \in Decision \cup Dropped : Settle(o, r) /\ (r \in Decision => r = cache[log[o]])
    BY <1>1, DecisionsAreNotDropped DEF DropExpired, TakeCached, FailDocument, FailHandoff
  <1>3. UNCHANGED <<now, log, frontier, index, cache, published, dropped>>
    BY DEF DropExpired, TakeCached, FailDocument, FailHandoff
  <1>4. Growth
    BY <1>3 DEF Growth, Anchored
  <1>5. BatchOK'
    BY <1>2, <1>3, <1>4, SettledBatch
  <1>6. proc'.pc = "deciding" /\ proc'.read = proc.read /\ proc'.outbox = proc.outbox
    BY <1>2, SettleType DEF CuratorInv
  <1> QED  BY <1>3, <1>5, <1>6, QuietStep DEF CuratorInv, ReadOK

LEMMA CurateOneSound ==
    ASSUME CuratorInv, TypeOK', Ordered', NEW o \in Offset, CurateOne(o) PROVE CuratorInv'
  <1> DEFINE d == [route |-> Route(log[o]), scored |-> Scored(log[o])]
  <1>1. log[o] \in Payloads /\ index' = Observed(index, Observation(log[o]))
        /\ Current(o) /\ cache[log[o]] = None
    BY DEF CurateOne, CuratorInv, TypeOK
  <1> PICK s \in Submission : s = Observation(log[o])
    BY <1>1, ObservationType
  <1>2. /\ IndexOK' /\ \A u \in Submission : Anchored(u) => Anchored(u)'
        /\ ~IsNearDuplicate(index, s) => Anchored(s)'
    BY <1>1, Observing DEF CuratorInv
  <1>3. UNCHANGED <<log, cache, published, dropped>>
    BY DEF CurateOne
  <1>4. Growth
    BY <1>2, <1>3 DEF Growth
  <1>5. /\ proc'.pc = "caching" /\ proc'.read = proc.read /\ proc'.upto = proc.upto
        /\ proc'.outbox = proc.outbox /\ proc'.results = proc.results /\ proc'.decision = d
    BY DEF CurateOne, CuratorInv, TypeOK, Process
  <1>6. BatchOK' /\ CacheOK'
    BY <1>3, <1>4, <1>5, BatchStays, CacheStays DEF CuratorInv
  <1>7. d.route = "pretrain" => Anchored(s)'
    BY <1>2 DEF Route
  <1>8. CachingOK'
    <2> SUFFICES ASSUME NEW b \in Offset, Front(b)'
                 PROVE  cache[log[b]] = None /\ AnchoredIf(proc.decision, log[b])'
      BY <1>3 DEF CachingOK
    <2>1. Undecided' = Undecided
      BY <1>5 DEF Undecided, Batch
    <2>2. b = o
      <3>1. b \in Undecided /\ o \in Undecided /\ b <= o /\ o <= b
        BY <1>1, <2>1 DEF Front, Current
      <3>2. b \in Int /\ o \in Int
        BY DEF Offset
      <3> QED  BY <3>1, <3>2
    <2>3. Observation(log[b])' = s
      BY <1>3, <2>2 DEF Observation
    <2> QED  BY <1>1, <1>3, <1>5, <1>7, <2>2, <2>3 DEF AnchoredIf, Anchored
  <1> QED  BY <1>2, <1>3, <1>4, <1>5, <1>6, <1>8, GrowingStep

LEMMA CacheDecisionSound ==
    ASSUME CuratorInv, TypeOK', Ordered', NEW o \in Offset, CacheDecision(o) PROVE CuratorInv'
  <1>1. PICK d \in HandedOff(proc.decision) : cache' = Put(log[o], d) /\ Settle(o, d)
    BY DEF CacheDecision
  <1>2. /\ log[o] \in Payloads /\ proc.decision \in Decision /\ Front(o)
        /\ UNCHANGED <<log, index, published, dropped>> /\ proc.pc = "caching"
    BY DEF CacheDecision, CuratorInv, TypeOK, Process, Front
  <1>3. d \in Decision /\ (d.route = "pretrain" => d = proc.decision)
    BY <1>1, <1>2 DEF HandedOff, Decision
  <1>4. cache[log[o]] = None /\ AnchoredIf(proc.decision, log[o])
    BY <1>2 DEF CuratorInv, CachingOK
  <1>5. \A p \in Payloads : cache'[p] = IF p = log[o] THEN d ELSE cache[p]
    BY <1>1, <1>4 DEF Put, CuratorInv, TypeOK
  <1>6. Growth
    BY <1>2, <1>4, <1>5 DEF Growth, Anchored
  <1>7. IndexOK'
    BY <1>2, IndexStays DEF CuratorInv
  <1>8. CacheOK'
    BY <1>2, <1>3, <1>4, <1>5 DEF CuratorInv, CacheOK, AnchoredIf, Anchored, Observation
  <1>9. BatchOK'
    BY <1>1, <1>2, <1>3, <1>5, <1>6, SettledBatch
  <1>10. /\ proc'.pc = "deciding" /\ proc'.read = proc.read /\ proc'.upto = proc.upto
         /\ proc'.outbox = proc.outbox
    BY <1>1, <1>3, SettleType DEF CuratorInv
  <1>11. CachingOK'
    BY <1>10 DEF CachingOK
  <1> QED  BY <1>2, <1>6, <1>7, <1>8, <1>9, <1>10, <1>11, GrowingStep

LEMMA ReturnSound == ASSUME CuratorInv, TypeOK', Ordered', Return PROVE CuratorInv'
  <1> DEFINE decided == {o \in Batch : proc.results[o] \notin Dropped}
             out == UNION {{[topic |-> t, offset |-> o, decision |-> proc.results[o]] :
                               t \in Topics(proc.results[o])} : o \in decided}
  <1>1. \A o \in Batch : o \in Offset /\ log[o] \in Payloads
    BY DecisionsAreOf DEF CuratorInv
  <1>2. \A o \in decided : proc.results[o] \in Decision /\ proc.results[o] = cache[log[o]]
    <2>1. \A o \in decided : proc.results[o] \in Decision
      BY DecisionsAreOf DEF Return, Undecided, CuratorInv
    <2> QED  BY <2>1 DEF CuratorInv, BatchOK
  <1>3. /\ proc'.pc = "publishing" /\ proc'.read = proc.read /\ proc'.upto = proc.upto
        /\ proc'.outbox = out /\ proc'.results = proc.results
    BY DEF Return, CuratorInv, TypeOK, Process
  <1>4. UNCHANGED <<log, frontier, index, cache, published>>
    BY DEF Return
  <1>5. \A o \in Offset : dropped'[o] = IF o \in Batch /\ proc.results[o] \in Dropped
                                       THEN proc.results[o] ELSE dropped[o]
    BY DEF Return
  <1>6. Growth
    BY <1>4, <1>5, DecisionsAreNotDropped DEF Growth, Anchored
  <1>7. IndexOK' /\ CacheOK' /\ BatchOK' /\ CachingOK'
    BY <1>3, <1>4, <1>6, IndexStays, CacheStays, BatchStays DEF CuratorInv, CachingOK
  <1>8. SentOK'
    <2> SUFFICES ASSUME NEW m \in published \cup out
                 PROVE  m.decision = cache[log[m.offset]] /\ m.topic \in Topics(m.decision)
      BY <1>3, <1>4 DEF SentOK
    <2>1. CASE m \in published
      BY <2>1 DEF CuratorInv, SentOK
    <2>2. CASE m \in out
      <3>1. PICK o \in decided : \E t \in Topics(proc.results[o]) :
              m = [topic |-> t, offset |-> o, decision |-> proc.results[o]]
        BY <2>2
      <3> QED  BY <1>2, <3>1
    <2> QED  BY <2>1, <2>2
  <1>9. ReadOK'
    <2>1. 1..proc.read \subseteq Offset
      BY CuratorAssumption DEF CuratorInv, TypeOK, Process, Offset
    <2>2. \A o \in 1..proc'.read : Through(o, published)'
      BY <1>3, <1>6, <2>1, PublishedStays DEF CuratorInv, ReadOK
    <2>3. ASSUME NEW o \in Batch PROVE Through(o, published \cup proc.outbox)'
      <3>1. CASE proc.results[o] \in Dropped
        BY <1>1, <1>5, <3>1, DecisionsAreNotDropped DEF Through
      <3>2. CASE proc.results[o] \notin Dropped
        <4>1. cache[log[o]] = proc.results[o] /\ cache[log[o]] # None
          BY <1>2, <3>2, DecisionsAreNotDropped
        <4>2. ASSUME NEW t \in Topics(cache[log[o]]) PROVE Copy(t, o) \in out
          BY <3>2, <4>1 DEF Copy
        <4> QED  BY <1>3, <1>4, <4>1, <4>2 DEF Through, Copy
      <3> QED  BY <3>1, <3>2
    <2>4. Batch' = Batch
      BY <1>3 DEF Batch
    <2> QED  BY <2>2, <2>3, <2>4 DEF ReadOK
  <1> QED  BY <1>7, <1>8, <1>9 DEF CuratorInv

LEMMA PublishSound == ASSUME CuratorInv, TypeOK', Ordered', Publish PROVE CuratorInv'
  <1>1. PICK m \in proc.outbox : published' = published \cup {m}
                                 /\ proc' = [proc EXCEPT !.outbox = @ \ {m}]
    BY DEF Publish
  <1>2. /\ proc'.pc = proc.pc /\ proc'.read = proc.read /\ proc'.upto = proc.upto
        /\ proc'.outbox = proc.outbox \ {m} /\ proc'.results = proc.results
        /\ proc.pc = "publishing"
    BY <1>1 DEF Publish, CuratorInv, TypeOK, Process
  <1>3. UNCHANGED <<log, index, cache, dropped>>
    BY DEF Publish
  <1>4. Growth
    BY <1>1, <1>3 DEF Growth, Anchored
  <1>5. IndexOK' /\ CacheOK' /\ BatchOK' /\ CachingOK'
    BY <1>2, <1>3, <1>4, IndexStays, CacheStays, BatchStays DEF CuratorInv, CachingOK
  <1>6. published' \cup proc'.outbox = published \cup proc.outbox
    BY <1>1, <1>2
  <1> QED  BY <1>2, <1>4, <1>5, <1>6, GrowingStep

(* The batch is through when nothing is left of it.                         *)
LEMMA EndBatchSound == ASSUME CuratorInv, TypeOK', Ordered', EndBatch PROVE CuratorInv'
  <1>1. proc' = Resumed(proc.upto, proc.crashes) /\ proc.outbox = {} /\ proc.pc = "publishing"
    BY DEF EndBatch
  <1>2. /\ proc'.pc = "idle" /\ proc'.read = proc.upto /\ proc'.upto = proc.upto
        /\ proc'.outbox = {}
    BY <1>1 DEF Resumed
  <1>3. proc.read \in Nat /\ proc.upto \in Nat
    BY DEF CuratorInv, TypeOK, Process
  <1>4. ASSUME NEW o \in 1..proc.upto PROVE Through(o, published)
    <2>1. CASE o \in 1..proc.read  BY <2>1 DEF CuratorInv, ReadOK
    <2>2. CASE o \in Batch
      BY <1>1, <2>2 DEF CuratorInv, ReadOK, Through
    <2> QED  BY <1>3, <2>1, <2>2 DEF Batch
  <1>5. Batch' = {}
    BY <1>2, <1>3 DEF Batch
  <1>6. BatchOK'
    BY <1>5 DEF BatchOK
  <1> QED  BY <1>1, <1>2, <1>4, <1>6, QuietStep DEF EndBatch

LEMMA CrashSound ==
    ASSUME CuratorInv, TypeOK', Ordered', RaiseUnavailable \/ Crash PROVE CuratorInv'
  <1>1. PICK c : proc' = Resumed(frontier, c)
    BY DEF RaiseUnavailable, Crash
  <1>2. /\ proc'.pc = "idle" /\ proc'.read = frontier /\ proc'.upto = frontier
        /\ proc'.outbox = {}
    BY <1>1 DEF Resumed
  <1>3. proc.read \in Nat /\ frontier \in Nat /\ frontier <= proc.read
    BY DEF CuratorInv, TypeOK, Process
  <1>4. \A o \in 1..frontier : Through(o, published)
    BY <1>3 DEF CuratorInv, ReadOK
  <1>5. Batch' = {}
    BY <1>2, <1>3 DEF Batch
  <1>6. BatchOK'
    BY <1>5 DEF BatchOK
  <1> QED  BY <1>2, <1>4, <1>6, QuietStep DEF RaiseUnavailable, Crash

(* What others do, and time.                                                *)
LEMMA OutsideSound ==
    ASSUME CuratorInv, TypeOK', Ordered',
           Snapshot \/ Tick \/ \E s \in Elsewhere : ObserveElsewhere(s)
    PROVE  CuratorInv'
  <1>1. UNCHANGED <<log, cache, proc, published, dropped>>
    BY DEF Snapshot, Tick, ObserveElsewhere
  <1>2. IndexOK' /\ \A s \in Submission : Anchored(s) => Anchored(s)'
    <2>1. CASE Snapshot \/ Tick
      BY <2>1, IndexStays DEF Snapshot, Tick, CuratorInv
    <2>2. CASE \E s \in Elsewhere : ObserveElsewhere(s)
      BY <2>2, Observing, CuratorAssumption DEF ObserveElsewhere, CuratorInv
    <2> QED  BY <2>1, <2>2
  <1>3. Growth
    BY <1>1, <1>2 DEF Growth
  <1>4. CacheOK' /\ BatchOK'
    BY <1>1, <1>3, CacheStays, BatchStays DEF CuratorInv
  <1>5. CachingOK'
    <2> SUFFICES ASSUME proc.pc = "caching", NEW o \in Offset, Front(o)
                 PROVE  cache[log[o]] = None /\ AnchoredIf(proc.decision, log[o])'
      BY <1>1 DEF CachingOK, Front, Undecided, Batch
    <2>1. cache[log[o]] = None /\ AnchoredIf(proc.decision, log[o]) /\ log[o] \in Payloads
      BY DEF CuratorInv, CachingOK, TypeOK
    <2> QED  BY <1>1, <1>2, <2>1, ObservationType DEF AnchoredIf, Observation
  <1> QED  BY <1>1, <1>2, <1>3, <1>4, <1>5, GrowingStep

-----------------------------------------------------------------------------
LEMMA InvInit == Init => CuratorInv
  <1> SUFFICES ASSUME Init PROVE CuratorInv
    OBVIOUS
  <1>1. proc.read = 0 /\ proc.upto = 0 /\ proc.pc = "idle" /\ proc.outbox = {}
    BY DEF Init, Resumed
  <1>2. IndexOK
    BY DEF Init, EmptyIndex, IndexOK
  <1>3. CacheOK /\ CachingOK /\ SentOK /\ ReadOK
    BY <1>1 DEF Init, CacheOK, CachingOK, SentOK, ReadOK
  <1>4. BatchOK
    BY <1>1 DEF BatchOK, Ordered, Batch
  <1> QED  BY <1>2, <1>3, <1>4, TypeInit DEF CuratorInv

LEMMA InvStep == CuratorInv /\ [Next]_vars => CuratorInv'
  <1> SUFFICES ASSUME CuratorInv, [Next]_vars PROVE CuratorInv'
    OBVIOUS
  <1>0. TypeOK' /\ Ordered'
    BY TypeStep DEF CuratorInv, BatchOK
  <1>1. CASE UNCHANGED vars
    <2>1. UNCHANGED <<TypeOK, IndexOK, CacheOK, CachingOK>>
      BY <1>1 DEF vars, TypeOK, IndexOK, CacheOK, CachingOK, AnchoredIf, Anchored, Observation,
                  Front, Undecided, Batch
    <2>2. UNCHANGED <<BatchOK, SentOK, ReadOK>>
      BY <1>1 DEF vars, BatchOK, Ordered, Batch, SentOK, ReadOK, Through, Copy
    <2> QED  BY <2>1, <2>2 DEF CuratorInv
  <1>2. CASE Step
    <2>1. CASE Read              BY <1>0, <2>1, ReadSound
    <2>2. CASE Prefetch          BY <1>0, <2>2, PrefetchSound
    <2>3. CASE Return            BY <1>0, <2>3, ReturnSound
    <2>4. CASE Publish           BY <1>0, <2>4, PublishSound
    <2>5. CASE EndBatch          BY <1>0, <2>5, EndBatchSound
    <2>6. CASE RaiseUnavailable  BY <1>0, <2>6, CrashSound
    <2>7. ASSUME NEW o \in Offset,
                 DropExpired(o) \/ TakeCached(o) \/ FailDocument(o) \/ FailHandoff(o)
          PROVE  CuratorInv'
      BY <1>0, <2>7, SettleSound
    <2>8. ASSUME NEW o \in Offset, CurateOne(o) PROVE CuratorInv'
      BY <1>0, <2>8, CurateOneSound
    <2>9. ASSUME NEW o \in Offset, CacheDecision(o) PROVE CuratorInv'
      BY <1>0, <2>9, CacheDecisionSound
    <2> QED  BY <1>2, <2>1, <2>2, <2>3, <2>4, <2>5, <2>6, <2>7, <2>8, <2>9 DEF Step
  <1>3. CASE Crash
    BY <1>0, <1>3, CrashSound
  <1>4. CASE Snapshot \/ Tick \/ \E s \in Elsewhere : ObserveElsewhere(s)
    BY <1>0, <1>4, OutsideSound
  <1> QED  BY <1>1, <1>2, <1>3, <1>4 DEF Next

LEMMA InvHolds == Spec => []CuratorInv
  BY InvInit, InvStep, PTL DEF Spec

-----------------------------------------------------------------------------
(* The process resumes at or before what it has read, decides with a decision *)
(* of the right shape, and sends messages of the three topics, after any      *)
(* number of crashes (processor/curate.py, _batch_step and its recovery).   *)
THEOREM CuratorTypeCorrect == Spec => []TypeOK
  <1>1. CuratorInv => TypeOK
    BY DEF CuratorInv
  <1> QED  BY <1>1, InvHolds, PTL

(* Whatever is published carries the decision that the cache has of its      *)
(* payload, so a replay and a second copy carry the same one                *)
(* (processor/decision_cache.py:12).                                       *)
THEOREM ReplaysAreIdentical == Spec => []ReplayIsIdentical
  <1>1. CuratorInv => ReplayIsIdentical
    BY DEF CuratorInv, SentOK, ReplayIsIdentical
  <1> QED  BY <1>1, InvHolds, PTL

(* The recovery snapshot of curate.py passes a message only after its         *)
(* decision is in every topic of it, or its being dropped is recorded.       *)
THEOREM SkipsNothing == Spec => []NothingSkipped
  <1>1. ASSUME CuratorInv PROVE NothingSkipped
    <2>1. TypeOK /\ frontier \in Nat /\ proc.read \in Nat /\ frontier <= proc.read
      BY <1>1 DEF CuratorInv, TypeOK, Process
    <2>2. \A o \in 1..frontier : Through(o, published)
      BY <1>1, <2>1 DEF CuratorInv, ReadOK
    <2> QED  BY <2>1, <2>2 DEF NothingSkipped, Through, Copy
  <1> QED  BY <1>1, InvHolds, PTL

(* A document that is handed to the corpus was observed by the index before   *)
(* (curate_one of processor/curate.py): it, or a revision of it that owns a   *)
(* bucket of its signature, anchors a cluster, whatever other partitions     *)
(* observe in between.                                                     *)
THEOREM AcceptedAreAnchored == Spec => []TrainableIsAnchored
  <1>1. ASSUME CuratorInv PROVE TrainableIsAnchored
    <2> SUFFICES ASSUME NEW m \in published, m.topic = "curated"
                 PROVE  Anchored(Observation(log[m.offset]))
      BY DEF TrainableIsAnchored, Anchored
    <2>1. m.offset \in Offset /\ m.decision \in Decision /\ log[m.offset] \in Payloads
      BY <1>1 DEF CuratorInv, TypeOK, Message
    <2>2. m.decision = cache[log[m.offset]] /\ m.topic \in Topics(m.decision)
      BY <1>1 DEF CuratorInv, SentOK
    <2>3. m.decision.route = "pretrain"
      BY <2>2 DEF Topics
    <2> QED  BY <1>1, <2>1, <2>2, <2>3, DecisionsAreNotDropped DEF CuratorInv, CacheOK, AnchoredIf
  <1> QED  BY <1>1, InvHolds, PTL
=============================================================================
