------------------------- MODULE MCLakehouse_proofs -------------------------
(***************************************************************************)
(* Theorems about the lakehouse: IcebergWriter, for every set of replicas   *)
(* and keys, every topic, batch size and number of crashes and unclear      *)
(* appends; SnapshotMaintenance, for every age, retention, floor and number *)
(* of versions, appends, instants and faults; ServingIndex, for every pair   *)
(* of topics, batch size and number of failures; DocumentPages, for every     *)
(* set of documents, times and scores and every page size; and the run of   *)
(* all parts, with FoundryOutbox from a module of its own.                  *)
(***************************************************************************)
EXTENDS MCLakehouse, FiniteSetTheorems, WellFoundedInduction, TLAPS

-----------------------------------------------------------------------------
(* Types. *)

LEMMA PositionIsNat == ASSUME TypeOK PROVE Position \subseteq Nat \ {0} /\ Position = 1..Len(log)
  <1>1. log \in Seq(Record)
    BY WriterAssumption DEF TypeOK
  <1> QED  BY <1>1 DEF Position

LEMMA KeysOfType ==
    ASSUME TypeOK, NEW S, S \subseteq Position
    PROVE  KeysOf(S) \subseteq Keys
  <1>1. log \in Seq(Record)
    BY WriterAssumption DEF TypeOK
  <1>2. \A i \in Position : log[i] \in Record
    BY <1>1 DEF Position
  <1>3. \A x \in Record : x.key \in Keys
    BY DEF Record
  <1> QED  BY <1>2, <1>3 DEF KeysOf

LEMMA RowsForInBatch ==
    ASSUME NEW r \in Replicas
    PROVE  RowsFor(r) \subseteq batch[r] /\ Pending(r) \subseteq batch[r]
  BY DEF RowsFor, Pending, Uncommitted

(* A replica that writes is at a table. *)
LEMMA AtTable ==
    ASSUME TypeOK, NEW r \in Replicas, ~Reading(r)
    PROVE  stage[r] \in Tables
  BY DEF TypeOK, Reading

LEMMA TypeInit == Init => TypeOK
  BY WriterAssumption DEF Init, TypeOK, Tables, Unread

LEMMA FlushType ==
    ASSUME TypeOK, NEW r \in Replicas, NEW S, S \subseteq Position, Flush(r, S)
    PROVE  /\ batch' \in [Replicas -> SUBSET Position] /\ held' \in [Replicas -> SUBSET Position]
           /\ stage' \in [Replicas -> Tables \cup {"read"}]
  BY DEF TypeOK, Flush, Tables

LEMMA WrittenType ==
    ASSUME TypeOK, NEW r \in Replicas, Written(r)
    PROVE  /\ batch' \in [Replicas -> SUBSET Position]
           /\ stage' \in [Replicas -> Tables \cup {"read"}]
           /\ seen' \in [Replicas -> Nat \cup {Unread}] /\ known' \in [Replicas -> SUBSET Keys]
  <1>1. CASE stage[r] = "decisions"  BY <1>1 DEF TypeOK, Written, Tables
  <1>2. CASE stage[r] # "decisions"  BY <1>2 DEF TypeOK, Written, Tables
  <1> QED  BY <1>1, <1>2

LEMMA CommitType ==
    ASSUME TypeOK, NEW r \in Replicas, stage[r] \in Tables, Commit(r)
    PROVE  rows' \in [Tables -> [Position -> Nat]] /\ version' \in [Tables -> Nat]
  <1>1. [i \in Position |-> IF i \in Pending(r) THEN rows[stage[r]][i] + 1
                            ELSE rows[stage[r]][i]] \in [Position -> Nat]
    BY DEF TypeOK
  <1>2. version[stage[r]] + 1 \in Nat
    BY DEF TypeOK
  <1> QED  BY <1>1, <1>2 DEF TypeOK, Commit

LEMMA ReloadType ==
    ASSUME TypeOK, NEW r \in Replicas, Reload(r)
    PROVE  seen' \in [Replicas -> Nat \cup {Unread}] /\ known' \in [Replicas -> SUBSET Keys]
  BY DEF TypeOK, Reload

LEMMA TypeStep == TypeOK /\ [Next]_vars => TypeOK'
  <1> SUFFICES ASSUME TypeOK, [Next]_vars PROVE TypeOK'
    OBVIOUS
  <1> USE DEF table, source, flush
  <1>0. CASE UNCHANGED vars
    BY <1>0 DEF TypeOK, vars, Position
  <1> SUFFICES ASSUME NEW r \in Replicas,
                      \/ Read(r) \/ FlushDue(r) \/ LoadKeys(r) \/ NothingPending(r)
                      \/ AppendRows(r) \/ CommitConflict(r) \/ CommitUnknown(r)
                      \/ Snapshot(r) \/ Crash(r)
               PROVE  TypeOK'
    BY <1>0 DEF Next
  <1>1. CASE Read(r)
    <2> DEFINE i == next[r] + 1  more == held[r] \cup {i}
    <2>1. i \in Position /\ more \subseteq Position
      BY <1>1 DEF Read, TypeOK
    <2>2. next' \in [Replicas -> Position \cup {0}] /\ dead' \subseteq Position
      BY <1>1, <2>1 DEF Read, TypeOK
    <2>3. /\ batch' \in [Replicas -> SUBSET Position]
          /\ held' \in [Replicas -> SUBSET Position]
          /\ stage' \in [Replicas -> Tables \cup {"read"}]
      <3>1. CASE Flush(r, more)  BY <3>1, <2>1, FlushType
      <3>2. CASE ~Flush(r, more)
        BY <1>1, <2>1, <3>2 DEF Read, TypeOK
      <3> QED  BY <3>1, <3>2
    <2> QED  BY <1>1, <2>2, <2>3 DEF Read, TypeOK, Position
  <1>2. CASE FlushDue(r)
    <2>1. held[r] \subseteq Position
      BY DEF TypeOK
    <2> QED  BY <1>2, <2>1, FlushType DEF FlushDue, TypeOK, Position
  <1>3. CASE LoadKeys(r)
    <2>1. version[stage[r]] \in Nat
      BY <1>3, AtTable DEF LoadKeys, TypeOK
    <2>2. KeysOf(RowsOf(stage[r])) \subseteq Keys
      BY KeysOfType DEF RowsOf
    <2> QED  BY <1>3, <2>1, <2>2 DEF LoadKeys, TypeOK, Position
  <1>4. CASE NothingPending(r)
    BY <1>4, WrittenType DEF NothingPending, TypeOK, Position
  <1>5. CASE AppendRows(r)
    BY <1>5, WrittenType, CommitType, AtTable DEF AppendRows, TypeOK, Position
  <1>6. CASE CommitConflict(r)
    BY <1>6, ReloadType DEF CommitConflict, TypeOK, Position
  <1>7. CASE CommitUnknown(r)
    <2>1. rows' \in [Tables -> [Position -> Nat]] /\ version' \in [Tables -> Nat]
      <3>1. CASE Commit(r)  BY <1>7, <3>1, CommitType, AtTable DEF CommitUnknown
      <3>2. CASE UNCHANGED table  BY <3>2 DEF TypeOK
      <3> QED  BY <1>7, <3>1, <3>2 DEF CommitUnknown
    <2>2. faults' \in 0..FaultLimit
      BY <1>7, WriterAssumption DEF CommitUnknown, TypeOK
    <2> QED  BY <1>7, <2>1, <2>2, ReloadType DEF CommitUnknown, TypeOK, Position
  <1>8. CASE Snapshot(r)
    BY <1>8 DEF Snapshot, TypeOK, Position
  <1>9. CASE Crash(r)
    <2>1. faults' \in 0..FaultLimit
      BY <1>9, WriterAssumption DEF Crash, TypeOK
    <2> QED  BY <1>9, <2>1 DEF Crash, TypeOK, Position, Tables
  <1> QED  BY <1>1, <1>2, <1>3, <1>4, <1>5, <1>6, <1>7, <1>8, <1>9

(* The state has its type: a replica that writes is at one of the two        *)
(* tables, and what it has collected, writes and stores are records of the   *)
(* topic (iceberg_writer.py, both classes of writer).                      *)
THEOREM WriterTypeCorrect == Spec => []TypeOK
  BY TypeInit, TypeStep, PTL DEF Spec

-----------------------------------------------------------------------------
(* A key that a batch has and a table has not is among the rows appended.    *)

LEMMA FirstOfKey ==
    ASSUME NEW S, S \subseteq Nat, NEW existing, NEW i \in S, log[i].key \notin existing
    PROVE  \E j \in Uncommitted(S, existing) : log[j].key = log[i].key
  <1> DEFINE T == {j \in S : log[j].key = log[i].key}
  <1>1. T \subseteq Nat /\ T # {}
    OBVIOUS
  <1>2. PICK j \in T : \A k \in T : ~(<<k, j>> \in OpToRel(<, Nat))
    BY <1>1, NatLessThanWellFounded, WFMin
  <1>3. \A k \in T : ~(k < j)
    BY <1>1, <1>2 DEF OpToRel
  <1> QED  BY <1>3 DEF Uncommitted

LEMMA AllKeysPresent ==
    ASSUME NEW S, S \subseteq Nat, NEW existing
    PROVE  KeysOf(S) \subseteq existing \cup KeysOf(Uncommitted(S, existing))
  <1> SUFFICES ASSUME NEW i \in S, log[i].key \notin existing
               PROVE  log[i].key \in KeysOf(Uncommitted(S, existing))
    BY DEF KeysOf
  <1> PICK j \in Uncommitted(S, existing) : log[j].key = log[i].key
    BY FirstOfKey
  <1> QED  BY DEF KeysOf

LEMMA OneRowPerKey ==
    ASSUME NEW S, S \subseteq Nat, NEW existing,
           NEW i \in Uncommitted(S, existing), NEW j \in Uncommitted(S, existing),
           log[i].key = log[j].key
    PROVE  i = j
  <1>1. i \in Nat /\ j \in Nat /\ ~(i < j) /\ ~(j < i)
    BY DEF Uncommitted
  <1> QED  BY <1>1

-----------------------------------------------------------------------------
(* What holds of a replica: what it knows of a table is in the table, and is  *)
(* all of it while the table has not moved on; its batch has decisions before *)
(* it goes to the Gold table; and of the records it has read it either has    *)
(* those, collected or in its batch, or they are kept.                     *)

Fresh(r) ==
    seen[r] # Unread =>
        /\ stage[r] \in Tables /\ seen[r] <= version[stage[r]]
        /\ known[r] \subseteq KeysOf(RowsOf(stage[r]))
        /\ AtHead(r) => known[r] = KeysOf(RowsOf(stage[r]))

GoldAfter(r) == stage[r] = "gold" => KeysOf(batch[r]) \subseteq KeysOf(RowsOf("decisions"))
BetweenBatches(r) == Reading(r) => batch[r] = {} /\ seen[r] = Unread
Progressed(r) == \A i \in 1..next[r] : i \in held[r] \/ i \in batch[r] \/ Kept(i)
Acknowledged(r) == \A i \in Settled(r) : Kept(i)
Sound(r) ==
    Fresh(r) /\ GoldAfter(r) /\ BetweenBatches(r) /\ Progressed(r) /\ Acknowledged(r)

DecidedFirst == KeysOf(RowsOf("gold")) \subseteq KeysOf(RowsOf("decisions"))

WriterInv == TypeOK /\ KeyOnce /\ DecidedFirst /\ \A r \in Replicas : Sound(r)

-----------------------------------------------------------------------------
(* Tables and records only grow. *)

Growth ==
    /\ log' = log /\ dead \subseteq dead'
    /\ \A t \in Tables :
        /\ RowsOf(t) \subseteq RowsOf(t)'
        /\ \/ version'[t] = version[t] /\ RowsOf(t)' = RowsOf(t)
           \/ version[t] < version'[t]

LEMMA UnchangedGrows ==
    ASSUME log' = log, dead \subseteq dead', UNCHANGED table
    PROVE  Growth /\ \A t \in Tables : RowsOf(t)' = RowsOf(t)
  BY DEF Growth, table, RowsOf, Position

LEMMA CommitGrows ==
    ASSUME TypeOK, NEW r \in Replicas, stage[r] \in Tables, Commit(r),
           log' = log, dead \subseteq dead'
    PROVE  /\ Growth
           /\ \A t \in Tables : RowsOf(t)' = IF t = stage[r] THEN RowsOf(t) \cup Pending(r)
                                             ELSE RowsOf(t)
           /\ \A t \in Tables : \A i \in Position :
                rows'[t][i] = IF t = stage[r] /\ i \in Pending(r) THEN rows[t][i] + 1
                              ELSE rows[t][i]
  <1>1. Position' = Position /\ Pending(r) \subseteq Position
    BY RowsForInBatch DEF Position, TypeOK
  <1>2. \A t \in Tables : \A i \in Position :
            rows'[t][i] = IF t = stage[r] /\ i \in Pending(r) THEN rows[t][i] + 1
                          ELSE rows[t][i]
    BY DEF Commit, TypeOK
  <1>3. \A t \in Tables : \A i \in Position : rows[t][i] \in Nat
    BY DEF TypeOK
  <1>4. \A t \in Tables : RowsOf(t)' = IF t = stage[r] THEN RowsOf(t) \cup Pending(r)
                                       ELSE RowsOf(t)
    BY <1>1, <1>2, <1>3 DEF RowsOf
  <1>5. \A t \in Tables : version[t] \in Nat /\ version'[t] = IF t = stage[r]
                                                              THEN version[t] + 1
                                                              ELSE version[t]
    BY DEF Commit, TypeOK
  <1> QED  BY <1>2, <1>4, <1>5 DEF Growth

LEMMA KeysGrow ==
    ASSUME Growth, NEW t \in Tables
    PROVE  KeysOf(RowsOf(t)) \subseteq KeysOf(RowsOf(t))'
  BY DEF Growth, KeysOf

LEMMA KeptStays == ASSUME Growth, NEW i, Kept(i) PROVE Kept(i)'
  <1>1. \A t \in Tables : KeysOf(RowsOf(t)) \subseteq KeysOf(RowsOf(t))'
    BY KeysGrow
  <1>2. log' = log /\ dead \subseteq dead'
    BY DEF Growth
  <1>3. CASE i \in dead  BY <1>2, <1>3 DEF Kept
  <1>4. CASE i \notin dead
    BY <1>1, <1>2, <1>4 DEF Kept, Trainable, Tables
  <1> QED  BY <1>3, <1>4

LEMMA AcknowledgedStays ==
    ASSUME Growth, NEW r \in Replicas, Acknowledged(r), stored'[r] = stored[r]
    PROVE  Acknowledged(r)'
  BY KeptStays DEF Acknowledged, Settled

LEMMA ProgressedStays ==
    ASSUME Growth, NEW r \in Replicas, Progressed(r), next'[r] = next[r],
           held[r] \cup batch[r] \subseteq held'[r] \cup batch'[r]
    PROVE  Progressed(r)'
  BY KeptStays DEF Progressed

LEMMA GoldAfterStays ==
    ASSUME Growth, NEW r \in Replicas, GoldAfter(r),
           stage'[r] = stage[r], batch'[r] = batch[r]
    PROVE  GoldAfter(r)'
  <1>1. KeysOf(RowsOf("decisions")) \subseteq KeysOf(RowsOf("decisions"))'
    BY KeysGrow DEF Tables
  <1>2. KeysOf(batch[r])' = KeysOf(batch[r])
    BY DEF KeysOf, Growth
  <1> QED  BY <1>1, <1>2 DEF GoldAfter

LEMMA FreshStays ==
    ASSUME TypeOK, TypeOK', Growth, NEW r \in Replicas, Fresh(r),
           stage'[r] = stage[r], seen'[r] = seen[r], known'[r] = known[r]
    PROVE  Fresh(r)'
  <1> SUFFICES ASSUME seen[r] # Unread PROVE Fresh(r)'
    BY DEF Fresh, Unread
  <1>0. PICK t \in Tables : t = stage[r]
    BY DEF Fresh
  <1>1. /\ seen[r] <= version[t] /\ known[r] \subseteq KeysOf(RowsOf(t))
        /\ seen[r] = version[t] => known[r] = KeysOf(RowsOf(t))
    BY <1>0 DEF Fresh, AtHead
  <1>2. version[t] \in Nat /\ version'[t] \in Nat /\ seen[r] \in Nat
    BY <1>1 DEF TypeOK
  <1>3. KeysOf(RowsOf(t)) \subseteq KeysOf(RowsOf(t))'
    BY KeysGrow
  <1>4. CASE version'[t] = version[t] /\ RowsOf(t)' = RowsOf(t)
    <2>1. KeysOf(RowsOf(t))' = KeysOf(RowsOf(t))
      BY <1>4 DEF Growth, KeysOf
    <2> QED  BY <1>0, <1>1, <1>4, <2>1 DEF Fresh, AtHead
  <1>5. CASE version[t] < version'[t]
    BY <1>0, <1>1, <1>2, <1>3, <1>5 DEF Fresh, AtHead
  <1> QED  BY <1>1, <1>4, <1>5 DEF Growth

(* What one replica does leaves what holds of another alone. *)
LEMMA OthersSound ==
    ASSUME TypeOK, TypeOK', Growth, NEW r \in Replicas, Sound(r),
           next'[r] = next[r], held'[r] = held[r], stored'[r] = stored[r],
           batch'[r] = batch[r], stage'[r] = stage[r], seen'[r] = seen[r], known'[r] = known[r]
    PROVE  Sound(r)'
  <1>1. BetweenBatches(r)'
    BY DEF Sound, BetweenBatches, Reading, Unread
  <1>2. Fresh(r)'  BY FreshStays DEF Sound
  <1>3. GoldAfter(r)'  BY GoldAfterStays DEF Sound
  <1>4. Progressed(r)'  BY ProgressedStays DEF Sound
  <1>5. Acknowledged(r)'  BY AcknowledgedStays DEF Sound
  <1> QED  BY <1>1, <1>2, <1>3, <1>4, <1>5 DEF Sound

-----------------------------------------------------------------------------
(* The tables. *)

LEMMA TablesStay ==
    ASSUME KeyOnce, DecidedFirst, log' = log, UNCHANGED table
    PROVE  KeyOnce' /\ DecidedFirst'
  BY DEF KeyOnce, DecidedFirst, RowsOf, KeysOf, Position, table

(* The rows of one commit have keys that the table has not, each once. *)
LEMMA CommitKeyOnce ==
    ASSUME TypeOK, KeyOnce, NEW r \in Replicas, Fresh(r), seen[r] # Unread, AtHead(r),
           Commit(r), log' = log, dead' = dead
    PROVE  KeyOnce'
  <1>0. stage[r] \in Tables
    BY DEF Fresh
  <1> PICK t \in Tables : t = stage[r]
    BY <1>0
  <1>1. /\ \A u \in Tables : RowsOf(u)' = IF u = t THEN RowsOf(u) \cup Pending(r) ELSE RowsOf(u)
        /\ \A u \in Tables : \A i \in Position :
                rows'[u][i] = IF u = t /\ i \in Pending(r) THEN rows[u][i] + 1 ELSE rows[u][i]
    BY <1>0, CommitGrows
  <1>2. known[r] = KeysOf(RowsOf(t))
    BY DEF Fresh
  <1>3. Pending(r) \subseteq Position /\ RowsFor(r) \subseteq Nat
    BY RowsForInBatch, PositionIsNat DEF TypeOK
  <1>4. \A i \in Pending(r) : \A j \in RowsOf(t) : log[i].key # log[j].key
    BY <1>2 DEF Pending, Uncommitted, KeysOf
  <1>5. \A i \in Pending(r) : \A j \in Pending(r) : log[i].key = log[j].key => i = j
    BY <1>3, OneRowPerKey DEF Pending
  <1>6. \A i \in Pending(r) : rows[t][i] = 0
    <2> TAKE i \in Pending(r)
    <2>1. i \notin RowsOf(t)  BY <1>4
    <2>2. rows[t][i] \in Nat  BY <1>3 DEF TypeOK
    <2> QED  BY <1>3, <2>1, <2>2 DEF RowsOf
  <1>7. ASSUME NEW u \in Tables, NEW i \in RowsOf(u)'
        PROVE  /\ rows'[u][i] = 1
               /\ \A j \in RowsOf(u)' : log[i].key = log[j].key => i = j
    <2>1. i \in Position
      BY <1>1, <1>3, <1>7 DEF RowsOf
    <2>2. \A k \in RowsOf(u) :
             rows[u][k] = 1 /\ \A j \in RowsOf(u) : log[k].key = log[j].key => k = j
      BY DEF KeyOnce
    <2>3. CASE u = t
      BY <1>1, <1>4, <1>5, <1>6, <1>7, <2>1, <2>2, <2>3
    <2>4. CASE u # t
      BY <1>1, <1>7, <2>1, <2>2, <2>4
    <2> QED  BY <2>3, <2>4
  <1> QED  BY <1>7 DEF KeyOnce

(* After a commit the table has every key of the batch that belongs to it.   *)
LEMMA CommitKeys ==
    ASSUME TypeOK, NEW r \in Replicas, Fresh(r), seen[r] # Unread,
           Commit(r), log' = log, dead' = dead, NEW t \in Tables, t = stage[r]
    PROVE  \A i \in RowsFor(r) : log[i].key \in KeysOf(RowsOf(t))'
  <1>1. RowsOf(t)' = RowsOf(t) \cup Pending(r)
    BY CommitGrows
  <1>2. RowsFor(r) \subseteq Nat
    BY RowsForInBatch, PositionIsNat DEF TypeOK
  <1>3. KeysOf(RowsFor(r)) \subseteq known[r] \cup KeysOf(Pending(r))
    BY <1>2, AllKeysPresent DEF Pending
  <1>4. known[r] \subseteq KeysOf(RowsOf(t))
    BY DEF Fresh
  <1>5. KeysOf(RowsOf(t))' = KeysOf(RowsOf(t)) \cup KeysOf(Pending(r))
    BY <1>1 DEF KeysOf
  <1> QED  BY <1>3, <1>4, <1>5 DEF KeysOf

LEMMA CommitDecidedFirst ==
    ASSUME TypeOK, DecidedFirst, NEW r \in Replicas, GoldAfter(r), stage[r] \in Tables,
           Commit(r), log' = log, dead' = dead
    PROVE  DecidedFirst'
  <1>1. /\ Growth
        /\ RowsOf("gold")' = IF stage[r] = "gold" THEN RowsOf("gold") \cup Pending(r)
                             ELSE RowsOf("gold")
    BY CommitGrows DEF Tables
  <1>2. KeysOf(RowsOf("decisions")) \subseteq KeysOf(RowsOf("decisions"))'
    BY <1>1, KeysGrow DEF Tables
  <1>3. \A i \in RowsOf("gold") : log[i].key \in KeysOf(RowsOf("decisions"))
    BY DEF DecidedFirst, KeysOf
  <1>4. stage[r] = "gold" => \A i \in Pending(r) : log[i].key \in KeysOf(RowsOf("decisions"))
    BY RowsForInBatch DEF GoldAfter, KeysOf
  <1>5. \A i \in RowsOf("gold")' : log[i].key \in KeysOf(RowsOf("decisions"))'
    BY <1>1, <1>2, <1>3, <1>4
  <1>6. KeysOf(RowsOf("gold"))' = {log[i].key : i \in RowsOf("gold")'}
    BY DEF KeysOf
  <1> QED  BY <1>5, <1>6 DEF DecidedFirst

-----------------------------------------------------------------------------
(* The replica that takes a step. *)

(* A batch that has been written, or whose keys were there. *)
LEMMA WrittenSound ==
    ASSUME TypeOK, Growth, NEW r \in Replicas, Sound(r), Written(r),
           next'[r] = next[r], held'[r] = held[r], stored'[r] = stored[r],
           NEW t \in Tables, t = stage[r],
           \A i \in RowsFor(r) : log[i].key \in KeysOf(RowsOf(t))'
    PROVE  Sound(r)'
  <1>0. log' = log
    BY DEF Growth
  <1>1. seen'[r] = Unread
    BY DEF Written, TypeOK
  <1>2. Fresh(r)'
    BY <1>1 DEF Fresh, Unread
  <1>3. Acknowledged(r)'
    BY AcknowledgedStays DEF Sound
  <1>4. CASE t = "decisions"
    <2>1. stage'[r] = "gold" /\ batch'[r] = batch[r] /\ RowsFor(r) = batch[r]
      BY <1>4 DEF Written, TypeOK, RowsFor
    <2>2. GoldAfter(r)'
      BY <1>0, <1>4, <2>1 DEF GoldAfter, KeysOf
    <2>3. Progressed(r)'
      BY <2>1, ProgressedStays DEF Sound
    <2>4. BetweenBatches(r)'
      BY <2>1 DEF BetweenBatches, Reading
    <2> QED  BY <1>2, <1>3, <2>2, <2>3, <2>4 DEF Sound
  <1>5. CASE t = "gold"
    <2>1. stage'[r] = "read" /\ batch'[r] = {} /\ RowsFor(r) = {i \in batch[r] : Trainable(i)}
      BY <1>5 DEF Written, TypeOK, RowsFor
    <2>2. GoldAfter(r)' /\ BetweenBatches(r)'
      BY <1>1, <2>1 DEF GoldAfter, BetweenBatches, Unread
    <2>3. ASSUME NEW i \in batch[r] PROVE Kept(i)'
      <3>1. log[i].key \in KeysOf(RowsOf("decisions"))
        BY <1>5 DEF Sound, GoldAfter, KeysOf
      <3>2. log[i].key \in KeysOf(RowsOf("decisions"))'
        BY <3>1, KeysGrow DEF Tables
      <3>3. Trainable(i)' => log[i].key \in KeysOf(RowsOf("gold"))'
        BY <1>0, <1>5, <2>1 DEF Trainable
      <3> QED  BY <1>0, <3>2, <3>3 DEF Kept
    <2>4. Progressed(r)'
      BY <2>3, KeptStays DEF Sound, Progressed
    <2> QED  BY <1>2, <1>3, <2>2, <2>4 DEF Sound
  <1> QED  BY <1>4, <1>5 DEF Tables

(* The table is read again. *)
LEMMA ReloadSound ==
    ASSUME TypeOK, Growth, NEW r \in Replicas, Sound(r), Reload(r), ~Reading(r),
           next'[r] = next[r], held'[r] = held[r], stored'[r] = stored[r],
           batch'[r] = batch[r], stage'[r] = stage[r]
    PROVE  Sound(r)'
  <1>1. seen'[r] = Unread
    BY DEF Reload, TypeOK
  <1>2. Fresh(r)' /\ BetweenBatches(r)'
    BY <1>1 DEF Fresh, BetweenBatches, Reading, Unread
  <1>3. GoldAfter(r)' /\ Progressed(r)' /\ Acknowledged(r)'
    BY GoldAfterStays, ProgressedStays, AcknowledgedStays DEF Sound
  <1> QED  BY <1>2, <1>3 DEF Sound

(* Between two batches: a record is read, a batch is begun. *)
LEMMA SourceSound ==
    ASSUME TypeOK, Growth, NEW r \in Replicas, Sound(r), Reading(r), seen'[r] = seen[r],
           stored'[r] = stored[r], Progressed(r)',
           \/ stage'[r] = "decisions"
           \/ stage'[r] = stage[r] /\ batch'[r] = batch[r]
    PROVE  Sound(r)'
  <1>1. seen'[r] = Unread /\ batch[r] = {}
    BY DEF Sound, BetweenBatches
  <1>2. Fresh(r)' /\ BetweenBatches(r)' /\ GoldAfter(r)'
    BY <1>1 DEF Fresh, BetweenBatches, GoldAfter, Reading, Unread
  <1>3. Acknowledged(r)'
    BY AcknowledgedStays DEF Sound
  <1> QED  BY <1>2, <1>3 DEF Sound

-----------------------------------------------------------------------------
(* The actions. *)

Only(r) ==
    \A q \in Replicas \ {r} :
        /\ next'[q] = next[q] /\ held'[q] = held[q] /\ stored'[q] = stored[q]
        /\ batch'[q] = batch[q] /\ stage'[q] = stage[q]
        /\ seen'[q] = seen[q] /\ known'[q] = known[q]

LEMMA ReadSound ==
    ASSUME WriterInv, TypeOK', NEW r \in Replicas, Read(r)
    PROVE  KeyOnce' /\ DecidedFirst' /\ Growth /\ Only(r) /\ Sound(r)'
  <1> USE DEF WriterInv
  <1> PICK i \in Position : i = next[r] + 1
    BY DEF Read
  <1> DEFINE more == held[r] \cup {i}
  <1>1. /\ log' = log /\ dead \subseteq dead' /\ UNCHANGED <<table, stored, seen, known>>
        /\ Reading(r) /\ next' = [next EXCEPT ![r] = i]
    BY DEF Read, table
  <1>2. Growth /\ KeyOnce' /\ DecidedFirst'
    BY <1>1, UnchangedGrows, TablesStay
  <1>3. batch[r] = {} /\ next[r] \in Nat /\ Progressed(r)
    <2>1. next[r] \in Position \cup {0}  BY DEF TypeOK
    <2> QED  BY <1>1, <2>1, PositionIsNat DEF Sound, BetweenBatches
  <1>4. next'[r] = i /\ 1..i = (1..next[r]) \cup {i}
    <2>1. \A n \in Nat : 1..(n + 1) = (1..n) \cup {n + 1}
      OBVIOUS
    <2> QED  BY <1>1, <1>3, <2>1 DEF TypeOK
  <1>5. CASE log[i].kind = "invalid"
    <2>1. dead' = dead \cup {i} /\ UNCHANGED <<held, batch, stage>>
      BY <1>5 DEF Read
    <2>2. Kept(i)'
      BY <1>4, <2>1 DEF Kept
    <2>3. Progressed(r)'
      BY <1>2, <1>3, <1>4, <2>1, <2>2, KeptStays DEF Progressed
    <2>4. Only(r)
      BY <1>1, <2>1 DEF Only, TypeOK
    <2>5. Sound(r)'
      BY <1>1, <1>2, <2>1, <2>3, SourceSound
    <2> QED  BY <1>2, <2>4, <2>5
  <1>6. CASE log[i].kind # "invalid" /\ Flush(r, more)
    <2>1. batch'[r] = more /\ held'[r] = {} /\ stage'[r] = "decisions"
      BY <1>6 DEF Flush, TypeOK
    <2>2. Progressed(r)'
      BY <1>2, <1>3, <1>4, <2>1, KeptStays DEF Progressed
    <2>3. Only(r)
      BY <1>1, <1>6 DEF Only, TypeOK, Flush
    <2>4. Sound(r)'
      BY <1>1, <1>2, <2>1, <2>2, SourceSound
    <2> QED  BY <1>2, <2>3, <2>4
  <1>7. CASE log[i].kind # "invalid" /\ ~Flush(r, more)
    <2>1. held' = [held EXCEPT ![r] = more] /\ UNCHANGED <<batch, stage>>
      BY <1>7 DEF Read
    <2>2. held'[r] = more
      BY <2>1 DEF TypeOK
    <2>3. Progressed(r)'
      BY <1>2, <1>3, <1>4, <2>2, KeptStays DEF Progressed
    <2>4. Only(r)
      BY <1>1, <2>1 DEF Only, TypeOK
    <2>5. Sound(r)'
      BY <1>1, <1>2, <2>1, <2>3, SourceSound
    <2> QED  BY <1>2, <2>4, <2>5
  <1> QED  BY <1>5, <1>6, <1>7

LEMMA FlushDueSound ==
    ASSUME WriterInv, TypeOK', NEW r \in Replicas, FlushDue(r)
    PROVE  KeyOnce' /\ DecidedFirst' /\ Growth /\ Only(r) /\ Sound(r)'
  <1> USE DEF WriterInv
  <1>1. /\ log' = log /\ dead' = dead /\ UNCHANGED <<table, next, stored, seen, known>>
        /\ Reading(r) /\ Flush(r, held[r])
    BY DEF FlushDue, table
  <1>2. Growth /\ KeyOnce' /\ DecidedFirst'
    BY <1>1, UnchangedGrows, TablesStay
  <1>3. batch'[r] = held[r] /\ stage'[r] = "decisions" /\ batch[r] = {}
    BY <1>1 DEF Flush, TypeOK, Sound, BetweenBatches
  <1>4. Progressed(r)'
    BY <1>1, <1>2, <1>3, ProgressedStays DEF Sound
  <1>5. Only(r)
    BY <1>1 DEF Only, TypeOK, Flush
  <1>6. Sound(r)'
    BY <1>1, <1>2, <1>3, <1>4, SourceSound
  <1> QED  BY <1>2, <1>5, <1>6

LEMMA LoadKeysSound ==
    ASSUME WriterInv, TypeOK', NEW r \in Replicas, LoadKeys(r)
    PROVE  KeyOnce' /\ DecidedFirst' /\ Growth /\ Only(r) /\ Sound(r)'
  <1> USE DEF WriterInv
  <1>1. /\ log' = log /\ dead' = dead /\ UNCHANGED <<table, source, stored, batch, stage>>
        /\ ~Reading(r)
    BY DEF LoadKeys, table
  <1>2. Growth /\ KeyOnce' /\ DecidedFirst' /\ \A t \in Tables : RowsOf(t)' = RowsOf(t)
    BY <1>1, UnchangedGrows, TablesStay
  <1>3. PICK t \in Tables : t = stage[r]
    BY <1>1, AtTable
  <1>4. seen'[r] = version[t] /\ known'[r] = KeysOf(RowsOf(t))
    BY <1>3 DEF LoadKeys, TypeOK
  <1>5. KeysOf(RowsOf(t))' = KeysOf(RowsOf(t)) /\ version'[t] = version[t] /\ stage'[r] = t
        /\ version[t] \in Nat
    BY <1>1, <1>2, <1>3 DEF KeysOf, table, TypeOK
  <1>6. Fresh(r)'
    BY <1>4, <1>5 DEF Fresh, AtHead
  <1>7. GoldAfter(r)' /\ Progressed(r)' /\ Acknowledged(r)'
    BY <1>1, <1>2, GoldAfterStays, ProgressedStays, AcknowledgedStays DEF Sound, source
  <1>8. BetweenBatches(r)'
    BY <1>1 DEF BetweenBatches, Reading
  <1>9. Only(r)
    BY <1>1 DEF LoadKeys, Only, TypeOK, source
  <1> QED  BY <1>2, <1>6, <1>7, <1>8, <1>9 DEF Sound

LEMMA WrittenOnly ==
    ASSUME TypeOK, NEW r \in Replicas, Written(r), UNCHANGED <<source, stored>>
    PROVE  Only(r)
  BY DEF Written, TypeOK, Only, source

LEMMA NothingPendingSound ==
    ASSUME WriterInv, TypeOK', NEW r \in Replicas, NothingPending(r)
    PROVE  KeyOnce' /\ DecidedFirst' /\ Growth /\ Only(r) /\ Sound(r)'
  <1> USE DEF WriterInv
  <1>1. /\ log' = log /\ dead' = dead /\ UNCHANGED <<table, source, stored>>
        /\ ~Reading(r) /\ seen[r] # Unread /\ Pending(r) = {} /\ Written(r)
    BY DEF NothingPending, table
  <1>2. Growth /\ KeyOnce' /\ DecidedFirst' /\ \A t \in Tables : RowsOf(t)' = RowsOf(t)
    BY <1>1, UnchangedGrows, TablesStay
  <1>3. PICK t \in Tables : t = stage[r]
    BY <1>1, AtTable
  <1>4. RowsFor(r) \subseteq Nat
    BY RowsForInBatch, PositionIsNat DEF TypeOK
  <1>5. KeysOf(RowsFor(r)) \subseteq known[r]
    <2>1. KeysOf({}) = {}  BY DEF KeysOf
    <2> QED  BY <1>1, <1>4, <2>1, AllKeysPresent DEF Pending
  <1>6. known[r] \subseteq KeysOf(RowsOf(t))'
    BY <1>1, <1>2, <1>3, KeysGrow DEF Sound, Fresh
  <1>7. \A i \in RowsFor(r) : log[i].key \in KeysOf(RowsOf(t))'
    BY <1>5, <1>6 DEF KeysOf
  <1>8. Sound(r)'
    BY <1>1, <1>2, <1>3, <1>7, WrittenSound DEF source
  <1> QED  BY <1>1, <1>2, <1>8, WrittenOnly

LEMMA AppendRowsSound ==
    ASSUME WriterInv, TypeOK', NEW r \in Replicas, AppendRows(r)
    PROVE  KeyOnce' /\ DecidedFirst' /\ Growth /\ Only(r) /\ Sound(r)'
  <1> USE DEF WriterInv
  <1>1. /\ log' = log /\ dead' = dead /\ UNCHANGED <<source, stored>>
        /\ ~Reading(r) /\ seen[r] # Unread /\ AtHead(r) /\ Commit(r) /\ Written(r)
    BY DEF AppendRows
  <1>2. PICK t \in Tables : t = stage[r]
    BY <1>1, AtTable
  <1>3. Growth
    BY <1>1, <1>2, CommitGrows
  <1>4. KeyOnce' /\ DecidedFirst'
    BY <1>1, <1>2, CommitKeyOnce, CommitDecidedFirst DEF Sound
  <1>5. \A i \in RowsFor(r) : log[i].key \in KeysOf(RowsOf(t))'
    BY <1>1, <1>2, CommitKeys DEF Sound
  <1>6. Sound(r)'
    BY <1>1, <1>2, <1>3, <1>5, WrittenSound DEF source
  <1> QED  BY <1>1, <1>3, <1>4, <1>6, WrittenOnly

LEMMA ReloadOnly ==
    ASSUME TypeOK, NEW r \in Replicas, Reload(r), UNCHANGED <<source, stored, batch, stage>>
    PROVE  Only(r)
  BY DEF Reload, TypeOK, Only, source

LEMMA CommitConflictSound ==
    ASSUME WriterInv, TypeOK', NEW r \in Replicas, CommitConflict(r)
    PROVE  KeyOnce' /\ DecidedFirst' /\ Growth /\ Only(r) /\ Sound(r)'
  <1> USE DEF WriterInv
  <1>1. /\ log' = log /\ dead' = dead /\ UNCHANGED <<table, source, stored, batch, stage>>
        /\ ~Reading(r) /\ Reload(r)
    BY DEF CommitConflict, table
  <1>2. Growth /\ KeyOnce' /\ DecidedFirst'
    BY <1>1, UnchangedGrows, TablesStay
  <1>3. Sound(r)'
    BY <1>1, <1>2, ReloadSound DEF source
  <1> QED  BY <1>1, <1>2, <1>3, ReloadOnly

LEMMA CommitUnknownSound ==
    ASSUME WriterInv, TypeOK', NEW r \in Replicas, CommitUnknown(r)
    PROVE  KeyOnce' /\ DecidedFirst' /\ Growth /\ Only(r) /\ Sound(r)'
  <1> USE DEF WriterInv
  <1>1. /\ log' = log /\ dead' = dead /\ UNCHANGED <<source, stored, batch, stage>>
        /\ ~Reading(r) /\ seen[r] # Unread /\ AtHead(r) /\ Reload(r)
        /\ Commit(r) \/ UNCHANGED table
    BY DEF CommitUnknown
  <1>2. Growth /\ KeyOnce' /\ DecidedFirst'
    <2>1. CASE Commit(r)
      BY <1>1, <2>1, AtTable, CommitGrows, CommitKeyOnce, CommitDecidedFirst DEF Sound
    <2>2. CASE UNCHANGED table
      BY <1>1, <2>2, UnchangedGrows, TablesStay
    <2> QED  BY <1>1, <2>1, <2>2
  <1>3. Sound(r)'
    BY <1>1, <1>2, ReloadSound DEF source
  <1> QED  BY <1>1, <1>2, <1>3, ReloadOnly

LEMMA SnapshotSound ==
    ASSUME WriterInv, TypeOK', NEW r \in Replicas, Snapshot(r)
    PROVE  KeyOnce' /\ DecidedFirst' /\ Growth /\ Only(r) /\ Sound(r)'
  <1> USE DEF WriterInv
  <1>1. log' = log /\ dead' = dead /\ UNCHANGED <<table, source, flush>> /\ Reading(r)
    BY DEF Snapshot, table
  <1>2. Growth /\ KeyOnce' /\ DecidedFirst'
    BY <1>1, UnchangedGrows, TablesStay
  <1>3. stored'[r].next = next[r] /\ stored'[r].held = held[r] /\ batch[r] = {}
    BY <1>1 DEF Snapshot, TypeOK, Sound, BetweenBatches
  <1>4. Acknowledged(r)'
    BY <1>2, <1>3, KeptStays DEF Acknowledged, Settled, Sound, Progressed
  <1>5. Fresh(r)' /\ GoldAfter(r)' /\ Progressed(r)' /\ BetweenBatches(r)'
    BY <1>1, <1>2, FreshStays, GoldAfterStays, ProgressedStays
    DEF Sound, BetweenBatches, Reading, source, flush
  <1>6. Only(r)
    BY <1>1 DEF Snapshot, Only, TypeOK, source, flush
  <1> QED  BY <1>2, <1>4, <1>5, <1>6 DEF Sound

LEMMA CrashSound ==
    ASSUME WriterInv, TypeOK', NEW r \in Replicas, Crash(r)
    PROVE  KeyOnce' /\ DecidedFirst' /\ Growth /\ Only(r) /\ Sound(r)'
  <1> USE DEF WriterInv
  <1>1. log' = log /\ dead' = dead /\ UNCHANGED <<table, stored>>
    BY DEF Crash, table
  <1>2. Growth /\ KeyOnce' /\ DecidedFirst'
    BY <1>1, UnchangedGrows, TablesStay
  <1>3. /\ next'[r] = stored[r].next /\ held'[r] = stored[r].held /\ batch'[r] = {}
        /\ stage'[r] = "read" /\ seen'[r] = Unread
    BY DEF Crash, TypeOK
  <1>4. Acknowledged(r)'
    BY <1>1, <1>2, AcknowledgedStays DEF Sound
  <1>5. Progressed(r)'
    BY <1>2, <1>3, KeptStays DEF Sound, Acknowledged, Settled, Progressed
  <1>6. Fresh(r)' /\ GoldAfter(r)' /\ BetweenBatches(r)'
    BY <1>3 DEF Fresh, GoldAfter, BetweenBatches, Unread
  <1>7. Only(r)
    BY <1>1 DEF Crash, Only, TypeOK
  <1> QED  BY <1>2, <1>4, <1>5, <1>6, <1>7 DEF Sound

-----------------------------------------------------------------------------
(* The invariant. *)

LEMMA InvInit == Init => WriterInv
  <1> SUFFICES ASSUME Init PROVE WriterInv
    OBVIOUS
  <1>1. TypeOK
    BY TypeInit
  <1>2. \A t \in Tables : RowsOf(t) = {}
    BY DEF Init, RowsOf
  <1>3. KeyOnce /\ DecidedFirst
    BY <1>2 DEF KeyOnce, DecidedFirst, KeysOf, Tables
  <1>4. ASSUME NEW r \in Replicas PROVE Sound(r)
    <2>1. Fresh(r) /\ GoldAfter(r) /\ BetweenBatches(r) /\ Progressed(r)
      BY DEF Init, Fresh, GoldAfter, BetweenBatches, Progressed, Reading
    <2>2. Acknowledged(r)
      BY DEF Init, Acknowledged, Settled
    <2> QED  BY <2>1, <2>2 DEF Sound
  <1> QED  BY <1>1, <1>3, <1>4 DEF WriterInv

LEMMA InvStep == WriterInv /\ [Next]_vars => WriterInv'
  <1> SUFFICES ASSUME WriterInv, [Next]_vars PROVE WriterInv'
    OBVIOUS
  <1>0. TypeOK'
    BY TypeStep DEF WriterInv
  <1>1. ASSUME NEW r \in Replicas, KeyOnce', DecidedFirst', Growth, Only(r), Sound(r)'
        PROVE  WriterInv'
    <2>1. ASSUME NEW q \in Replicas, q # r PROVE Sound(q)'
      BY <1>0, <1>1, <2>1, OthersSound DEF Only, WriterInv
    <2> QED  BY <1>0, <1>1, <2>1 DEF WriterInv
  <1>2. CASE UNCHANGED vars
    <2>1. Growth /\ KeyOnce' /\ DecidedFirst'
      BY <1>2, UnchangedGrows, TablesStay DEF vars, WriterInv
    <2>2. ASSUME NEW q \in Replicas PROVE Sound(q)'
      BY <1>0, <1>2, <2>1, OthersSound DEF vars, source, flush, WriterInv
    <2> QED  BY <1>0, <2>1, <2>2 DEF WriterInv
  <1>3. CASE Next
    <2> PICK r \in Replicas :
            \/ Read(r) \/ FlushDue(r) \/ LoadKeys(r) \/ NothingPending(r) \/ AppendRows(r)
            \/ CommitConflict(r) \/ CommitUnknown(r) \/ Snapshot(r) \/ Crash(r)
      BY <1>3 DEF Next
    <2>1. CASE Read(r)            BY <1>0, <1>1, <2>1, ReadSound
    <2>2. CASE FlushDue(r)        BY <1>0, <1>1, <2>2, FlushDueSound
    <2>3. CASE LoadKeys(r)        BY <1>0, <1>1, <2>3, LoadKeysSound
    <2>4. CASE NothingPending(r)  BY <1>0, <1>1, <2>4, NothingPendingSound
    <2>5. CASE AppendRows(r)      BY <1>0, <1>1, <2>5, AppendRowsSound
    <2>6. CASE CommitConflict(r)  BY <1>0, <1>1, <2>6, CommitConflictSound
    <2>7. CASE CommitUnknown(r)   BY <1>0, <1>1, <2>7, CommitUnknownSound
    <2>8. CASE Snapshot(r)        BY <1>0, <1>1, <2>8, SnapshotSound
    <2>9. CASE Crash(r)           BY <1>0, <1>1, <2>9, CrashSound
    <2> QED  BY <2>1, <2>2, <2>3, <2>4, <2>5, <2>6, <2>7, <2>8, <2>9
  <1> QED  BY <1>2, <1>3

LEMMA InvHolds == Spec => []WriterInv
  BY InvInit, InvStep, PTL DEF Spec

(* A key has one row in a table, for any number of replicas that write at    *)
(* once, crash, meet conflicts and never learn how an append ended: process   *)
(* memory is never the source of truth (iceberg_writer.py:503-505).        *)
THEOREM WriterKeyOnce == Spec => []KeyOnce
  <1>1. WriterInv => KeyOnce
    BY DEF WriterInv
  <1> QED  BY <1>1, InvHolds, PTL

(* A document of the Gold table has a decision, and what a replica will not   *)
(* read again has its key in every table it belongs to: the source moves on   *)
(* only after the commits of both tables (iceberg_writer.py, the two appends  *)
(* of a batch and the recovery store of the flow).                         *)
THEOREM WriterLosesNothing == Spec => []NothingLost
  <1>1. WriterInv => NothingLost
    BY DEF WriterInv, NothingLost, DecidedFirst, Sound, Acknowledged
  <1> QED  BY <1>1, InvHolds, PTL

(* What the writer owes the tables, together: no key twice, nothing lost. *)
THEOREM WriterRowsOnce == Spec => []RowsOnce
  BY WriterTypeCorrect, WriterKeyOnce, WriterLosesNothing, PTL DEF RowsOnce

-----------------------------------------------------------------------------
(* SnapshotMaintenance: the objects of a table and its metadata. *)

Object == {"data", "list", "metadata"} \X Nat
Meta == [time: Nat, snapshots: SUBSET [id: Nat, time: Nat], data: SUBSET Nat,
         history: SUBSET Nat]

Top == Upkeep!Max(Upkeep!Versioned)

(* The metadata of a version: what it names was there before it, and its     *)
(* newest snapshot reaches all of its data.                                *)
WellFormed(m, v, n) ==
    /\ m \in Meta /\ m.history \subseteq 1..(v - 1) /\ m.data \subseteq 1..n
    /\ Upkeep!Snapshots(m) \subseteq m.data
    /\ \A d \in m.data : \E s \in Upkeep!Snapshots(m) : d <= s

(* The catalog points to the latest version, or has lost the table. *)
UpkeepTables ==
    /\ clock \in 0..ClockLimit /\ appends \in 0..AppendLimit
    /\ replaced \in BOOLEAN /\ mishaps \in 0..UpkeepFaults
    /\ Top \in Nat \ {0} /\ Upkeep!Versioned = 1..Top /\ catalog \in {Upkeep!Lost, Top}
    /\ \A v \in 1..Top : WellFormed(metadata[v], v, appends)

(* No object is from the future, or of a version or append to come. *)
Stored ==
    /\ objects \subseteq Object \X (0..clock)
    /\ \A v \in Nat : Upkeep!Metadata(v) \in Upkeep!Present => v \in 1..Top
    /\ \A n \in Nat : Upkeep!Data(n) \in Upkeep!Present \/ Upkeep!List(n) \in Upkeep!Present => n \in 1..appends

Whole == Upkeep!Protected(Top) \subseteq Upkeep!Present

(* An append under way has its files, which are younger than CommitDelay. *)
Appending ==
    /\ writer \in [n: Nat, at: Nat, seen: Nat]
    /\ writer # Upkeep!NoAppend =>
          /\ writer.n \in 1..appends /\ writer.seen \in 1..Top /\ writer.at <= clock
          /\ clock <= writer.at + CommitDelay
          /\ Upkeep!Data(writer.n) \in Upkeep!Present /\ Upkeep!List(writer.n) \in Upkeep!Present
          /\ \A e \in objects : e[1] \in {Upkeep!Data(writer.n), Upkeep!List(writer.n)} => writer.at <= e[2]

(* What the job will delete is older than MinAge, and nobody needs it.       *)
Deleting ==
    /\ job \in [pc: {"off", "expire", "list", "reload", "delete"}, at: Nat, seen: Nat,
                protected: SUBSET Object, doomed: SUBSET (Object \X Nat)]
    /\ job.at <= clock /\ (job.pc # "off" => job.seen \in 1..Top)
    /\ job.doomed \subseteq objects
    /\ \A e \in job.doomed : e[2] < job.at - MinAge
    /\ job.pc = "delete" => \A e \in job.doomed : e[1] \notin Upkeep!Protected(Top)

(* Few commits after a scan began its snapshot is retained, with its data.   *)
Later(s) == {n \in metadata[Top].data : n > s}
Scanning ==
    /\ reader \in [snapshot: Nat, begun: Nat] /\ reader.snapshot <= appends
    /\ reader # Upkeep!NoScan =>
          /\ reader.begun \in 1..Top
          /\ ~replaced /\ Upkeep!Cardinality(Later(reader.snapshot)) < MinimumToKeep =>
                /\ reader.snapshot \in Upkeep!Snapshots(metadata[Top])
                /\ {d \in metadata[reader.begun].data : d <= reader.snapshot}
                      \subseteq metadata[Top].data

UpkeepInv == UpkeepTables /\ Stored /\ Whole /\ Appending /\ Deleting /\ Scanning

-----------------------------------------------------------------------------
(* The size of a set is the same in the instance. *)
LEMMA UpkeepSize == \A S : Upkeep!Cardinality(S) = Cardinality(S)
  BY DEF Cardinality, Upkeep!Cardinality

(* Greatest elements. *)

LEMMA MaxIs ==
    ASSUME NEW S, S \subseteq Nat, NEW x \in S, \A y \in S : y <= x
    PROVE  Upkeep!Max(S) = x
  <1>1. \A y \in S : x >= y
    OBVIOUS
  <1>2. Upkeep!Max(S) \in S /\ \A y \in S : Upkeep!Max(S) >= y
    BY <1>1 DEF Upkeep!Max
  <1>3. Upkeep!Max(S) \in Nat /\ x \in Nat /\ Upkeep!Max(S) >= x /\ Upkeep!Max(S) <= x
    BY <1>2
  <1> QED  BY <1>3

LEMMA MaxOfInterval == ASSUME NEW n \in Nat \ {0} PROVE Upkeep!Max(1..n) = n
  <1>1. 1..n \subseteq Nat /\ n \in 1..n /\ \A y \in 1..n : y <= n
    OBVIOUS
  <1> QED  BY <1>1, MaxIs

LEMMA MaxIn ==
    ASSUME NEW n \in Nat, NEW S, S \subseteq 0..n, S # {}
    PROVE  Upkeep!Max(S) \in S /\ \A y \in S : y <= Upkeep!Max(S)
  <1> DEFINE T == {n - x : x \in S}
  <1>1. T \subseteq Nat /\ T # {}
    <2>1. \A x \in S : x \in Nat /\ x <= n /\ n - x \in Nat
      OBVIOUS
    <2>2. PICK x \in S : TRUE
      OBVIOUS
    <2>3. n - x \in T
      OBVIOUS
    <2> QED  BY <2>1, <2>3
  <1>2. PICK j \in T : \A k \in T : ~(<<k, j>> \in OpToRel(<, Nat))
    BY <1>1, NatLessThanWellFounded, WFMin
  <1>3. \A k \in T : ~(k < j)
    BY <1>1, <1>2 DEF OpToRel
  <1>4. PICK x \in S : j = n - x
    OBVIOUS
  <1>5. \A y \in S : y <= x
    <2> TAKE y \in S
    <2>1. ~(n - y < n - x)
      BY <1>3, <1>4
    <2> QED  BY <2>1
  <1>6. Upkeep!Max(S) = x
    <2>1. S \subseteq Nat
      OBVIOUS
    <2> QED  BY <1>5, <2>1, MaxIs
  <1> QED  BY <1>5, <1>6

(* The k newest are elements, and the greatest is among them. *)
LEMMA NewestIn == \A S, k : Upkeep!Newest(S, k) \subseteq S
  BY DEF Upkeep!Newest

LEMMA GreatestIsNewest ==
    ASSUME NEW S, S \subseteq Nat, NEW x \in S, \A y \in S : y <= x, NEW k \in Nat \ {0}
    PROVE  x \in Upkeep!Newest(S, k)
  <1>1. {u \in S : u > x} = {}
    <2>1. \A u \in S : ~(u > x)
      <3> TAKE u \in S
      <3>1. u \in Nat /\ x \in Nat /\ u <= x
        OBVIOUS
      <3> QED  BY <3>1
    <2> QED  BY <2>1
  <1>2. Upkeep!Cardinality({u \in S : u > x}) = 0
    BY <1>1, FS_EmptySet, UpkeepSize
  <1> QED  BY <1>2 DEF Upkeep!Newest

(* Of a larger set there are more elements after s. *)
LEMMA MoreLater ==
    ASSUME NEW n \in Nat, NEW T, T \subseteq 0..n, NEW S, S \subseteq T, NEW s \in Nat
    PROVE  Upkeep!Cardinality({u \in S : u > s}) <= Upkeep!Cardinality({u \in T : u > s})
  <1>1. IsFiniteSet(0..n)
    BY FS_Interval
  <1>2. IsFiniteSet({u \in T : u > s})
    BY <1>1, FS_Subset, {u \in T : u > s} \in SUBSET (0..n)
  <1> QED  BY <1>2, FS_Subset, UpkeepSize, {u \in S : u > s} \in SUBSET {u \in T : u > s}

LEMMA CardinalityType ==
    ASSUME NEW n \in Nat, NEW T, T \subseteq 0..n
    PROVE  Upkeep!Cardinality(T) \in Nat
  <1>1. IsFiniteSet(0..n)
    BY FS_Interval
  <1>2. IsFiniteSet(T)
    BY <1>1, FS_Subset
  <1> QED  BY <1>2, FS_CardinalityType, UpkeepSize

-----------------------------------------------------------------------------
(* Objects. *)

LEMMA ObjectsDiffer ==
    /\ \A m, n : Upkeep!Data(m) = Upkeep!Data(n) <=> m = n
    /\ \A m, n : Upkeep!List(m) = Upkeep!List(n) <=> m = n
    /\ \A m, n : Upkeep!Metadata(m) = Upkeep!Metadata(n) <=> m = n
    /\ \A m, n : Upkeep!Data(m) # Upkeep!List(n) /\ Upkeep!Data(m) # Upkeep!Metadata(n) /\ Upkeep!List(m) # Upkeep!Metadata(n)
  BY DEF Upkeep!Data, Upkeep!List, Upkeep!Metadata

LEMMA ObjectIs ==
    ASSUME NEW n \in Nat
    PROVE  Upkeep!Data(n) \in Object /\ Upkeep!List(n) \in Object /\ Upkeep!Metadata(n) \in Object
  BY DEF Upkeep!Data, Upkeep!List, Upkeep!Metadata, Object

(* What metadata needs beside itself. *)
Needs(m) == {Upkeep!Metadata(u) : u \in m.history} \cup Upkeep!ReachedBy(m)

LEMMA ProtectedIs == \A v : Upkeep!Protected(v) = {Upkeep!Metadata(v)} \cup Needs(metadata[v])
  BY DEF Upkeep!Protected, Needs

LEMMA ReachedIs ==
    ASSUME NEW m, NEW o
    PROVE  o \in Upkeep!ReachedBy(m) <=>
             \E s \in Upkeep!Snapshots(m) : o = Upkeep!List(s) \/ \E d \in m.data : d <= s /\ o = Upkeep!Data(d)
  BY DEF Upkeep!ReachedBy, Upkeep!Reaches

LEMMA ProtectedType ==
    ASSUME UpkeepTables, NEW v \in 1..Top
    PROVE  Upkeep!Protected(v) \subseteq Object
  <1>1. /\ metadata[v].history \subseteq Nat /\ metadata[v].data \subseteq Nat
        /\ Upkeep!Snapshots(metadata[v]) \subseteq Nat
    BY DEF UpkeepTables, WellFormed, Meta
  <1>2. v \in Nat
    BY DEF UpkeepTables
  <1>3. \A o \in Upkeep!ReachedBy(metadata[v]) : o \in Object
    BY <1>1, ReachedIs, ObjectIs
  <1> QED  BY <1>1, <1>2, <1>3, ObjectIs, ProtectedIs DEF Needs

LEMMA PresentIs == \A o : o \in Upkeep!Present <=> \E e \in objects : e[1] = o
  BY DEF Upkeep!Present

-----------------------------------------------------------------------------
(* Steps that make no version and leave the objects alone. *)

LEMMA Frame ==
    ASSUME UpkeepInv, UNCHANGED <<metadata, objects, appends, replaced>>,
           clock' \in clock..ClockLimit, mishaps' \in 0..UpkeepFaults, catalog' \in {Upkeep!Lost, Top}
    PROVE  /\ UpkeepTables' /\ Stored' /\ Whole' /\ Top' = Top
           /\ Upkeep!Present' = Upkeep!Present /\ Upkeep!Protected(Top)' = Upkeep!Protected(Top)
           /\ Top' \in Nat /\ Top <= Top'
  <1>1. Top' = Top /\ Upkeep!Versioned' = Upkeep!Versioned /\ Upkeep!Present' = Upkeep!Present
    BY DEF Top, Upkeep!Versioned, Upkeep!Present
  <1>2. clock \in Nat /\ clock' \in 0..ClockLimit /\ clock <= clock'
    BY DEF UpkeepInv, UpkeepTables
  <1>3. UpkeepTables'
    BY <1>1, <1>2 DEF UpkeepInv, UpkeepTables
  <1>4. Stored'
    BY <1>1, <1>2 DEF UpkeepInv, Stored
  <1>5. Upkeep!Protected(Top)' = Upkeep!Protected(Top)
    BY <1>1 DEF Upkeep!Protected
  <1>6. Top \in Nat
    BY DEF UpkeepInv, UpkeepTables
  <1> QED  BY <1>1, <1>3, <1>4, <1>5, <1>6 DEF UpkeepInv, Whole

LEMMA NoAppendKeeps == writer' = Upkeep!NoAppend => Appending'
  BY DEF Upkeep!NoAppend, Appending

(* Others do not touch the files of an append. *)
LEMMA AppendingKeeps ==
    ASSUME UpkeepInv, UNCHANGED <<writer, appends, clock>>, Top' \in Nat, Top <= Top',
           \A e \in objects' : e \in objects \/ e[1] \notin {Upkeep!Data(writer.n), Upkeep!List(writer.n)},
           writer # Upkeep!NoAppend => {Upkeep!Data(writer.n), Upkeep!List(writer.n)} \cap Upkeep!Present \subseteq Upkeep!Present'
    PROVE  Appending'
  <1>1. Top \in Nat /\ 1..Top \subseteq 1..Top'
    BY DEF UpkeepInv, UpkeepTables
  <1> QED  BY <1>1 DEF UpkeepInv, Appending

LEMMA NoJobKeeps == ASSUME UpkeepInv, job' = Upkeep!NoJob, clock' \in Nat PROVE Deleting'
  BY DEF Upkeep!NoJob, Deleting

LEMMA DeletingKeeps ==
    ASSUME UpkeepInv, job' = job, objects \subseteq objects', clock' \in Nat, clock <= clock',
           Top' \in Nat, Top <= Top',
           job.pc = "delete" => \A e \in job.doomed : e[1] \notin Upkeep!Protected(Top)'
    PROVE  Deleting'
  <1>1. job.pc # "off" => job.seen \in 1..Top'
    BY DEF UpkeepInv, Deleting, UpkeepTables
  <1>2. job.at <= clock'
    BY DEF UpkeepInv, Deleting, UpkeepTables
  <1>3. job.doomed \subseteq objects'
    BY DEF UpkeepInv, Deleting
  <1> QED  BY <1>1, <1>2, <1>3 DEF UpkeepInv, Deleting

LEMMA ScanningKeeps ==
    ASSUME UpkeepInv, UNCHANGED <<metadata, reader, replaced, appends>>
    PROVE  Scanning'
  <1>1. Top' = Top /\ Later(reader.snapshot)' = Later(reader.snapshot)
    BY DEF Top, Upkeep!Versioned, Later
  <1> QED  BY <1>1 DEF UpkeepInv, Scanning

LEMMA TickKeeps == ASSUME UpkeepInv, Upkeep!MaintenanceAssumption, Upkeep!Tick PROVE UpkeepInv'
  <1>1. clock \in Nat /\ clock' \in clock..ClockLimit /\ clock' = clock + 1
    BY DEF Upkeep!Tick, UpkeepInv, UpkeepTables, Upkeep!MaintenanceAssumption
  <1>2. UpkeepTables' /\ Stored' /\ Whole' /\ Top' = Top /\ Upkeep!Present' = Upkeep!Present
        /\ Upkeep!Protected(Top)' = Upkeep!Protected(Top) /\ Top' \in Nat /\ Top <= Top'
    BY <1>1, Frame DEF Upkeep!Tick, UpkeepInv, UpkeepTables
  <1>3. Appending'
    <2>1. ASSUME writer # Upkeep!NoAppend
          PROVE  writer.at <= clock' /\ clock' <= writer.at + CommitDelay
      BY <1>1, <2>1 DEF Upkeep!Tick, UpkeepInv, Appending, Upkeep!MaintenanceAssumption
    <2> QED  BY <1>2, <2>1 DEF Upkeep!Tick, UpkeepInv, Appending
  <1>4. Deleting' /\ Scanning'
    BY <1>1, <1>2, DeletingKeeps, ScanningKeeps DEF Upkeep!Tick, UpkeepInv, UpkeepTables, Deleting
  <1> QED  BY <1>2, <1>3, <1>4 DEF UpkeepInv

(* What leaves the job and the scan alone. *)
LEMMA Quietly ==
    ASSUME UpkeepInv, UNCHANGED <<metadata, objects, appends, replaced, clock, job, reader>>,
           writer' \in {writer, Upkeep!NoAppend}, mishaps' \in 0..UpkeepFaults, catalog' \in {Upkeep!Lost, Top}
    PROVE  UpkeepInv'
  <1>1. clock' \in clock..ClockLimit /\ clock' \in Nat /\ clock <= clock'
    BY DEF UpkeepInv, UpkeepTables
  <1>2. UpkeepTables' /\ Stored' /\ Whole' /\ Top' = Top /\ Upkeep!Present' = Upkeep!Present
        /\ Upkeep!Protected(Top)' = Upkeep!Protected(Top) /\ Top' \in Nat /\ Top <= Top'
    BY <1>1, Frame
  <1>3. Appending'
    BY <1>2, NoAppendKeeps, AppendingKeeps
  <1>4. Deleting' /\ Scanning'
    BY <1>1, <1>2, DeletingKeeps, ScanningKeeps DEF UpkeepInv, UpkeepTables, Deleting
  <1> QED  BY <1>2, <1>3, <1>4 DEF UpkeepInv

LEMMA AppendFailsKeeps ==
    ASSUME UpkeepInv, Upkeep!MaintenanceAssumption, Upkeep!AppendFails PROVE UpkeepInv'
  <1>1. mishaps' \in 0..UpkeepFaults /\ catalog' \in {Upkeep!Lost, Top}
    BY DEF Upkeep!AppendFails, UpkeepInv, UpkeepTables, Upkeep!MaintenanceAssumption
  <1> QED  BY <1>1, Quietly DEF Upkeep!AppendFails

LEMMA LoseCatalogKeeps ==
    ASSUME UpkeepInv, Upkeep!MaintenanceAssumption, Upkeep!LoseCatalog PROVE UpkeepInv'
  <1>1. mishaps' \in 0..UpkeepFaults
    BY DEF Upkeep!LoseCatalog, UpkeepInv, UpkeepTables, Upkeep!MaintenanceAssumption
  <1> QED  BY <1>1, Quietly DEF Upkeep!LoseCatalog

(* The latest metadata is there, so it is what is found. *)
LEMMA RegisterMissingKeeps == ASSUME UpkeepInv, Upkeep!RegisterMissing PROVE UpkeepInv'
  <1> DEFINE found == {v \in Upkeep!Versioned : \E t \in 0..clock : <<Upkeep!Metadata(v), t>> \in objects}
  <1>1. Top \in Nat \ {0} /\ Upkeep!Versioned = 1..Top
    BY DEF UpkeepInv, UpkeepTables
  <1>2. Upkeep!Metadata(Top) \in Upkeep!Present
    BY ProtectedIs DEF UpkeepInv, Whole
  <1>3. PICK e \in objects : e[1] = Upkeep!Metadata(Top)
    BY <1>2 DEF Upkeep!Present
  <1>4. e = <<Upkeep!Metadata(Top), e[2]>> /\ e[2] \in 0..clock
    BY <1>3 DEF UpkeepInv, Stored
  <1>5. Top \in found /\ found \subseteq Nat /\ \A v \in found : v <= Top
    BY <1>1, <1>4
  <1>6. Upkeep!Max(found) = Top
    BY <1>5, MaxIs
  <1>7. catalog' = Top
    BY <1>6 DEF Upkeep!RegisterMissing
  <1>8. mishaps' \in 0..UpkeepFaults
    BY DEF Upkeep!RegisterMissing, UpkeepInv, UpkeepTables
  <1> QED  BY <1>7, <1>8, Quietly DEF Upkeep!RegisterMissing

LEMMA EndScanKeeps == ASSUME UpkeepInv, Upkeep!EndScan PROVE UpkeepInv'
  <1>1. clock' \in clock..ClockLimit /\ clock' \in Nat /\ clock <= clock'
        /\ mishaps' \in 0..UpkeepFaults /\ catalog' \in {Upkeep!Lost, Top}
    BY DEF Upkeep!EndScan, UpkeepInv, UpkeepTables
  <1>2. UpkeepTables' /\ Stored' /\ Whole' /\ Top' = Top /\ Upkeep!Present' = Upkeep!Present
        /\ Upkeep!Protected(Top)' = Upkeep!Protected(Top) /\ Top' \in Nat /\ Top <= Top'
    BY <1>1, Frame DEF Upkeep!EndScan
  <1>3. Appending'
    BY <1>2, AppendingKeeps DEF Upkeep!EndScan
  <1>4. Deleting'
    BY <1>1, <1>2, DeletingKeeps DEF Upkeep!EndScan, UpkeepInv, UpkeepTables, Deleting
  <1>5. Scanning'
    BY <1>2 DEF Upkeep!EndScan, Upkeep!NoScan, Scanning, UpkeepTables
  <1> QED  BY <1>2, <1>3, <1>4, <1>5 DEF UpkeepInv

LEMMA OpenSnapshotKeeps == ASSUME UpkeepInv, Upkeep!OpenSnapshot PROVE UpkeepInv'
  <1> DEFINE s == Upkeep!Max(Upkeep!Snapshots(Upkeep!Current))
  <1>1. clock' \in clock..ClockLimit /\ clock' \in Nat /\ clock <= clock'
        /\ mishaps' \in 0..UpkeepFaults /\ catalog' \in {Upkeep!Lost, Top}
    BY DEF Upkeep!OpenSnapshot, UpkeepInv, UpkeepTables
  <1>2. UpkeepTables' /\ Stored' /\ Whole' /\ Top' = Top /\ Upkeep!Present' = Upkeep!Present
        /\ Upkeep!Protected(Top)' = Upkeep!Protected(Top) /\ Top' \in Nat /\ Top <= Top'
    BY <1>1, Frame DEF Upkeep!OpenSnapshot
  <1>3. Appending'
    BY <1>2, AppendingKeeps DEF Upkeep!OpenSnapshot
  <1>4. Deleting'
    BY <1>1, <1>2, DeletingKeeps DEF Upkeep!OpenSnapshot, UpkeepInv, UpkeepTables, Deleting
  <1>5. catalog = Top /\ Top \in 1..Top /\ appends \in Nat /\ WellFormed(Upkeep!Current, Top, appends)
    BY DEF Upkeep!OpenSnapshot, UpkeepInv, UpkeepTables, Upkeep!Current
  <1>6. Upkeep!Snapshots(Upkeep!Current) \subseteq 1..appends /\ Upkeep!Snapshots(Upkeep!Current) # {}
    BY <1>5 DEF Upkeep!OpenSnapshot, WellFormed, Upkeep!Snapshots
  <1>7. s \in Upkeep!Snapshots(Upkeep!Current) /\ s \in 1..appends
    BY <1>5, <1>6, MaxIn, Upkeep!Snapshots(Upkeep!Current) \subseteq 0..appends
  <1>8. reader' = [snapshot |-> s, begun |-> Top]
    BY <1>5 DEF Upkeep!OpenSnapshot
  <1> HIDE DEF s
  <1>9. reader' \in [snapshot: Nat, begun: Nat] /\ reader'.snapshot = s /\ reader'.begun = Top
        /\ s <= appends
    BY <1>5, <1>7, <1>8
  <1>10. metadata' = metadata /\ appends' = appends
    BY DEF Upkeep!OpenSnapshot
  <1>11. Scanning'
    BY <1>2, <1>5, <1>7, <1>9, <1>10 DEF Scanning, Upkeep!Current
  <1> QED  BY <1>2, <1>3, <1>4, <1>11 DEF UpkeepInv

-----------------------------------------------------------------------------
(* The job, as long as it commits nothing. *)

Job == [pc: {"off", "expire", "list", "reload", "delete"}, at: Nat, seen: Nat,
        protected: SUBSET Object, doomed: SUBSET (Object \X Nat)]

LEMMA JobMoves ==
    ASSUME UpkeepInv, job' \in Job,
           UNCHANGED <<clock, metadata, catalog, objects, writer, reader, appends,
                       replaced, mishaps>>,
           job'.at <= clock, job'.pc # "off" => job'.seen \in 1..Top,
           job'.doomed \subseteq objects, \A e \in job'.doomed : e[2] < job'.at - MinAge,
           job'.pc = "delete" => \A e \in job'.doomed : e[1] \notin Upkeep!Protected(Top)
    PROVE  UpkeepInv'
  <1>1. clock' \in clock..ClockLimit /\ mishaps' \in 0..UpkeepFaults /\ catalog' \in {Upkeep!Lost, Top}
    BY DEF UpkeepInv, UpkeepTables
  <1>2. UpkeepTables' /\ Stored' /\ Whole' /\ Top' = Top /\ Upkeep!Present' = Upkeep!Present
        /\ Upkeep!Protected(Top)' = Upkeep!Protected(Top) /\ Top' \in Nat /\ Top <= Top'
    BY <1>1, Frame
  <1>3. Appending' /\ Scanning'
    BY <1>2, AppendingKeeps, ScanningKeeps
  <1>4. Deleting'
    BY <1>2 DEF Deleting, Job
  <1> QED  BY <1>2, <1>3, <1>4 DEF UpkeepInv

LEMMA NoJobIs ==
    /\ Upkeep!NoJob \in Job /\ Upkeep!NoJob.pc = "off" /\ Upkeep!NoJob.at = 0
    /\ Upkeep!NoJob.doomed = {}
  BY DEF Upkeep!NoJob, Job

LEMMA JobEnds ==
    ASSUME UpkeepInv, job' = Upkeep!NoJob,
           UNCHANGED <<clock, metadata, catalog, objects, writer, reader, appends,
                       replaced, mishaps>>
    PROVE  UpkeepInv'
  <1>1. clock \in Nat
    BY DEF UpkeepInv, UpkeepTables
  <1> QED  BY <1>1, JobMoves, NoJobIs

LEMMA StartJobKeeps == ASSUME UpkeepInv, Upkeep!StartJob PROVE UpkeepInv'
  <1>1. catalog = Top /\ Top \in Nat /\ Top \in 1..Top /\ clock \in Nat
    BY DEF Upkeep!StartJob, UpkeepInv, UpkeepTables
  <1>2. job' \in Job /\ job'.pc = "expire" /\ job'.at = clock /\ job'.seen = Top
        /\ job'.doomed = {}
    BY <1>1, NoJobIs DEF Upkeep!StartJob, Job
  <1> QED  BY <1>1, <1>2, JobMoves DEF Upkeep!StartJob

LEMMA RemovableIs ==
    \A found, kept, cutoff : \A e \in Upkeep!Removable(found, kept, cutoff) :
        e \in found /\ e[1] \notin kept /\ e[2] < cutoff
  BY DEF Upkeep!Removable

LEMMA ListObjectsKeeps == ASSUME UpkeepInv, Upkeep!ListObjects PROVE UpkeepInv'
  <1> DEFINE kept == Upkeep!Protected(job.seen)
             doomed == Upkeep!Removable(objects, kept, job.at - MinAge)
  <1>1. job \in Job /\ job.pc = "list" /\ job.seen \in 1..Top /\ job.at <= clock
    BY DEF Upkeep!ListObjects, UpkeepInv, Deleting, Job
  <1>2. kept \subseteq Object
    BY <1>1, ProtectedType DEF UpkeepInv
  <1>3. doomed \subseteq objects /\ \A e \in doomed : e[2] < job.at - MinAge
    BY RemovableIs
  <1>4. objects \subseteq Object \X Nat
    BY DEF UpkeepInv, Stored
  <1>5. job' = [job EXCEPT !.pc = "reload", !.protected = kept, !.doomed = doomed]
    BY DEF Upkeep!ListObjects
  <1> HIDE DEF kept, doomed
  <1>6. job' \in Job /\ job'.pc = "reload" /\ job'.seen = job.seen /\ job'.at = job.at
        /\ job'.doomed = doomed
    BY <1>1, <1>2, <1>3, <1>4, <1>5 DEF Job
  <1> QED  BY <1>1, <1>3, <1>6, JobMoves DEF Upkeep!ListObjects

LEMMA ReloadTableKeeps == ASSUME UpkeepInv, Upkeep!ReloadTable PROVE UpkeepInv'
  <1> DEFINE kept == job.protected \cup Upkeep!Protected(catalog)
             doomed == Upkeep!Removable(job.doomed, kept, job.at - MinAge)
  <1>1. job \in Job /\ job.at <= clock /\ job.doomed \subseteq objects
    BY DEF UpkeepInv, Deleting, Job
  <1>2. catalog = Top /\ Top \in Nat /\ Top \in 1..Top
    BY DEF Upkeep!ReloadTable, UpkeepInv, UpkeepTables
  <1>3. kept \subseteq Object
    BY <1>1, <1>2, ProtectedType DEF UpkeepInv, Job
  <1>4. doomed \subseteq job.doomed /\ \A e \in doomed : e[2] < job.at - MinAge
    BY RemovableIs
  <1>5. \A e \in doomed : e[1] \notin Upkeep!Protected(Top)
    BY <1>2, RemovableIs
  <1>6. job' = [job EXCEPT !.pc = "delete", !.seen = catalog, !.protected = kept,
                           !.doomed = doomed]
    BY DEF Upkeep!ReloadTable
  <1> HIDE DEF kept, doomed
  <1>7. job' \in Job /\ job'.seen = Top /\ job'.at = job.at /\ job'.doomed = doomed
    BY <1>1, <1>2, <1>3, <1>4, <1>6 DEF Job
  <1> QED  BY <1>1, <1>2, <1>4, <1>5, <1>7, JobMoves DEF Upkeep!ReloadTable

LEMMA TableGoneKeeps == ASSUME UpkeepInv, Upkeep!TableGone PROVE UpkeepInv'
  BY JobEnds DEF Upkeep!TableGone, Upkeep!Fails

(* What is written by an append under way is too young to be deleted.        *)
LEMMA TooYoung ==
    ASSUME UpkeepInv, Upkeep!MaintenanceAssumption, writer # Upkeep!NoAppend, NEW e \in job.doomed
    PROVE  e[1] \notin {Upkeep!Data(writer.n), Upkeep!List(writer.n)}
  <1>1. e \in objects /\ e[2] < job.at - MinAge /\ job.at <= clock
    BY DEF UpkeepInv, Deleting
  <1>2. clock <= writer.at + CommitDelay /\ CommitDelay < MinAge
    BY DEF UpkeepInv, Appending, Upkeep!MaintenanceAssumption
  <1>3. /\ e[2] \in Nat /\ job.at \in Nat /\ clock \in Nat /\ writer.at \in Nat
        /\ CommitDelay \in Nat /\ MinAge \in Nat
    BY <1>1 DEF UpkeepInv, Stored, Deleting, Appending, UpkeepTables, Upkeep!MaintenanceAssumption
  <1>4. e[2] < writer.at
    BY <1>1, <1>2, <1>3
  <1>5. ~(writer.at <= e[2])
    BY <1>3, <1>4
  <1> QED  BY <1>1, <1>5 DEF UpkeepInv, Appending

LEMMA DeleteObjectsKeeps ==
    ASSUME UpkeepInv, Upkeep!MaintenanceAssumption, Upkeep!DeleteObjects PROVE UpkeepInv'
  <1>1. PICK gone \in SUBSET job.doomed : objects' = objects \ gone
    BY DEF Upkeep!DeleteObjects
  <1>2. job.pc = "delete" /\ job' = Upkeep!NoJob
        /\ UNCHANGED <<clock, metadata, catalog, writer, reader, appends, replaced>>
    BY DEF Upkeep!DeleteObjects
  <1>3. clock' = clock /\ clock \in Nat /\ mishaps' \in 0..UpkeepFaults
    BY DEF Upkeep!DeleteObjects, UpkeepInv, UpkeepTables, Upkeep!MaintenanceAssumption
  <1>4. Top' = Top /\ Upkeep!Versioned' = Upkeep!Versioned /\ Upkeep!Protected(Top)' = Upkeep!Protected(Top)
        /\ Top \in Nat /\ Top <= Top
    BY <1>2 DEF Top, Upkeep!Versioned, Upkeep!Protected, UpkeepInv, UpkeepTables
  <1>5. UpkeepTables'
    BY <1>2, <1>3, <1>4 DEF UpkeepInv, UpkeepTables
  <1>6. Upkeep!Present' \subseteq Upkeep!Present /\ objects' \subseteq objects
    BY <1>1 DEF Upkeep!Present
  <1>7. Stored'
    BY <1>2, <1>3, <1>4, <1>6 DEF UpkeepInv, Stored
  <1>8. \A o : o \in Upkeep!Present /\ (\A e \in job.doomed : e[1] # o) => o \in Upkeep!Present'
    BY <1>1 DEF Upkeep!Present
  <1>9. Whole'
    BY <1>2, <1>4, <1>8 DEF UpkeepInv, Whole, Deleting
  <1>10. Appending'
    BY <1>2, <1>4, <1>6, <1>8, AppendingKeeps, TooYoung
  <1>11. Deleting' /\ Scanning'
    BY <1>2, <1>3, NoJobKeeps, ScanningKeeps
  <1> QED  BY <1>5, <1>7, <1>9, <1>10, <1>11 DEF UpkeepInv

-----------------------------------------------------------------------------
(* Objects are added. *)

LEMMA WroteIs ==
    ASSUME UpkeepInv, NEW new, new \subseteq Object, objects' = Upkeep!Wrote(new)
    PROVE  /\ objects \subseteq objects' /\ objects' \subseteq Object \X (0..clock)
           /\ Upkeep!Present' = Upkeep!Present \cup new
           /\ \A e \in objects' : e \in objects \/ (e[1] \in new /\ e[2] = clock)
  <1>1. clock \in 0..clock /\ clock \in Nat
    BY DEF UpkeepInv, UpkeepTables
  <1>2. objects' = objects \cup {<<o, clock>> : o \in new}
    BY DEF Upkeep!Wrote
  <1>3. Upkeep!Present' = Upkeep!Present \cup new
    <2>1. \A e \in objects' : e \in objects \/ e[1] \in new
      BY <1>2
    <2>2. \A e \in objects : e \in objects'
      BY <1>2
    <2>3. \A o \in new : <<o, clock>> \in objects' /\ <<o, clock>>[1] = o
      BY <1>2
    <2>4. \A o \in new : o \in Upkeep!Present'
      BY <2>3 DEF Upkeep!Present
    <2> QED  BY <2>1, <2>2, <2>4 DEF Upkeep!Present
  <1> QED  BY <1>1, <1>2, <1>3 DEF UpkeepInv, Stored

LEMMA BeginAppendKeeps ==
    ASSUME UpkeepInv, Upkeep!MaintenanceAssumption, Upkeep!BeginAppend PROVE UpkeepInv'
  <1> DEFINE n == appends + 1
             new == {Upkeep!Data(n), Upkeep!List(n)}
  <1>1. /\ appends \in Nat /\ n \in Nat /\ appends' = n /\ appends' \in 0..AppendLimit
        /\ clock \in Nat /\ clock' = clock /\ catalog = Top /\ Top \in Nat /\ Top \in 1..Top
    BY DEF Upkeep!BeginAppend, UpkeepInv, UpkeepTables, Upkeep!MaintenanceAssumption
  <1>2. /\ writer' = [n |-> n, at |-> clock, seen |-> catalog] /\ objects' = Upkeep!Wrote(new)
        /\ UNCHANGED <<clock, metadata, catalog, job, reader, replaced, mishaps>>
    BY DEF Upkeep!BeginAppend
  <1>3. new \subseteq Object
    BY <1>1, ObjectIs
  <1>4. /\ objects \subseteq objects' /\ objects' \subseteq Object \X (0..clock)
        /\ Upkeep!Present' = Upkeep!Present \cup new
        /\ \A e \in objects' : e \in objects \/ (e[1] \in new /\ e[2] = clock)
    BY <1>2, <1>3, WroteIs
  <1>5. Top' = Top /\ Upkeep!Versioned' = Upkeep!Versioned /\ Upkeep!Protected(Top)' = Upkeep!Protected(Top)
    BY <1>2 DEF Top, Upkeep!Versioned, Upkeep!Protected
  <1>6. \A v \in 1..Top : WellFormed(metadata[v], v, n)
    BY <1>1 DEF UpkeepInv, UpkeepTables, WellFormed
  <1>7. UpkeepTables'
    BY <1>1, <1>2, <1>5, <1>6 DEF UpkeepInv, UpkeepTables
  <1>8. Stored'
    <2>1. \A v \in Nat : Upkeep!Metadata(v) \notin new
      BY ObjectsDiffer
    <2>2. \A k \in Nat : Upkeep!Data(k) \in new \/ Upkeep!List(k) \in new => k = n
      BY ObjectsDiffer
    <2> HIDE DEF new
    <2>3. \A v \in Nat : Upkeep!Metadata(v) \in Upkeep!Present' => v \in 1..Top'
      BY <1>4, <1>5, <2>1 DEF UpkeepInv, Stored
    <2>4. \A k \in Nat : Upkeep!Data(k) \in Upkeep!Present' \/ Upkeep!List(k) \in Upkeep!Present' => k \in 1..appends'
      BY <1>1, <1>4, <2>2 DEF UpkeepInv, Stored
    <2> QED  BY <1>1, <1>4, <2>3, <2>4 DEF Stored
  <1>9. Whole'
    BY <1>4, <1>5 DEF UpkeepInv, Whole
  <1>10. Appending'
    <2>1. n \in 1..appends' /\ clock <= clock + CommitDelay
      BY <1>1 DEF Upkeep!MaintenanceAssumption
    <2>2. Upkeep!Data(n) \notin Upkeep!Present /\ Upkeep!List(n) \notin Upkeep!Present
      BY <1>1 DEF UpkeepInv, Stored
    <2>3. \A e \in objects' : e[1] \in new => e[2] = clock
      BY <1>4, <2>2 DEF Upkeep!Present
    <2>4. /\ writer' \in [n: Nat, at: Nat, seen: Nat]
          /\ writer'.n = n /\ writer'.at = clock /\ writer'.seen \in 1..Top'
      BY <1>1, <1>2, <1>5
    <2>5. Upkeep!Data(n) \in Upkeep!Present' /\ Upkeep!List(n) \in Upkeep!Present'
      BY <1>4
    <2> HIDE DEF n
    <2>6. clock <= clock
      BY <1>1
    <2> QED  BY <1>1, <2>1, <2>3, <2>4, <2>5, <2>6 DEF Appending
  <1>11. Deleting'
    BY <1>1, <1>2, <1>4, <1>5, DeletingKeeps DEF UpkeepInv, Deleting
  <1>12. Scanning'
    <2>1. reader' = reader /\ metadata' = metadata /\ replaced' = replaced
          /\ Later(reader.snapshot)' = Later(reader.snapshot)
      BY <1>2, <1>5 DEF Later
    <2>2. reader.snapshot <= appends'
      BY <1>1 DEF UpkeepInv, Scanning
    <2> QED  BY <1>5, <2>1, <2>2 DEF UpkeepInv, Scanning
  <1> QED  BY <1>7, <1>8, <1>9, <1>10, <1>11, <1>12 DEF UpkeepInv

-----------------------------------------------------------------------------
(* A new version. *)

LEMMA WellFormedGrows ==
    ASSUME NEW m, NEW v, NEW n \in Nat, NEW k \in Nat, n <= k, WellFormed(m, v, n)
    PROVE  WellFormed(m, v, k)
  BY DEF WellFormed

LEMMA NewVersion ==
    ASSUME UpkeepInv, NEW m,
           NEW v, v = Top + 1, WellFormed(m, v, appends), Needs(m) \subseteq Upkeep!Present,
           metadata' = [u \in Upkeep!Versioned \cup {v} |-> IF u \in Upkeep!Versioned THEN metadata[u] ELSE m],
           catalog' = v, objects' = Upkeep!Wrote({Upkeep!Metadata(v)}),
           UNCHANGED <<clock, appends, mishaps>>, replaced' \in BOOLEAN
    PROVE  /\ UpkeepTables' /\ Stored' /\ Whole' /\ Top' = v
           /\ objects \subseteq objects' /\ Upkeep!Present \subseteq Upkeep!Present'
           /\ metadata'[v] = m /\ \A u \in 1..Top : metadata'[u] = metadata[u]
           /\ \A e \in objects' : e \in objects \/ e[1] = Upkeep!Metadata(v)
           /\ Upkeep!Protected(Top)' = {Upkeep!Metadata(v)} \cup Needs(m)
  <1>1. /\ Top \in Nat \ {0} /\ Upkeep!Versioned = 1..Top /\ v \in Nat \ {0} /\ v \notin Upkeep!Versioned
        /\ clock \in Nat
    BY DEF UpkeepInv, UpkeepTables
  <1>2. Upkeep!Versioned' = 1..v
    <2>1. Upkeep!Versioned' = Upkeep!Versioned \cup {v}
      BY DEF Upkeep!Versioned
    <2> QED  BY <1>1, <2>1
  <1>3. Top' = v
    BY <1>1, <1>2, MaxOfInterval DEF Top
  <1>4. metadata'[v] = m /\ \A u \in 1..Top : metadata'[u] = metadata[u]
    BY <1>1
  <1>5. \A u \in 1..v : WellFormed(metadata'[u], u, appends)
    <2>1. \A u \in 1..v : u = v \/ u \in 1..Top
      BY <1>1
    <2> QED  BY <1>4, <2>1 DEF UpkeepInv, UpkeepTables
  <1>6. UpkeepTables'
    BY <1>1, <1>2, <1>3, <1>5 DEF UpkeepInv, UpkeepTables
  <1>7. Upkeep!Metadata(v) \in Object
    BY <1>1, ObjectIs
  <1>8. /\ objects \subseteq objects' /\ objects' \subseteq Object \X (0..clock)
        /\ Upkeep!Present' = Upkeep!Present \cup {Upkeep!Metadata(v)}
        /\ \A e \in objects' : e \in objects \/ e[1] = Upkeep!Metadata(v)
    <2> DEFINE new == {Upkeep!Metadata(v)}
    <2>1. new \subseteq Object /\ objects' = Upkeep!Wrote(new)
      BY <1>7
    <2> HIDE DEF new
    <2>2. /\ objects \subseteq objects' /\ objects' \subseteq Object \X (0..clock)
          /\ Upkeep!Present' = Upkeep!Present \cup new
          /\ \A e \in objects' : e \in objects \/ (e[1] \in new /\ e[2] = clock)
      BY <2>1, WroteIs
    <2> QED  BY <2>2 DEF new
  <1>9. Stored'
    <2>1. \A u \in Nat : Upkeep!Metadata(u) \in Upkeep!Present' => u \in 1..Top'
      BY <1>1, <1>3, <1>8, ObjectsDiffer DEF UpkeepInv, Stored
    <2>2. \A n \in Nat : Upkeep!Data(n) \in Upkeep!Present' \/ Upkeep!List(n) \in Upkeep!Present' => n \in 1..appends'
      BY <1>8, ObjectsDiffer DEF UpkeepInv, Stored
    <2> QED  BY <1>8, <2>1, <2>2 DEF Stored
  <1>10. Upkeep!Protected(Top)' = {Upkeep!Metadata(v)} \cup Needs(m)
    <2>1. Upkeep!Protected(Top)' = {Upkeep!Metadata(v)} \cup {Upkeep!Metadata(u) : u \in m.history} \cup Upkeep!ReachedBy(m)
      BY <1>3, <1>4 DEF Upkeep!Protected
    <2> QED  BY <2>1 DEF Needs
  <1>11. Whole'
    BY <1>8, <1>10 DEF Whole
  <1> QED  BY <1>3, <1>4, <1>6, <1>8, <1>9, <1>10, <1>11

(* The history of a new version is of versions that were needed. *)
LEMMA HistoryNeeded ==
    ASSUME UpkeepInv, catalog = Top, NEW k
    PROVE  /\ Upkeep!Newest(Upkeep!Current.history \cup {catalog}, k) \subseteq 1..Top
           /\ \A u \in Upkeep!Newest(Upkeep!Current.history \cup {catalog}, k) : Upkeep!Metadata(u) \in Upkeep!Protected(Top)
  <1>1. Top \in Nat \ {0} /\ Upkeep!Current = metadata[Top] /\ Upkeep!Current.history \subseteq 1..(Top - 1)
    BY DEF UpkeepInv, UpkeepTables, WellFormed, Upkeep!Current
  <1>2. Upkeep!Newest(Upkeep!Current.history \cup {catalog}, k) \subseteq Upkeep!Current.history \cup {Top}
    BY NewestIn
  <1>3. \A u \in Upkeep!Current.history \cup {Top} : u \in 1..Top /\ Upkeep!Metadata(u) \in Upkeep!Protected(Top)
    BY <1>1, ProtectedIs DEF Needs
  <1> QED  BY <1>2, <1>3

LEMMA CommitIs ==
    ASSUME UpkeepInv, Upkeep!MaintenanceAssumption, catalog # Upkeep!Lost, NEW snapshots, NEW data,
           Upkeep!Commit(snapshots, data),
           snapshots \in SUBSET [id: Nat, time: Nat], data \subseteq 1..appends,
           {s.id : s \in snapshots} \subseteq data,
           \A d \in data : \E s \in {s.id : s \in snapshots} : d <= s
    PROVE  \E m : /\ m.snapshots = snapshots /\ m.data = data
                  /\ WellFormed(m, Top + 1, appends)
                  /\ metadata' = [u \in Upkeep!Versioned \cup {Top + 1} |->
                                     IF u \in Upkeep!Versioned THEN metadata[u] ELSE m]
                  /\ catalog' = Top + 1 /\ catalog = Top
                  /\ Needs(m) \subseteq Upkeep!Protected(Top) \cup Upkeep!ReachedBy(m)
  <1> DEFINE m == [time |-> clock, snapshots |-> snapshots, data |-> data,
                   history |-> Upkeep!Newest(Upkeep!Current.history \cup {catalog}, Versions)]
  <1>1. catalog = Top /\ Top \in Nat \ {0} /\ clock \in Nat /\ appends \in Nat
    BY DEF UpkeepInv, UpkeepTables
  <1>2. /\ m.history \subseteq 1..Top
        /\ \A u \in m.history : Upkeep!Metadata(u) \in Upkeep!Protected(Top)
    BY <1>1, HistoryNeeded
  <1>3. m.snapshots = snapshots /\ m.data = data /\ Upkeep!Snapshots(m) = {s.id : s \in snapshots}
    BY DEF Upkeep!Snapshots
  <1>4. m \in Meta
    <2>1. snapshots \in SUBSET [id: Nat, time: Nat] /\ data \in SUBSET Nat
      BY <1>1
    <2>2. Upkeep!Newest(Upkeep!Current.history \cup {catalog}, Versions) \in SUBSET Nat
      <3>1. Upkeep!Newest(Upkeep!Current.history \cup {catalog}, Versions) \subseteq 1..Top
        BY <1>1, HistoryNeeded
      <3> QED  BY <1>1, <3>1
    <2> QED  BY <1>1, <2>1, <2>2 DEF Meta
  <1>5. /\ metadata' = [u \in Upkeep!Versioned \cup {Top + 1} |->
                           IF u \in Upkeep!Versioned THEN metadata[u] ELSE m]
        /\ catalog' = Top + 1
    BY DEF Upkeep!Commit, Top
  <1> HIDE DEF m
  <1>6. WellFormed(m, Top + 1, appends)
    <2>1. (Top + 1) - 1 = Top
      BY <1>1
    <2>2. m.data \subseteq 1..appends /\ Upkeep!Snapshots(m) \subseteq m.data
      BY <1>3
    <2>3. \A d \in m.data : \E s \in Upkeep!Snapshots(m) : d <= s
      BY <1>3
    <2> QED  BY <1>2, <1>4, <2>1, <2>2, <2>3 DEF WellFormed
  <1>7. Needs(m) \subseteq Upkeep!Protected(Top) \cup Upkeep!ReachedBy(m)
    BY <1>2 DEF Needs
  <1> QED  BY <1>1, <1>3, <1>5, <1>6, <1>7

LEMMA CommitAppendKeeps ==
    ASSUME UpkeepInv, Upkeep!MaintenanceAssumption, Upkeep!CommitAppend PROVE UpkeepInv'
  <1> DEFINE n == writer.n
             snapshots == Upkeep!Current.snapshots \cup {[id |-> n, time |-> clock]}
             data == Upkeep!Current.data \cup {n}
  <1>1. /\ writer # Upkeep!NoAppend /\ n \in 1..appends /\ catalog = Top /\ catalog # Upkeep!Lost
        /\ Upkeep!Data(n) \in Upkeep!Present /\ Upkeep!List(n) \in Upkeep!Present
        /\ Top \in Nat \ {0} /\ appends \in Nat /\ clock \in Nat
    BY DEF Upkeep!CommitAppend, UpkeepInv, Appending, UpkeepTables, Upkeep!Lost
  <1>2. Upkeep!Current = metadata[Top] /\ WellFormed(Upkeep!Current, Top, appends)
    BY <1>1 DEF Upkeep!Current, UpkeepInv, UpkeepTables
  <1>3. {s.id : s \in snapshots} = Upkeep!Snapshots(Upkeep!Current) \cup {n}
    <2>1. \A s \in snapshots : s \in Upkeep!Current.snapshots \/ s.id = n
      OBVIOUS
    <2>2. [id |-> n, time |-> clock] \in snapshots /\ [id |-> n, time |-> clock].id = n
          /\ Upkeep!Current.snapshots \subseteq snapshots
      OBVIOUS
    <2> HIDE DEF snapshots
    <2>3. n \in {s.id : s \in snapshots}
      BY <2>2
    <2> QED  BY <2>1, <2>2, <2>3 DEF Upkeep!Snapshots
  <1>4. snapshots \in SUBSET [id: Nat, time: Nat] /\ data \subseteq 1..appends
    BY <1>1, <1>2 DEF WellFormed, Meta
  <1>5. /\ {s.id : s \in snapshots} \subseteq data
        /\ \A d \in data : \E s \in {s.id : s \in snapshots} : d <= s
    <2>1. /\ Upkeep!Snapshots(Upkeep!Current) \subseteq Upkeep!Current.data
          /\ \A d \in Upkeep!Current.data : \E s \in Upkeep!Snapshots(Upkeep!Current) : d <= s
      BY <1>2 DEF WellFormed
    <2>2. n \in Nat /\ n <= n
      BY <1>1
    <2> HIDE DEF n, snapshots
    <2> QED  BY <1>3, <2>1, <2>2
  <1>6. Upkeep!Commit(snapshots, data)
    BY DEF Upkeep!CommitAppend
  <1> HIDE DEF snapshots, data
  <1>7. PICK m : /\ m.snapshots = snapshots /\ m.data = data
                 /\ WellFormed(m, Top + 1, appends)
                 /\ metadata' = [u \in Upkeep!Versioned \cup {Top + 1} |->
                                    IF u \in Upkeep!Versioned THEN metadata[u] ELSE m]
                 /\ catalog' = Top + 1
                 /\ Needs(m) \subseteq Upkeep!Protected(Top) \cup Upkeep!ReachedBy(m)
    BY <1>1, <1>4, <1>5, <1>6, CommitIs
  <1>8. Upkeep!Snapshots(m) = Upkeep!Snapshots(Upkeep!Current) \cup {n} /\ m.data = Upkeep!Current.data \cup {n}
    BY <1>3, <1>7 DEF Upkeep!Snapshots, data
  <1>9. Upkeep!ReachedBy(m) \subseteq Upkeep!Protected(Top) \cup {Upkeep!Data(n), Upkeep!List(n)}
    <2> SUFFICES ASSUME NEW o \in Upkeep!ReachedBy(m), o # Upkeep!Data(n), o # Upkeep!List(n)
                 PROVE  o \in Upkeep!ReachedBy(Upkeep!Current)
      BY <1>2, ProtectedIs DEF Needs
    <2>1. PICK s \in Upkeep!Snapshots(m) : o = Upkeep!List(s) \/ \E d \in m.data : d <= s /\ o = Upkeep!Data(d)
      BY ReachedIs
    <2>2. CASE o = Upkeep!List(s)
      BY <1>8, <2>2, ReachedIs
    <2>3. CASE \E d \in m.data : d <= s /\ o = Upkeep!Data(d)
      <3>1. PICK d \in m.data : o = Upkeep!Data(d)
        BY <2>3
      <3>2. d \in Upkeep!Current.data
        BY <1>8, <3>1
      <3>3. PICK t \in Upkeep!Snapshots(Upkeep!Current) : d <= t
        BY <1>2, <3>2 DEF WellFormed
      <3> QED  BY <3>1, <3>2, <3>3, ReachedIs
    <2> QED  BY <2>1, <2>2, <2>3
  <1>10. Needs(m) \subseteq Upkeep!Protected(Top) \cup {Upkeep!Data(n), Upkeep!List(n)}
    BY <1>7, <1>9
  <1>11. Needs(m) \subseteq Upkeep!Present
    BY <1>1, <1>10 DEF UpkeepInv, Whole
  <1>12. /\ objects' = Upkeep!Wrote({Upkeep!Metadata(Top + 1)}) /\ writer' = Upkeep!NoAppend
         /\ UNCHANGED <<clock, job, reader, appends, replaced, mishaps>> /\ replaced' \in BOOLEAN
    BY <1>7 DEF Upkeep!CommitAppend, UpkeepInv, UpkeepTables
  <1>13. /\ UpkeepTables' /\ Stored' /\ Whole' /\ Top' = Top + 1
         /\ objects \subseteq objects' /\ metadata'[Top + 1] = m
         /\ \A u \in 1..Top : metadata'[u] = metadata[u]
         /\ Upkeep!Protected(Top)' = {Upkeep!Metadata(Top + 1)} \cup Needs(m)
    BY <1>7, <1>11, <1>12, NewVersion
  <1>14. Deleting'
    <2>1. ASSUME job.pc = "delete", NEW e \in job.doomed
          PROVE  e[1] \notin {Upkeep!Metadata(Top + 1)} \cup Needs(m)
      <3>1. e[1] \notin Upkeep!Protected(Top) /\ e[1] \notin {Upkeep!Data(n), Upkeep!List(n)}
        BY <1>1, <2>1, TooYoung DEF UpkeepInv, Deleting
      <3>2. e[1] # Upkeep!Metadata(Top + 1)
        <4>1. e[1] \in Upkeep!Present
          BY PresentIs DEF UpkeepInv, Deleting
        <4> QED  BY <1>1, <4>1 DEF UpkeepInv, Stored
      <3> QED  BY <1>10, <3>1, <3>2
    <2> QED  BY <1>1, <1>12, <1>13, <2>1, DeletingKeeps
  <1>15. Scanning'
    <2> DEFINE s == reader.snapshot
    <2>1. reader' = reader /\ replaced' = replaced /\ appends' = appends
      BY <1>12
    <2>2. metadata[Top].data \subseteq metadata'[Top'].data
          /\ Upkeep!Snapshots(metadata[Top]) \subseteq Upkeep!Snapshots(metadata'[Top'])
      BY <1>2, <1>8, <1>13
    <2>3. s \in Nat /\ metadata'[Top'].data \subseteq 0..appends
      BY <1>1, <1>2, <1>8, <1>13 DEF UpkeepInv, Scanning, WellFormed
    <2>4. Upkeep!Cardinality(Later(s)) <= Upkeep!Cardinality(Later(s)') /\ Upkeep!Cardinality(Later(s)) \in Nat
          /\ Upkeep!Cardinality(Later(s)') \in Nat
      <3>1. Later(s)' = {d \in metadata'[Top'].data : d > s}
        BY <2>1 DEF Later
      <3>2. Later(s) \subseteq 0..appends /\ Later(s)' \subseteq 0..appends
        BY <2>2, <2>3, <3>1 DEF Later
      <3>3. Upkeep!Cardinality(Later(s)) <= Upkeep!Cardinality(Later(s)')
        BY <1>1, <2>2, <2>3, <3>1, MoreLater DEF Later
      <3> QED  BY <1>1, <3>2, <3>3, CardinalityType
    <2>5. reader.begun \in 1..Top => reader.begun \in 1..Top'
          /\ metadata'[reader.begun] = metadata[reader.begun]
      BY <1>1, <1>13
    <2>6. MinimumToKeep \in Nat
      BY DEF Upkeep!MaintenanceAssumption
    <2>7. Upkeep!Cardinality(Later(s)') < MinimumToKeep => Upkeep!Cardinality(Later(s)) < MinimumToKeep
      BY <2>4, <2>6
    <2> HIDE DEF s
    <2> QED  BY <2>1, <2>2, <2>5, <2>7 DEF UpkeepInv, Scanning, s
  <1> QED  BY <1>12, <1>13, <1>14, <1>15, NoAppendKeeps DEF UpkeepInv

(* No object of a version to come is marked. *)
LEMMA SparesNext ==
    ASSUME UpkeepInv, NEW e \in job.doomed
    PROVE  e[1] # Upkeep!Metadata(Top + 1)
  <1>1. e[1] \in Upkeep!Present /\ Top \in Nat
    BY PresentIs DEF UpkeepInv, Deleting, UpkeepTables
  <1> QED  BY <1>1 DEF UpkeepInv, Stored

LEMMA CreateTableKeeps == ASSUME UpkeepInv, Upkeep!CreateTable PROVE UpkeepInv'
  <1> DEFINE v == Top + 1
             m == [time |-> clock, snapshots |-> {}, data |-> {}, history |-> {}]
  <1>1. Top \in Nat \ {0} /\ clock \in Nat /\ v \in Nat
    BY DEF UpkeepInv, UpkeepTables
  <1>2. /\ metadata' = [u \in Upkeep!Versioned \cup {v} |-> IF u \in Upkeep!Versioned THEN metadata[u] ELSE m]
        /\ catalog' = v /\ objects' = Upkeep!Wrote({Upkeep!Metadata(v)}) /\ replaced' = TRUE
        /\ UNCHANGED <<clock, writer, job, reader, appends, mishaps>> /\ writer = Upkeep!NoAppend
    BY DEF Upkeep!CreateTable, Top
  <1>3. m \in Meta /\ m.history = {} /\ m.data = {} /\ Upkeep!Snapshots(m) = {}
    BY <1>1 DEF Meta, Upkeep!Snapshots
  <1> HIDE DEF m
  <1>4. WellFormed(m, v, appends)
    BY <1>3 DEF WellFormed
  <1>5. Needs(m) = {}
    BY <1>3, ReachedIs DEF Needs
  <1>6. /\ UpkeepTables' /\ Stored' /\ Whole' /\ Top' = v /\ objects \subseteq objects'
        /\ Upkeep!Protected(Top)' = {Upkeep!Metadata(v)} \cup Needs(m)
    BY <1>2, <1>4, <1>5, NewVersion
  <1>7. Deleting'
    <2>1. \A e \in job.doomed : e[1] \notin Upkeep!Protected(Top)'
      BY <1>5, <1>6, SparesNext
    <2>2. clock' \in Nat /\ clock <= clock' /\ Top' \in Nat /\ Top <= Top' /\ job' = job
      BY <1>1, <1>2, <1>6
    <2> QED  BY <1>6, <2>1, <2>2, DeletingKeeps
  <1>8. Scanning'
    <2>1. 1..Top \subseteq 1..Top'
      BY <1>1, <1>6
    <2> QED  BY <1>2, <2>1 DEF UpkeepInv, Scanning
  <1> QED  BY <1>2, <1>6, <1>7, <1>8, NoAppendKeeps DEF UpkeepInv

(* What is retained: the newest snapshot, and one with few after it. *)
LEMMA ExpireSpares ==
    ASSUME NEW m, m \in Meta,
           NEW s \in Upkeep!Snapshots(m), s \in Upkeep!Newest(Upkeep!Snapshots(m), MinimumToKeep)
    PROVE  s \in {r.id : r \in m.snapshots \ Upkeep!ToExpire(m)}
  <1>1. PICK r \in m.snapshots : r.id = s
    BY DEF Upkeep!Snapshots
  <1>2. r \notin Upkeep!ToExpire(m)
    BY <1>1 DEF Upkeep!ToExpire
  <1> QED  BY <1>1, <1>2

LEMMA ExpireKeeps == ASSUME UpkeepInv, Upkeep!MaintenanceAssumption, Upkeep!Expire PROVE UpkeepInv'
  <1> DEFINE old == Upkeep!ToExpire(metadata[job.seen])
  <1>1. /\ job.pc = "expire" /\ job \in Job /\ job.seen \in 1..Top /\ job.at <= clock
        /\ job.doomed \subseteq objects /\ \A e \in job.doomed : e[2] < job.at - MinAge
        /\ UNCHANGED <<clock, writer, reader, appends, replaced, mishaps>>
    BY DEF Upkeep!Expire, UpkeepInv, Deleting, Job
  <1>2. CASE old = {}
    <2>1. job' = [job EXCEPT !.pc = "list"] /\ UNCHANGED <<metadata, catalog, objects>>
      BY <1>2 DEF Upkeep!Expire
    <2>2. job' \in Job /\ job'.pc = "list" /\ job'.at = job.at /\ job'.seen = job.seen
          /\ job'.doomed = job.doomed
      BY <1>1, <2>1 DEF Job
    <2> QED  BY <1>1, <2>1, <2>2, JobMoves
  <1>3. CASE old # {} /\ job.seen # catalog
    <2>1. job' = Upkeep!NoJob /\ UNCHANGED <<metadata, catalog, objects>>
      BY <1>3 DEF Upkeep!Expire, Upkeep!Fails
    <2> QED  BY <1>1, <2>1, JobEnds
  <1>4. CASE old # {} /\ job.seen = catalog
    <2> DEFINE snapshots == Upkeep!Current.snapshots \ old
               data == Upkeep!Current.data
               ids == {s.id : s \in snapshots}
    <2>1. /\ Upkeep!Commit(snapshots, data) /\ objects' = Upkeep!Wrote({Upkeep!Metadata(catalog')})
          /\ job' = [job EXCEPT !.pc = "list", !.seen = catalog']
      BY <1>4 DEF Upkeep!Expire
    <2>2. Top \in Nat \ {0} /\ appends \in Nat /\ clock \in Nat /\ catalog # Upkeep!Lost
          /\ catalog = Top /\ replaced \in BOOLEAN
      BY <1>1, <1>4 DEF UpkeepInv, UpkeepTables, Upkeep!Lost
    <2>3. Upkeep!Current = metadata[Top] /\ WellFormed(Upkeep!Current, Top, appends) /\ Upkeep!Current \in Meta
      BY <2>2 DEF Upkeep!Current, UpkeepInv, UpkeepTables, WellFormed
    <2>4. snapshots \in SUBSET [id: Nat, time: Nat] /\ ids \subseteq Upkeep!Snapshots(Upkeep!Current)
      BY <2>3 DEF Meta, Upkeep!Snapshots
    <2>5. Upkeep!Snapshots(Upkeep!Current) \subseteq data /\ data \subseteq 1..appends
      BY <2>3 DEF WellFormed
    <2>6. \A s \in Upkeep!Snapshots(Upkeep!Current) : s \in Upkeep!Newest(Upkeep!Snapshots(Upkeep!Current), MinimumToKeep) => s \in ids
      <3>1. snapshots = Upkeep!Current.snapshots \ Upkeep!ToExpire(Upkeep!Current)
        BY <1>4 DEF Upkeep!Current
      <3> QED  BY <2>3, <3>1, ExpireSpares
    <2>7. \A d \in data : \E s \in ids : d <= s
      <3> SUFFICES ASSUME NEW d \in data PROVE \E s \in ids : d <= s
        OBVIOUS
      <3> DEFINE S == Upkeep!Snapshots(Upkeep!Current)
                 x == Upkeep!Max(S)
      <3>1. PICK s \in S : d <= s
        BY <2>3 DEF WellFormed
      <3>2. S \subseteq 0..appends /\ S # {}
        BY <2>2, <2>5, <3>1
      <3>3. x \in S /\ \A y \in S : y <= x
        BY <2>2, <3>2, MaxIn
      <3>4. S \subseteq Nat
        BY <3>2
      <3> HIDE DEF S, x
      <3>5. x \in Upkeep!Newest(S, MinimumToKeep)
        BY <3>3, <3>4, GreatestIsNewest DEF Upkeep!MaintenanceAssumption
      <3>6. x \in ids
        BY <2>6, <3>3, <3>5 DEF S
      <3>7. d \in Nat /\ s \in Nat /\ x \in Nat /\ s <= x
        BY <2>2, <2>5, <3>1, <3>3, <3>4
      <3> QED  BY <3>1, <3>6, <3>7
    <2>8. ids \subseteq data
      BY <2>4, <2>5
    <2> HIDE DEF snapshots, data
    <2>9. PICK m : /\ m.snapshots = snapshots /\ m.data = data
                   /\ WellFormed(m, Top + 1, appends)
                   /\ metadata' = [u \in Upkeep!Versioned \cup {Top + 1} |->
                                      IF u \in Upkeep!Versioned THEN metadata[u] ELSE m]
                   /\ catalog' = Top + 1
                   /\ Needs(m) \subseteq Upkeep!Protected(Top) \cup Upkeep!ReachedBy(m)
      BY <2>1, <2>2, <2>4, <2>5, <2>7, <2>8, CommitIs DEF data
    <2>10. Upkeep!Snapshots(m) = ids /\ m.data = Upkeep!Current.data
      BY <2>9 DEF Upkeep!Snapshots, data
    <2>11. Upkeep!ReachedBy(m) \subseteq Upkeep!Protected(Top)
      <3>1. \A o \in Upkeep!ReachedBy(m) : o \in Upkeep!ReachedBy(Upkeep!Current)
        BY <2>4, <2>10, ReachedIs
      <3> QED  BY <2>3, <3>1, ProtectedIs DEF Needs
    <2>12. Needs(m) \subseteq Upkeep!Present
      BY <2>9, <2>11 DEF UpkeepInv, Whole
    <2>13. /\ objects' = Upkeep!Wrote({Upkeep!Metadata(Top + 1)}) /\ replaced' \in BOOLEAN
           /\ UNCHANGED <<clock, appends, mishaps>>
      BY <1>1, <2>1, <2>2, <2>9
    <2>14. /\ UpkeepTables' /\ Stored' /\ Whole' /\ Top' = Top + 1
           /\ objects \subseteq objects' /\ Upkeep!Present \subseteq Upkeep!Present'
           /\ metadata'[Top + 1] = m
           /\ \A u \in 1..Top : metadata'[u] = metadata[u]
           /\ \A e \in objects' : e \in objects \/ e[1] = Upkeep!Metadata(Top + 1)
      BY <2>9, <2>12, <2>13, NewVersion
    <2>15. Top' \in Nat /\ Top <= Top'
      BY <2>2, <2>14
    <2>16. Appending'
      BY <1>1, <2>14, <2>15, ObjectsDiffer, AppendingKeeps
    <2>17. Deleting'
      <3>1. job' \in Job /\ job'.pc = "list" /\ job'.at = job.at /\ job'.seen = Top'
            /\ job'.doomed = job.doomed
        <4>1. job' = [job EXCEPT !.pc = "list", !.seen = Top + 1] /\ Top + 1 \in Nat
          BY <2>1, <2>2, <2>9
        <4>2. job' \in Job /\ job'.pc = "list" /\ job'.at = job.at /\ job'.seen = Top + 1
              /\ job'.doomed = job.doomed
          BY <1>1, <4>1 DEF Job
        <4> QED  BY <2>14, <4>2
      <3>2. Top' \in 1..Top'
        BY <2>2, <2>14
      <3> QED  BY <1>1, <2>14, <3>1, <3>2 DEF Deleting, Job
    <2>18. Scanning'
      <3> DEFINE s == reader.snapshot
      <3>1. metadata'[Top'].data = metadata[Top].data /\ Upkeep!Snapshots(metadata'[Top']) = ids
        BY <2>3, <2>10, <2>14
      <3>2. Later(s)' = Later(s)
        BY <1>1, <3>1 DEF Later
      <3>3. reader.begun \in 1..Top => reader.begun \in 1..Top'
            /\ metadata'[reader.begun] = metadata[reader.begun]
        BY <2>2, <2>14
      <3>4. s \in Nat /\ appends \in Nat
        BY <2>2 DEF UpkeepInv, Scanning
      <3>5. ASSUME s \in Upkeep!Snapshots(metadata[Top]), Upkeep!Cardinality(Later(s)) < MinimumToKeep
            PROVE  s \in ids
        <4> DEFINE S == Upkeep!Snapshots(Upkeep!Current)
        <4>1. S \subseteq 0..appends /\ Upkeep!Current.data \subseteq 0..appends /\ S \subseteq Upkeep!Current.data
          BY <2>2, <2>3 DEF WellFormed
        <4>2. Upkeep!Cardinality({u \in S : u > s}) <= Upkeep!Cardinality({u \in Upkeep!Current.data : u > s})
          BY <3>4, <4>1, MoreLater
        <4>3. Later(s) = {u \in Upkeep!Current.data : u > s}
          BY <2>3 DEF Later
        <4>4. /\ Upkeep!Cardinality({u \in S : u > s}) \in Nat
              /\ Upkeep!Cardinality({u \in Upkeep!Current.data : u > s}) \in Nat
          <5>1. {u \in S : u > s} \subseteq 0..appends
                /\ {u \in Upkeep!Current.data : u > s} \subseteq 0..appends
            BY <4>1
          <5> QED  BY <3>4, <5>1, CardinalityType
        <4>5. MinimumToKeep \in Nat
          BY DEF Upkeep!MaintenanceAssumption
        <4>6. Upkeep!Cardinality({u \in S : u > s}) < MinimumToKeep
          BY <3>5, <4>2, <4>3, <4>4, <4>5
        <4>7. s \in Upkeep!Newest(S, MinimumToKeep)
          BY <2>3, <3>5, <4>6 DEF Upkeep!Newest
        <4> QED  BY <2>3, <2>6, <3>5, <4>7
      <3> HIDE DEF s, ids
      <3> QED  BY <1>1, <3>1, <3>2, <3>3, <3>5 DEF UpkeepInv, Scanning, s
    <2> QED  BY <2>14, <2>16, <2>17, <2>18 DEF UpkeepInv
  <1> QED  BY <1>2, <1>3, <1>4

-----------------------------------------------------------------------------
(* The invariant. *)

LEMMA UpkeepInvInit == Upkeep!MaintenanceAssumption /\ Upkeep!Init => UpkeepInv
  <1> SUFFICES ASSUME Upkeep!MaintenanceAssumption, Upkeep!Init PROVE UpkeepInv
    OBVIOUS
  <1> DEFINE m == [time |-> 0, snapshots |-> {}, data |-> {}, history |-> {}]
  <1>1. /\ clock = 0 /\ catalog = 1 /\ objects = {<<Upkeep!Metadata(1), 0>>} /\ metadata = <<m>>
        /\ writer = Upkeep!NoAppend /\ job = Upkeep!NoJob /\ reader = Upkeep!NoScan
        /\ appends = 0 /\ replaced = FALSE /\ mishaps = 0
    BY DEF Upkeep!Init
  <1>2. m \in Meta /\ m.history = {} /\ m.data = {} /\ Upkeep!Snapshots(m) = {}
    BY DEF Meta, Upkeep!Snapshots
  <1> HIDE DEF m
  <1>3. Upkeep!Versioned = 1..1 /\ metadata[1] = m
    BY <1>1 DEF Upkeep!Versioned
  <1>4. Top = 1
    BY <1>3, MaxOfInterval DEF Top
  <1>5. WellFormed(m, 1, 0)
    BY <1>2 DEF WellFormed
  <1>6. UpkeepTables
    <2>1. clock \in 0..ClockLimit /\ appends \in 0..AppendLimit /\ mishaps \in 0..UpkeepFaults
      BY <1>1 DEF Upkeep!MaintenanceAssumption
    <2>2. \A v \in 1..Top : WellFormed(metadata[v], v, appends)
      BY <1>1, <1>3, <1>4, <1>5
    <2>3. Top \in Nat \ {0} /\ Upkeep!Versioned = 1..Top /\ catalog = Top
      BY <1>1, <1>3, <1>4
    <2>4. replaced \in BOOLEAN
      <3>1. replaced = FALSE
        BY <1>1
      <3> QED  BY <3>1
    <2> QED  BY <2>1, <2>2, <2>3, <2>4 DEF UpkeepTables
  <1>7. Upkeep!Present = {Upkeep!Metadata(1)}
    <2>1. \A e \in objects : e[1] = Upkeep!Metadata(1)
      BY <1>1
    <2>2. <<Upkeep!Metadata(1), 0>> \in objects /\ <<Upkeep!Metadata(1), 0>>[1] = Upkeep!Metadata(1)
      BY <1>1
    <2> QED  BY <2>1, <2>2 DEF Upkeep!Present
  <1>8. Stored
    <2>1. objects \subseteq Object \X (0..clock)
      BY <1>1, ObjectIs
    <2> QED  BY <1>4, <1>7, <2>1, ObjectsDiffer DEF Stored
  <1>9. Whole
    <2>1. Needs(m) = {}
      BY <1>2, ReachedIs DEF Needs
    <2> QED  BY <1>3, <1>4, <1>7, <2>1, ProtectedIs DEF Whole
  <1>10. Appending
    BY <1>1 DEF Appending, Upkeep!NoAppend
  <1>11. Deleting
    BY <1>1 DEF Deleting, Upkeep!NoJob
  <1>12. Scanning
    BY <1>1 DEF Scanning, Upkeep!NoScan
  <1> QED  BY <1>6, <1>8, <1>9, <1>10, <1>11, <1>12 DEF UpkeepInv

LEMMA UpkeepInvStutter == UpkeepInv /\ UNCHANGED Upkeep!vars => UpkeepInv'
  <1> SUFFICES ASSUME UpkeepInv, UNCHANGED Upkeep!vars PROVE UpkeepInv'
    OBVIOUS
  <1>1. UNCHANGED <<metadata, objects, appends, replaced, clock, job, reader>>
        /\ writer' \in {writer, Upkeep!NoAppend} /\ mishaps' = mishaps /\ catalog' = catalog
    BY DEF Upkeep!vars
  <1>2. mishaps' \in 0..UpkeepFaults /\ catalog' \in {Upkeep!Lost, Top}
    BY <1>1 DEF UpkeepInv, UpkeepTables
  <1> QED  BY <1>1, <1>2, Quietly

LEMMA UpkeepInvNext ==
    Upkeep!MaintenanceAssumption /\ UpkeepInv /\ [Upkeep!Next]_Upkeep!vars => UpkeepInv'
  <1> SUFFICES ASSUME Upkeep!MaintenanceAssumption, UpkeepInv, [Upkeep!Next]_Upkeep!vars PROVE UpkeepInv'
    OBVIOUS
  <1>1. CASE Upkeep!Tick
    BY <1>1, TickKeeps
  <1>2. CASE Upkeep!BeginAppend
    BY <1>2, BeginAppendKeeps
  <1>3. CASE Upkeep!CommitAppend
    BY <1>3, CommitAppendKeeps
  <1>4. CASE Upkeep!AppendFails
    BY <1>4, AppendFailsKeeps
  <1>5. CASE Upkeep!CreateTable
    BY <1>5, CreateTableKeeps
  <1>6. CASE Upkeep!LoseCatalog
    BY <1>6, LoseCatalogKeeps
  <1>7. CASE Upkeep!RegisterMissing
    BY <1>7, RegisterMissingKeeps
  <1>8. CASE Upkeep!StartJob
    BY <1>8, StartJobKeeps
  <1>9. CASE Upkeep!Expire
    BY <1>9, ExpireKeeps
  <1>10. CASE Upkeep!ListObjects
    BY <1>10, ListObjectsKeeps
  <1>11. CASE Upkeep!ReloadTable
    BY <1>11, ReloadTableKeeps
  <1>12. CASE Upkeep!TableGone
    BY <1>12, TableGoneKeeps
  <1>13. CASE Upkeep!DeleteObjects
    BY <1>13, DeleteObjectsKeeps
  <1>14. CASE Upkeep!OpenSnapshot
    BY <1>14, OpenSnapshotKeeps
  <1>15. CASE Upkeep!EndScan
    BY <1>15, EndScanKeeps
  <1>16. CASE UNCHANGED Upkeep!vars
    BY <1>16, UpkeepInvStutter
  <1> QED
    BY <1>1, <1>2, <1>3, <1>4, <1>5, <1>6, <1>7, <1>8, <1>9, <1>10, <1>11, <1>12, <1>13,
       <1>14, <1>15, <1>16 DEF Upkeep!Next

LEMMA UpkeepInvariant == ASSUME Upkeep!MaintenanceAssumption PROVE Upkeep!Spec => []UpkeepInv
  <1>1. Upkeep!Init => UpkeepInv
    BY UpkeepInvInit
  <1>2. UpkeepInv /\ [Upkeep!Next]_Upkeep!vars => UpkeepInv'
    BY UpkeepInvNext
  <1> QED  BY <1>1, <1>2, PTL DEF Upkeep!Spec

LEMMA UpkeepInvSays ==
    UpkeepInv => Upkeep!TypeOK /\ Upkeep!TableIsReadable /\ Upkeep!ScanCanFinish
  <1>1. ASSUME UpkeepInv PROVE Upkeep!TypeOK
    <2>1. Top \in Nat /\ Top \in 1..Top /\ Upkeep!Versioned = 1..Top /\ catalog \in {Upkeep!Lost, Top}
          /\ clock \in 0..ClockLimit /\ appends \in 0..AppendLimit
          /\ replaced \in BOOLEAN /\ mishaps \in 0..UpkeepFaults
      BY <1>1 DEF UpkeepInv, UpkeepTables
    <2>2. Upkeep!Cardinality(1..Top) = Top
      <3>1. Upkeep!Cardinality(1..Top) = IF 1 > Top THEN 0 ELSE Top - 1 + 1
        BY <2>1, FS_Interval, UpkeepSize
      <3> QED  BY <2>1, <3>1
    <2>3. \A v \in Upkeep!Versioned : metadata[v].history \subseteq 1..(v - 1)
                                      /\ Upkeep!Snapshots(metadata[v]) \subseteq metadata[v].data
      BY <1>1, <2>1 DEF UpkeepInv, UpkeepTables, WellFormed
    <2>4. \A e \in objects : e[2] <= clock
      BY <1>1 DEF UpkeepInv, Stored
    <2>5. writer.n <= appends
      <3>1. writer = Upkeep!NoAppend => writer.n = 0
        BY DEF Upkeep!NoAppend
      <3>2. writer # Upkeep!NoAppend => writer.n \in 1..appends
        BY <1>1 DEF UpkeepInv, Appending
      <3> QED  BY <2>1, <3>1, <3>2
    <2>6. reader.snapshot <= appends
      BY <1>1 DEF UpkeepInv, Scanning
    <2>7. job.pc \in {"off", "expire", "list", "reload", "delete"}
      BY <1>1 DEF UpkeepInv, Deleting
    <2>8. appends <= AppendLimit
      BY <2>1
    <2> QED  BY <2>1, <2>2, <2>3, <2>4, <2>5, <2>6, <2>7, <2>8 DEF Upkeep!TypeOK
  <1>2. UpkeepInv => Upkeep!TableIsReadable
    BY DEF UpkeepInv, UpkeepTables, Whole, Upkeep!TableIsReadable, Top
  <1>3. ASSUME UpkeepInv PROVE Upkeep!ScanCanFinish
    <2> DEFINE s == reader.snapshot
    <2>1. SUFFICES ASSUME reader # Upkeep!NoScan, ~replaced, Upkeep!Cardinality(Later(s)) < MinimumToKeep
                   PROVE  Upkeep!Reaches(metadata[reader.begun], s) \subseteq Upkeep!Present
      BY DEF Upkeep!ScanCanFinish, Later, Top
    <2>2. s \in Upkeep!Snapshots(metadata[Top])
          /\ {d \in metadata[reader.begun].data : d <= s} \subseteq metadata[Top].data
      BY <1>3, <2>1 DEF UpkeepInv, Scanning
    <2>3. \A o \in Upkeep!Reaches(metadata[reader.begun], s) : o \in Upkeep!ReachedBy(metadata[Top])
      <3> TAKE o \in Upkeep!Reaches(metadata[reader.begun], s)
      <3>1. o = Upkeep!List(s) \/ \E d \in {d \in metadata[reader.begun].data : d <= s} : o = Upkeep!Data(d)
        BY DEF Upkeep!Reaches
      <3> HIDE DEF s
      <3> QED  BY <2>2, <3>1, ReachedIs
    <2>4. Upkeep!ReachedBy(metadata[Top]) \subseteq Upkeep!Present
      BY <1>3, ProtectedIs DEF UpkeepInv, Whole, Needs
    <2> QED  BY <2>3, <2>4
  <1> QED  BY <1>1, <1>2, <1>3

(* The versions are numbered without a gap, each names only versions and     *)
(* commits before it, and no object is from the future.                    *)
THEOREM UpkeepTypeCorrect ==
    ASSUME Upkeep!MaintenanceAssumption PROVE Upkeep!Spec => []Upkeep!TypeOK
  BY UpkeepInvSays, UpkeepInvariant, PTL

(* Whatever the writer commits beside the job, and wherever the job stops,   *)
(* what the job deletes is needed by no retained snapshot: the list was made *)
(* after the walk, a newer version is walked again, and what is not committed *)
(* yet is too young.                                                       *)
THEOREM TableStaysReadable ==
    ASSUME Upkeep!MaintenanceAssumption PROVE Upkeep!Spec => []Upkeep!TableIsReadable
  BY UpkeepInvSays, UpkeepInvariant, PTL

(* A scan can be finished as long as fewer commits than the floor of recent   *)
(* snapshots were made since it began, whatever the job has expired.        *)
THEOREM ScansCanFinish ==
    ASSUME Upkeep!MaintenanceAssumption PROVE Upkeep!Spec => []Upkeep!ScanCanFinish
  BY UpkeepInvSays, UpkeepInvariant, PTL

-----------------------------------------------------------------------------
(* ServingIndex. *)

(* From where a consumer reads on. *)
From(t) == IF committed[t] # Index!NoOffset THEN committed[t] ELSE baseline[t].low

IndexTypes ==
    /\ topic \in [Index!Topics -> Seq(Index!Message)] /\ topic \in IndexLogs
    /\ index \in {"none", "built"} /\ process \in {"down", "dropped", "up"}
    /\ mishaps \in 0..IndexFaults
    /\ arrived \in [Index!Topics -> Nat] /\ durable \in [Index!Topics -> Nat]
    /\ low \in [Index!Topics -> Nat]
    /\ shown \in [Index!Topics -> [Keys -> Nat]]
    /\ committed \in [Index!Topics -> {Index!NoOffset} \cup Nat]
    /\ thread \in [Index!Topics -> {"off", "assign", "poll", "apply", "commit", "failed"}]
    /\ polled \in [Index!Topics -> SUBSET Nat]
    /\ target \in [Index!Topics -> {Index!NoOffset} \cup Nat]
    /\ progress \in [Index!Topics -> {Index!NoOffset} \cup Nat]
    /\ caught \in [Index!Topics -> BOOLEAN] /\ baseline \in [Index!Topics -> [durable: Nat, low: Nat]]

Within(t) ==
    /\ low[t] <= durable[t] /\ durable[t] <= arrived[t] /\ arrived[t] <= Len(topic[t])
    /\ committed[t] <= arrived[t] /\ target[t] <= arrived[t] /\ progress[t] <= arrived[t]
    /\ polled[t] \subseteq 1..arrived[t]
    /\ \A k \in Keys : shown[t][k] \in {0} \cup Index!Of(t, k, 1..arrived[t])

(* A consumer runs on a file that is built, and nothing expires before it    *)
(* has been read.                                                          *)
Built(t) ==
    /\ process = "up" => index = "built"
    /\ thread[t] # "off" => process = "up"
    /\ thread[t] \in {"off", "assign"} => ~caught[t]
    /\ index = "built" =>
          /\ baseline[t].low <= baseline[t].durable /\ baseline[t].durable <= durable[t]
          /\ baseline[t].low <= From(t)
          /\ committed[t] = Index!NoOffset => low[t] = baseline[t].low

IndexReading(t) ==
    /\ thread[t] \in {"poll", "apply", "commit"} =>
          /\ progress[t] = From(t) /\ (caught[t] => target[t] <= progress[t])
    /\ thread[t] \in {"apply", "commit"} =>
          \E n \in 1..IndexBatch : /\ polled[t] = (progress[t] + 1)..(progress[t] + n)
                                   /\ progress[t] + n <= arrived[t]

(* What is shown for a message s is it, or what the rule of the topic prefers. *)
Best(t, s, i) == IF t = "decision" THEN Index!Trace(t, s) <= Index!Trace(t, i) ELSE s >= i

ShownFor(t, i) == shown[t][topic[t][i].key]
Covered(t) ==
    /\ index = "built" => \A i \in 1..arrived[t] : topic[t][i].valid =>
          /\ i <= From(t) \/ i <= baseline[t].durable => ShownFor(t, i) # 0
          /\ i > baseline[t].low /\ i <= From(t) => Best(t, ShownFor(t, i), i)
    /\ thread[t] = "commit" => \A i \in polled[t] : topic[t][i].valid =>
          ShownFor(t, i) # 0 /\ Best(t, ShownFor(t, i), i)

IndexInv == IndexTypes /\ \A t \in Index!Topics : Within(t) /\ Built(t) /\ IndexReading(t) /\ Covered(t)

-----------------------------------------------------------------------------
(* What a step that leaves the topics, the file and the commits alone keeps. *)

LEMMA WithinSame ==
    ASSUME NEW t, UNCHANGED <<topic, arrived, durable, low, shown, committed, target, progress, polled>>,
           Within(t)
    PROVE  Within(t)'
  BY DEF Within, Index!Of

LEMMA BuiltSame ==
    ASSUME NEW t, UNCHANGED <<durable, low, baseline, committed, index, process, caught>>, Built(t),
           thread'[t] = thread[t] \/ (thread'[t] = "failed" /\ thread[t] # "off")
    PROVE  Built(t)'
  <1>1. From(t)' = From(t)
    BY DEF From
  <1>2. thread'[t] # "off" => process = "up"
    BY DEF Built
  <1>3. thread'[t] \in {"off", "assign"} => ~caught[t]
    BY DEF Built
  <1> QED  BY <1>1, <1>2, <1>3 DEF Built

LEMMA ReadingSame ==
    ASSUME NEW t, UNCHANGED <<arrived, baseline, committed, target, progress, polled, caught>>,
           IndexReading(t), thread'[t] = thread[t] \/ thread'[t] = "failed"
    PROVE  IndexReading(t)'
  <1>1. From(t)' = From(t)
    BY DEF From
  <1> QED  BY <1>1 DEF IndexReading

LEMMA ShownSame ==
    ASSUME UNCHANGED <<topic, shown, baseline, committed>>, NEW t
    PROVE  /\ From(t)' = From(t) /\ \A i : ShownFor(t, i)' = ShownFor(t, i)
           /\ \A s, i : Best(t, s, i)' <=> Best(t, s, i)
  <1>1. From(t)' = From(t)
    BY DEF From
  <1>2. \A i : ShownFor(t, i)' = ShownFor(t, i)
    BY DEF ShownFor
  <1>3. \A s, i : Best(t, s, i)' <=> Best(t, s, i)
    BY DEF Best, Index!Trace
  <1> QED  BY <1>1, <1>2, <1>3

LEMMA CoveredSame ==
    ASSUME NEW t, UNCHANGED <<topic, arrived, shown, baseline, committed>>, Covered(t),
           index' = "built" => index = "built",
           thread'[t] = "commit" => thread[t] = "commit" /\ polled'[t] = polled[t]
    PROVE  Covered(t)'
  <1>1. /\ From(t)' = From(t) /\ \A i : ShownFor(t, i)' = ShownFor(t, i)
        /\ \A s, i : Best(t, s, i)' <=> Best(t, s, i)
    BY ShownSame
  <1>2. ASSUME index' = "built", NEW i \in 1..arrived[t], topic[t][i].valid
        PROVE  /\ i <= From(t) \/ i <= baseline[t].durable => ShownFor(t, i) # 0
               /\ i > baseline[t].low /\ i <= From(t) => Best(t, ShownFor(t, i), i)
    BY <1>2 DEF Covered
  <1>3. ASSUME thread'[t] = "commit", NEW i \in polled'[t], topic[t][i].valid
        PROVE  ShownFor(t, i) # 0 /\ Best(t, ShownFor(t, i), i)
    BY <1>3 DEF Covered
  <1> QED  BY <1>1, <1>2, <1>3 DEF Covered

-----------------------------------------------------------------------------
(* Least and greatest elements. *)

LEMMA LeastIn ==
    ASSUME NEW S, S \subseteq Nat, S # {}
    PROVE  Index!Min(S) \in S /\ \A y \in S : Index!Min(S) <= y
  <1>1. PICK j \in S : \A k \in S : ~(<<k, j>> \in OpToRel(<, Nat))
    BY NatLessThanWellFounded, WFMin
  <1>2. \A k \in S : j <= k
    <2>1. \A k \in S : k \in Nat /\ j \in Nat /\ ~(k < j)
      BY <1>1 DEF OpToRel
    <2> QED  BY <2>1
  <1> QED  BY <1>2 DEF Index!Min

LEMMA GreatestIn ==
    ASSUME NEW n \in Nat, NEW S, S \subseteq 0..n, S # {}
    PROVE  Index!Max(S) \in S /\ \A y \in S : y <= Index!Max(S)
  <1> DEFINE T == {n - x : x \in S}
  <1>1. T \subseteq Nat /\ T # {}
    <2>1. \A x \in S : x \in Nat /\ x <= n /\ n - x \in Nat
      OBVIOUS
    <2>2. PICK x \in S : TRUE
      OBVIOUS
    <2>3. n - x \in T
      OBVIOUS
    <2> QED  BY <2>1, <2>3
  <1>2. PICK j \in T : \A k \in T : ~(<<k, j>> \in OpToRel(<, Nat))
    BY <1>1, NatLessThanWellFounded, WFMin
  <1>3. \A k \in T : ~(k < j)
    BY <1>1, <1>2 DEF OpToRel
  <1>4. PICK x \in S : j = n - x
    OBVIOUS
  <1>5. \A y \in S : x >= y
    <2> TAKE y \in S
    <2>1. ~(n - y < n - x)
      BY <1>3, <1>4
    <2> QED  BY <2>1
  <1>6. Index!Max(S) \in S /\ \A y \in S : Index!Max(S) >= y
    BY <1>5 DEF Index!Max
  <1> QED
    <2>1. S \subseteq Nat
      OBVIOUS
    <2>2. \A y \in S : y \in Nat /\ Index!Max(S) \in Nat
      BY <1>6, <2>1
    <2> QED  BY <1>6, <2>2

LEMMA LastOfBatch ==
    ASSUME NEW p \in Nat, NEW n \in Nat \ {0} PROVE Index!Max((p + 1)..(p + n)) = p + n
  <1>1. (p + 1)..(p + n) \subseteq 0..(p + n) /\ p + n \in (p + 1)..(p + n)
    OBVIOUS
  <1>2. /\ Index!Max((p + 1)..(p + n)) \in (p + 1)..(p + n)
        /\ p + n <= Index!Max((p + 1)..(p + n))
    BY <1>1, GreatestIn
  <1> QED  BY <1>2

-----------------------------------------------------------------------------
LEMMA TopicsAre ==
    Index!Topics = {"decision", "admission"} /\ "decision" \in Index!Topics /\ "admission" \in Index!Topics
  BY DEF Index!Topics

LEMMA RecordOf ==
    ASSUME IndexTypes, NEW t \in Index!Topics, NEW i \in 1..Len(topic[t])
    PROVE  /\ topic[t][i].key \in Keys /\ topic[t][i].valid \in BOOLEAN /\ Index!Trace(t, i) \in Nat
  <1>1. topic[t] \in Seq(Index!Message)
    BY DEF IndexTypes
  <1>2. topic[t][i] \in Index!Message
    BY <1>1
  <1> QED  BY <1>2 DEF Index!Message, Index!Trace

(* What a key shows is a message with that key. *)
LEMMA ShownIs ==
    ASSUME IndexTypes, NEW t \in Index!Topics, Within(t), NEW k \in Keys, shown[t][k] # 0
    PROVE  /\ shown[t][k] \in 1..arrived[t] /\ shown[t][k] \in 1..Len(topic[t])
           /\ Index!Trace(t, shown[t][k]) \in Nat
  <1>1. shown[t][k] \in 1..arrived[t]
    BY DEF Within, Index!Of
  <1>2. arrived[t] \in Nat /\ arrived[t] <= Len(topic[t]) /\ Len(topic[t]) \in Nat
    BY DEF IndexTypes, Within
  <1>3. shown[t][k] \in 1..Len(topic[t])
    BY <1>1, <1>2
  <1> QED  BY <1>1, <1>3, RecordOf

(* What has been read, or was in the tables, has arrived. *)
LEMMA ReadHasArrived ==
    ASSUME IndexTypes, NEW t \in Index!Topics, Within(t), Built(t), index = "built"
    PROVE  /\ From(t) \in Nat /\ From(t) <= arrived[t]
           /\ baseline[t].durable \in Nat /\ baseline[t].durable <= arrived[t]
           /\ baseline[t].low \in Nat /\ baseline[t].low <= baseline[t].durable
           /\ baseline[t].low <= From(t)
  <1>1. /\ baseline[t].low \in Nat /\ baseline[t].durable \in Nat /\ arrived[t] \in Nat
        /\ durable[t] \in Nat /\ (committed[t] = Index!NoOffset \/ committed[t] \in Nat)
    BY DEF IndexTypes
  <1>2. baseline[t].durable <= arrived[t] /\ baseline[t].low <= arrived[t]
    BY <1>1 DEF Within, Built
  <1> QED  BY <1>1, <1>2 DEF Within, Built, From

LEMMA IndexInvInit == Index!IndexAssumption /\ Index!Init => IndexInv
  <1> SUFFICES ASSUME Index!IndexAssumption, Index!Init PROVE IndexInv
    OBVIOUS
  <1>1. IndexTypes
    BY DEF Index!Init, IndexTypes, Index!IndexAssumption, Index!All, Index!NoOffset
  <1>2. ASSUME NEW t \in Index!Topics PROVE Within(t) /\ Built(t) /\ IndexReading(t) /\ Covered(t)
    <2>1. topic[t] \in Seq(Index!Message) /\ Len(topic[t]) \in Nat
      BY <1>1 DEF IndexTypes
    <2>2. Within(t)
      BY <2>1 DEF Index!Init, Index!All, Index!NoOffset, Within
    <2>3. Built(t) /\ IndexReading(t) /\ Covered(t)
      BY DEF Index!Init, Index!All, Index!NoOffset, Built, IndexReading, Covered
    <2> QED  BY <2>2, <2>3
  <1> QED  BY <1>1, <1>2 DEF IndexInv

-----------------------------------------------------------------------------
(* The world. *)

LEMMA PublishKeeps ==
    ASSUME IndexInv, NEW u \in Index!Topics, Index!Publish(u) PROVE IndexInv'
  <1> USE DEF IndexInv
  <1>1. UNCHANGED <<topic, durable, low, index, shown, baseline, committed, process, thread, polled,
                    target, progress, caught, mishaps>>
    BY DEF Index!Publish, Index!file, Index!consumer
  <1>2. arrived' \in [Index!Topics -> Nat]
        /\ \A t \in Index!Topics : arrived[t] <= arrived'[t] /\ arrived'[t] <= Len(topic[t])
    <2>1. topic[u] \in Seq(Index!Message) /\ arrived[u] + 1 \in 1..Len(topic[u])
      BY DEF Index!Publish, IndexTypes
    <2> QED  BY <2>1 DEF Index!Publish, IndexTypes, Within
  <1>3. IndexTypes'
    BY <1>1, <1>2 DEF IndexTypes
  <1>4. ASSUME NEW t \in Index!Topics
        PROVE  Within(t)' /\ Built(t)' /\ IndexReading(t)' /\ Covered(t)'
    <2>1. /\ arrived[t] \in Nat /\ arrived'[t] \in Nat /\ arrived[t] <= arrived'[t]
          /\ durable[t] \in Nat /\ committed[t] \in Int /\ target[t] \in Int /\ progress[t] \in Int
      <3>1. arrived[t] \in Nat /\ durable[t] \in Nat
        BY DEF IndexTypes
      <3>2. arrived'[t] \in Nat /\ arrived[t] <= arrived'[t]
        BY <1>2
      <3>3. /\ committed[t] \in {Index!NoOffset} \cup Nat /\ target[t] \in {Index!NoOffset} \cup Nat
            /\ progress[t] \in {Index!NoOffset} \cup Nat
        BY DEF IndexTypes
      <3> QED  BY <3>1, <3>2, <3>3 DEF Index!NoOffset
    <2>2. Within(t)'
      <3>1. \A k \in Keys : shown[t][k] \in {0} \cup Index!Of(t, k, 1..arrived'[t])
        <4> TAKE k \in Keys
        <4>1. shown[t][k] \in {0} \cup Index!Of(t, k, 1..arrived[t])
          BY DEF Within
        <4>2. 1..arrived[t] \subseteq 1..arrived'[t]
          BY <2>1
        <4> QED  BY <4>1, <4>2 DEF Index!Of
      <3>2. \A k \in Keys : (shown[t][k] \in {0} \cup Index!Of(t, k, 1..arrived[t]))'
        BY <1>1, <3>1 DEF Index!Of
      <3>3. polled[t] \subseteq 1..arrived'[t]
        BY <2>1 DEF Within
      <3> QED  BY <1>1, <1>2, <2>1, <3>2, <3>3 DEF Within
    <2>3. Built(t)'
      BY <1>1 DEF Built, From
    <2>4. IndexReading(t)'
      <3>1. \A n \in 1..IndexBatch : progress[t] + n <= arrived[t] => progress[t] + n <= arrived'[t]
        BY <2>1
      <3> QED  BY <1>1, <3>1 DEF IndexReading, From
    <2>5. Covered(t)'
      <3>1. From(t)' = From(t) /\ (\A i : ShownFor(t, i)' = ShownFor(t, i))
            /\ \A s, i : Best(t, s, i)' <=> Best(t, s, i)
        BY <1>1 DEF From, ShownFor, Best, Index!Trace
      <3>3. \A i \in 1..arrived'[t] : index = "built" /\ (i <= From(t) \/ i <= baseline[t].durable)
                => i \in 1..arrived[t]
        <4>1. ASSUME NEW i \in 1..arrived'[t], index = "built",
                     i <= From(t) \/ i <= baseline[t].durable
              PROVE  i \in 1..arrived[t]
          BY <2>1, <4>1, ReadHasArrived
        <4> QED  BY <4>1
      <3> QED  BY <1>1, <3>1, <3>3 DEF Covered
    <2> QED  BY <2>2, <2>3, <2>4, <2>5
  <1> QED  BY <1>3, <1>4

LEMMA CommitIcebergKeeps ==
    ASSUME IndexInv, NEW u \in Index!Topics, Index!CommitIceberg(u) PROVE IndexInv'
  <1> USE DEF IndexInv
  <1>1. UNCHANGED <<topic, arrived, low, index, shown, baseline, committed, process, thread, polled,
                    target, progress, caught, mishaps>>
    BY DEF Index!CommitIceberg, Index!file, Index!consumer
  <1>2. durable' \in [Index!Topics -> Nat]
        /\ \A t \in Index!Topics : durable[t] <= durable'[t] /\ durable'[t] <= arrived[t]
    BY DEF Index!CommitIceberg, IndexTypes, Within
  <1>3. IndexTypes'
    BY <1>1, <1>2 DEF IndexTypes
  <1>4. ASSUME NEW t \in Index!Topics
        PROVE  Within(t)' /\ Built(t)' /\ IndexReading(t)' /\ Covered(t)'
    <2>1. low[t] \in Nat /\ durable[t] \in Nat /\ durable'[t] \in Nat /\ baseline[t].durable \in Nat
      BY <1>2 DEF IndexTypes
    <2>2. low[t] <= durable'[t] /\ (index = "built" => baseline[t].durable <= durable'[t])
      BY <1>2, <2>1 DEF Within, Built
    <2>3. Within(t)' /\ Built(t)'
      BY <1>1, <1>2, <2>2 DEF Within, Built, From, Index!Of
    <2>4. IndexReading(t)' /\ Covered(t)'
      BY <1>1, ReadingSame, CoveredSame
    <2> QED  BY <2>3, <2>4
  <1> QED  BY <1>3, <1>4

LEMMA IndexExpireKeeps ==
    ASSUME IndexInv, NEW u \in Index!Topics, Index!Expire(u) PROVE IndexInv'
  <1> USE DEF IndexInv
  <1>1. UNCHANGED <<topic, arrived, durable, index, shown, baseline, committed, process, thread,
                    polled, target, progress, caught, mishaps>>
    BY DEF Index!Expire, Index!file, Index!consumer
  <1>2. low' \in [Index!Topics -> Nat]
        /\ \A t \in Index!Topics : /\ low'[t] <= durable[t]
                                   /\ index = "built" /\ committed[t] = Index!NoOffset => low'[t] = low[t]
    <2>1. low' \in [Index!Topics -> Nat]
      BY DEF Index!Expire, IndexTypes
    <2>2. ASSUME NEW t \in Index!Topics
          PROVE  /\ low'[t] <= durable[t]
                 /\ index = "built" /\ committed[t] = Index!NoOffset => low'[t] = low[t]
      <3>1. low[t] \in Nat /\ durable[t] \in Nat /\ low[t] <= durable[t]
        BY DEF IndexTypes, Within
      <3> QED  BY <3>1 DEF Index!Expire, IndexTypes, Index!NoOffset
    <2> QED  BY <2>1, <2>2
  <1>3. IndexTypes'
    BY <1>1, <1>2 DEF IndexTypes
  <1>4. ASSUME NEW t \in Index!Topics
        PROVE  Within(t)' /\ Built(t)' /\ IndexReading(t)' /\ Covered(t)'
    <2>1. Within(t)' /\ Built(t)'
      BY <1>1, <1>2 DEF Within, Built, From, Index!Of
    <2>2. IndexReading(t)' /\ Covered(t)'
      BY <1>1, ReadingSame, CoveredSame
    <2> QED  BY <2>1, <2>2
  <1> QED  BY <1>3, <1>4

-----------------------------------------------------------------------------
(* The process. *)

LEMMA DropIndexKeeps == ASSUME IndexInv, Index!DropIndex PROVE IndexInv'
  <1> USE DEF IndexInv
  <1>1. UNCHANGED <<topic, arrived, durable, low, index, baseline, committed, thread,
                    polled, target, progress, caught, mishaps>>
        /\ index = "none" /\ process = "down" /\ process' = "dropped"
    BY DEF Index!DropIndex, Index!outside, Index!consumer
  <1>2. shown' \in [Index!Topics -> [Keys -> Nat]] /\ \A t \in Index!Topics, k \in Keys : shown'[t][k] = 0
    BY DEF Index!DropIndex
  <1>3. IndexTypes'
    BY <1>1, <1>2 DEF IndexTypes
  <1>4. ASSUME NEW t \in Index!Topics
        PROVE  Within(t)' /\ Built(t)' /\ IndexReading(t)' /\ Covered(t)'
    <2>1. Within(t)'
      BY <1>1, <1>2 DEF Within
    <2>2. thread[t] = "off"
      BY <1>1 DEF Built
    <2>3. Built(t)' /\ IndexReading(t)' /\ Covered(t)'
      BY <1>1, <2>2 DEF Built, IndexReading, Covered
    <2> QED  BY <2>1, <2>3
  <1> QED  BY <1>3, <1>4

LEMMA InTableIs ==
    ASSUME IndexTypes, NEW t \in Index!Topics, Within(t), NEW k \in Keys
    PROVE  /\ Index!InTable(t, k) \in {0} \cup Index!Of(t, k, 1..arrived[t]) /\ Index!InTable(t, k) \in Nat
           /\ \A i \in 1..durable[t] : topic[t][i].valid /\ topic[t][i].key = k => Index!InTable(t, k) # 0
  <1> DEFINE S == Index!Of(t, k, 1..durable[t])
  <1>1. S \subseteq Nat /\ S \subseteq 1..durable[t]
    BY DEF Index!Of
  <1>2. S # {} => Index!Min(S) \in S
    BY <1>1, LeastIn
  <1>3. S \subseteq Index!Of(t, k, 1..arrived[t])
    <2>1. durable[t] \in Nat /\ arrived[t] \in Nat /\ durable[t] <= arrived[t]
      BY DEF IndexTypes, Within
    <2>2. 1..durable[t] \subseteq 1..arrived[t]
      BY <2>1
    <2> QED  BY <2>2 DEF Index!Of
  <1>4. \A i \in 1..durable[t] : topic[t][i].valid /\ topic[t][i].key = k => S # {}
    BY DEF Index!Of
  <1>5. Index!InTable(t, k) = IF S = {} THEN 0 ELSE Index!Min(S)
    BY DEF Index!InTable
  <1>6. \A x \in S : x # 0 /\ x \in Nat
    BY <1>1, durable[t] \in Nat DEF IndexTypes
  <1> HIDE DEF S
  <1> QED  BY <1>2, <1>3, <1>4, <1>5, <1>6

LEMMA CopyTablesKeeps == ASSUME IndexInv, Index!CopyTables PROVE IndexInv'
  <1> USE DEF IndexInv
  <1>1. UNCHANGED <<topic, arrived, durable, low, polled, target, progress, caught, mishaps>>
        /\ process = "dropped" /\ index' = "built" /\ process' = "up"
    BY DEF Index!CopyTables, Index!outside
  <1>2. /\ shown' = [t \in Index!Topics |-> [k \in Keys |-> Index!InTable(t, k)]]
        /\ committed' = [t \in Index!Topics |-> Index!NoOffset]
        /\ baseline' = [t \in Index!Topics |-> [durable |-> durable[t], low |-> low[t]]]
        /\ thread' = [t \in Index!Topics |-> "assign"]
    BY DEF Index!CopyTables, Index!All
  <1>3. IndexTypes'
    <2>1. \A t \in Index!Topics, k \in Keys : Index!InTable(t, k) \in Nat
      BY InTableIs
    <2>2. shown' \in [Index!Topics -> [Keys -> Nat]]
      BY <1>2, <2>1
    <2>3. committed' \in [Index!Topics -> {Index!NoOffset} \cup Nat]
          /\ thread' \in [Index!Topics -> {"off", "assign", "poll", "apply", "commit", "failed"}]
      BY <1>2
    <2>4. baseline' \in [Index!Topics -> [durable: Nat, low: Nat]]
      BY <1>2 DEF IndexTypes
    <2> QED  BY <1>1, <2>2, <2>3, <2>4 DEF IndexTypes
  <1>4. ASSUME NEW t \in Index!Topics
        PROVE  Within(t)' /\ Built(t)' /\ IndexReading(t)' /\ Covered(t)'
    <2>1. thread[t] = "off" /\ ~caught[t] /\ thread'[t] = "assign" /\ committed'[t] = Index!NoOffset
          /\ baseline'[t].durable = durable[t] /\ baseline'[t].low = low[t]
          /\ low[t] \in Nat /\ durable[t] \in Nat /\ arrived[t] \in Nat /\ low[t] <= durable[t]
          /\ durable[t] <= arrived[t]
      BY <1>1, <1>2 DEF Built, Within, IndexTypes
    <2>2. \A k \in Keys : shown'[t][k] = Index!InTable(t, k)
      BY <1>2
    <2>3. Within(t)'
      <3>1. \A k \in Keys : (shown[t][k] \in {0} \cup Index!Of(t, k, 1..arrived[t]))'
        BY <1>1, <2>2, InTableIs DEF Index!Of
      <3> QED  BY <1>1, <2>1, <3>1 DEF Within, Index!NoOffset
    <2>4. From(t)' = low[t]
      BY <2>1 DEF From
    <2>5. Built(t)' /\ IndexReading(t)'
      BY <1>1, <2>1, <2>4 DEF Built, IndexReading
    <2>6. Covered(t)'
      <3>1. ASSUME NEW i \in 1..arrived[t], topic[t][i].valid, i <= low[t] \/ i <= durable[t]
            PROVE  ShownFor(t, i)' # 0
        <4>1. i \in 1..durable[t] /\ i \in 1..Len(topic[t])
          BY <2>1, <3>1, topic[t] \in Seq(Index!Message) DEF Within, IndexTypes
        <4>2. topic[t][i].key \in Keys
          BY <4>1, RecordOf
        <4> QED  BY <1>1, <2>2, <3>1, <4>1, <4>2, InTableIs DEF ShownFor
      <3>2. \A i \in 1..arrived[t] : ~(i > low[t] /\ i <= low[t])
        BY <2>1
      <3> QED  BY <1>1, <2>1, <2>4, <3>1, <3>2 DEF Covered
    <2> QED  BY <2>3, <2>5, <2>6
  <1> QED  BY <1>3, <1>4

LEMMA OpenIndexKeeps == ASSUME IndexInv, Index!OpenIndex PROVE IndexInv'
  <1> USE DEF IndexInv
  <1>1. UNCHANGED <<topic, arrived, durable, low, index, shown, baseline, committed, polled, target,
                    progress, caught, mishaps>>
        /\ process = "down" /\ index = "built" /\ process' = "up"
        /\ thread' = [t \in Index!Topics |-> "assign"]
    BY DEF Index!OpenIndex, Index!outside, Index!file, Index!All
  <1>2. IndexTypes'
    BY <1>1 DEF IndexTypes
  <1>3. ASSUME NEW t \in Index!Topics
        PROVE  Within(t)' /\ Built(t)' /\ IndexReading(t)' /\ Covered(t)'
    <2>1. thread[t] = "off" /\ ~caught[t] /\ thread'[t] = "assign"
      BY <1>1 DEF Built
    <2>2. Within(t)' /\ Built(t)'
      BY <1>1, <2>1 DEF Within, Built, From, Index!Of
    <2>3. IndexReading(t)' /\ Covered(t)'
      BY <1>1, <2>1 DEF IndexReading, Covered, From, ShownFor, Best, Index!Trace
    <2> QED  BY <2>2, <2>3
  <1> QED  BY <1>2, <1>3

LEMMA StopKeeps == ASSUME Index!IndexAssumption, IndexInv, Index!Stop PROVE IndexInv'
  <1> USE DEF IndexInv
  <1>1. UNCHANGED <<topic, arrived, durable, low, shown, baseline, committed>>
        /\ process' = "down" /\ index' \in {index, "none"} /\ mishaps' \in 0..IndexFaults
    BY DEF Index!Stop, Index!Fails, Index!outside, IndexTypes, Index!IndexAssumption
  <1>2. /\ thread' = [t \in Index!Topics |-> "off"] /\ polled' = [t \in Index!Topics |-> {}]
        /\ target' = [t \in Index!Topics |-> Index!NoOffset]
        /\ progress' = [t \in Index!Topics |-> Index!NoOffset]
        /\ caught' = [t \in Index!Topics |-> FALSE]
    BY DEF Index!Stop, Index!All
  <1>3. IndexTypes'
    BY <1>1, <1>2 DEF IndexTypes
  <1>4. ASSUME NEW t \in Index!Topics
        PROVE  Within(t)' /\ Built(t)' /\ IndexReading(t)' /\ Covered(t)'
    <2>1. arrived[t] \in Nat /\ (index' = "built" => index = "built")
      BY <1>1 DEF IndexTypes
    <2>2. Within(t)'
      BY <1>1, <1>2, <2>1 DEF Within, Index!Of, Index!NoOffset
    <2>3. Built(t)' /\ IndexReading(t)'
      BY <1>1, <1>2, <2>1 DEF Built, IndexReading, From
    <2>4. Covered(t)'
      BY <1>1, <1>2, <2>1, CoveredSame
    <2> QED  BY <2>2, <2>3, <2>4
  <1> QED  BY <1>3, <1>4

-----------------------------------------------------------------------------
(* The consumers. *)

LEMMA AssignKeeps == ASSUME IndexInv, NEW u \in Index!Topics, Index!Assign(u) PROVE IndexInv'
  <1> USE DEF IndexInv
  <1> DEFINE offset == IF committed[u] # Index!NoOffset THEN committed[u] ELSE low[u]
  <1>1. UNCHANGED <<topic, arrived, durable, low, index, shown, baseline, committed, process, polled,
                    mishaps>>
        /\ thread[u] = "assign" /\ process = "up" /\ index = "built"
    BY DEF Index!Assign, Index!outside, Index!file, Built
  <1>2. /\ thread' = [thread EXCEPT ![u] = "poll"] /\ target' = [target EXCEPT ![u] = arrived[u]]
        /\ progress' = [progress EXCEPT ![u] = offset]
        /\ caught' = [caught EXCEPT ![u] = @ \/ offset >= arrived[u]]
    BY DEF Index!Assign, Index!Caught
  <1>3. offset = From(u) /\ offset \in Nat /\ offset <= arrived[u] /\ arrived[u] \in Nat
    <2>1. offset = From(u)
      BY <1>1 DEF From, Built
    <2> QED  BY <1>1, <2>1, ReadHasArrived DEF IndexTypes
  <1> HIDE DEF offset
  <1>4. IndexTypes'
    <2>1. (caught[u] \/ offset >= arrived[u]) \in BOOLEAN
      BY <1>3 DEF IndexTypes
    <2>2. caught' \in [Index!Topics -> BOOLEAN]
      BY <1>2, <2>1 DEF IndexTypes
    <2> QED  BY <1>1, <1>2, <1>3, <2>2 DEF IndexTypes
  <1>5. ASSUME NEW t \in Index!Topics
        PROVE  Within(t)' /\ Built(t)' /\ IndexReading(t)' /\ Covered(t)'
    <2>1. Within(t)'
      BY <1>1, <1>2, <1>3 DEF Within, Index!Of, IndexTypes
    <2>2. t # u => /\ thread'[t] = thread[t] /\ caught'[t] = caught[t]
                   /\ progress'[t] = progress[t] /\ target'[t] = target[t]
      BY <1>1, <1>2 DEF IndexTypes
    <2>3. t = u => /\ thread'[t] = "poll" /\ progress'[t] = From(t) /\ target'[t] = arrived[t]
                   /\ (caught'[t] => From(t) >= arrived[t])
      <3>1. ~caught[u]
        BY <1>1 DEF Built
      <3> QED  BY <1>2, <1>3, <3>1 DEF IndexTypes
    <2>4. Built(t)'
      BY <1>1, <2>2, <2>3 DEF Built, From
    <2>5. IndexReading(t)'
      <3>1. From(t)' = From(t)
        BY <1>1 DEF From
      <3>2. CASE t = u
        <4>1. From(t) >= arrived[t] => arrived[t] <= From(t)
          BY <1>3, <3>2
        <4> QED  BY <2>3, <3>1, <3>2, <4>1 DEF IndexReading
      <3>3. CASE t # u
        BY <1>1, <2>2, <3>1, <3>3 DEF IndexReading
      <3> QED  BY <3>2, <3>3
    <2>6. Covered(t)'
      BY <1>1, <2>2, <2>3 DEF Covered, From, ShownFor, Best, Index!Trace
    <2> QED  BY <2>1, <2>4, <2>5, <2>6
  <1> QED  BY <1>4, <1>5

LEMMA PollKeeps ==
    ASSUME Index!IndexAssumption, IndexInv, NEW u \in Index!Topics, Index!Poll(u)
    PROVE  IndexInv'
  <1> USE DEF IndexInv
  <1>1. UNCHANGED <<topic, arrived, durable, low, index, shown, baseline, committed, process,
                    target, progress, caught, mishaps>>
        /\ thread[u] = "poll" /\ thread' = [thread EXCEPT ![u] = "apply"]
    BY DEF Index!Poll, Index!outside, Index!file
  <1>2. PICK n \in 1..IndexBatch :
             /\ progress[u] + n <= arrived[u]
             /\ polled' = [polled EXCEPT ![u] = (progress[u] + 1)..(progress[u] + n)]
    BY DEF Index!Poll
  <1>3. progress[u] \in Nat /\ n \in Nat /\ arrived[u] \in Nat
    <2>1. index = "built" /\ progress[u] = From(u)
      BY <1>1 DEF Built, IndexReading
    <2> QED  BY <2>1, ReadHasArrived DEF Index!IndexAssumption, IndexTypes
  <1>4. /\ (progress[u] + 1)..(progress[u] + n) \subseteq 1..arrived[u]
        /\ (progress[u] + 1)..(progress[u] + n) \subseteq Nat
    BY <1>2, <1>3
  <1>5. IndexTypes'
    BY <1>1, <1>2, <1>4 DEF IndexTypes
  <1>6. ASSUME NEW t \in Index!Topics
        PROVE  Within(t)' /\ Built(t)' /\ IndexReading(t)' /\ Covered(t)'
    <2>1. Within(t)'
      BY <1>1, <1>2, <1>4 DEF Within, Index!Of, IndexTypes
    <2>2. t # u => thread'[t] = thread[t] /\ polled'[t] = polled[t]
      BY <1>1, <1>2 DEF IndexTypes
    <2>3. t = u => thread'[t] = "apply" /\ polled'[t] = (progress[t] + 1)..(progress[t] + n)
      BY <1>1, <1>2 DEF IndexTypes
    <2>4. Built(t)' /\ Covered(t)'
      <3>1. Built(t)'
        BY <1>1, <2>2, <2>3 DEF Built, From
      <3>2. Covered(t)'
        BY <1>1, <2>2, <2>3, CoveredSame
      <3> QED  BY <3>1, <3>2
    <2>5. IndexReading(t)'
      BY <1>1, <1>2, <2>2, <2>3 DEF IndexReading, From
    <2> QED  BY <2>1, <2>4, <2>5
  <1> QED  BY <1>5, <1>6

(* What is chosen for a key from a batch: a message with the key, which the   *)
(* rule of the topic prefers to all of the batch; and a decision that is     *)
(* shown gives way to none with a greater trace.                           *)
Chosen(t, k, S) == IF t = "decision" THEN Index!ChosenDecision(k, S) ELSE Index!ChosenAdmission(k, S)

LEMMA LeastTrace ==
    ASSUME IndexTypes, NEW t \in Index!Topics, NEW A, A \subseteq 1..Len(topic[t]), A # {}
    PROVE  \E i \in A : \A j \in A : Index!Trace(t, i) <= Index!Trace(t, j)
  <1> DEFINE V == {Index!Trace(t, i) : i \in A}
  <1>1. \A i \in A : Index!Trace(t, i) \in Nat
    BY RecordOf
  <1>2. V \subseteq Nat /\ V # {}
    BY <1>1
  <1>3. Index!Min(V) \in V /\ \A y \in V : Index!Min(V) <= y
    BY <1>2, LeastIn
  <1> QED  BY <1>3

LEMMA ChosenIs ==
    ASSUME IndexTypes, NEW t \in Index!Topics, Within(t), NEW k \in Keys,
           NEW S, S \subseteq Index!Of(t, k, 1..arrived[t])
    PROVE  /\ Chosen(t, k, S) \in {0} \cup Index!Of(t, k, 1..arrived[t])
           /\ S = {} => Chosen(t, k, S) = shown[t][k]
           /\ shown[t][k] # 0 \/ S # {} => Chosen(t, k, S) # 0
           /\ \A i \in S : Best(t, Chosen(t, k, S), i)
           /\ t = "decision" /\ shown[t][k] # 0 => Best(t, Chosen(t, k, S), shown[t][k])
           /\ t = "admission" /\ S # {} => Chosen(t, k, S) \in S
  <1>1. /\ arrived[t] \in Nat /\ arrived[t] <= Len(topic[t]) /\ Len(topic[t]) \in Nat
        /\ S \subseteq 1..arrived[t] /\ S \subseteq 1..Len(topic[t]) /\ S \subseteq 0..arrived[t]
        /\ S \subseteq Nat /\ 0 \notin S
        /\ \A i \in 1..arrived[t] : i \in 1..Len(topic[t]) /\ i \in Nat /\ i # 0
    <2>1. arrived[t] \in Nat /\ arrived[t] <= Len(topic[t]) /\ Len(topic[t]) \in Nat
      BY topic[t] \in Seq(Index!Message) DEF IndexTypes, Within
    <2>2. S \subseteq 1..arrived[t]
      BY DEF Index!Of
    <2>3. 1..arrived[t] \subseteq 1..Len(topic[t]) /\ 1..arrived[t] \subseteq 0..arrived[t]
          /\ 1..arrived[t] \subseteq Nat /\ 0 \notin 1..arrived[t]
      BY <2>1
    <2> QED  BY <2>1, <2>2, <2>3
  <1>2. shown[t][k] \in {0} \cup Index!Of(t, k, 1..arrived[t])
    BY DEF Within
  <1>3. CASE t = "decision"
    <2> DEFINE old == shown["decision"][k]
               all == S \cup ({old} \ {0})
               least == {i \in all : \A j \in all : Index!Trace("decision", i) <= Index!Trace("decision", j)}
               c == Chosen(t, k, S)
    <2>1. c = IF S = {} \/ old \in least THEN old ELSE Index!Min(least)
      BY <1>3 DEF Chosen, Index!ChosenDecision
    <2>2. all \subseteq Index!Of(t, k, 1..arrived[t]) /\ (S # {} => all # {})
      BY <1>2, <1>3
    <2>3. all \subseteq 1..Len(topic[t]) /\ all \subseteq Nat /\ 0 \notin all
      <3>1. \A i \in all : i \in 1..arrived[t]
        BY <2>2 DEF Index!Of
      <3> HIDE DEF all
      <3> QED  BY <1>1, <3>1
    <2>4. all # {} => least # {} /\ Index!Min(least) \in least
      <3>1. all # {} => \E i \in all : \A j \in all : Index!Trace("decision", i) <= Index!Trace("decision", j)
        <4>1. "decision" \in Index!Topics /\ all \subseteq 1..Len(topic["decision"])
          BY <1>3, <2>3
        <4> HIDE DEF all
        <4> QED  BY <4>1, LeastTrace
      <3>2. least \subseteq Nat
        BY <2>3
      <3>3. all # {} => least # {}
        BY <3>1
      <3> HIDE DEF least, all
      <3> QED  BY <3>2, <3>3, LeastIn
    <2>5. S # {} => c \in least
      BY <2>1, <2>2, <2>4
    <2>6. S = {} => c = old
      BY <2>1
    <2>7. c # 0 /\ old # 0 => Best(t, c, old)
      <3>1. ASSUME old # 0, S = {} PROVE Best(t, c, old)
        <4>1. Index!Trace(t, old) \in Nat
          BY <1>3, <3>1, ShownIs
        <4> QED  BY <1>3, <2>6, <3>1, <4>1 DEF Best
      <3>2. ASSUME old # 0, S # {} PROVE Best(t, c, old)
        <4>1. old \in all /\ c \in least
          BY <2>5, <3>2
        <4> QED  BY <1>3, <4>1 DEF Best
      <3> QED  BY <3>1, <3>2
    <2>8. \A i \in S : Best(t, c, i)
      <3> TAKE i \in S
      <3>1. i \in all /\ c \in least
        BY <2>5
      <3> QED  BY <1>3, <3>1 DEF Best
    <2>9. c \in {0} \cup Index!Of(t, k, 1..arrived[t]) /\ (old # 0 \/ S # {} => c # 0)
      BY <1>2, <1>3, <2>2, <2>3, <2>5, <2>6
    <2> HIDE DEF c, least, all
    <2> QED  BY <1>3, <2>6, <2>7, <2>8, <2>9 DEF c
  <1>4. CASE t = "admission"
    <2>1. Chosen(t, k, S) = IF S = {} THEN shown[t][k] ELSE Index!Max(S)
      BY <1>4 DEF Chosen, Index!ChosenAdmission
    <2>2. S # {} => Index!Max(S) \in S /\ \A y \in S : y <= Index!Max(S)
      BY <1>1, GreatestIn
    <2>3. ASSUME NEW i \in S PROVE Best(t, Chosen(t, k, S), i)
      <3>1. Index!Max(S) \in Nat /\ i \in Nat /\ i <= Index!Max(S)
        BY <1>1, <2>2
      <3> QED  BY <1>4, <2>1, <3>1 DEF Best
    <2> QED  BY <1>1, <1>2, <1>4, <2>1, <2>2, <2>3
  <1> QED  BY <1>3, <1>4, TopicsAre

LEMMA ApplyBatchKeeps ==
    ASSUME IndexInv, NEW u \in Index!Topics, Index!ApplyBatch(u) PROVE IndexInv'
  <1> USE DEF IndexInv
  <1>1. UNCHANGED <<topic, arrived, durable, low, index, baseline, committed, process, polled,
                    target, progress, caught, mishaps>>
        /\ thread[u] = "apply" /\ thread' = [thread EXCEPT ![u] = "commit"]
        /\ index = "built"
    BY DEF Index!ApplyBatch, Index!outside, Built
  <1>2. shown' = [shown EXCEPT ![u] = [k \in Keys |-> Chosen(u, k, Index!Of(u, k, polled[u]))]]
    BY DEF Index!ApplyBatch, Chosen
  <1>3. \A k \in Keys : Index!Of(u, k, polled[u]) \subseteq Index!Of(u, k, 1..arrived[u])
    BY DEF Within, Index!Of
  <1>4. \A k \in Keys : Chosen(u, k, Index!Of(u, k, polled[u])) \in {0} \cup Index!Of(u, k, 1..arrived[u])
    BY <1>3, ChosenIs
  <1>5. IndexTypes'
    <2>1. 1..arrived[u] \subseteq Nat
      BY DEF IndexTypes
    <2>2. \A k \in Keys : Chosen(u, k, Index!Of(u, k, polled[u])) \in Nat
      <3>1. \A k \in Keys : Index!Of(u, k, 1..arrived[u]) \subseteq 1..arrived[u]
        BY DEF Index!Of
      <3> QED  BY <1>4, <2>1, <3>1
    <2>3. shown' \in [Index!Topics -> [Keys -> Nat]]
      BY <1>2, <2>2 DEF IndexTypes
    <2> QED  BY <1>1, <2>3 DEF IndexTypes
  <1>6. ASSUME NEW t \in Index!Topics
        PROVE  Within(t)' /\ Built(t)' /\ IndexReading(t)' /\ Covered(t)'
    <2>1. /\ t # u => shown'[t] = shown[t] /\ thread'[t] = thread[t]
          /\ t = u => /\ thread'[t] = "commit"
                      /\ \A k \in Keys : shown'[t][k] = Chosen(t, k, Index!Of(t, k, polled[t]))
      BY <1>1, <1>2 DEF IndexTypes
    <2>2. Within(t)'
      <3>1. \A k \in Keys : (shown[t][k] \in {0} \cup Index!Of(t, k, 1..arrived[t]))'
        <4> TAKE k \in Keys
        <4>1. shown[t][k] \in {0} \cup Index!Of(t, k, 1..arrived[t])
          BY DEF Within
        <4>2. shown'[t][k] \in {0} \cup Index!Of(t, k, 1..arrived[t])
          BY <1>4, <2>1, <4>1
        <4>3. Index!Of(t, k, 1..arrived[t])' = Index!Of(t, k, 1..arrived[t])
          BY <1>1 DEF Index!Of
        <4> QED  BY <4>2, <4>3
      <3> QED  BY <1>1, <3>1 DEF Within
    <2>3. Built(t)' /\ IndexReading(t)'
      BY <1>1, <2>1 DEF Built, IndexReading, From
    <2>4. From(t)' = From(t) /\ \A s, i : Best(t, s, i)' <=> Best(t, s, i)
      BY <1>1 DEF From, Best, Index!Trace
    <2>5. ASSUME t # u PROVE Covered(t)'
      BY <1>1, <2>1, <2>5 DEF Covered, From, ShownFor, Best, Index!Trace
    <2>6. ASSUME t = u PROVE Covered(t)'
      <3>1. \A i \in 1..arrived[t] :
               /\ i \in Nat /\ i \in 1..Len(topic[t]) /\ topic[t][i].key \in Keys
               /\ Index!Trace(t, i) \in Nat
        <4>1. arrived[t] \in Nat /\ arrived[t] <= Len(topic[t]) /\ Len(topic[t]) \in Nat
          BY topic[t] \in Seq(Index!Message) DEF Within, IndexTypes
        <4>2. \A i \in 1..arrived[t] : i \in Nat /\ i \in 1..Len(topic[t])
          BY <4>1
        <4> QED  BY <4>2, RecordOf
      <3>2. From(t) \in Nat /\ progress[t] = From(t)
        BY <1>1, <2>6, ReadHasArrived DEF IndexReading
      <3>3. PICK n \in 1..IndexBatch : polled[t] = (progress[t] + 1)..(progress[t] + n)
        BY <1>1, <2>6 DEF IndexReading
      <3>4. ASSUME NEW i \in 1..arrived[t], topic[t][i].valid
            PROVE  /\ i <= From(t) \/ i <= baseline[t].durable => ShownFor(t, i)' # 0
                   /\ i > baseline[t].low /\ i <= From(t) => Best(t, ShownFor(t, i)', i)
                   /\ i \in polled[t] => ShownFor(t, i)' # 0 /\ Best(t, ShownFor(t, i)', i)
        <4> DEFINE k == topic[t][i].key
                   S == Index!Of(t, k, polled[t])
                   c == Chosen(t, k, S)
        <4>1. k \in Keys /\ ShownFor(t, i)' = c /\ ShownFor(t, i) = shown[t][k]
              /\ S \subseteq Index!Of(t, k, 1..arrived[t])
          BY <1>1, <1>3, <2>1, <2>6, <3>1 DEF ShownFor
        <4>2. /\ c \in {0} \cup Index!Of(t, k, 1..arrived[t])
              /\ S = {} => c = shown[t][k]
              /\ shown[t][k] # 0 \/ S # {} => c # 0
              /\ \A j \in S : Best(t, c, j)
              /\ t = "decision" /\ shown[t][k] # 0 => Best(t, c, shown[t][k])
              /\ t = "admission" /\ S # {} => c \in S
          BY <4>1, ChosenIs
        <4>3. i \in polled[t] => i \in S
          BY <3>4 DEF Index!Of
        <4>4. /\ i <= From(t) \/ i <= baseline[t].durable => shown[t][k] # 0
              /\ i > baseline[t].low /\ i <= From(t) => Best(t, shown[t][k], i)
          BY <1>1, <3>4, <4>1 DEF Covered
        <4>5. S # {} => \A j \in S : j \in Nat /\ j > From(t)
          <5>1. \A j \in polled[t] : j \in Nat /\ j > From(t)
            BY <3>2, <3>3
          <5> QED  BY <5>1 DEF Index!Of
        <4>6. c # 0 => c \in 1..arrived[t]
          BY <4>2 DEF Index!Of
        <4>7. shown[t][k] # 0 => Index!Trace(t, shown[t][k]) \in Nat
          BY <4>1, ShownIs
        <4> HIDE DEF c, S, k
        <4>8. ASSUME i > baseline[t].low, i <= From(t) PROVE Best(t, c, i)
          <5>1. shown[t][k] # 0 /\ Best(t, shown[t][k], i) /\ c # 0
            BY <4>2, <4>4, <4>8
          <5>2. CASE t = "decision"
            <6>1. Index!Trace(t, c) <= Index!Trace(t, shown[t][k]) /\ Index!Trace(t, shown[t][k]) <= Index!Trace(t, i)
              BY <4>2, <5>1, <5>2 DEF Best
            <6>2. Index!Trace(t, c) \in Nat /\ Index!Trace(t, i) \in Nat
              BY <3>1, <4>6, <5>1
            <6>3. Index!Trace(t, c) <= Index!Trace(t, i)
              BY <4>7, <5>1, <6>1, <6>2
            <6> QED  BY <5>2, <6>3 DEF Best
          <5>3. CASE t = "admission"
            <6>1. CASE S = {}
              BY <4>2, <5>1, <6>1
            <6>2. CASE S # {}
              <7>1. c \in Nat /\ c > From(t) /\ i \in Nat
                BY <3>1, <4>2, <4>5, <5>3, <6>2
              <7>2. c >= i
                BY <3>2, <4>8, <7>1
              <7> QED  BY <5>3, <7>2 DEF Best
            <6> QED  BY <6>1, <6>2
          <5> QED  BY <5>2, <5>3, TopicsAre
        <4> QED  BY <4>1, <4>2, <4>3, <4>4, <4>8
      <3>5. \A i \in polled[t] : i \in 1..arrived[t]
        BY DEF Within
      <3> QED  BY <1>1, <2>4, <3>4, <3>5 DEF Covered
    <2> QED  BY <2>2, <2>3, <2>5, <2>6
  <1> QED  BY <1>5, <1>6

LEMMA CommitOffsetsKeeps ==
    ASSUME Index!IndexAssumption, IndexInv, NEW u \in Index!Topics, Index!CommitOffsets(u)
    PROVE  IndexInv'
  <1> USE DEF IndexInv
  <1>1. UNCHANGED <<topic, arrived, durable, low, index, shown, baseline, process, target, mishaps>>
        /\ thread[u] = "commit" /\ thread' = [thread EXCEPT ![u] = "poll"]
        /\ polled' = [polled EXCEPT ![u] = {}] /\ index = "built"
    BY DEF Index!CommitOffsets, Index!outside, Index!file, Built
  <1>2. PICK n \in 1..IndexBatch : /\ polled[u] = (progress[u] + 1)..(progress[u] + n)
                                   /\ progress[u] + n <= arrived[u]
    BY <1>1 DEF IndexReading
  <1> DEFINE last == progress[u] + n
  <1>3. /\ progress[u] = From(u) /\ From(u) \in Nat /\ n \in Nat \ {0} /\ last \in Nat
        /\ From(u) <= last /\ last <= arrived[u] /\ baseline[u].low <= last
        /\ arrived[u] \in Nat /\ baseline[u].low \in Nat
    <2>1. progress[u] = From(u) /\ From(u) \in Nat /\ n \in Nat \ {0}
          /\ baseline[u].low \in Nat /\ baseline[u].low <= From(u)
      BY <1>1, ReadHasArrived DEF IndexReading, Index!IndexAssumption
    <2> QED  BY <1>2, <2>1 DEF IndexTypes
  <1>4. /\ Index!Max(polled[u]) = last
        /\ committed' = [committed EXCEPT ![u] = last] /\ progress' = [progress EXCEPT ![u] = last]
        /\ caught' = [caught EXCEPT ![u] = @ \/ last >= target[u]]
    <2>1. Index!Max(polled[u]) = last
      BY <1>2, <1>3, LastOfBatch
    <2> HIDE DEF last
    <2> QED  BY <2>1 DEF Index!CommitOffsets, Index!Caught
  <1> HIDE DEF last
  <1>5. IndexTypes'
    <2>1. (caught[u] \/ last >= target[u]) \in BOOLEAN
      BY <1>3 DEF IndexTypes, Index!NoOffset
    <2>2. caught' \in [Index!Topics -> BOOLEAN]
      BY <1>4, <2>1 DEF IndexTypes
    <2> QED  BY <1>1, <1>3, <1>4, <2>2 DEF IndexTypes
  <1>6. ASSUME NEW t \in Index!Topics
        PROVE  Within(t)' /\ Built(t)' /\ IndexReading(t)' /\ Covered(t)'
    <2>1. t # u => /\ committed'[t] = committed[t] /\ progress'[t] = progress[t]
                   /\ caught'[t] = caught[t] /\ thread'[t] = thread[t] /\ polled'[t] = polled[t]
      BY <1>1, <1>4 DEF IndexTypes
    <2>2. t = u => /\ committed'[t] = last /\ progress'[t] = last /\ thread'[t] = "poll"
                   /\ (caught'[t] => caught[t] \/ last >= target[t]) /\ polled'[t] = {}
      BY <1>1, <1>4 DEF IndexTypes
    <2>3. CASE t # u
      <3>1. Within(t)' /\ Built(t)'
        BY <1>1, <2>1, <2>3 DEF Within, Index!Of, Built, From
      <3>2. IndexReading(t)'
        BY <1>1, <2>1, <2>3 DEF IndexReading, From
      <3>3. Covered(t)'
        BY <1>1, <2>1, <2>3 DEF Covered, From, ShownFor, Best, Index!Trace
      <3> QED  BY <3>1, <3>2, <3>3
    <2>4. CASE t = u
      <3>1. From(t)' = last
        BY <1>3, <2>2, <2>4 DEF From, Index!NoOffset
      <3>2. Within(t)'
        BY <1>1, <1>3, <2>2, <2>4 DEF Within, Index!Of
      <3>3. Built(t)'
        BY <1>1, <1>3, <2>2, <2>4, <3>1 DEF Built, Index!NoOffset
      <3>4. IndexReading(t)'
        <4>1. caught[t] => target[t] <= last
          <5>1. caught[t] => target[t] <= From(t)
            BY <1>1, <1>3, <2>4 DEF IndexReading
          <5>2. target[t] \in Int
            BY DEF IndexTypes, Index!NoOffset
          <5> QED  BY <1>3, <2>4, <5>1, <5>2
        <4>2. last >= target[t] => target[t] <= last
          BY <1>3 DEF IndexTypes, Index!NoOffset
        <4> QED  BY <1>1, <2>2, <2>4, <3>1, <4>1, <4>2 DEF IndexReading
      <3>5. ASSUME NEW i \in 1..arrived[t], topic[t][i].valid
            PROVE  /\ i <= last \/ i <= baseline[t].durable => ShownFor(t, i) # 0
                   /\ i > baseline[t].low /\ i <= last => Best(t, ShownFor(t, i), i)
        <4>1. i <= last /\ ~(i <= From(t)) => i \in polled[t]
          BY <1>2, <1>3, <2>4 DEF last
        <4>2. i \in polled[t] => ShownFor(t, i) # 0 /\ Best(t, ShownFor(t, i), i)
          BY <1>1, <2>4, <3>5 DEF Covered
        <4>3. /\ i <= From(t) \/ i <= baseline[t].durable => ShownFor(t, i) # 0
              /\ i > baseline[t].low /\ i <= From(t) => Best(t, ShownFor(t, i), i)
          BY <1>1, <3>5 DEF Covered
        <4> QED  BY <4>1, <4>2, <4>3
      <3>6. Covered(t)'
        <4>1. \A i : ShownFor(t, i)' = ShownFor(t, i) /\ \A s : Best(t, s, i)' <=> Best(t, s, i)
          BY <1>1 DEF ShownFor, Best, Index!Trace
        <4> QED  BY <1>1, <2>2, <2>4, <3>1, <3>5, <4>1 DEF Covered
      <3> QED  BY <3>2, <3>3, <3>4, <3>6
    <2> QED  BY <2>3, <2>4
  <1> QED  BY <1>5, <1>6

LEMMA ConsumerFailsKeeps ==
    ASSUME Index!IndexAssumption, IndexInv, NEW u \in Index!Topics, Index!ConsumerFails(u)
    PROVE  IndexInv'
  <1> USE DEF IndexInv
  <1>1. UNCHANGED <<topic, arrived, durable, low, index, shown, baseline, committed, process, polled,
                    target, progress, caught>>
        /\ thread[u] # "off" /\ thread' = [thread EXCEPT ![u] = "failed"]
        /\ mishaps' \in 0..IndexFaults
    BY DEF Index!ConsumerFails, Index!Fails, Index!outside, Index!file, IndexTypes,
       Index!IndexAssumption
  <1>2. IndexTypes'
    BY <1>1 DEF IndexTypes
  <1>3. ASSUME NEW t \in Index!Topics
        PROVE  Within(t)' /\ Built(t)' /\ IndexReading(t)' /\ Covered(t)'
    <2>1. IF t = u THEN thread'[t] = "failed" ELSE thread'[t] = thread[t]
      BY <1>1 DEF IndexTypes
    <2>2. Within(t)'
      BY <1>1, WithinSame
    <2>3. Built(t)'
      <3>1. thread'[t] = thread[t] \/ (thread'[t] = "failed" /\ thread[t] # "off")
        BY <1>1, <2>1
      <3> QED  BY <1>1, <3>1, BuiltSame
    <2>4. IndexReading(t)'
      BY <1>1, <2>1, ReadingSame
    <2>5. Covered(t)'
      BY <1>1, <2>1, CoveredSame
    <2> QED  BY <2>2, <2>3, <2>4, <2>5
  <1> QED  BY <1>2, <1>3

LEMMA IndexInvStutter == IndexInv /\ UNCHANGED Index!vars => IndexInv'
  <1> SUFFICES ASSUME IndexInv, UNCHANGED Index!vars PROVE IndexInv'
    OBVIOUS
  <1> USE DEF IndexInv
  <1>1. UNCHANGED <<topic, arrived, durable, low, index, shown, baseline, committed, process, thread,
                    polled, target, progress, caught, mishaps>>
    BY DEF Index!vars, Index!outside, Index!file, Index!consumer
  <1>2. IndexTypes'
    BY <1>1 DEF IndexTypes
  <1>3. ASSUME NEW t \in Index!Topics
        PROVE  Within(t)' /\ Built(t)' /\ IndexReading(t)' /\ Covered(t)'
    <2>1. Within(t)'
      BY <1>1, WithinSame
    <2>2. Built(t)'
      BY <1>1, BuiltSame
    <2>3. IndexReading(t)'
      BY <1>1, ReadingSame
    <2>4. Covered(t)'
      BY <1>1, CoveredSame
    <2> QED  BY <2>1, <2>2, <2>3, <2>4
  <1> QED  BY <1>2, <1>3

LEMMA IndexInvNext == Index!IndexAssumption /\ IndexInv /\ [Index!Next]_Index!vars => IndexInv'
  <1> SUFFICES ASSUME Index!IndexAssumption, IndexInv, [Index!Next]_Index!vars PROVE IndexInv'
    OBVIOUS
  <1>1. ASSUME Index!DropIndex \/ Index!CopyTables \/ Index!OpenIndex \/ Index!Stop PROVE IndexInv'
    BY <1>1, DropIndexKeeps, CopyTablesKeeps, OpenIndexKeeps, StopKeeps
  <1>2. ASSUME NEW t \in Index!Topics, Index!Publish(t) \/ Index!CommitIceberg(t) \/ Index!Expire(t)
        PROVE  IndexInv'
    BY <1>2, PublishKeeps, CommitIcebergKeeps, IndexExpireKeeps
  <1>3. ASSUME NEW t \in Index!Topics, Index!Assign(t) \/ Index!Poll(t) \/ Index!ApplyBatch(t)
        PROVE  IndexInv'
    BY <1>3, AssignKeeps, PollKeeps, ApplyBatchKeeps
  <1>4. ASSUME NEW t \in Index!Topics, Index!CommitOffsets(t) \/ Index!ConsumerFails(t)
        PROVE  IndexInv'
    BY <1>4, CommitOffsetsKeeps, ConsumerFailsKeeps
  <1> QED  BY <1>1, <1>2, <1>3, <1>4, IndexInvStutter DEF Index!Next

LEMMA IndexSize == \A S : Index!Cardinality(S) = Cardinality(S)
  BY DEF Cardinality, Index!Cardinality

LEMMA IndexInvSays == IndexInv => Index!TypeOK /\ Index!ReadyIsComplete
  <1> SUFFICES ASSUME IndexInv PROVE Index!TypeOK /\ Index!ReadyIsComplete
    OBVIOUS
  <1> USE DEF IndexInv
  <1>1. Index!TypeOK
    <2>1. ASSUME NEW t \in Index!Topics
          PROVE  /\ arrived[t] <= Index!Cardinality(DOMAIN topic[t])
                 /\ committed[t] \in {Index!NoOffset} \cup 0..arrived[t]
                 /\ \A k \in Keys : shown[t][k] \in {0} \cup Index!Of(t, k, DOMAIN topic[t])
      <3>1. /\ DOMAIN topic[t] = 1..Len(topic[t]) /\ Len(topic[t]) \in Nat /\ arrived[t] \in Nat
            /\ arrived[t] <= Len(topic[t]) /\ committed[t] <= arrived[t]
        BY topic[t] \in Seq(Index!Message) DEF IndexTypes, Within
      <3>2. Index!Cardinality(1..Len(topic[t])) = Len(topic[t])
        <4> DEFINE n == Len(topic[t])
        <4>1. n \in Nat
          BY <3>1
        <4> HIDE DEF n
        <4>2. Index!Cardinality(1..n) = IF 1 > n THEN 0 ELSE n - 1 + 1
          BY <4>1, FS_Interval, IndexSize
        <4>3. Index!Cardinality(1..n) = n
          BY <4>1, <4>2
        <4> QED  BY <4>3 DEF n
      <3>3. 1..arrived[t] \subseteq DOMAIN topic[t]
        BY <3>1
      <3>4. \A k \in Keys : shown[t][k] \in {0} \cup Index!Of(t, k, DOMAIN topic[t])
        BY <3>3 DEF Within, Index!Of
      <3> QED  BY <3>1, <3>2, <3>4 DEF IndexTypes
    <2> QED  BY <2>1 DEF Index!TypeOK, IndexTypes, Within
  <1>2. ASSUME NEW t \in Index!Topics, index = "built", NEW i \in 1..arrived[t], topic[t][i].valid
        PROVE  /\ i <= From(t) \/ i <= baseline[t].durable => shown[t][topic[t][i].key] # 0
               /\ i <= From(t) => Index!Shows(t, i)
    BY <1>2 DEF Covered, ShownFor, Index!Shows, Best
  <1>3. ASSUME Index!Ready, NEW t \in Index!Topics, NEW i \in 1..target[t], topic[t][i].valid
        PROVE  Index!Shows(t, i)
    <2>1. /\ thread[t] \in {"poll", "apply", "commit"} /\ index = "built" /\ caught[t]
      BY <1>3 DEF Index!Ready, Index!Running, Built
    <2>2. target[t] <= From(t) /\ target[t] <= arrived[t] /\ From(t) \in Nat /\ target[t] \in Int
          /\ arrived[t] \in Nat
      <3>1. target[t] <= From(t)
        BY <2>1 DEF IndexReading
      <3>2. target[t] <= arrived[t] /\ target[t] \in Int /\ arrived[t] \in Nat
        BY DEF Within, IndexTypes, Index!NoOffset
      <3> QED  BY <2>1, <3>1, <3>2, ReadHasArrived
    <2>3. i \in 1..arrived[t] /\ i <= From(t)
      BY <2>2
    <2> QED  BY <1>2, <1>3, <2>1, <2>3
  <1>4. ASSUME index = "built", NEW t \in Index!Topics,
               NEW i \in 1..Index!Max({committed[t], baseline[t].durable}), topic[t][i].valid
        PROVE  /\ shown[t][topic[t][i].key] # 0
               /\ i > baseline[t].low /\ i <= committed[t] => Index!Shows(t, i)
    <2> DEFINE M == {committed[t], baseline[t].durable}
    <2>1. /\ From(t) \in Nat /\ From(t) <= arrived[t] /\ baseline[t].durable \in Nat
          /\ baseline[t].durable <= arrived[t] /\ arrived[t] \in Nat
          /\ (committed[t] = Index!NoOffset \/ committed[t] \in Nat)
          /\ (committed[t] # Index!NoOffset => From(t) = committed[t])
      BY <1>4, ReadHasArrived DEF From, IndexTypes
    <2>2. Index!Max(M) \in M
      <3>1. \E x \in M : \A y \in M : x >= y
        <4>1. /\ committed[t] >= baseline[t].durable \/ baseline[t].durable >= committed[t]
              /\ committed[t] >= committed[t] /\ baseline[t].durable >= baseline[t].durable
          BY <2>1 DEF Index!NoOffset
        <4> QED  BY <4>1
      <3> HIDE DEF M
      <3> QED  BY <3>1 DEF Index!Max
    <2>3. i \in 1..committed[t] \/ i \in 1..baseline[t].durable
      BY <1>4, <2>2
    <2>4. i \in 1..arrived[t] /\ (i <= From(t) \/ i <= baseline[t].durable)
          /\ (i <= committed[t] => i <= From(t))
      BY <2>1, <2>3 DEF Index!NoOffset
    <2> QED  BY <1>2, <1>4, <2>4
  <1>5. Index!ReadyIsComplete
    BY <1>3, <1>4 DEF Index!ReadyIsComplete
  <1> QED  BY <1>1, <1>5

(* What the monitoring API shows when it is ready holds every message up to  *)
(* the marks that its consumers took when they were assigned, through       *)
(* rebuilds, failures and redelivery (processor/serving_index.py).          *)
THEOREM IndexIsComplete ==
    ASSUME Index!IndexAssumption PROVE Index!Spec => []Index!ReadyIsComplete
  <1>1. Index!Init => IndexInv
    BY IndexInvInit
  <1>2. IndexInv /\ [Index!Next]_Index!vars => IndexInv'
    BY IndexInvNext
  <1> QED  BY <1>1, <1>2, IndexInvSays, PTL DEF Index!Spec

-----------------------------------------------------------------------------
(* DocumentPages: the rows that a reader was given of a document and those    *)
(* behind its cursor are all its rows, since the order of the list tells the  *)
(* rows of one document apart.                                             *)

(* Every row there can be, and the rows of one document in the list. *)
AnyRow == [doc : Docs, at : Times, score : Scores \cup {0}]
PageRowsOf(d) == {r \in Pages!Listing : r.doc = d}
BehindOf(d) == {r \in Pages!Behind : r.doc = d}

(* What a reader was given of an untouched document, and what is still to     *)
(* come, are its rows.                                                     *)
PagesInv ==
    /\ Pages!TypeOK
    /\ IsFiniteSet(decisions) /\ IsFiniteSet(admissions)
    /\ walk \in [pc : {"off", "reading", "done"}, sort : Pages!Sorts,
                 cursor : SUBSET AnyRow, given : [Docs -> Nat]]
    /\ walk.cursor = {} \/ \E c \in AnyRow : walk.cursor = {c}
    /\ walk.pc = "reading" => \A d \in stable :
          walk.given[d] + Cardinality(BehindOf(d)) = Cardinality(PageRowsOf(d))
    /\ walk.pc = "done" => \A d \in stable : walk.given[d] = Cardinality(PageRowsOf(d))

LEMMA PagesSize == \A S : Pages!Cardinality(S) = Cardinality(S)
  BY DEF Cardinality, Pages!Cardinality

-----------------------------------------------------------------------------
(* The order of the list. *)

LEMMA RowIsInt ==
    ASSUME Pages!PageAssumption, NEW r \in AnyRow
    PROVE  r.doc \in Int /\ r.at \in Int /\ r.score \in Int
  <1>1. r.doc \in Docs /\ r.at \in Times /\ (r.score \in Scores \/ r.score = 0)
    BY DEF AnyRow
  <1>2. \A x \in Docs \cup Times \cup Scores : x \in Int
    BY DEF Pages!PageAssumption
  <1> QED  BY <1>1, <1>2

LEMMA AfterIsTransitive ==
    ASSUME Pages!PageAssumption, NEW sort \in Pages!Sorts, NEW p \in AnyRow, NEW q \in AnyRow,
           NEW r \in AnyRow, Pages!After(sort, p, q), Pages!After(sort, q, r)
    PROVE  Pages!After(sort, p, r)
  <1>1. /\ p.doc \in Int /\ p.at \in Int /\ p.score \in Int
        /\ q.doc \in Int /\ q.at \in Int /\ q.score \in Int
        /\ r.doc \in Int /\ r.at \in Int /\ r.score \in Int
    BY RowIsInt
  <1> QED  BY <1>1 DEF Pages!After, Pages!Sorts

LEMMA AfterIsTotal ==
    ASSUME Pages!PageAssumption, NEW sort \in Pages!Sorts, NEW p \in AnyRow, NEW q \in AnyRow,
           ~Pages!After(sort, p, q), ~Pages!After(sort, q, p)
    PROVE  p.doc = q.doc /\ p.at = q.at
  <1>1. /\ p.doc \in Int /\ p.at \in Int /\ p.score \in Int
        /\ q.doc \in Int /\ q.at \in Int /\ q.score \in Int
    BY RowIsInt
  <1> QED  BY <1>1 DEF Pages!After, Pages!Sorts

LEMMA ListingType ==
    ASSUME Pages!TypeOK
    PROVE  Pages!Listing \subseteq AnyRow /\ Pages!Behind \subseteq Pages!Listing
           /\ Pages!Listing \subseteq decisions \cup admissions
  BY DEF Pages!TypeOK, Pages!Listing, Pages!Latest, AnyRow, Pages!Behind

LEMMA ListingIsFinite ==
    ASSUME PagesInv, NEW S, S \subseteq Pages!Listing
    PROVE  IsFiniteSet(S) /\ Cardinality(S) \in Nat
  <1>1. IsFiniteSet(decisions \cup admissions)
    BY FS_Union DEF PagesInv
  <1>2. S \in SUBSET (decisions \cup admissions)
    BY ListingType DEF PagesInv
  <1>3. IsFiniteSet(S)
    BY <1>1, <1>2, FS_Subset
  <1> QED  BY <1>3, FS_CardinalityType

(* The rows of one document in the list differ in their time. *)
LEMMA TimeTellsRows ==
    ASSUME Pages!PageAssumption, Pages!TypeOK, NEW p \in Pages!Listing, NEW q \in Pages!Listing,
           p.doc = q.doc, p.at = q.at
    PROVE  p = q
  <1>1. /\ p \in AnyRow /\ q \in AnyRow
    BY ListingType
  <1>2. p.score \in Int /\ q.score \in Int /\ p.at \in Int
    BY <1>1, RowIsInt
  <1>3. p.score = q.score
    <2>1. CASE p \in Pages!Latest /\ q \in Pages!Latest
      BY <1>2, <2>1 DEF Pages!Latest
    <2>2. CASE p \notin Pages!Latest /\ q \notin Pages!Latest
      BY <2>2 DEF Pages!Listing, Pages!TypeOK
    <2>3. CASE (p \in Pages!Latest /\ q \notin Pages!Latest) \/ (p \notin Pages!Latest /\ q \in Pages!Latest)
      BY <2>3 DEF Pages!Listing, Pages!Latest
    <2> QED  BY <2>1, <2>2, <2>3
  <1>4. /\ p = [doc |-> p.doc, at |-> p.at, score |-> p.score]
        /\ q = [doc |-> q.doc, at |-> q.at, score |-> q.score]
    BY <1>1 DEF AnyRow
  <1> QED  BY <1>3, <1>4

(* Of a document with a decision one row is listed. *)
LEMMA LatestIsUnique ==
    ASSUME Pages!PageAssumption, Pages!TypeOK, NEW p \in Pages!Listing, NEW q \in Pages!Listing,
           p.doc = q.doc, Pages!Decided(p.doc)
    PROVE  p = q
  <1>1. p \in AnyRow /\ q \in AnyRow
    BY ListingType
  <1>2. /\ p.score \in Int /\ q.score \in Int /\ p.at \in Int /\ q.at \in Int
    BY <1>1, RowIsInt
  <1>3. p \in Pages!Latest /\ q \in Pages!Latest
    BY DEF Pages!Listing, Pages!Decided
  <1>4. p.at = q.at
    BY <1>2, <1>3 DEF Pages!Latest
  <1> QED  BY <1>4, TimeTellsRows

LEMMA LeastOf ==
    ASSUME NEW S, S \subseteq Nat, S # {}
    PROVE  \E n \in S : \A m \in S : n <= m
  <1>1. PICK n \in S : \A m \in S : ~(<<m, n>> \in OpToRel(<, Nat))
    BY NatLessThanWellFounded, WFMin
  <1>2. \A m \in S : m \in Nat /\ n \in Nat /\ ~(m < n)
    BY <1>1 DEF OpToRel
  <1> QED  BY <1>2

LEMMA LatestExists ==
    ASSUME Pages!PageAssumption, Pages!TypeOK, IsFiniteSet(decisions), NEW d, Pages!Decided(d)
    PROVE  \E r \in Pages!Latest : r.doc = d
  <1> DEFINE Beats(q, r) == q.at > r.at \/ (q.at = r.at /\ q.score > r.score)
             Better(r) == {q \in decisions : q.doc = d /\ Beats(q, r)}
             Own == {r \in decisions : r.doc = d}
             Ranks == {Cardinality(Better(r)) : r \in Own}
  <1>1. \A r \in decisions : r.at \in Int /\ r.score \in Int
    BY DEF Pages!TypeOK, Pages!PageAssumption
  <1>2. \A r \in decisions : IsFiniteSet(Better(r)) /\ Cardinality(Better(r)) \in Nat
    <2> TAKE r \in decisions
    <2>1. Better(r) \in SUBSET decisions
      OBVIOUS
    <2>2. IsFiniteSet(Better(r))
      BY <2>1, FS_Subset
    <2> QED  BY <2>2, FS_CardinalityType
  <1>3. Ranks \subseteq Nat /\ Ranks # {}
    BY <1>2 DEF Pages!Decided
  <1> HIDE DEF Ranks
  <1>4. PICK n \in Ranks : \A m \in Ranks : n <= m
    BY <1>3, LeastOf
  <1> USE DEF Ranks
  <1>5. PICK r \in Own : n = Cardinality(Better(r))
    BY <1>4
  <1>6. Better(r) = {}
    <2> SUFFICES ASSUME NEW q \in Better(r) PROVE FALSE
      OBVIOUS
    <2>1. q \in Own /\ Better(q) \subseteq Better(r) /\ q \notin Better(q)
      BY <1>1
    <2>2. Better(q) \in SUBSET Better(r) /\ Better(r) # Better(q)
      BY <2>1
    <2>3. Cardinality(Better(q)) <= Cardinality(Better(r))
          /\ Cardinality(Better(r)) # Cardinality(Better(q))
      <3> HIDE DEF Better
      <3>1. r \in decisions
        OBVIOUS
      <3> QED  BY <1>2, <2>2, <3>1, FS_Subset
    <2>4. Cardinality(Better(q)) \in Ranks
      BY <2>1
    <2>5. Cardinality(Better(q)) \in Nat /\ Cardinality(Better(r)) \in Nat
      BY <1>2, <2>1
    <2>6. Cardinality(Better(r)) <= Cardinality(Better(q))
      BY <1>4, <1>5, <2>4
    <2> HIDE DEF Better
    <2> QED  BY <2>3, <2>5, <2>6
  <1>7. \A q \in decisions : q.doc = d => q.at < r.at \/ (q.at = r.at /\ q.score <= r.score)
    BY <1>1, <1>6
  <1> QED  BY <1>7 DEF Pages!Latest

-----------------------------------------------------------------------------
LEMMA PagesInvInit == ASSUME Pages!PageAssumption, Pages!Init PROVE PagesInv
  BY PagesSize, FS_EmptySet DEF Pages!PageAssumption, Pages!Init, PagesInv, Pages!TypeOK, Pages!Off,
     Pages!Sorts

LEMMA BehindOfType ==
    ASSUME PagesInv, NEW d
    PROVE  /\ IsFiniteSet(BehindOf(d)) /\ Cardinality(BehindOf(d)) \in Nat
           /\ IsFiniteSet(PageRowsOf(d)) /\ Cardinality(PageRowsOf(d)) \in Nat
  <1>1. BehindOf(d) \subseteq Pages!Listing /\ PageRowsOf(d) \subseteq Pages!Listing
    BY DEF BehindOf, PageRowsOf, Pages!Behind
  <1> QED  BY <1>1, ListingIsFinite

(* A write to one document leaves the rows of the others alone. *)
LEMMA WriteKeeps ==
    ASSUME Pages!PageAssumption, PagesInv, NEW d \in Docs, Pages!Write(d), Pages!TypeOK',
           IsFiniteSet(decisions'), IsFiniteSet(admissions'),
           \A r : r.doc # d => /\ r \in decisions' <=> r \in decisions
                               /\ r \in admissions' <=> r \in admissions
    PROVE  PagesInv'
  <1>1. walk' = walk /\ stable' = stable \ {d}
    BY DEF Pages!Write
  <1>2. ASSUME NEW e \in stable'
        PROVE  e \in stable /\ BehindOf(e)' = BehindOf(e) /\ PageRowsOf(e)' = PageRowsOf(e)
    <2>1. e \in stable /\ e # d
      BY <1>1
    <2>2. \A r : r.doc = e => (r \in Pages!Latest' <=> r \in Pages!Latest)
      BY <2>1 DEF Pages!Latest
    <2>3. \A r : r.doc = e => (r \in Pages!Listing' <=> r \in Pages!Listing)
      BY <2>1, <2>2 DEF Pages!Listing
    <2>4. PageRowsOf(e)' = PageRowsOf(e)
      BY <2>3 DEF PageRowsOf
    <2>5. BehindOf(e)' = BehindOf(e)
      BY <2>3, <1>1 DEF BehindOf, Pages!Behind
    <2> QED  BY <2>1, <2>4, <2>5
  <1>3. /\ walk' \in [pc : {"off", "reading", "done"}, sort : Pages!Sorts,
                      cursor : SUBSET AnyRow, given : [Docs -> Nat]]
        /\ walk'.cursor = {} \/ \E c \in AnyRow : walk'.cursor = {c}
    BY <1>1 DEF PagesInv
  <1>4. walk'.pc = "reading" => \A e \in stable' :
          walk'.given[e] + Cardinality(BehindOf(e)') = Cardinality(PageRowsOf(e)')
    BY <1>1, <1>2 DEF PagesInv
  <1>5. walk'.pc = "done" => \A e \in stable' : walk'.given[e] = Cardinality(PageRowsOf(e)')
    BY <1>1, <1>2 DEF PagesInv
  <1> QED  BY <1>3, <1>4, <1>5 DEF PagesInv

LEMMA DecideKeeps ==
    ASSUME Pages!PageAssumption, PagesInv, NEW d \in Docs, NEW t \in Times, NEW s \in Scores,
           Pages!Decide(d, t, s)
    PROVE  PagesInv'
  <1>1. /\ decisions' = decisions \cup {Pages!Row(d, t, s)} /\ admissions' = admissions
        /\ Pages!Write(d)
    BY DEF Pages!Decide
  <1>2. IsFiniteSet(decisions') /\ IsFiniteSet(admissions')
    BY <1>1, FS_AddElement DEF PagesInv
  <1>3. Pages!TypeOK'
    BY <1>1, PagesSize DEF Pages!Write, PagesInv, Pages!TypeOK, Pages!Row, Pages!PageAssumption
  <1>4. \A r : r.doc # d => /\ r \in decisions' <=> r \in decisions
                            /\ r \in admissions' <=> r \in admissions
    BY <1>1 DEF Pages!Row
  <1> QED  BY <1>1, <1>2, <1>3, <1>4, WriteKeeps

LEMMA RefuseKeeps ==
    ASSUME Pages!PageAssumption, PagesInv, NEW d \in Docs, NEW t \in Times, Pages!Refuse(d, t)
    PROVE  PagesInv'
  <1>1. /\ admissions' = admissions \cup {Pages!Row(d, t, 0)} /\ decisions' = decisions
        /\ Pages!Write(d)
    BY DEF Pages!Refuse
  <1>2. IsFiniteSet(decisions') /\ IsFiniteSet(admissions')
    BY <1>1, FS_AddElement DEF PagesInv
  <1>3. Pages!TypeOK'
    BY <1>1, PagesSize DEF Pages!Write, PagesInv, Pages!TypeOK, Pages!Row, Pages!PageAssumption
  <1>4. \A r : r.doc # d => /\ r \in decisions' <=> r \in decisions
                            /\ r \in admissions' <=> r \in admissions
    BY <1>1 DEF Pages!Row
  <1> QED  BY <1>1, <1>2, <1>3, <1>4, WriteKeeps

LEMMA BeginKeeps ==
    ASSUME Pages!PageAssumption, PagesInv, NEW sort \in Pages!Sorts, Pages!Begin(sort)
    PROVE  PagesInv'
  <1>1. /\ decisions' = decisions /\ admissions' = admissions /\ writes' = writes
        /\ stable' = Docs
        /\ walk' = [pc |-> "reading", sort |-> sort, cursor |-> {},
                    given |-> [d \in Docs |-> 0]]
    BY DEF Pages!Begin, Pages!Off
  <1>2. Pages!TypeOK'
    BY <1>1, PagesSize, FS_EmptySet DEF PagesInv, Pages!TypeOK
  <1>3. Pages!Behind' = Pages!Listing' /\ Pages!Listing' = Pages!Listing
    BY <1>1 DEF Pages!Behind, Pages!Listing, Pages!Latest
  <1>4. \A d : BehindOf(d)' = PageRowsOf(d)' /\ PageRowsOf(d)' = PageRowsOf(d)
    BY <1>3 DEF BehindOf, PageRowsOf
  <1>5. \A d \in stable' :
          walk'.given[d] + Cardinality(BehindOf(d)') = Cardinality(PageRowsOf(d)')
    BY <1>1, <1>4, BehindOfType
  <1>6. /\ walk' \in [pc : {"off", "reading", "done"}, sort : Pages!Sorts,
                      cursor : SUBSET AnyRow, given : [Docs -> Nat]]
        /\ walk'.cursor = {} /\ walk'.pc = "reading"
    BY <1>1
  <1>7. IsFiniteSet(decisions') /\ IsFiniteSet(admissions')
    BY <1>1 DEF PagesInv
  <1> QED  BY <1>2, <1>5, <1>6, <1>7 DEF PagesInv

(* Behind the last row of a page comes what came behind the cursor and is not *)
(* on the page.                                                            *)
LEMMA BehindPage ==
    ASSUME Pages!PageAssumption, PagesInv, NEW page \in SUBSET Pages!Behind, Pages!IsPage(page, Pages!Behind),
           NEW l \in page, Pages!IsLast(l, page), NEW r \in Pages!Listing
    PROVE  Pages!After(walk.sort, r, l) <=> r \in Pages!Behind \ page
  <1>1. /\ walk.sort \in Pages!Sorts /\ walk.cursor \subseteq AnyRow
        /\ Pages!Listing \subseteq AnyRow /\ Pages!Behind \subseteq Pages!Listing /\ Pages!TypeOK
    BY ListingType DEF PagesInv
  <1>2. ASSUME Pages!After(walk.sort, r, l) PROVE r \in Pages!Behind \ page
    <2>1. \A c \in walk.cursor : Pages!After(walk.sort, l, c)
      BY DEF Pages!Behind
    <2>2. \A c \in walk.cursor : Pages!After(walk.sort, r, c)
      BY <1>1, <1>2, <2>1, AfterIsTransitive
    <2> QED  BY <1>2, <2>2 DEF Pages!Behind, Pages!IsLast
  <1>3. ASSUME r \in Pages!Behind \ page, ~Pages!After(walk.sort, r, l) PROVE FALSE
    <2>1. ~Pages!After(walk.sort, l, r)
      BY <1>3 DEF Pages!IsPage
    <2>2. r \in AnyRow /\ l \in AnyRow /\ l \in Pages!Listing
      BY <1>1
    <2>3. r.doc = l.doc /\ r.at = l.at
      BY <1>1, <1>3, <2>1, <2>2, AfterIsTotal
    <2>4. r = l
      BY <1>1, <2>2, <2>3, TimeTellsRows
    <2> QED  BY <1>3, <2>4
  <1> QED  BY <1>2, <1>3

LEMMA ReadPageKeeps == ASSUME Pages!PageAssumption, PagesInv, Pages!ReadPage PROVE PagesInv'
  <1> DEFINE OnPage(p, d) == {r \in p : r.doc = d}
             Tails(p) == IF p = {} THEN {{}} ELSE {{r} : r \in p}
             Moved(p, c) ==
                [walk EXCEPT
                    !.pc = IF Pages!Behind = p THEN "done" ELSE "reading",
                    !.cursor = c,
                    !.given = [d \in Docs |-> walk.given[d] + Cardinality(OnPage(p, d))]]
  <1>0. PICK page \in SUBSET Pages!Behind :
          Pages!IsPage(page, Pages!Behind) /\ \E c \in Tails(page) : (\A r \in c : Pages!IsLast(r, page)) /\ walk' = Moved(page, c)
    BY PagesSize DEF Pages!ReadPage
  <1> HIDE DEF Tails, Moved
  <1>1. PICK tail \in Tails(page) : (\A r \in tail : Pages!IsLast(r, page)) /\ walk' = Moved(page, tail)
    BY <1>0
  <1>2. /\ decisions' = decisions /\ admissions' = admissions /\ stable' = stable
        /\ writes' = writes /\ walk.pc = "reading"
    BY DEF Pages!ReadPage
  <1>3. /\ walk \in [pc : {"off", "reading", "done"}, sort : Pages!Sorts,
                     cursor : SUBSET AnyRow, given : [Docs -> Nat]]
        /\ Pages!Listing \subseteq AnyRow /\ Pages!Behind \subseteq Pages!Listing
        /\ stable \subseteq Docs
    BY ListingType DEF PagesInv, Pages!TypeOK
  <1>4. tail = {} \/ \E c \in page : tail = {c}
    BY DEF Tails
  <1>5. page \subseteq AnyRow /\ page \subseteq Pages!Listing
    BY <1>3
  <1>6. ASSUME NEW d
        PROVE  IsFiniteSet(OnPage(page, d)) /\ Cardinality(OnPage(page, d)) \in Nat
    <2>1. OnPage(page, d) \subseteq Pages!Listing
      BY <1>5
    <2> HIDE DEF OnPage
    <2> QED  BY <2>1, ListingIsFinite
  <1> HIDE DEF OnPage
  <1>7. walk' = [pc |-> IF Pages!Behind = page THEN "done" ELSE "reading", sort |-> walk.sort,
                 cursor |-> tail,
                 given |-> [d \in Docs |-> walk.given[d] + Cardinality(OnPage(page, d))]]
    <2>1. walk' = Moved(page, tail)
      BY <1>1
    <2>2. walk = [pc |-> walk.pc, sort |-> walk.sort, cursor |-> walk.cursor,
                  given |-> walk.given]
      BY <1>3
    <2> QED  BY <2>1, <2>2 DEF Moved
  <1>8. walk' \in [pc : {"off", "reading", "done"}, sort : Pages!Sorts,
                   cursor : SUBSET AnyRow, given : [Docs -> Nat]]
    BY <1>3, <1>4, <1>5, <1>6, <1>7
  <1>9. walk'.cursor = {} \/ \E c \in AnyRow : walk'.cursor = {c}
    BY <1>4, <1>5, <1>7
  <1>10. Cardinality(walk'.cursor) <= 1
    <2>1. CASE walk'.cursor = {}  BY <2>1, FS_EmptySet
    <2>2. CASE walk'.cursor # {}
      <3>1. PICK c : walk'.cursor = {c}
        BY <1>9, <2>2
      <3>2. Cardinality({c}) = 1
        BY FS_Singleton
      <3> QED  BY <3>1, <3>2
    <2> QED  BY <2>1, <2>2
  <1>11. Pages!TypeOK'
    BY <1>2, <1>8, <1>10, PagesSize DEF PagesInv, Pages!TypeOK
  <1>12. Pages!Listing' = Pages!Listing /\ \A d : PageRowsOf(d)' = PageRowsOf(d)
    BY <1>2 DEF Pages!Listing, Pages!Latest, PageRowsOf
  <1>13. ASSUME Pages!Behind = page, NEW d \in stable
         PROVE  walk'.given[d] = Cardinality(PageRowsOf(d))
    <2>1. OnPage(page, d) = BehindOf(d)
      BY <1>13 DEF OnPage, BehindOf
    <2>2. walk'.given[d] = walk.given[d] + Cardinality(BehindOf(d))
      BY <1>3, <1>7, <2>1
    <2> QED  BY <1>2, <2>2 DEF PagesInv
  <1>14. ASSUME Pages!Behind # page, NEW d \in stable
         PROVE  walk'.given[d] + Cardinality(BehindOf(d)') = Cardinality(PageRowsOf(d))
    <2>1. page # {}
      <3> SUFFICES ASSUME page = {} PROVE FALSE
        OBVIOUS
      <3>1. IsFiniteSet(Pages!Behind) /\ Cardinality(Pages!Behind) \in Nat
        BY <1>3, ListingIsFinite
      <3>2. Cardinality(page) = 0
        BY FS_EmptySet
      <3>3. Cardinality(Pages!Behind) = 0
        BY <1>0, <3>1, <3>2, PagesSize DEF Pages!IsPage, Pages!PageAssumption
      <3> QED  BY <1>14, <3>1, <3>3, FS_EmptySet
    <2>2. PICK l \in page : tail = {l} /\ Pages!IsLast(l, page)
      BY <1>1, <2>1 DEF Tails
    <2>3. \A r \in Pages!Listing : Pages!After(walk.sort, r, l) <=> r \in Pages!Behind \ page
      BY <1>0, <2>2, BehindPage
    <2>4. walk'.cursor = {l} /\ walk'.sort = walk.sort
      BY <1>7, <2>2
    <2>5. Pages!Behind' = {r \in Pages!Listing : Pages!After(walk.sort, r, l)}
      BY <1>12, <2>4 DEF Pages!Behind
    <2>6. Pages!Behind' = Pages!Behind \ page
      BY <1>3, <2>3, <2>5
    <2>7. /\ BehindOf(d) = OnPage(page, d) \cup BehindOf(d)'
          /\ OnPage(page, d) \cap BehindOf(d)' = {}
      BY <2>6 DEF BehindOf, OnPage
    <2>8. IsFiniteSet(BehindOf(d)') /\ Cardinality(BehindOf(d)') \in Nat
      <3>1. BehindOf(d)' \subseteq Pages!Listing
        BY <1>3, <2>6 DEF BehindOf
      <3> QED  BY <3>1, ListingIsFinite
    <2>9. Cardinality(BehindOf(d)) =
              Cardinality(OnPage(page, d)) + Cardinality(BehindOf(d)')
      <3>1. Cardinality(OnPage(page, d) \cup BehindOf(d)') =
                Cardinality(OnPage(page, d)) + Cardinality(BehindOf(d)')
                - Cardinality(OnPage(page, d) \cap BehindOf(d)')
        BY <1>6, <2>8, FS_Union
      <3>2. Cardinality(OnPage(page, d) \cap BehindOf(d)') = 0
        BY <2>7, FS_EmptySet
      <3>3. Cardinality(OnPage(page, d)) \in Nat
        BY <1>6
      <3> QED  BY <2>7, <2>8, <3>1, <3>2, <3>3
    <2>10. walk.given[d] + Cardinality(BehindOf(d)) = Cardinality(PageRowsOf(d))
      BY <1>2 DEF PagesInv
    <2>11. walk'.given[d] = walk.given[d] + Cardinality(OnPage(page, d))
           /\ walk.given[d] \in Nat /\ Cardinality(OnPage(page, d)) \in Nat
      BY <1>3, <1>6, <1>7
    <2> QED  BY <2>8, <2>9, <2>10, <2>11
  <1>15. (walk'.pc = "reading" <=> Pages!Behind # page) /\ (walk'.pc = "done" <=> Pages!Behind = page)
    BY <1>7
  <1>16. walk'.pc = "reading" => \A d \in stable' :
          walk'.given[d] + Cardinality(BehindOf(d)') = Cardinality(PageRowsOf(d)')
    BY <1>2, <1>12, <1>14, <1>15
  <1>17. walk'.pc = "done" => \A d \in stable' : walk'.given[d] = Cardinality(PageRowsOf(d)')
    BY <1>2, <1>12, <1>13, <1>15
  <1>18. IsFiniteSet(decisions') /\ IsFiniteSet(admissions')
    BY <1>2 DEF PagesInv
  <1> QED  BY <1>8, <1>9, <1>11, <1>16, <1>17, <1>18 DEF PagesInv

LEMMA PagesInvStutter == ASSUME PagesInv, UNCHANGED Pages!vars PROVE PagesInv'
  <1>1. /\ decisions' = decisions /\ admissions' = admissions /\ walk' = walk
        /\ stable' = stable /\ writes' = writes
    BY DEF Pages!vars
  <1>2. Pages!Listing' = Pages!Listing
    BY <1>1 DEF Pages!Listing, Pages!Latest
  <1>3. Pages!Behind' = Pages!Behind
    BY <1>1, <1>2 DEF Pages!Behind
  <1>4. \A d : PageRowsOf(d)' = PageRowsOf(d) /\ BehindOf(d)' = BehindOf(d)
    BY <1>2, <1>3 DEF PageRowsOf, BehindOf
  <1> QED  BY <1>1, <1>4 DEF PagesInv, Pages!TypeOK

LEMMA PagesInvNext ==
    ASSUME Pages!PageAssumption, PagesInv, [Pages!Next]_Pages!vars PROVE PagesInv'
  BY DecideKeeps, RefuseKeeps, BeginKeeps, ReadPageKeeps, PagesInvStutter DEF Pages!Next

LEMMA PagesInvSays ==
    ASSUME Pages!PageAssumption, PagesInv PROVE Pages!TypeOK /\ Pages!StableShownOnce
  <1>1. ASSUME walk.pc = "done", NEW d \in stable, Pages!Listed(d) PROVE walk.given[d] > 0
    <2>1. PageRowsOf(d) # {}
      BY <1>1 DEF Pages!Listed, PageRowsOf
    <2>2. Cardinality(PageRowsOf(d)) # 0 /\ Cardinality(PageRowsOf(d)) \in Nat
      BY <2>1, BehindOfType, FS_EmptySet
    <2> QED  BY <1>1, <2>2 DEF PagesInv
  <1>2. ASSUME walk.pc = "done", NEW d \in stable, Pages!Decided(d) PROVE walk.given[d] = 1
    <2>1. PICK r \in Pages!Latest : r.doc = d
      BY <1>2, LatestExists DEF PagesInv
    <2>2. r \in Pages!Listing
      BY DEF Pages!Listing
    <2>3. \A q \in Pages!Listing : q.doc = d => q = r
      BY <1>2, <2>1, <2>2, LatestIsUnique DEF PagesInv
    <2>4. PageRowsOf(d) = {r}
      BY <2>1, <2>2, <2>3 DEF PageRowsOf
    <2>5. Cardinality(PageRowsOf(d)) = 1
      BY <2>4, FS_Singleton
    <2> QED  BY <1>2, <2>5 DEF PagesInv
  <1> QED  BY <1>1, <1>2 DEF PagesInv, Pages!StableShownOnce

-----------------------------------------------------------------------------
(* The parts together: a step of the run is a step of one part and leaves the *)
(* variables of the others as they are.                                     *)

lakehouseVars == <<part, vars, indexVars, upkeepVars, outboxVars, pageVars, mishaps>>

LEMMA PartStays == [LakehouseNext]_lakehouseVars => UNCHANGED part
  BY DEF LakehouseNext, WriterStep, IndexStep, UpkeepStep, OutboxStep, PagesStep, lakehouseVars

LEMMA WriterMoves == [LakehouseNext]_lakehouseVars => [Next]_vars
  BY DEF LakehouseNext, WriterStep, IndexStep, UpkeepStep, OutboxStep, PagesStep, lakehouseVars

(* What the writer owes the tables holds in the run of all the parts. *)
THEOREM LakehouseRowsOnce == LakehouseSpec => []RowsOnce
  <1>1. LakehouseInit => Init
    BY DEF LakehouseInit
  <1>2. LakehouseSpec => Spec
    BY <1>1, WriterMoves, PTL DEF LakehouseSpec, Spec, lakehouseVars
  <1> QED  BY <1>2, WriterRowsOnce, PTL

(* The job deletes nothing that the table or a scan of it needs             *)
(* (processor/iceberg_maintenance.py), for every age, retention, floor and   *)
(* number of versions.                                                     *)
THEOREM NothingNeededGoes == LakehouseSpec => []NothingNeededIsRemoved
  <1> DEFINE J == part = "upkeep" => UpkeepInv
  <1>1. LakehouseInit => J
    BY LakehouseAssumption, UpkeepInvInit DEF LakehouseInit
  <1>2. J /\ [LakehouseNext]_lakehouseVars => J'
    <2> SUFFICES ASSUME J, [LakehouseNext]_lakehouseVars, part' = "upkeep" PROVE UpkeepInv'
      OBVIOUS
    <2>1. part = "upkeep" /\ UpkeepInv
      BY PartStays
    <2>2. [Upkeep!Next]_Upkeep!vars
      BY <2>1 DEF LakehouseNext, WriterStep, IndexStep, UpkeepStep, OutboxStep, PagesStep,
                  lakehouseVars, upkeepVars, Upkeep!vars
    <2> QED  BY <2>1, <2>2, LakehouseAssumption, UpkeepInvNext
  <1>3. J => NothingNeededIsRemoved
    BY UpkeepInvSays DEF NothingNeededIsRemoved
  <1> HIDE DEF J
  <1> QED  BY <1>1, <1>2, <1>3, PTL DEF LakehouseSpec, lakehouseVars

(* The monitoring API is ready only with all that it owes (processor/        *)
(* serving_index.py), in the run of all the parts.                         *)
THEOREM IndexReadyIsComplete == LakehouseSpec => []ReadyIsComplete
  <1> DEFINE J == part = "index" => IndexInv
  <1>1. LakehouseInit => J
    BY LakehouseAssumption, IndexInvInit DEF LakehouseInit
  <1>2. J /\ [LakehouseNext]_lakehouseVars => J'
    <2> SUFFICES ASSUME J, [LakehouseNext]_lakehouseVars, part' = "index" PROVE IndexInv'
      OBVIOUS
    <2>1. part = "index" /\ IndexInv
      BY PartStays
    <2>2. [Index!Next]_Index!vars
      BY <2>1 DEF LakehouseNext, WriterStep, IndexStep, UpkeepStep, OutboxStep, PagesStep,
                  lakehouseVars, indexVars, Index!vars, Index!outside, Index!file, Index!consumer
    <2> QED  BY <2>1, <2>2, LakehouseAssumption, IndexInvNext
  <1>3. J => ReadyIsComplete
    BY IndexInvSays DEF ReadyIsComplete
  <1> HIDE DEF J
  <1> QED  BY <1>1, <1>2, <1>3, PTL DEF LakehouseSpec, lakehouseVars

(* A walk over the document list (processor/duckdb_api.py) shows a document   *)
(* that nobody writes meanwhile, and once if it has a decision, whatever      *)
(* comes, moves or goes around it, for all pages and documents.             *)
THEOREM StableIsShownOnce == LakehouseSpec => []StableShownOnce
  <1> DEFINE J == part = "pages" => PagesInv
  <1>1. LakehouseInit => J
    BY LakehouseAssumption, PagesInvInit DEF LakehouseInit
  <1>2. J /\ [LakehouseNext]_lakehouseVars => J'
    <2> SUFFICES ASSUME J, [LakehouseNext]_lakehouseVars, part' = "pages" PROVE PagesInv'
      OBVIOUS
    <2>1. part = "pages" /\ PagesInv
      BY PartStays
    <2>2. [Pages!Next]_Pages!vars
      BY <2>1 DEF LakehouseNext, WriterStep, IndexStep, UpkeepStep, OutboxStep, PagesStep,
                  lakehouseVars, pageVars, Pages!vars
    <2> QED  BY <2>1, <2>2, LakehouseAssumption, PagesInvNext
  <1>3. J => StableShownOnce
    BY LakehouseAssumption, PagesInvSays DEF StableShownOnce
  <1> HIDE DEF J
  <1> QED  BY <1>1, <1>2, <1>3, PTL DEF LakehouseSpec, lakehouseVars

(* FoundryOutbox_proofs, of the workers that share a job and of the sole one. *)
OutboxFacts == INSTANCE FoundryOutbox_proofs WITH
        Workers <- OutboxWorkers, Events <- OutboxEvents, BatchSize <- SinkBatch,
        FaultLimit <- OutboxFaults, stored <- recorded, rows <- filed, faults <- mishaps
SinkFacts == INSTANCE FoundryOutbox_proofs WITH
        Workers <- SinkWorkers, Events <- SinkEvents, BatchSize <- SinkBatch,
        FaultLimit <- SinkFaults, stored <- recorded, rows <- filed, faults <- mishaps

LEMMA OutboxIs ==
    /\ OutboxFacts!OutboxAssumption <=> Outbox!OutboxAssumption
    /\ OutboxFacts!vars = Outbox!vars /\ (OutboxFacts!Init <=> Outbox!Init) /\ (OutboxFacts!Next <=> Outbox!Next)
    /\ OutboxFacts!TypeOK <=> Outbox!TypeOK
    /\ OutboxFacts!NothingStranded <=> Outbox!NothingStranded
    /\ OutboxFacts!WrittenOnce <=> Outbox!WrittenOnce
  BY DEF
    OutboxFacts!OutboxAssumption, Outbox!OutboxAssumption, OutboxFacts!Kinds, Outbox!Kinds,
    OutboxFacts!Record, Outbox!Record, OutboxFacts!Table, Outbox!Table, OutboxFacts!TableOf,
    Outbox!TableOf, OutboxFacts!vars, Outbox!vars, OutboxFacts!Point, Outbox!Point,
    OutboxFacts!EmptySink, Outbox!EmptySink, OutboxFacts!Idle, Outbox!Idle,
    OutboxFacts!Init, Outbox!Init, OutboxFacts!Fails, Outbox!Fails, OutboxFacts!Of,
    Outbox!Of, OutboxFacts!Take, Outbox!Take, OutboxFacts!Lapse, Outbox!Lapse,
    OutboxFacts!Recorded, Outbox!Recorded, OutboxFacts!Append, Outbox!Append,
    OutboxFacts!Flushing, Outbox!Flushing, OutboxFacts!Stage, Outbox!Stage,
    OutboxFacts!Emit, Outbox!Emit, OutboxFacts!BeginOutbox, Outbox!BeginOutbox,
    OutboxFacts!FirstOf, Outbox!FirstOf, OutboxFacts!Restage, Outbox!Restage,
    OutboxFacts!EndRestage, Outbox!EndRestage, OutboxFacts!Released, Outbox!Released,
    OutboxFacts!Finish, Outbox!Finish, OutboxFacts!FlushDue, Outbox!FlushDue,
    OutboxFacts!InTable, Outbox!InTable, OutboxFacts!Buffered, Outbox!Buffered,
    OutboxFacts!Ids, Outbox!Ids, OutboxFacts!Pending, Outbox!Pending, OutboxFacts!Appended,
    Outbox!Appended, OutboxFacts!Noted, Outbox!Noted, OutboxFacts!Cleared, Outbox!Cleared,
    OutboxFacts!Learned, Outbox!Learned, OutboxFacts!AppendUnique, Outbox!AppendUnique,
    OutboxFacts!Retried, Outbox!Retried, OutboxFacts!CommitConflict, Outbox!CommitConflict,
    OutboxFacts!MarkPublished, Outbox!MarkPublished, OutboxFacts!GivenUp, Outbox!GivenUp,
    OutboxFacts!AppendFails, Outbox!AppendFails, OutboxFacts!MarkFails, Outbox!MarkFails,
    OutboxFacts!PipelineFails, Outbox!PipelineFails, OutboxFacts!EmitFails,
    Outbox!EmitFails, OutboxFacts!Crash, Outbox!Crash, OutboxFacts!Recoverable,
    Outbox!Recoverable, OutboxFacts!Restart, Outbox!Restart, OutboxFacts!Next, Outbox!Next,
    OutboxFacts!TypeOK, Outbox!TypeOK, OutboxFacts!Staged, Outbox!Staged, OutboxFacts!Safe,
    Outbox!Safe, OutboxFacts!NothingStranded, Outbox!NothingStranded,
    OutboxFacts!WrittenOnce, Outbox!WrittenOnce, OutboxFacts!Cardinality, Outbox!Cardinality

LEMMA SinkIs ==
    /\ SinkFacts!OutboxAssumption <=> Sink!OutboxAssumption
    /\ SinkFacts!vars = Sink!vars /\ (SinkFacts!Init <=> Sink!Init) /\ (SinkFacts!Next <=> Sink!Next)
    /\ SinkFacts!TypeOK <=> Sink!TypeOK
    /\ SinkFacts!NothingStranded <=> Sink!NothingStranded
    /\ SinkFacts!WrittenOnce <=> Sink!WrittenOnce
  BY DEF
    SinkFacts!OutboxAssumption, Sink!OutboxAssumption, SinkFacts!Kinds, Sink!Kinds,
    SinkFacts!Record, Sink!Record, SinkFacts!Table, Sink!Table, SinkFacts!TableOf,
    Sink!TableOf, SinkFacts!vars, Sink!vars, SinkFacts!Point, Sink!Point,
    SinkFacts!EmptySink, Sink!EmptySink, SinkFacts!Idle, Sink!Idle, SinkFacts!Init,
    Sink!Init, SinkFacts!Fails, Sink!Fails, SinkFacts!Of, Sink!Of, SinkFacts!Take,
    Sink!Take, SinkFacts!Lapse, Sink!Lapse, SinkFacts!Recorded, Sink!Recorded,
    SinkFacts!Append, Sink!Append, SinkFacts!Flushing, Sink!Flushing, SinkFacts!Stage,
    Sink!Stage, SinkFacts!Emit, Sink!Emit, SinkFacts!BeginOutbox, Sink!BeginOutbox,
    SinkFacts!FirstOf, Sink!FirstOf, SinkFacts!Restage, Sink!Restage, SinkFacts!EndRestage,
    Sink!EndRestage, SinkFacts!Released, Sink!Released, SinkFacts!Finish, Sink!Finish,
    SinkFacts!FlushDue, Sink!FlushDue, SinkFacts!InTable, Sink!InTable, SinkFacts!Buffered,
    Sink!Buffered, SinkFacts!Ids, Sink!Ids, SinkFacts!Pending, Sink!Pending,
    SinkFacts!Appended, Sink!Appended, SinkFacts!Noted, Sink!Noted, SinkFacts!Cleared,
    Sink!Cleared, SinkFacts!Learned, Sink!Learned, SinkFacts!AppendUnique,
    Sink!AppendUnique, SinkFacts!Retried, Sink!Retried, SinkFacts!CommitConflict,
    Sink!CommitConflict, SinkFacts!MarkPublished, Sink!MarkPublished, SinkFacts!GivenUp,
    Sink!GivenUp, SinkFacts!AppendFails, Sink!AppendFails, SinkFacts!MarkFails,
    Sink!MarkFails, SinkFacts!PipelineFails, Sink!PipelineFails, SinkFacts!EmitFails,
    Sink!EmitFails, SinkFacts!Crash, Sink!Crash, SinkFacts!Recoverable, Sink!Recoverable,
    SinkFacts!Restart, Sink!Restart, SinkFacts!Next, Sink!Next, SinkFacts!TypeOK,
    Sink!TypeOK, SinkFacts!Staged, Sink!Staged, SinkFacts!Safe, Sink!Safe,
    SinkFacts!NothingStranded, Sink!NothingStranded, SinkFacts!WrittenOnce,
    Sink!WrittenOnce, SinkFacts!Cardinality, Sink!Cardinality

LEMMA OutboxKeeps ==
    /\ Outbox!Init => OutboxFacts!Inv
    /\ OutboxFacts!Inv /\ (Outbox!Next \/ UNCHANGED Outbox!vars) => OutboxFacts!Inv'
    /\ OutboxFacts!Inv => Outbox!TypeOK /\ Outbox!NothingStranded /\ Outbox!WrittenOnce
  <1>1. OutboxFacts!OutboxAssumption
    BY LakehouseAssumption, OutboxIs
  <1>2. Outbox!Init => OutboxFacts!Inv
    BY <1>1, OutboxIs, OutboxFacts!InvInit
  <1>3. OutboxFacts!Inv /\ Outbox!Next => OutboxFacts!Inv'
    BY <1>1, OutboxIs, OutboxFacts!InvNext
  <1>4. OutboxFacts!Inv /\ UNCHANGED Outbox!vars => OutboxFacts!Inv'
    <2> SUFFICES ASSUME OutboxFacts!Inv, UNCHANGED Outbox!vars PROVE OutboxFacts!Inv'
      OBVIOUS
    <2>1. UNCHANGED OutboxFacts!vars
      BY DEF OutboxFacts!vars, Outbox!vars
    <2> QED  BY <2>1, OutboxFacts!InvStutter
  <1>5. OutboxFacts!Inv => Outbox!TypeOK /\ Outbox!NothingStranded /\ Outbox!WrittenOnce
    BY OutboxIs, OutboxFacts!InvSays
  <1> QED  BY <1>2, <1>3, <1>4, <1>5

LEMMA SinkKeeps ==
    /\ Sink!Init => SinkFacts!Inv
    /\ SinkFacts!Inv /\ (Sink!Next \/ UNCHANGED Sink!vars) => SinkFacts!Inv'
    /\ SinkFacts!Inv => Sink!TypeOK /\ Sink!NothingStranded /\ Sink!WrittenOnce
  <1>1. SinkFacts!OutboxAssumption
    BY LakehouseAssumption, SinkIs
  <1>2. Sink!Init => SinkFacts!Inv
    BY <1>1, SinkIs, SinkFacts!InvInit
  <1>3. SinkFacts!Inv /\ Sink!Next => SinkFacts!Inv'
    BY <1>1, SinkIs, SinkFacts!InvNext
  <1>4. SinkFacts!Inv /\ UNCHANGED Sink!vars => SinkFacts!Inv'
    <2> SUFFICES ASSUME SinkFacts!Inv, UNCHANGED Sink!vars PROVE SinkFacts!Inv'
      OBVIOUS
    <2>1. UNCHANGED SinkFacts!vars
      BY DEF SinkFacts!vars, Sink!vars
    <2> QED  BY <2>1, SinkFacts!InvStutter
  <1>5. SinkFacts!Inv => Sink!TypeOK /\ Sink!NothingStranded /\ Sink!WrittenOnce
    BY SinkIs, SinkFacts!InvSays
  <1> QED  BY <1>2, <1>3, <1>4, <1>5

(* A job that is marked has its records in the tables or with a worker, and  *)
(* no process appends twice what it can know of, for every set of workers,   *)
(* jobs and records, batch size and number of attempts.                     *)
THEOREM OutboxStrandsNothing == LakehouseSpec => []NothingStranded
  <1> DEFINE J == /\ part = "outbox" => OutboxFacts!Inv
                  /\ part = "sink" => SinkFacts!Inv
  <1>1. LakehouseInit => J
    BY OutboxKeeps, SinkKeeps DEF LakehouseInit
  <1>2. J /\ [LakehouseNext]_lakehouseVars => J'
    <2> SUFFICES ASSUME J, [LakehouseNext]_lakehouseVars PROVE J'
      OBVIOUS
    <2>1. part' = part
      BY PartStays
    <2>2. part = "outbox" => Outbox!Next \/ UNCHANGED Outbox!vars
      BY DEF LakehouseNext, WriterStep, IndexStep, UpkeepStep, OutboxStep, PagesStep,
             lakehouseVars, outboxVars, Outbox!vars
    <2>3. part = "sink" => Sink!Next \/ UNCHANGED Sink!vars
      BY DEF LakehouseNext, WriterStep, IndexStep, UpkeepStep, OutboxStep, PagesStep,
             lakehouseVars, outboxVars, Sink!vars
    <2> QED  BY <2>1, <2>2, <2>3, OutboxKeeps, SinkKeeps
  <1>3. J => NothingStranded
    BY OutboxKeeps, SinkKeeps DEF NothingStranded
  <1> HIDE DEF J
  <1> QED  BY <1>1, <1>2, <1>3, PTL DEF LakehouseSpec, lakehouseVars
=============================================================================
