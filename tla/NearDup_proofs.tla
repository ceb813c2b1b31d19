--------------------------- MODULE NearDup_proofs ---------------------------
(***************************************************************************)
(* Proofs about the near-duplicate index, for every set of documents,      *)
(* signatures, buckets and workers, every similarity and every order of    *)
(* locks and ids.                                                          *)
(*                                                                         *)
(* The argument: a worker that has probed holds the locks of all buckets   *)
(* of its signature, so what it found there stays true until it commits    *)
(* (Pending).  A registered cluster finds all its buckets owned (Filled),  *)
(* so that none of them is taken later; a cluster that is registered after *)
(* it met no similar owner in its own buckets.  Together they keep similar *)
(* clusters apart.                                                         *)
(***************************************************************************)
EXTENDS NearDup, TLAPS

(* Only the transaction that holds a bucket's lock has an answer about it.  *)
Locked == \A w \in Workers : at[w].pc = "answering" =>
              \A k \in KeysOf[at[w].sub.sig] : holder[k] = w

(* Every bucket of a registered cluster is owned, and by a registered one.  *)
FilledIn(i) ==
    /\ \A c \in i.clusters : \A k \in KeysOf[c.sig] : i.owner[k] # None
    /\ \A k \in Keys : i.owner[k] # None => i.owner[k] \in i.clusters
Filled == FilledIn(index)

(* ClustersApart, of any index.                                            *)
ApartIn(i) ==
    \A c, e \in i.clusters :
        c # e /\ (c.doc = e.doc \/ <<c.sig, e.sig>> \in Similar) =>
            \A k \in KeysOf[c.sig] : i.owner[k] # e

(* What a worker is about to answer is what the index says now.            *)
Pending == \A w \in Workers : at[w].pc = "answering" =>
              /\ at[w].duplicate <=> IsNearDuplicate(index, at[w].sub)
              /\ at[w].new <=> IsNew(index, at[w].sub)

(* A committed write of a repeated observation is its cluster.             *)
Done == ~UsesLegacyBands(index) =>
            \A w \in Workers : at[w].done => at[w].sub \in index.clusters

Inv == TypeOK /\ Locked /\ Filled /\ ClustersApart /\ Pending /\ Done

-----------------------------------------------------------------------------
(* The buckets of a signature: some, and each of them a key.               *)
LEMMA KeysOfType ==
    ASSUME NEW s \in Submission
    PROVE  KeysOf[s.sig] \in SUBSET Keys /\ KeysOf[s.sig] # {}
BY IndexAssumption DEF Submission

(* What a registration in the legacy bands writes.                         *)
LEMMA RegisteredLegacy ==
    ASSUME NEW i \in Index, NEW s \in Submission, UsesLegacyBands(i)
    PROVE  /\ Registered(i, s) \in Index
           /\ UsesLegacyBands(Registered(i, s))
           /\ Registered(i, s).clusters = i.clusters
           /\ Registered(i, s).owner = i.owner
           /\ Registered(i, s).legacy = i.legacy \cup KeysOf[s.sig]
<1>1. Registered(i, s) = [i EXCEPT !.legacy = i.legacy \cup KeysOf[s.sig]]
  BY DEF Registered
<1>2. i.legacy \cup KeysOf[s.sig] \in SUBSET Keys /\ i.legacy # {}
  BY KeysOfType DEF Index, UsesLegacyBands
<1>3. /\ Registered(i, s).clusters = i.clusters
      /\ Registered(i, s).owner = i.owner
      /\ Registered(i, s).legacy = i.legacy \cup KeysOf[s.sig]
      /\ Registered(i, s) \in Index
  BY <1>1, <1>2 DEF Index
<1>4. i.legacy \cup KeysOf[s.sig] # {}
  BY <1>2
<1> QED
  BY <1>3, <1>4 DEF UsesLegacyBands

(* What the registration of a cluster writes.                              *)
LEMMA RegisteredCluster ==
    ASSUME NEW i \in Index, NEW s \in Submission, ~UsesLegacyBands(i)
    PROVE  /\ Registered(i, s) \in Index
           /\ ~UsesLegacyBands(Registered(i, s))
           /\ Registered(i, s).clusters = i.clusters \cup {s}
           /\ Registered(i, s).owner =
                 [k \in Keys |-> IF k \in KeysOf[s.sig] /\ i.owner[k] = None
                                 THEN s ELSE i.owner[k]]
<1> DEFINE owner == [k \in Keys |-> IF k \in KeysOf[s.sig] /\ i.owner[k] = None
                                    THEN s ELSE i.owner[k]]
<1>1. Registered(i, s) = [i EXCEPT !.clusters = i.clusters \cup {s}, !.owner = owner]
  BY DEF Registered
<1>2. owner \in [Keys -> Submission \cup {None}]
  BY DEF Index
<1> HIDE DEF owner
<1>0. /\ i.clusters \cup {s} \in SUBSET Submission
      /\ i = [clusters |-> i.clusters, owner |-> i.owner, legacy |-> i.legacy]
      /\ i.legacy \in SUBSET Keys
  BY DEF Index
<1>4. Registered(i, s) = [clusters |-> i.clusters \cup {s}, owner |-> owner, legacy |-> i.legacy]
  BY <1>0, <1>1, Zenon
<1>3. /\ Registered(i, s) \in Index
      /\ Registered(i, s).clusters = i.clusters \cup {s}
      /\ Registered(i, s).owner = owner
      /\ Registered(i, s).legacy = i.legacy
  BY <1>0, <1>2, <1>4 DEF Index
<1> QED
  BY <1>3 DEF UsesLegacyBands, owner

(* A registration says nothing new to a signature that shares no bucket.    *)
LEMMA RegisteredElsewhere ==
    ASSUME NEW i \in Index, NEW s \in Submission, NEW r \in Submission,
           KeysOf[s.sig] \cap KeysOf[r.sig] = {}
    PROVE  /\ IsNearDuplicate(Registered(i, r), s) <=> IsNearDuplicate(i, s)
           /\ IsNew(Registered(i, r), s) <=> IsNew(i, s)
<1>1. KeysOf[s.sig] \in SUBSET Keys
  BY KeysOfType
<1>2. UsesLegacyBands(Registered(i, r)) <=> UsesLegacyBands(i)
  BY RegisteredLegacy, RegisteredCluster
<1>3. CASE UsesLegacyBands(i)
  <2>1. Registered(i, r).legacy = i.legacy \cup KeysOf[r.sig]
    BY <1>3, RegisteredLegacy
  <2>2. KeysOf[s.sig] \subseteq Registered(i, r).legacy <=> KeysOf[s.sig] \subseteq i.legacy
    BY <2>1
  <2> QED
    BY <1>2, <1>3, <2>2 DEF IsNearDuplicate, IsNew
<1>4. CASE ~UsesLegacyBands(i)
  <2>1. Registered(i, r).owner = [k \in Keys |-> IF k \in KeysOf[r.sig] /\ i.owner[k] = None
                                                 THEN r ELSE i.owner[k]]
    BY <1>4, RegisteredCluster
  <2>2. \A k \in KeysOf[s.sig] : k \in Keys /\ k \notin KeysOf[r.sig]
    BY <1>1
  <2>3. \A k \in KeysOf[s.sig] : Registered(i, r).owner[k] = i.owner[k]
    BY <2>1, <2>2
  <2>4. Candidates(Registered(i, r), s) = Candidates(i, s)
    BY <2>3 DEF Candidates
  <2>5. Matches(Registered(i, r), s) = Matches(i, s)
    BY <2>4 DEF Matches
  <2> QED
    BY <1>2, <1>4, <2>5 DEF IsNearDuplicate, IsNew
<1> QED
  BY <1>3, <1>4

(* A registration that found no match keeps clusters apart: the new anchor  *)
(* met no similar owner in its buckets, and takes no bucket of another.     *)
LEMMA RegisteredApart ==
    ASSUME NEW i \in Index, NEW s \in Submission, FilledIn(i), ApartIn(i), IsNew(i, s)
    PROVE  /\ FilledIn(Registered(i, s))
           /\ ApartIn(Registered(i, s))
<1>1. CASE UsesLegacyBands(i)
  BY <1>1, RegisteredLegacy DEF FilledIn, ApartIn
<1>2. CASE ~UsesLegacyBands(i)
  <2> DEFINE r == Registered(i, s)
  <2>1. r.clusters = i.clusters \cup {s}
    BY <1>2, RegisteredCluster
  <2>2. \A k \in Keys : r.owner[k] = IF k \in KeysOf[s.sig] /\ i.owner[k] = None
                                    THEN s ELSE i.owner[k]
    <3>1. r.owner = [k \in Keys |-> IF k \in KeysOf[s.sig] /\ i.owner[k] = None
                                    THEN s ELSE i.owner[k]]
      BY <1>2, RegisteredCluster
    <3> QED
      BY <3>1
  <2>3. /\ i.clusters \subseteq Submission
        /\ \A c \in Submission : KeysOf[c.sig] \subseteq Keys
        /\ s # None
    BY KeysOfType, NullAssumption DEF Index
  <2>4. Matches(i, s) = {}
    BY <1>2 DEF IsNew
  <2> HIDE DEF r
  <2>5. FilledIn(r)
    BY <2>1, <2>2, <2>3 DEF FilledIn
  <2>6. ApartIn(r)
    <3> SUFFICES ASSUME NEW c \in r.clusters, NEW e \in r.clusters, c # e,
                        c.doc = e.doc \/ <<c.sig, e.sig>> \in Similar,
                        NEW k \in KeysOf[c.sig]
                 PROVE  r.owner[k] # e
      BY DEF ApartIn
    <3>1. k \in Keys
      BY <2>1, <2>3
    <3>2. CASE c \in i.clusters
      <4>1. i.owner[k] # None /\ i.owner[k] \in i.clusters /\ r.owner[k] = i.owner[k]
        BY <3>1, <3>2, <2>2 DEF FilledIn
      <4>2. CASE e \in i.clusters
        BY <3>2, <4>1, <4>2 DEF ApartIn
      <4>3. CASE e \notin i.clusters
        BY <4>1, <4>3
      <4> QED
        BY <4>2, <4>3
    <3>3. CASE c = s
      <4>1. CASE i.owner[k] = None
        BY <2>2, <3>1, <3>3, <4>1
      <4>2. CASE i.owner[k] # None
        <5>1. i.owner[k] \in Candidates(i, s)
          BY <3>3, <4>2 DEF Candidates
        <5>2. i.owner[k].doc # s.doc /\ <<s.sig, i.owner[k].sig>> \notin Similar
          BY <5>1, <2>4 DEF Matches
        <5> QED
          BY <2>2, <3>1, <3>3, <4>2, <5>2
      <4> QED
        BY <4>1, <4>2
    <3> QED
      BY <2>1, <3>2, <3>3
  <2> QED
    BY <2>5, <2>6 DEF r
<1> QED
  BY <1>1, <1>2

-----------------------------------------------------------------------------
(* Who observes has a submission, and keys for it.                         *)
LEMMA Observing ==
    ASSUME TypeOK, NEW w \in Workers, at[w].pc # "idle"
    PROVE  /\ at[w] \in Position
           /\ at[w].sub \in Submission
           /\ KeysOf[at[w].sub.sig] \subseteq Keys
<1>1. at[w] \in Position /\ at[w].sub # None
  BY DEF TypeOK
<1>2. at[w].sub \in Submission
  BY <1>1 DEF Position
<1> QED
  BY <1>1, <1>2, KeysOfType

(* What an answering worker writes is what the index makes of its           *)
(* submission in one instant.                                              *)
LEMMA WrittenIsObserved ==
    ASSUME Inv, NEW w \in Workers, at[w].pc = "answering"
    PROVE  Written(w) = Observed(index, at[w].sub)
BY DEF Inv, Pending, Written, Observed

(* The end of a transaction, with or without its effect: the answers of     *)
(* the others stay true, since their buckets are locked by them.            *)
LEMMA TransactionEnds ==
    ASSUME Inv, NEW w \in Workers, at[w].pc # "idle",
           index' = index \/ (at[w].pc = "answering" /\ index' = Written(w)),
           holder' = Unlocked(w),
           at'[w].pc # "answering",
           \A v \in Workers \ {w} : at'[v] = at[v]
    PROVE  /\ index' \in Index
           /\ UsesLegacyBands(index') <=> UsesLegacyBands(index)
           /\ index.clusters \subseteq index'.clusters
           /\ Locked' /\ Filled' /\ ClustersApart' /\ Pending'
<1> DEFINE s == at[w].sub
<1>1. s \in Submission /\ KeysOf[s.sig] \subseteq Keys
  BY Observing DEF Inv
<1>2. index \in Index /\ FilledIn(index) /\ ApartIn(index)
  BY DEF Inv, TypeOK, Filled, ClustersApart, ApartIn
<1>3. \/ index' = index
      \/ at[w].pc = "answering" /\ IsNew(index, s) /\ index' = Registered(index, s)
  BY WrittenIsObserved DEF Observed
<1> HIDE DEF s
<1>4. /\ index' \in Index
      /\ UsesLegacyBands(index') <=> UsesLegacyBands(index)
      /\ index.clusters \subseteq index'.clusters
  <2>1. CASE index' = index
    BY <1>2, <2>1
  <2>2. CASE index' = Registered(index, s) /\ UsesLegacyBands(index)
    BY <1>1, <1>2, <2>2, RegisteredLegacy
  <2>3. CASE index' = Registered(index, s) /\ ~UsesLegacyBands(index)
    BY <1>1, <1>2, <2>3, RegisteredCluster
  <2> QED
    BY <1>3, <2>1, <2>2, <2>3
<1>5. FilledIn(index') /\ ApartIn(index')
  BY <1>1, <1>2, <1>3, RegisteredApart
<1>6. Filled' /\ ClustersApart'
  BY <1>5 DEF Filled, FilledIn, ClustersApart, ApartIn
<1>7. Locked'
  <2> SUFFICES ASSUME NEW v \in Workers, at'[v].pc = "answering",
                      NEW k \in KeysOf[at'[v].sub.sig]
               PROVE  holder'[k] = v
    BY DEF Locked
  <2>1. v # w /\ at'[v] = at[v]
    OBVIOUS
  <2>2. holder[k] = v /\ k \in Keys
    BY <2>1, Observing DEF Inv, Locked
  <2> QED
    BY <2>1, <2>2 DEF Unlocked
<1>8. Pending'
  <2> SUFFICES ASSUME NEW v \in Workers, at'[v].pc = "answering"
               PROVE  /\ at'[v].duplicate <=> IsNearDuplicate(index', at'[v].sub)
                      /\ at'[v].new <=> IsNew(index', at'[v].sub)
    BY DEF Pending, IsNearDuplicate, IsNew, UsesLegacyBands, Matches, Candidates
  <2>1. v # w /\ at'[v] = at[v]
    OBVIOUS
  <2>2. /\ at[v].duplicate <=> IsNearDuplicate(index, at[v].sub)
        /\ at[v].new <=> IsNew(index, at[v].sub)
    BY <2>1 DEF Inv, Pending
  <2>3. CASE index' = index
    BY <2>1, <2>2, <2>3
  <2>4. CASE at[w].pc = "answering" /\ index' = Registered(index, s)
    <3>1. at[v].sub \in Submission
      BY <2>1, Observing DEF Inv
    <3>2. KeysOf[at[v].sub.sig] \cap KeysOf[s.sig] = {}
      BY <2>1, <2>4 DEF Inv, Locked, s
    <3> QED
      BY <1>1, <1>2, <2>1, <2>2, <2>4, <3>1, <3>2, RegisteredElsewhere
  <2> QED
    BY <1>3, <2>3, <2>4
<1> QED
  BY <1>4, <1>6, <1>7, <1>8

-----------------------------------------------------------------------------
(* Every reachable state satisfies the invariant.                          *)
LEMMA InvInit == Init => Inv
<1> SUFFICES ASSUME Init PROVE Inv
  OBVIOUS
<1>1. PICK t \in LegacyTables : index = EmptyIndex(t)
  BY DEF Init
<1>2. /\ index \in Index
      /\ index.clusters = {}
      /\ \A k \in Keys : index.owner[k] = None
  BY <1>1, NearDupAssumption DEF EmptyIndex, Index
<1>3. /\ Idle \in Position /\ Idle.pc = "idle" /\ Idle.sub = None /\ ~Idle.done
      /\ \A w \in Workers : at[w] = Idle
  BY DEF Idle, Position, Stage, Init
<1>4. TypeOK
  BY <1>2, <1>3, NearDupAssumption DEF Init, TypeOK
<1>5. Locked /\ Pending /\ Done
  BY <1>3 DEF Locked, Pending, Done
<1>6. Filled /\ ClustersApart
  BY <1>2 DEF Filled, FilledIn, ClustersApart
<1> QED
  BY <1>4, <1>5, <1>6 DEF Inv

LEMMA ObserveInv ==
    ASSUME Inv, NEW w \in Workers, NEW s \in Submission, Observe(w, s)
    PROVE  Inv'
<1> DEFINE start == [Idle EXCEPT !.pc = "locking", !.sub = s]
<1>1. /\ start \in Position /\ start.pc = "locking" /\ start.sub = s /\ ~start.done
      /\ s # None
  BY NullAssumption DEF Idle, Position, Stage
<1> HIDE DEF start
<1>2. /\ at' = [at EXCEPT ![w] = start] /\ UNCHANGED <<index, holder, faults>>
      /\ at[w].pc = "idle" /\ at \in [Workers -> Position]
  BY DEF Observe, start, Inv, TypeOK
<1>3. TypeOK'
  BY <1>1, <1>2 DEF Inv, TypeOK, Observe
<1>4. Locked' /\ Done'
  BY <1>1, <1>2 DEF Inv, Locked, Done
<1>5. Pending'
  BY <1>1, <1>2 DEF Inv, Pending
<1>6. Filled' /\ ClustersApart'
  BY <1>2 DEF Inv, Filled, ClustersApart
<1> QED
  BY <1>3, <1>4, <1>5, <1>6 DEF Inv

LEMMA LockInv ==
    ASSUME Inv, NEW w \in Workers, Lock(w)
    PROVE  Inv'
<1>1. PICK k \in Keys : holder[k] = None /\ holder' = [holder EXCEPT ![k] = w]
  BY DEF Lock
<1>2. UNCHANGED <<index, at, reply, faults>> /\ at[w].pc = "locking"
  BY DEF Lock
<1>3. holder \in [Keys -> Workers \cup {None}]
  BY DEF Inv, TypeOK
<1>4. TypeOK'
  BY <1>1, <1>2, <1>3, NearDupAssumption DEF Inv, TypeOK
<1>5. Locked'
  <2> SUFFICES ASSUME NEW v \in Workers, at[v].pc = "answering",
                      NEW l \in KeysOf[at[v].sub.sig]
               PROVE  holder'[l] = v
    BY <1>2 DEF Locked
  <2>1. holder[l] = v /\ v # None /\ l \in Keys
    BY Observing, NearDupAssumption DEF Inv, Locked
  <2> QED
    BY <1>1, <1>3, <2>1
<1>6. Pending' /\ Filled' /\ ClustersApart' /\ Done'
  BY <1>2 DEF Inv, Pending, Filled, ClustersApart, Done
<1> QED
  BY <1>4, <1>5, <1>6 DEF Inv

LEMMA ProbeInv ==
    ASSUME Inv, NEW w \in Workers, Probe(w)
    PROVE  Inv'
<1>1. /\ at \in [Workers -> Position]
      /\ UNCHANGED <<index, holder, reply, faults>>
      /\ at[w].pc = "locking"
  BY DEF Probe, Inv, TypeOK
<1>2. at' = [at EXCEPT ![w] = [@ EXCEPT !.pc = "answering",
                        !.duplicate = IsNearDuplicate(index, at[w].sub),
                        !.new = IsNew(index, at[w].sub)]]
  BY DEF Probe
<1>3. /\ IsNearDuplicate(index, at[w].sub) \in BOOLEAN
      /\ IsNew(index, at[w].sub) \in BOOLEAN
  BY Zenon DEF IsNearDuplicate, IsNew
<1>4. /\ at'[w] \in Position
      /\ at'[w].pc = "answering"
      /\ at'[w].sub = at[w].sub
      /\ at'[w].done = at[w].done
      /\ at'[w].duplicate = IsNearDuplicate(index, at[w].sub)
      /\ at'[w].new = IsNew(index, at[w].sub)
      /\ at' \in [Workers -> Position]
      /\ \A v \in Workers \ {w} : at'[v] = at[v]
  BY <1>1, <1>2, <1>3 DEF Position, Stage
<1>5. TypeOK'
  <2>1. \A v \in Workers : at'[v].pc # "idle" <=> at'[v].sub # None
    BY <1>1, <1>4 DEF Inv, TypeOK
  <2>2. \A k \in Keys : holder[k] # None => at'[holder[k]].pc # "idle"
    BY <1>4 DEF Inv, TypeOK
  <2> QED
    BY <1>1, <1>4, <2>1, <2>2 DEF Inv, TypeOK
<1>6. Locked'
  BY <1>1, <1>4 DEF Inv, Locked, Probe, Missing
<1>7. Pending'
  BY <1>1, <1>4 DEF Inv, Pending
<1>8. Filled' /\ ClustersApart' /\ Done'
  BY <1>1, <1>4 DEF Inv, Filled, ClustersApart, Done
<1> QED
  BY <1>5, <1>6, <1>7, <1>8 DEF Inv

(* The end of a transaction leads to a state of the invariant, whatever     *)
(* position the worker is left in.                                         *)
LEMMA EndInv ==
    ASSUME Inv, NEW w \in Workers, at[w].pc # "idle", NEW e \in Position,
           e.pc # "answering", e.pc # "idle" <=> e.sub # None,
           at' = [at EXCEPT ![w] = e],
           index' = index \/ (at[w].pc = "answering" /\ index' = Written(w)),
           holder' = Unlocked(w),
           reply' \in [Workers -> {"unique", "duplicate", None}],
           faults' \in 0..FaultLimit,
           ~UsesLegacyBands(index') /\ e.done => e.sub \in index'.clusters
    PROVE  Inv'
<1>1. /\ at \in [Workers -> Position] /\ at' \in [Workers -> Position]
      /\ at'[w] = e
      /\ \A v \in Workers \ {w} : at'[v] = at[v]
  BY DEF Inv, TypeOK
<1>2. /\ index' \in Index
      /\ UsesLegacyBands(index') <=> UsesLegacyBands(index)
      /\ index.clusters \subseteq index'.clusters
      /\ Locked' /\ Filled' /\ ClustersApart' /\ Pending'
  BY <1>1, TransactionEnds
<1>3. TypeOK'
  <2>1. holder' \in [Keys -> Workers \cup {None}]
    BY DEF Inv, TypeOK, Unlocked
  <2>2. \A v \in Workers : at'[v].pc # "idle" <=> at'[v].sub # None
    BY <1>1 DEF Inv, TypeOK
  <2>3. ASSUME NEW k \in Keys, holder'[k] # None
        PROVE  at'[holder'[k]].pc # "idle"
    <3>1. holder'[k] = holder[k] /\ holder[k] \in Workers \ {w}
      BY <2>3 DEF Inv, TypeOK, Unlocked
    <3> QED
      BY <1>1, <2>3, <3>1 DEF Inv, TypeOK
  <2> QED
    BY <1>1, <1>2, <2>1, <2>2, <2>3 DEF TypeOK
<1>4. Done'
  <2> SUFFICES ASSUME ~UsesLegacyBands(index'), NEW v \in Workers, at'[v].done
               PROVE  at'[v].sub \in index'.clusters
    BY DEF Done, UsesLegacyBands
  <2>1. CASE v = w
    BY <1>1, <2>1
  <2>2. CASE v # w
    BY <1>1, <1>2, <2>2 DEF Inv, Done
  <2> QED
    BY <2>1, <2>2
<1> QED
  BY <1>2, <1>3, <1>4 DEF Inv

LEMMA IdlePosition ==
    /\ Idle \in Position
    /\ Idle.pc = "idle"
    /\ Idle.sub = None
    /\ ~Idle.done
BY DEF Idle, Position, Stage

LEMMA CommitInv ==
    ASSUME Inv, NEW w \in Workers, Commit(w)
    PROVE  Inv'
<1>1. /\ at[w].pc = "answering"
      /\ index' = Written(w)
      /\ holder' = Unlocked(w)
      /\ at' = [at EXCEPT ![w] = Idle]
      /\ faults' \in 0..FaultLimit
      /\ reply' \in [Workers -> {"unique", "duplicate", None}]
  BY DEF Commit, Inv, TypeOK
<1> QED
  BY <1>1, EndInv, IdlePosition

LEMMA CrashInv ==
    ASSUME Inv, NEW w \in Workers, Crash(w)
    PROVE  Inv'
<1>1. /\ at[w].pc # "idle"
      /\ index' = index \/ (at[w].pc = "answering" /\ index' = Written(w))
      /\ holder' = Unlocked(w)
      /\ at' = [at EXCEPT ![w] = Idle]
      /\ reply' \in [Workers -> {"unique", "duplicate", None}]
  BY DEF Crash, Inv, TypeOK
<1>2. faults' \in 0..FaultLimit
  BY NearDupAssumption DEF Crash, Inv, TypeOK
<1> QED
  BY <1>1, <1>2, EndInv, IdlePosition

(* A repetition remembers a committed write, which registered its cluster.  *)
LEMMA LoseConnectionInv ==
    ASSUME Inv, NEW w \in Workers, LoseConnection(w)
    PROVE  Inv'
<1> DEFINE again(committed) ==
      [Idle EXCEPT !.pc = "locking", !.sub = at[w].sub, !.attempt = 1,
                   !.done = committed /\ at[w].new]
<1>1. PICK committed \in BOOLEAN :
          /\ committed => at[w].pc = "answering"
          /\ index' = IF committed THEN Written(w) ELSE index
          /\ at' = [at EXCEPT ![w] = IF @.attempt = 0 THEN again(committed) ELSE Idle]
  BY DEF LoseConnection
<1> DEFINE e == IF at[w].attempt = 0 THEN again(committed) ELSE Idle
<1>2. /\ at[w].pc # "idle"
      /\ holder' = Unlocked(w)
      /\ reply' \in [Workers -> {"unique", "duplicate", None}]
      /\ at \in [Workers -> Position]
      /\ index \in Index
  BY DEF LoseConnection, Inv, TypeOK
<1>3. faults' \in 0..FaultLimit
  BY NearDupAssumption DEF LoseConnection, Inv, TypeOK
<1>4. /\ again(committed) \in Position
      /\ again(committed).pc = "locking"
      /\ again(committed).sub = at[w].sub
      /\ again(committed).done <=> (committed /\ at[w].new)
      /\ at[w].sub \in Submission /\ at[w].sub # None
  <2>1. at[w] \in Position /\ at[w].sub \in Submission
    BY <1>2, Observing DEF Inv
  <2> QED
    BY <2>1, NullAssumption DEF Idle, Position, Stage
<1>5. ~UsesLegacyBands(index') /\ e.done => e.sub \in index'.clusters
  <2> SUFFICES ASSUME ~UsesLegacyBands(index'), e.done PROVE e.sub \in index'.clusters
    OBVIOUS
  <2>1. committed /\ at[w].new /\ e.sub = at[w].sub
    BY <1>4, IdlePosition
  <2>2. at[w].pc = "answering" /\ index' = Registered(index, at[w].sub)
    BY <1>1, <2>1 DEF Written
  <2> HIDE DEF e
  <2>3. CASE UsesLegacyBands(index)
    <3>1. UsesLegacyBands(index')
      BY <1>2, <1>4, <2>2, <2>3, RegisteredLegacy
    <3> QED
      BY <3>1
  <2>4. CASE ~UsesLegacyBands(index)
    <3>1. index'.clusters = index.clusters \cup {at[w].sub}
      BY <1>2, <1>4, <2>2, <2>4, RegisteredCluster
    <3> QED
      BY <2>1, <3>1
  <2> QED
    BY <2>3, <2>4
<1>6. /\ e \in Position /\ e.pc # "answering" /\ (e.pc # "idle" <=> e.sub # None)
      /\ at' = [at EXCEPT ![w] = e]
  BY <1>1, <1>4, IdlePosition
<1>7. index' = index \/ (at[w].pc = "answering" /\ index' = Written(w))
  BY <1>1
<1> HIDE DEF e
<1> QED
  BY <1>2, <1>3, <1>5, <1>6, <1>7, EndInv

THEOREM Invariance == Spec => []Inv
<1>1. Inv /\ [Next]_vars => Inv'
  <2> SUFFICES ASSUME Inv, [Next]_vars PROVE Inv'
    OBVIOUS
  <2>1. CASE UNCHANGED vars
    BY <2>1 DEF vars, Inv, TypeOK, Locked, Filled, ClustersApart, Pending, Done
  <2>2. CASE Next
    BY <2>2, ObserveInv, LockInv, ProbeInv, CommitInv, LoseConnectionInv, CrashInv
       DEF Next, Step
  <2> QED
    BY <2>1, <2>2
<1> QED
  BY InvInit, <1>1, PTL DEF Spec

-----------------------------------------------------------------------------
(* Every variable keeps its type, a worker has a submission exactly while   *)
(* it observes one, and a lock never outlives its transaction.             *)
THEOREM NearDupTypeCorrect == Spec => []TypeOK
<1>1. Inv => TypeOK
  BY DEF Inv
<1> QED
  BY Invariance, <1>1, PTL

(* No interleaving of replicas, and no connection lost on either side of a  *)
(* commit, admits a cluster that owns a bucket of a similar one.           *)
THEOREM KeptApart == Spec => []ClustersApart
<1>1. Inv => ClustersApart
  BY DEF Inv
<1> QED
  BY Invariance, <1>1, PTL

(* A replayed document, or one whose committed observation is repeated, is  *)
(* never answered to be a duplicate.                                       *)
THEOREM ReplayUnique == Spec => []ReplayStaysUnique
<1>1. Inv => ReplayStaysUnique
  <2> SUFFICES ASSUME Inv, ~UsesLegacyBands(index), NEW w \in Workers,
                      at[w].pc = "answering",
                      at[w].sub \in index.clusters \/ at[w].done,
                      at[w].duplicate
               PROVE  FALSE
    BY DEF ReplayStaysUnique
  <2> DEFINE s == at[w].sub
  <2>1. s \in index.clusters
    BY DEF Inv, Done
  <2>2. IsNearDuplicate(index, s)
    BY DEF Inv, Pending
  <2>3. PICK c \in Matches(index, s) : c.doc # s.doc
    BY <2>2 DEF IsNearDuplicate
  <2>4. <<s.sig, c.sig>> \in Similar /\ c \in Candidates(index, s)
    BY <2>3 DEF Matches
  <2>5. PICK k \in KeysOf[s.sig] : c = index.owner[k] /\ c # None
    BY <2>4 DEF Candidates
  <2>6. c \in index.clusters
    BY <2>5, Observing DEF Inv, Filled, FilledIn
  <2>7. index.owner[k] # c
    BY <2>1, <2>3, <2>4, <2>6 DEF Inv, ClustersApart
  <2> QED
    BY <2>5, <2>7
<1> QED
  BY Invariance, <1>1, PTL

-----------------------------------------------------------------------------
(* The submission each worker waits for, in the atomic index.              *)
Task == [w \in Workers |-> at[w].sub]

(* The atomic index reads and writes the same tables.                      *)
LEMMA SameIndex ==
    ASSUME NEW i, NEW s
    PROVE  /\ Atomic!IsNearDuplicate(i, s) = IsNearDuplicate(i, s)
           /\ Atomic!Observed(i, s) = Observed(i, s)
BY DEF Atomic!IsNearDuplicate, IsNearDuplicate, Atomic!Observed, Observed,
       Atomic!IsNew, IsNew, Atomic!Registered, Registered,
       Atomic!UsesLegacyBands, UsesLegacyBands, Atomic!Matches, Matches,
       Atomic!Candidates, Candidates, Atomic!First, First

(* A worker whose submission does not change has the same task.             *)
LEMMA SameTask ==
    ASSUME \A w \in Workers : at'[w].sub = at[w].sub
    PROVE  Task' = Task
BY DEF Task

LEMMA ChangedTask ==
    ASSUME TypeOK, NEW w \in Workers, NEW e, at' = [at EXCEPT ![w] = e]
    PROVE  Task' = [Task EXCEPT ![w] = e.sub]
<1>1. \A v \in Workers : at'[v] = IF v = w THEN e ELSE at[v]
  BY DEF TypeOK
<1>2. Task' = [v \in Workers |-> at'[v].sub]
  BY DEF Task
<1>3. [Task EXCEPT ![w] = e.sub] = [v \in Workers |-> IF v = w THEN e.sub ELSE at[v].sub]
  BY DEF Task
<1>4. \A v \in Workers : at'[v].sub = IF v = w THEN e.sub ELSE at[v].sub
  BY <1>1
<1> QED
  BY <1>2, <1>3, <1>4

LEMMA DupIndexInit == Init => Atomic!Init
<1> SUFFICES ASSUME Init PROVE Atomic!Init
  OBVIOUS
<1>1. \A w \in Workers : at[w].sub = None
  BY IdlePosition DEF Init
<1>2. Task = [w \in Workers |-> None]
  BY <1>1 DEF Task
<1> QED
  BY <1>2 DEF Init, Atomic!Init, Atomic!EmptyIndex, EmptyIndex, Task

LEMMA DupIndexStep ==
    ASSUME Inv, [Next]_vars
    PROVE  Atomic!Next \/ UNCHANGED Atomic!vars
<1>1. ASSUME NEW w \in Workers, NEW s \in Submission, Observe(w, s)
      PROVE  Atomic!Submit(w, s)
  <2>1. /\ Task' = [Task EXCEPT ![w] = [Idle EXCEPT !.pc = "locking", !.sub = s].sub]
        /\ at[w].sub = None
    BY <1>1, ChangedTask DEF Observe, Inv, TypeOK
  <2>2. [Idle EXCEPT !.pc = "locking", !.sub = s].sub = s
    BY DEF Idle
  <2>3. Task' = [Task EXCEPT ![w] = s] /\ Task[w] = None
    BY <2>1, <2>2 DEF Task
  <2> QED
    BY <1>1, <2>3 DEF Observe, Atomic!Submit, Task
<1>2. ASSUME NEW w \in Workers, Lock(w) \/ Probe(w)
      PROVE  UNCHANGED Atomic!vars
  <2>1. index' = index /\ reply' = reply
    BY <1>2 DEF Lock, Probe
  <2>2. \A v \in Workers : at'[v].sub = at[v].sub
    BY <1>2 DEF Lock, Probe, Inv, TypeOK, Position
  <2> QED
    BY <2>1, <2>2, SameTask DEF Atomic!vars, Task
<1>3. ASSUME NEW w \in Workers, Commit(w)
      PROVE  Atomic!Answer(w)
  <2>1. Task' = [Task EXCEPT ![w] = None]
    BY <1>3, ChangedTask, IdlePosition DEF Commit, Inv
  <2>2. Task[w] = at[w].sub /\ Task[w] # None
    BY <1>3 DEF Commit, Inv, TypeOK, Task
  <2>3. index' = Atomic!Observed(index, Task[w])
    BY <1>3, <2>2, WrittenIsObserved, SameIndex DEF Commit
  <2>4. reply' = [reply EXCEPT ![w] = IF Atomic!IsNearDuplicate(index, Task[w])
                                      THEN "duplicate" ELSE "unique"]
    BY <1>3, <2>2, SameIndex DEF Commit, Inv, Pending
  <2> QED
    BY <2>1, <2>2, <2>3, <2>4 DEF Atomic!Answer, Task
<1>4. ASSUME NEW w \in Workers, LoseConnection(w) \/ Crash(w)
      PROVE  Atomic!LoseAnswer(w)
  <2>1. Task[w] = at[w].sub /\ Task[w] # None
    BY <1>4 DEF LoseConnection, Crash, Inv, TypeOK, Task
  <2>2. index' = index \/ (at[w].pc = "answering" /\ index' = Written(w))
    BY <1>4 DEF LoseConnection, Crash
  <2>3. index' \in {index, Atomic!Observed(index, Task[w])}
    BY <2>1, <2>2, WrittenIsObserved, SameIndex
  <2>4. PICK e : at' = [at EXCEPT ![w] = e] /\ (e.sub = at[w].sub \/ e.sub = None)
    <3>1. CASE Crash(w)
      BY <3>1, IdlePosition DEF Crash
    <3>2. CASE LoseConnection(w)
      <4>1. PICK committed \in BOOLEAN :
              at' = [at EXCEPT ![w] =
                IF @.attempt = 0
                THEN [Idle EXCEPT !.pc = "locking", !.sub = at[w].sub, !.attempt = 1,
                                  !.done = committed /\ at[w].new]
                ELSE Idle]
        BY <3>2 DEF LoseConnection
      <4>2. [Idle EXCEPT !.pc = "locking", !.sub = at[w].sub, !.attempt = 1,
                         !.done = committed /\ at[w].new].sub = at[w].sub
        BY DEF Idle
      <4> QED
        BY <4>1, <4>2, IdlePosition
    <3> QED
      BY <1>4, <3>1, <3>2
  <2>5. Task' = [Task EXCEPT ![w] = e.sub]
    BY <2>4, ChangedTask DEF Inv
  <2>6. Task' \in {Task, [Task EXCEPT ![w] = None]}
    BY <2>1, <2>4, <2>5 DEF Task
  <2>7. reply' = reply
    BY <1>4 DEF LoseConnection, Crash
  <2> QED
    BY <2>1, <2>3, <2>6, <2>7 DEF Atomic!LoseAnswer, Task
<1>5. CASE UNCHANGED vars
  BY <1>5 DEF vars, Atomic!vars
<1> QED
  BY <1>1, <1>2, <1>3, <1>4, <1>5 DEF Next, Step, Atomic!Next, Atomic!Submission, Submission

(* Each observation is one of the atomic index: submitted when it starts,   *)
(* answered at its commit, since what was probed under the locks is then    *)
(* still what the index says; locks and probes are invisible.              *)
THEOREM DupIndexImplemented == Spec => ImplementsDupIndex
<1>1. Inv /\ [Next]_vars => [Atomic!Next]_(Atomic!vars)
  BY DupIndexStep
<1> QED
  BY Invariance, DupIndexInit, <1>1, PTL DEF Spec, ImplementsDupIndex, Atomic!Spec
=============================================================================
