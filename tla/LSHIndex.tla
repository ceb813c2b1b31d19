------------------------------ MODULE LSHIndex ------------------------------
(***************************************************************************)
(* What the tables of the near-duplicate index say of a document           *)
(* (PostgresLSHIndex in processor/operators/lshbloom.py): the clusters     *)
(* with their anchors, the band buckets and the cluster that owns each,    *)
(* and the band table that a migrated deployment brings along.             *)
(*                                                                         *)
(* A signature is a value; its bucket keys and its similarity to others    *)
(* are constants of the model.                                             *)
(***************************************************************************)
EXTENDS Integers

CONSTANTS
    Docs, Signatures, Keys, None,
    KeysOf,         \* the bucket keys of a signature, one of each band
    Similar,        \* the pairs with _signature_similarity >= similarity_threshold
    Rank            \* the order of the cluster ids, hashes of document and signature

(* cluster_id is a hash of the document and its signature. *)
Submission == [doc: Docs, sig: Signatures]

ASSUME IndexAssumption ==
    /\ KeysOf \in [Signatures -> (SUBSET Keys) \ {{}}]
    /\ Similar \subseteq Signatures \X Signatures
    /\ \A s \in Signatures : <<s, s>> \in Similar
    /\ \A s, t \in Signatures : <<s, t>> \in Similar => <<t, s>> \in Similar
    /\ Rank \in [Submission -> Nat]
    /\ \A c, e \in Submission : Rank[c] = Rank[e] => c = e

(* A cluster is its anchor. *)
ASSUME NullAssumption == None \notin Submission

Index == [clusters: SUBSET Submission,              \* curator_lsh_clusters
          owner: [Keys -> Submission \cup {None}],  \* curator_lsh_bands
          legacy: SUBSET Keys]                      \* curator_lsh_legacy_bands

EmptyIndex(legacy) == [clusters |-> {}, owner |-> [k \in Keys |-> None], legacy |-> legacy]

-----------------------------------------------------------------------------
UsesLegacyBands(i) == i.legacy # {}

(* The clusters that own a bucket of the signature. *)
Candidates(i, s) == {i.owner[k] : k \in KeysOf[s.sig]} \ {None}

(* The candidates at which the probe stops: the document is their anchor,   *)
(* which makes it a replay, or it is similar to their anchor.              *)
Matches(i, s) == {c \in Candidates(i, s) : c.doc = s.doc \/ <<s.sig, c.sig>> \in Similar}

(* The first match in the order of the ids decides. *)
First(c, C) == c \in C /\ \A e \in C : Rank[c] <= Rank[e]

(* Mutant: a document that anchors a cluster is compared with itself. *)
DuplicatesItself(i, s) ==
    IF UsesLegacyBands(i) THEN KeysOf[s.sig] \subseteq i.legacy
    ELSE \E c \in Matches(i, s) : <<s.sig, c.sig>> \in Similar

IsNearDuplicate(i, s) ==
    IF UsesLegacyBands(i) THEN KeysOf[s.sig] \subseteq i.legacy
    ELSE \E c \in Matches(i, s) : First(c, Matches(i, s)) /\ c.doc # s.doc

(* Whether the observation writes: no candidate matched, or some legacy     *)
(* band of the signature is new.                                           *)
IsNew(i, s) ==
    IF UsesLegacyBands(i) THEN ~(KeysOf[s.sig] \subseteq i.legacy)
    ELSE Matches(i, s) = {}

(* The inserts: rows that exist already stay as they are. *)
Registered(i, s) ==
    IF UsesLegacyBands(i) THEN [i EXCEPT !.legacy = @ \cup KeysOf[s.sig]]
    ELSE [i EXCEPT !.clusters = @ \cup {s},
                   !.owner = [k \in Keys |-> IF k \in KeysOf[s.sig] /\ i.owner[k] = None
                                             THEN s ELSE i.owner[k]]]

Observed(i, s) == IF IsNew(i, s) THEN Registered(i, s) ELSE i
=============================================================================
