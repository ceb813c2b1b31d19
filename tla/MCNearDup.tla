------------------------------ MODULE MCNearDup ------------------------------
(* NearDup for TLC: two bands of two buckets, three signatures of which the *)
(* middle one is similar to both others and shares a bucket with each.      *)
EXTENDS NearDup, TLC

CONSTANTS a, b, c, k1, k2, l1, l2, d1, d2

Buckets == [s \in Signatures |->
    IF s = a THEN {k1, l1} ELSE IF s = b THEN {k1, l2} ELSE {k2, l2}]
Pairs == {<<s, t>> \in Signatures \X Signatures : s = t \/ s = b \/ t = b}
Sorted == [k \in Keys |-> IF k = k1 THEN 1 ELSE IF k = k2 THEN 2 ELSE IF k = l1 THEN 3 ELSE 4]

(* The ids of d2's clusters come before those of d1's. *)
Hashes == [s \in Submission |->
    (IF s.doc = d1 THEN 3 ELSE 0) + (IF s.sig = a THEN 2 ELSE IF s.sig = b THEN 0 ELSE 1)]

(* A new deployment, and one with migrated bands that hold a signature. *)
NewAndMigrated == {{}, {k2, l2}}
Migrated == {{k2, l2}}
=============================================================================
