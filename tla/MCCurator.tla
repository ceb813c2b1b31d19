------------------------------ MODULE MCCurator ------------------------------
(* Curator for TLC: two revisions of one document, a copy of the second one *)
(* under another address, and a document that the models cannot score.     *)
EXTENDS Curator, TLC

CONSTANTS p1, p2, p3, p4, d1, d2, d3, d4, a, b, k1, k2, l1, l2

Addresses == [p \in Payloads |-> IF p \in {p1, p2} THEN d1 ELSE IF p = p3 THEN d2 ELSE d3]
Texts == [p \in Payloads |-> IF p \in {p1, p4} THEN a ELSE b]
Intake == [p \in Payloads |-> IF p = p2 THEN 1 ELSE 0]
Buckets == [s \in Signatures |-> IF s = a THEN {k1, l1} ELSE {k1, l2}]
Pairs == {<<s, s>> : s \in Signatures}
Hashes == [s \in Submission |->
    (IF s.sig = a THEN 0 ELSE 4)
    + (IF s.doc = d1 THEN 0 ELSE IF s.doc = d2 THEN 1 ELSE IF s.doc = d3 THEN 2 ELSE 3)]
Others == {[doc |-> d4, sig |-> b]}

(* The partition begins with a revision of the first document. *)
PartitionInit == Init /\ log[1] \in {p1, p2}
PartitionSpec == PartitionInit /\ [][Next]_vars /\ Fairness
=============================================================================
