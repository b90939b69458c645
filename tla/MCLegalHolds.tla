---------------------------- MODULE MCLegalHolds ----------------------------
(* Two holds: one covers every segment, the other only s2.             *)
EXTENDS LegalHolds

CONSTANTS h1, h2, s1, s2

MCScope == [h \in {h1, h2} |-> IF h = h1 THEN Segments ELSE {s2}]
==============================================================================
