---------------------------- MODULE MCOrderFiles ----------------------------
(* Small instances of an order's files for TLC. *)
EXTENDS OrderFiles, TLC

CONSTANTS f1, f2, d1, d2, o1, s1, s2

OneOrder == [d \in {d1, d2} |-> o1]

(* Documents are interchangeable, and so are syncers; the safety run only. *)
Symmetry == Permutations(Documents) \cup Permutations(Syncers)
=============================================================================
