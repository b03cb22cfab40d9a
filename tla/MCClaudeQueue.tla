--------------------------- MODULE MCClaudeQueue ---------------------------
(* Small instances of the Claude Translate queue for TLC. *)
EXTENDS ClaudeQueue, TLC

CONSTANTS w1, w2, f1, f2, d1, d2

OneOrganisation == [f \in {f1, f2} |-> 1]
TwoOrganisations == (f1 :> 1) @@ (f2 :> 2)
OneDocument == [f \in {f1, f2} |-> d1]
TwoDocuments == (f1 :> d1) @@ (f2 :> d2)

(* Workers are interchangeable; safety runs only. *)
Symmetry == Permutations(Workers)

(* How often the rare events may happen, by run. *)
Rares(retry, limit, abort, toggle, removeFile, removeDocument) ==
    [retry |-> retry, limit |-> limit, abort |-> abort, toggle |-> toggle,
     removeFile |-> removeFile, removeDocument |-> removeDocument]

SafetyBudget == Rares(1, 1, 0, 0, 0, 1)
LiveBudget   == Rares(0, 1, 1, 1, 1, 0)
=============================================================================
