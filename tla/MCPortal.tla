------------------------------- MODULE MCPortal -------------------------------
(* Two people, one who signs in with an address and one with a number, and a bureau with two documents
   that already employs the first. *)
EXTENDS Portal, TLC

CONSTANTS tina, levan, mail, phone, metro, deed, will

MCSignIn == [p \in {tina, levan} |-> IF p = tina THEN mail ELSE phone]

MCBureauOf == [d \in {deed, will} |-> metro]

MCBudget == [admin |-> 2, invite |-> 2, staff |-> 2, work |-> 2, personal |-> 1, all |-> 4]

MCHired == <<<<tina, metro>>>>

Symmetry == Permutations(Desks) \cup Permutations(Documents)
===============================================================================
