----------------------------- MODULE MCWorkspace -----------------------------
(* A bureau with an owner, an administrator who may not see finances and a newcomer, and beside it an
   organisation that has yet to choose its plan. *)
EXTENDS Feed, TLC

CONSTANTS nino, dato, luka, bureau, studio

MCRoster == (nino :> "owner") @@ (dato :> "admin") @@ (luka :> None)

MCWithheld == [u \in {nino, dato, luka} |-> IF u = dato THEN {"finance.read"} ELSE {}]

Terms(included, price) == [included |-> included, price |-> price]

MCListed == [u \in {"bureau", "freelancer"} |->
    <<Terms(1, IF u = "bureau" THEN 50 ELSE 0), Terms(2, 100), Terms(3, None)>>]

MCEdits == {Terms(2, 70)}

MCForms == {{"orders.read"}, {"orders.read", "finance.read"}, {"orders.read", "users.manage"}}

MCBudget == [access |-> 3, order |-> 3, bill |-> 3, news |-> 3, all |-> 3]

Symmetry == Permutations(Desks)
==============================================================================
