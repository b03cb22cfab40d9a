------------------------------ MODULE MCAccounts ------------------------------
(* A bureau with its owner, the platform's superuser in an organisation of its own, and
   somebody who is nowhere yet. *)
EXTENDS Members, TLC

CONSTANTS nino, dato, gio, bureau, platform, atelier

MCStart == [p \in {nino, dato, gio} |-> [o \in {bureau, platform, atelier} |->
    IF o = bureau /\ p = nino THEN "owner" ELSE IF o = platform /\ p = gio THEN "superuser" ELSE None]]

MCSignedIn == <<<<nino, bureau>>, <<gio, platform>>>>

MCEnrolled == <<<<nino, bureau>>>>

MCBudget == [signin |-> 1, password |-> 1, manage |-> 2, platform |-> 2, mfa |-> 2, all |-> 3]

Symmetry == Permutations(Desks)
===============================================================================
