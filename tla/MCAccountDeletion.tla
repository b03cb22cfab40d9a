------------------------- MODULE MCAccountDeletion -------------------------
(* Small instances of the deletion of an account for TLC. *)
EXTENDS AccountDeletion, TLC

CONSTANTS ann, ben, cat, office, studio

OneOffice == {ann, ben, cat} \X {office}
TwoPlaces == {<<ann, office>>, <<ann, studio>>, <<ben, office>>}

OwnersAndStaff == [m \in OneOffice |-> IF m[1] = cat THEN "staff" ELSE "owner"]
AllOwners      == [m \in TwoPlaces |-> "owner"]

Nobody   == {}
BenInvited == {<<ben, office>>}

Choose(signIn, signOut, move, file, decide, fail) ==
    [signIn |-> signIn, signOut |-> signOut, move |-> move,
     file |-> file, decide |-> decide, fail |-> fail]

FewChoices     == Choose(2, 1, 1, 2, 2, 1)
RejectChoices  == Choose(1, 0, 0, 1, 2, 0)
TwoDeletions   == Choose(2, 0, 0, 2, 2, 0)
=============================================================================
