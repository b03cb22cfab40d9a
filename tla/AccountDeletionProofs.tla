------------------------ MODULE AccountDeletionProofs ------------------------
(***************************************************************************)
(* The safety of deleting accounts for every set of people, organisations, *)
(* members, browser tabs and reviewers, and every number of requests.      *)
(***************************************************************************)
EXTENDS AccountDeletion, FiniteSetTheorems, TLAPS

Open(r) == status[r] \in OpenStatuses

(* Requests are made in the order of their ids, and somebody's from then on. *)
RequestsAgree ==
    /\ Made = 1..Cardinality(Made)
    /\ \A r \in Made : asker[r] \in People
    /\ due \subseteq Made
    /\ closedPortal \subseteq {r \in Requests : Open(r)}

(* What filing inserted has an id left to it when it commits.                *)
RoomToCommit == IsFiniteSet(Stamped) /\ Cardinality(Made) + Cardinality(Stamped) <= MaxRequests

(* A tab past its checks files for somebody; an insert that has not          *)
(* committed is the only one of its person, who has no open request.         *)
TabsAgree ==
    /\ \A t \in Tabs : tab[t].at # "idle" => tab[t].who \in People
    /\ \A t, u \in Stamped : tab[t].who = tab[u].who => t = u
    /\ \A t \in Stamped, r \in Requests : Open(r) => asker[r] # tab[t].who

(* A decision is about a request that was made, and one that rejects what    *)
(* holds a portal off knows it.                                              *)
DesksAgree ==
    \A v \in Reviewers :
        /\ desk[v].does # "nothing" => desk[v].request \in Made
        /\ LET r == desk[v].request
           IN  desk[v].does = "reject" /\ r \in closedPortal /\ portal[asker[r]] = "off"
                   => desk[v].reopens

(* OneOpenRequest, said of the requests rather than counted.                 *)
OneOpen ==
    \A r, q \in Requests : Open(r) /\ Open(q) /\ asker[r] = asker[q] => r = q

(* A session is older than a stamp only while that stamp is not committed,   *)
(* and nobody signs in to a row that is gone.                                *)
SessionsAgree ==
    \A m \in Members :
        /\ m \in settled \/ signing[m] = "early" => \E t \in Stamped : tab[t].who = Person(m)
        /\ m \notin rows => m \notin settled \cup fresh /\ signing[m] \in {"no", "dead"}

(* Nothing is erased before its thirty days, and the erased have no session. *)
ErasedAgree ==
    /\ ripe \subseteq waited /\ due \subseteq waited /\ waited \subseteq Made
    /\ \A p \in erased : \E r \in waited : asker[r] = p
    /\ \A m \in Members : Person(m) \in erased =>
          m \notin settled \cup fresh /\ signing[m] \in {"no", "dead"}

IInv ==
    /\ TypeOK
    /\ RequestsAgree /\ RoomToCommit /\ TabsAgree /\ DesksAgree
    /\ OneOpen /\ PortalComesBack
    /\ SessionsAgree /\ ErasedAgree
-----------------------------------------------------------------------------

RequestFacts ==
    RequestsAgree /\ RoomToCommit /\ TabsAgree /\ DesksAgree /\ OneOpen /\ PortalComesBack

LEMMA IInvParts == IInv <=> TypeOK /\ RequestFacts /\ SessionsAgree /\ ErasedAgree
  BY DEF IInv, RequestFacts

LEMMA MembersArePeople == \A m \in Members : Person(m) \in People
  BY DeletionAssumptions DEF Person

LEMMA OpenRequestsAre ==
    ASSUME NEW p
    PROVE  OpenRequests(p) = {r \in Requests : Open(r) /\ asker[r] = p}
  BY DEF OpenRequests, Made, Open, OpenStatuses

LEMMA SpendCounts == ASSUME TypeOK, NEW k \in Choices, Spend(k) PROVE left' \in [Choices -> Nat]
  BY DEF TypeOK, Spend

LEMMA InitEstablishes == Init => IInv
  <1> SUFFICES ASSUME Init PROVE IInv
    OBVIOUS
  <1>1. TypeOK
    BY DeletionAssumptions DEF Init, TypeOK, Statuses, IdleTab, EmptyDesk, Requests
  <1>2. Made = {} /\ Stamped = {} /\ \A r \in Requests : ~Open(r)
    BY DEF Init, Made, Stamped, IdleTab, Open, OpenStatuses
  <1>3. Cardinality({}) = 0 /\ IsFiniteSet({})
    BY FS_EmptySet
  <1>4. RequestsAgree /\ RoomToCommit /\ TabsAgree /\ OneOpen
    BY <1>2, <1>3, DeletionAssumptions
    DEF Init, RequestsAgree, RoomToCommit, TabsAgree, OneOpen, IdleTab
  <1>5. DesksAgree /\ PortalComesBack /\ SessionsAgree /\ ErasedAgree
    BY <1>2 DEF Init, DesksAgree, PortalComesBack, SessionsAgree, ErasedAgree, EmptyDesk
  <1> QED
    BY <1>1, <1>4, <1>5 DEF IInv

-----------------------------------------------------------------------------
(* What a step that does not touch them keeps. *)

LEMMA RequestFactsKept ==
    ASSUME RequestFacts, UNCHANGED <<status, asker, closedPortal, portal, tab, desk, due>>
    PROVE  RequestFacts'
  <1>1. Made' = Made /\ Stamped' = Stamped /\ \A r \in Requests : Open(r)' <=> Open(r)
    BY DEF Made, Stamped, Open
  <1>2. RequestsAgree' /\ RoomToCommit'
    BY <1>1 DEF RequestFacts, RequestsAgree, RoomToCommit
  <1>3. TabsAgree' /\ DesksAgree' /\ OneOpen' /\ PortalComesBack'
    BY <1>1 DEF RequestFacts, TabsAgree, DesksAgree, OneOpen, PortalComesBack
  <1> QED
    BY <1>2, <1>3 DEF RequestFacts

LEMMA SessionsAgreeKept ==
    ASSUME SessionsAgree, UNCHANGED <<rows, tab, sessionVars>>
    PROVE  SessionsAgree'
  BY DEF SessionsAgree, Stamped, sessionVars

LEMMA ErasedAgreeKept ==
    ASSUME ErasedAgree, UNCHANGED <<status, asker, ripe, waited, erased, due, sessionVars>>
    PROVE  ErasedAgree'
  BY DEF ErasedAgree, Made, sessionVars

-----------------------------------------------------------------------------
(* Sessions. *)

LEMMA SignInPreserves ==
    ASSUME IInv, NEW m \in Members, SignIn(m)
    PROVE  IInv'
  <1>1. TypeOK'
    BY DeletionAssumptions, SpendCounts DEF IInv, TypeOK, Choices, SignIn, teamVars,
       requestVars, personVars, workVars, sessionVars
  <1>2. RequestFacts'
    BY IInvParts, RequestFactsKept DEF SignIn, teamVars, requestVars, personVars, workVars,
       sessionVars
  <1>3. SessionsAgree'
    BY MembersArePeople DEF IInv, TypeOK, SessionsAgree, Stamped, SignIn, teamVars, requestVars,
       personVars, workVars, sessionVars
  <1>4. ErasedAgree'
    BY MembersArePeople DEF IInv, TypeOK, SessionsAgree, ErasedAgree, Made, SignIn, teamVars,
       requestVars, personVars, workVars, sessionVars
  <1> QED
    BY <1>1, <1>2, <1>3, <1>4 DEF IInv, RequestFacts

LEMMA SessionStartsPreserves ==
    ASSUME IInv, NEW m \in Members, SessionStarts(m)
    PROVE  IInv'
  <1>1. TypeOK'
    BY DeletionAssumptions DEF IInv, TypeOK, Choices, SessionStarts, teamVars, requestVars,
       personVars, workVars, sessionVars
  <1>2. RequestFacts'
    BY IInvParts, RequestFactsKept DEF SessionStarts, teamVars, requestVars, personVars,
       workVars, sessionVars
  <1>3. SessionsAgree'
    BY MembersArePeople DEF IInv, TypeOK, SessionsAgree, Stamped, SessionStarts, teamVars,
       requestVars, personVars, workVars, sessionVars
  <1>4. ErasedAgree'
    BY MembersArePeople DEF IInv, TypeOK, SessionsAgree, ErasedAgree, Made, SessionStarts,
       teamVars, requestVars, personVars, workVars, sessionVars
  <1> QED
    BY <1>1, <1>2, <1>3, <1>4 DEF IInv, RequestFacts

LEMMA SessionEndsPreserves ==
    ASSUME IInv, NEW m \in Members, SessionEnds(m)
    PROVE  IInv'
  <1>1. TypeOK'
    BY DeletionAssumptions, SpendCounts DEF IInv, TypeOK, Choices, SessionEnds, teamVars,
       requestVars, personVars, workVars, sessionVars
  <1>2. RequestFacts'
    BY IInvParts, RequestFactsKept DEF SessionEnds, teamVars, requestVars, personVars, workVars,
       sessionVars
  <1>3. SessionsAgree'
    BY MembersArePeople DEF IInv, TypeOK, SessionsAgree, Stamped, SessionEnds, teamVars,
       requestVars, personVars, workVars, sessionVars
  <1>4. ErasedAgree'
    BY MembersArePeople DEF IInv, TypeOK, SessionsAgree, ErasedAgree, Made, SessionEnds,
       teamVars, requestVars, personVars, workVars, sessionVars
  <1> QED
    BY <1>1, <1>2, <1>3, <1>4 DEF IInv, RequestFacts

-----------------------------------------------------------------------------
(* Who runs an organisation. *)

LEMMA BeginPreserves ==
    ASSUME IInv, NEW move \in MoveSet, Begin(move)
    PROVE  IInv'
  <1>1. TypeOK'
    BY DeletionAssumptions, SpendCounts DEF IInv, TypeOK, Choices, Begin, teamVars, requestVars,
       personVars, workVars, sessionVars
  <1>2. RequestFacts'
    BY IInvParts, RequestFactsKept DEF Begin, teamVars, requestVars, personVars, workVars,
       sessionVars
  <1>3. SessionsAgree'
    BY IInvParts, SessionsAgreeKept DEF Begin, teamVars, requestVars, personVars, workVars,
       sessionVars
  <1>4. ErasedAgree'
    BY IInvParts, ErasedAgreeKept DEF Begin, teamVars, requestVars, personVars, workVars,
       sessionVars
  <1> QED
    BY <1>1, <1>2, <1>3, <1>4 DEF IInv, RequestFacts

LEMMA EndMovePreserves ==
    ASSUME IInv, NEW move \in moves, EndMove(move)
    PROVE  IInv'
  <1>1. TypeOK'
    BY DEF IInv, TypeOK, MoveSet, EndMove, SignedOutEverywhere, teamVars, requestVars,
       personVars, workVars, sessionVars
  <1>2. RequestFacts'
    BY IInvParts, RequestFactsKept DEF EndMove, SignedOutEverywhere, teamVars, requestVars,
       personVars, workVars, sessionVars
  <1>3. SessionsAgree'
    BY MembersArePeople DEF IInv, TypeOK, SessionsAgree, Stamped, EndMove, SignedOutEverywhere,
       teamVars, requestVars, personVars, workVars, sessionVars
  <1>4. ErasedAgree'
    BY MembersArePeople DEF IInv, TypeOK, SessionsAgree, ErasedAgree, Made, EndMove,
       SignedOutEverywhere, teamVars, requestVars, personVars, workVars, sessionVars
  <1> QED
    BY <1>1, <1>2, <1>3, <1>4 DEF IInv, RequestFacts

LEMMA SwitchOnPreserves ==
    ASSUME IInv, NEW a \in Members, NEW m \in Members, SwitchOn(a, m)
    PROVE  IInv'
  <1>1. TypeOK'
    BY DeletionAssumptions, SpendCounts DEF IInv, TypeOK, Choices, SwitchOn, teamVars,
       requestVars, personVars, workVars, sessionVars
  <1>2. RequestFacts'
    BY IInvParts, RequestFactsKept DEF SwitchOn, teamVars, requestVars, personVars, workVars,
       sessionVars
  <1>3. SessionsAgree'
    BY IInvParts, SessionsAgreeKept DEF SwitchOn, teamVars, requestVars, personVars, workVars,
       sessionVars
  <1>4. ErasedAgree'
    BY IInvParts, ErasedAgreeKept DEF SwitchOn, teamVars, requestVars, personVars, workVars,
       sessionVars
  <1> QED
    BY <1>1, <1>2, <1>3, <1>4 DEF IInv, RequestFacts

LEMMA AcceptPreserves ==
    ASSUME IInv, NEW m \in Members, Accept(m)
    PROVE  IInv'
  <1>1. TypeOK'
    BY DeletionAssumptions DEF IInv, TypeOK, Choices, Accept, teamVars, requestVars, personVars,
       workVars, sessionVars
  <1>2. RequestFacts'
    BY IInvParts, RequestFactsKept DEF Accept, teamVars, requestVars, personVars, workVars,
       sessionVars
  <1>3. SessionsAgree'
    BY IInvParts, SessionsAgreeKept DEF Accept, teamVars, requestVars, personVars, workVars,
       sessionVars
  <1>4. ErasedAgree'
    BY IInvParts, ErasedAgreeKept DEF Accept, teamVars, requestVars, personVars, workVars,
       sessionVars
  <1> QED
    BY <1>1, <1>2, <1>3, <1>4 DEF IInv, RequestFacts

-----------------------------------------------------------------------------
(* Asking for an account to be deleted. *)

LEMMA FileCheckPreserves ==
    ASSUME IInv, NEW t \in Tabs, NEW m \in Members, FileCheck(t, m)
    PROVE  IInv'
  <1>1. TypeOK'
    BY MembersArePeople, SpendCounts DEF IInv, TypeOK, Choices, FileCheck, teamVars,
       requestVars, personVars, workVars, sessionVars
  <1>2. RequestFacts'
    <2>1. /\ Made' = Made /\ Stamped' = Stamped /\ \A r \in Requests : Open(r)' <=> Open(r)
          /\ \A u \in Stamped : tab'[u] = tab[u]
      BY DEF IInv, TypeOK, Made, Stamped, Open, FileCheck, teamVars, requestVars, personVars,
         workVars, sessionVars
    <2>2. TabsAgree'
      BY <2>1, MembersArePeople DEF IInv, TypeOK, TabsAgree, FileCheck, teamVars, requestVars,
         personVars, workVars, sessionVars
    <2>3. RequestsAgree' /\ RoomToCommit' /\ DesksAgree' /\ OneOpen' /\ PortalComesBack'
      BY <2>1 DEF IInv, RequestsAgree, RoomToCommit, DesksAgree, OneOpen, PortalComesBack,
         FileCheck, teamVars, requestVars, personVars, workVars, sessionVars
    <2> QED
      BY <2>2, <2>3 DEF RequestFacts
  <1>3. SessionsAgree'
    BY MembersArePeople DEF IInv, TypeOK, SessionsAgree, Stamped, FileCheck, teamVars,
       requestVars, personVars, workVars, sessionVars
  <1>4. ErasedAgree'
    BY IInvParts, ErasedAgreeKept DEF FileCheck, teamVars, requestVars, personVars, workVars,
       sessionVars
  <1> QED
    BY <1>1, <1>2, <1>3, <1>4 DEF IInv, RequestFacts

LEMMA FileInsertPreserves ==
    ASSUME IInv, NEW t \in Tabs, FileInsert(t)
    PROVE  IInv'
  <1> DEFINE p == tab[t].who
  <1>1. /\ tab[t].at = "checked" /\ p \in People /\ Uncommitted(p) = {}
        /\ Cardinality(Made) + Cardinality(Stamped) < MaxRequests
        /\ UNCHANGED <<teamVars, requestVars, personVars, desk, due, left>>
    BY DEF FileInsert, IInv, TabsAgree
  <1>2. Made' = Made /\ \A r \in Requests : Open(r)' <=> Open(r)
    BY <1>1 DEF Made, Open, requestVars
  <1>3. t \notin Stamped
    BY <1>1 DEF Stamped
  <1>4. CASE ~IndexAllows(0, p)
    <2>1. tab' = [tab EXCEPT ![t] = IdleTab] /\ UNCHANGED sessionVars
      BY <1>4 DEF FileInsert
    <2>2. Stamped' = Stamped /\ \A u \in Stamped : tab'[u] = tab[u]
      BY <1>3, <2>1 DEF IInv, TypeOK, Stamped, IdleTab
    <2>3. TypeOK'
      BY <1>1, <2>1 DEF IInv, TypeOK, IdleTab, teamVars, requestVars, personVars, sessionVars
    <2>4. TabsAgree'
      BY <1>1, <1>2, <2>1, <2>2 DEF IInv, TypeOK, TabsAgree, IdleTab, requestVars
    <2>5. RequestsAgree' /\ RoomToCommit' /\ DesksAgree' /\ OneOpen' /\ PortalComesBack'
      BY <1>1, <1>2, <2>2
      DEF IInv, RequestsAgree, RoomToCommit, DesksAgree, OneOpen, PortalComesBack, requestVars,
          personVars
    <2>6. SessionsAgree' /\ ErasedAgree'
      BY <1>1, <1>2, <2>1, <2>2
      DEF IInv, SessionsAgree, ErasedAgree, teamVars, requestVars, personVars, sessionVars
    <2> QED
      BY <2>3, <2>4, <2>5, <2>6 DEF IInv
  <1>5. CASE IndexAllows(0, p)
    <2>1. /\ tab' = [tab EXCEPT ![t].at = "stamped", ![t].closes = (portal[p] = "on")]
          /\ settled' = settled \cup {m \in fresh : Person(m) = p}
          /\ fresh' = {m \in fresh : Person(m) # p}
          /\ signing' = [m \in Members |->
                IF Person(m) = p /\ signing[m] = "late" THEN "early" ELSE signing[m]]
      BY <1>5 DEF FileInsert
    <2>2. tab' \in [Tabs -> [at : {"idle", "checked", "stamped"}, who : People \cup {None},
                             closes : BOOLEAN]]
      <3>1. tab \in [Tabs -> [at : {"idle", "checked", "stamped"}, who : People \cup {None},
                              closes : BOOLEAN]]
        BY DEF IInv, TypeOK
      <3> QED
        BY <2>1, <3>1
    <2>3. \A u \in Tabs : /\ tab'[u].who = tab[u].who
                          /\ tab'[u].at = IF u = t THEN "stamped" ELSE tab[u].at
      BY <2>1 DEF IInv, TypeOK
    <2>4. Stamped' = Stamped \cup {t}
      BY <2>3 DEF Stamped
    <2>5. \A r \in Requests : Open(r) => asker[r] # p
      BY <1>5, OpenRequestsAre, DeletionAssumptions DEF IndexAllows, Requests
    <2>6. \A u \in Stamped : tab[u].who # p
      BY <1>1 DEF Uncommitted
    <2>7. TypeOK'
      BY <1>1, <2>1, <2>2 DEF IInv, TypeOK, teamVars, requestVars, personVars
    <2>8. TabsAgree'
      <3>1. \A u \in Tabs : tab'[u].at # "idle" => tab'[u].who \in People
        BY <1>1, <2>3 DEF IInv, TabsAgree
      <3>2. \A u \in Stamped' : u \in Tabs /\ (u \in Stamped \/ u = t)
        BY <2>4 DEF Stamped
      <3>3. \A u, w \in Stamped' : tab'[u].who = tab'[w].who => u = w
        BY <2>3, <2>6, <3>2 DEF IInv, TabsAgree
      <3>4. \A u \in Stamped', r \in Requests : Open(r)' => asker'[r] # tab'[u].who
        BY <1>1, <1>2, <2>3, <2>5, <3>2 DEF IInv, TabsAgree, requestVars
      <3> QED
        BY <3>1, <3>3, <3>4 DEF TabsAgree
    <2>9. RoomToCommit'
      <3>1. IsFiniteSet(Stamped) /\ Cardinality(Stamped) \in Nat /\ IsFiniteSet(Made)
            /\ Cardinality(Made) \in Nat
        <4>1. IsFiniteSet(Requests) /\ Made \subseteq Requests
          BY FS_Interval, DeletionAssumptions DEF Requests, Made
        <4> QED
          BY <4>1, FS_Subset, FS_CardinalityType DEF IInv, RoomToCommit
      <3>2. IsFiniteSet(Stamped') /\ Cardinality(Stamped') = Cardinality(Stamped) + 1
        BY <1>3, <2>4, <3>1, FS_AddElement
      <3> QED
        BY <1>1, <1>2, <3>1, <3>2, DeletionAssumptions DEF RoomToCommit
    <2>10. RequestsAgree' /\ DesksAgree' /\ OneOpen' /\ PortalComesBack'
      BY <1>1, <1>2
      DEF IInv, RequestsAgree, DesksAgree, OneOpen, PortalComesBack, requestVars, personVars
    <2>11. SessionsAgree'
      <3>1. \A u \in Stamped : u \in Stamped' /\ tab'[u].who = tab[u].who
        BY <2>3, <2>4 DEF Stamped
      <3>2. t \in Stamped' /\ tab'[t].who = p
        BY <2>3, <2>4
      <3> QED
        BY <1>1, <2>1, <3>1, <3>2 DEF IInv, TypeOK, SessionsAgree, teamVars
    <2>12. ErasedAgree'
      BY <1>1, <1>2, <2>1 DEF IInv, TypeOK, ErasedAgree, requestVars, personVars
    <2> QED
      BY <2>7, <2>8, <2>9, <2>10, <2>11, <2>12 DEF IInv
  <1> QED
    BY <1>4, <1>5

LEMMA FileCommitPreserves ==
    ASSUME IInv, NEW t \in Tabs, FileCommit(t)
    PROVE  IInv'
  <1> DEFINE p == tab[t].who
             n == NewRequest
  <1>1. /\ t \in Stamped /\ p \in People
        /\ tab' = [tab EXCEPT ![t] = IdleTab]
        /\ UNCHANGED <<teamVars, ripe, waited, erased, desk, due, fresh, left>>
    BY DEF FileCommit, IInv, TabsAgree, Stamped
  <1>2. /\ status' = [status EXCEPT ![n] = "requested"]
        /\ asker' = [asker EXCEPT ![n] = p]
        /\ closedPortal' = IF tab[t].closes THEN closedPortal \cup {n} ELSE closedPortal
        /\ portal' = IF tab[t].closes THEN [portal EXCEPT ![p] = "off"] ELSE portal
        /\ settled' = settled \ EveryMembership(p)
        /\ signing' = [m \in Members |->
              IF m \in EveryMembership(p) /\ signing[m] = "early" THEN "dead" ELSE signing[m]]
    BY DEF FileCommit
  <1>3. /\ IsFiniteSet(Made) /\ Cardinality(Made) \in Nat
        /\ IsFiniteSet(Stamped) /\ Cardinality(Stamped) \in Nat
    <2>1. IsFiniteSet(Requests) /\ Made \subseteq Requests
      BY FS_Interval, DeletionAssumptions DEF Requests, Made
    <2> QED
      BY <2>1, FS_Subset, FS_CardinalityType DEF IInv, RoomToCommit
  <1>4. /\ IsFiniteSet(Stamped \ {t})
        /\ Cardinality(Stamped \ {t}) = Cardinality(Stamped) - 1
        /\ Cardinality(Stamped \ {t}) \in Nat
    BY <1>1, <1>3, FS_RemoveElement, FS_CardinalityType
  <1>5. n \in Requests /\ n \notin Made
    <2>1. n = Cardinality(Made) + 1
      BY DEF NewRequest
    <2>2. n <= MaxRequests
      BY <1>3, <1>4, <2>1, DeletionAssumptions DEF IInv, RoomToCommit
    <2>3. n \notin 1..Cardinality(Made)
      BY <1>3, <2>1
    <2> QED
      BY <1>3, <2>1, <2>2, <2>3, DeletionAssumptions DEF IInv, RequestsAgree, Requests
  <1> HIDE DEF n
  <1>6. \A r \in Requests : /\ status'[r] = IF r = n THEN "requested" ELSE status[r]
                            /\ asker'[r] = IF r = n THEN p ELSE asker[r]
    BY <1>2 DEF IInv, TypeOK
  <1>7. Made' = Made \cup {n} /\ \A r \in Made : r \in Requests /\ r # n
    BY <1>5, <1>6 DEF Made
  <1>8. \A r \in Requests : Open(r)' <=> Open(r) \/ r = n
    BY <1>6 DEF Open, OpenStatuses
  <1>9. \A r \in Requests : Open(r) => r # n /\ r \in Made /\ asker[r] # p
    BY <1>1, <1>5 DEF IInv, TabsAgree, Open, OpenStatuses, Made
  <1>10. \A u \in Tabs : tab'[u] = IF u = t THEN IdleTab ELSE tab[u]
    BY <1>1 DEF IInv, TypeOK
  <1>11. Stamped' = Stamped \ {t} /\ \A u \in Stamped' : u \in Stamped /\ tab'[u] = tab[u]
    BY <1>10 DEF Stamped, IdleTab
  <1>12. \A u \in Stamped' : tab[u].who # p
    BY <1>1, <1>11 DEF IInv, TabsAgree
  <1>13. TypeOK'
    <2>1. status' \in [Requests -> Statuses] /\ asker' \in [Requests -> People \cup {None}]
      BY <1>1, <1>2, <1>5 DEF IInv, TypeOK, Statuses
    <2>2. closedPortal' \subseteq Requests /\ portal' \in [People -> {"none", "on", "off"}]
      BY <1>1, <1>2, <1>5 DEF IInv, TypeOK
    <2>3. /\ tab' \in [Tabs -> [at : {"idle", "checked", "stamped"}, who : People \cup {None},
                                closes : BOOLEAN]]
          /\ settled' \subseteq Members
          /\ signing' \in [Members -> {"no", "early", "late", "dead"}]
      BY <1>1, <1>2 DEF IInv, TypeOK, IdleTab
    <2> QED
      BY <1>1, <2>1, <2>2, <2>3 DEF IInv, TypeOK, teamVars
  <1>14. RequestsAgree'
    <2>1. Cardinality(Made') = n /\ n = Cardinality(Made) + 1
      BY <1>3, <1>5, <1>7, FS_AddElement DEF n, NewRequest
    <2>2. Made' = 1..n
      BY <1>3, <1>7, <2>1 DEF IInv, RequestsAgree
    <2>3. \A r \in Made' : asker'[r] \in People
      BY <1>1, <1>5, <1>6, <1>7 DEF IInv, RequestsAgree
    <2>4. closedPortal' \subseteq {r \in Requests : Open(r)'}
      BY <1>2, <1>5, <1>8 DEF IInv, RequestsAgree
    <2> QED
      BY <1>1, <1>7, <2>1, <2>2, <2>3, <2>4 DEF IInv, RequestsAgree
  <1>15. RoomToCommit'
    <2>1. Cardinality(Made') = Cardinality(Made) + 1
      BY <1>3, <1>5, <1>7, FS_AddElement
    <2> QED
      BY <1>3, <1>4, <1>11, <2>1, DeletionAssumptions DEF IInv, RoomToCommit
  <1>16. TabsAgree'
    <2>1. \A u \in Tabs : tab'[u].at # "idle" => tab'[u].who \in People
      BY <1>10 DEF IInv, TabsAgree, IdleTab
    <2>2. \A u, w \in Stamped' : tab'[u].who = tab'[w].who => u = w
      BY <1>11 DEF IInv, TabsAgree
    <2>3. \A u \in Stamped', r \in Requests : Open(r)' => asker'[r] # tab'[u].who
      BY <1>6, <1>8, <1>11, <1>12 DEF IInv, TabsAgree
    <2> QED
      BY <2>1, <2>2, <2>3 DEF TabsAgree
  <1>17. DesksAgree'
    <2> SUFFICES ASSUME NEW v \in Reviewers, desk[v].does # "nothing"
                 PROVE  LET r == desk[v].request
                        IN  /\ r \in Made'
                            /\ desk[v].does = "reject" /\ r \in closedPortal'
                               /\ portal'[asker'[r]] = "off" => desk[v].reopens
      BY <1>1 DEF DesksAgree
    <2> DEFINE r == desk[v].request
    <2>1. r \in Made /\ r \in Requests /\ r # n /\ asker'[r] = asker[r]
      BY <1>6, <1>7 DEF IInv, DesksAgree
    <2>2. r \in closedPortal' => r \in closedPortal /\ asker[r] # p
      BY <1>2, <1>9, <2>1 DEF IInv, RequestsAgree
    <2>3. r \in closedPortal' => portal'[asker'[r]] = portal[asker[r]]
      BY <1>2, <2>1, <2>2 DEF IInv, TypeOK, RequestsAgree
    <2> QED
      BY <1>7, <2>1, <2>2, <2>3 DEF IInv, DesksAgree
  <1>18. OneOpen'
    BY <1>6, <1>8, <1>9 DEF IInv, OneOpen
  <1>19. PortalComesBack'
    <2> SUFFICES ASSUME NEW q \in People, portal'[q] = "off"
                 PROVE  \E r \in Requests :
                            asker'[r] = q /\ r \in closedPortal' /\ status'[r] \in OpenStatuses
      BY DEF PortalComesBack
    <2>1. CASE q = p /\ tab[t].closes
      BY <1>2, <1>5, <1>6, <2>1 DEF OpenStatuses
    <2>2. CASE ~(q = p /\ tab[t].closes)
      <3>1. portal[q] = "off"
        BY <1>1, <1>2, <2>2 DEF IInv, TypeOK
      <3>2. PICK r \in Requests : asker[r] = q /\ r \in closedPortal /\ status[r] \in OpenStatuses
        BY <3>1 DEF IInv, PortalComesBack
      <3>3. r # n
        BY <1>9, <3>2 DEF Open
      <3> QED
        BY <1>2, <1>6, <3>2, <3>3
    <2> QED
      BY <2>1, <2>2
  <1>20. SessionsAgree'
    <2>1. ASSUME NEW m \in Members, m \in settled' \/ signing'[m] = "early"
          PROVE  \E u \in Stamped' : tab'[u].who = Person(m)
      <3>1. Person(m) # p /\ (m \in settled \/ signing[m] = "early")
        BY <1>2, <2>1 DEF IInv, TypeOK, EveryMembership
      <3>2. PICK u \in Stamped : tab[u].who = Person(m)
        BY <3>1 DEF IInv, SessionsAgree
      <3>3. u # t
        BY <3>1, <3>2
      <3> QED
        BY <1>11, <3>2, <3>3
    <2>2. \A m \in Members : m \notin rows' =>
              m \notin settled' \cup fresh' /\ signing'[m] \in {"no", "dead"}
      BY <1>1, <1>2 DEF IInv, TypeOK, SessionsAgree, teamVars
    <2> QED
      BY <2>1, <2>2 DEF SessionsAgree
  <1>21. ErasedAgree'
    <2>1. \A q \in erased : \E r \in waited : asker'[r] = q
      BY <1>6, <1>7 DEF IInv, ErasedAgree
    <2>2. \A m \in Members : Person(m) \in erased =>
              m \notin settled' \cup fresh /\ signing'[m] \in {"no", "dead"}
      BY <1>2 DEF IInv, TypeOK, ErasedAgree
    <2> QED
      BY <1>1, <1>7, <2>1, <2>2 DEF IInv, ErasedAgree
  <1> QED
    BY <1>13, <1>14, <1>15, <1>16, <1>17, <1>18, <1>19, <1>20, <1>21 DEF IInv

-----------------------------------------------------------------------------
(* The review. *)

LEMMA ReadToApprovePreserves ==
    ASSUME IInv, NEW v \in Reviewers, NEW r \in Requests, ReadToApprove(v, r)
    PROVE  IInv'
  <1>1. TypeOK'
    BY DeletionAssumptions, SpendCounts DEF IInv, TypeOK, Choices, ReadToApprove, EmptyDesk,
       teamVars, requestVars, personVars, workVars, sessionVars
  <1>2. RequestFacts'
    <2>1. Made' = Made /\ Stamped' = Stamped /\ \A t \in Requests : Open(t)' <=> Open(t)
      BY DEF Made, Stamped, Open, ReadToApprove, EmptyDesk, teamVars, requestVars, personVars,
         workVars, sessionVars
    <2>2. DesksAgree'
      BY <2>1 DEF IInv, TypeOK, DesksAgree, Made, OpenStatuses, ReadToApprove, EmptyDesk,
         teamVars, requestVars, personVars, workVars, sessionVars
    <2>3. RequestsAgree' /\ RoomToCommit' /\ TabsAgree' /\ OneOpen' /\ PortalComesBack'
      BY <2>1 DEF IInv, RequestsAgree, RoomToCommit, TabsAgree, OneOpen, PortalComesBack,
         ReadToApprove, EmptyDesk, teamVars, requestVars, personVars, workVars, sessionVars
    <2> QED
      BY <2>2, <2>3 DEF RequestFacts
  <1>3. SessionsAgree'
    BY IInvParts, SessionsAgreeKept DEF ReadToApprove, EmptyDesk, teamVars, requestVars,
       personVars, workVars, sessionVars
  <1>4. ErasedAgree'
    BY IInvParts, ErasedAgreeKept DEF ReadToApprove, EmptyDesk, teamVars, requestVars,
       personVars, workVars, sessionVars
  <1> QED
    BY <1>1, <1>2, <1>3, <1>4 DEF IInv, RequestFacts

LEMMA ReadToRejectPreserves ==
    ASSUME IInv, NEW v \in Reviewers, NEW r \in Requests, ReadToReject(v, r)
    PROVE  IInv'
  <1>1. TypeOK'
    BY DeletionAssumptions, SpendCounts DEF IInv, TypeOK, Choices, ReadToReject, Reopens,
       EmptyDesk, teamVars, requestVars, personVars, workVars, sessionVars
  <1>2. RequestFacts'
    <2>1. Made' = Made /\ Stamped' = Stamped /\ \A t \in Requests : Open(t)' <=> Open(t)
      BY DEF Made, Stamped, Open, ReadToReject, Reopens, EmptyDesk, teamVars, requestVars,
         personVars, workVars, sessionVars
    <2>2. DesksAgree'
      BY <2>1 DEF IInv, TypeOK, DesksAgree, Made, OpenStatuses, ReadToReject, Reopens,
         EmptyDesk, teamVars, requestVars, personVars, workVars, sessionVars
    <2>3. RequestsAgree' /\ RoomToCommit' /\ TabsAgree' /\ OneOpen' /\ PortalComesBack'
      BY <2>1 DEF IInv, RequestsAgree, RoomToCommit, TabsAgree, OneOpen, PortalComesBack,
         ReadToReject, Reopens, EmptyDesk, teamVars, requestVars, personVars, workVars,
         sessionVars
    <2> QED
      BY <2>2, <2>3 DEF RequestFacts
  <1>3. SessionsAgree'
    BY IInvParts, SessionsAgreeKept DEF ReadToReject, Reopens, EmptyDesk, teamVars, requestVars,
       personVars, workVars, sessionVars
  <1>4. ErasedAgree'
    BY IInvParts, ErasedAgreeKept DEF ReadToReject, Reopens, EmptyDesk, teamVars, requestVars,
       personVars, workVars, sessionVars
  <1> QED
    BY <1>1, <1>2, <1>3, <1>4 DEF IInv, RequestFacts

LEMMA ApprovePreserves ==
    ASSUME IInv, NEW v \in Reviewers, Approve(v)
    PROVE  IInv'
  <1> DEFINE r == desk[v].request
  <1>1. /\ desk[v].does = "approve" /\ r \in Made /\ r \in Requests /\ asker[r] \in People
        /\ desk' = [desk EXCEPT ![v] = EmptyDesk]
        /\ UNCHANGED <<teamVars, asker, closedPortal, waited, personVars, tab, due, sessionVars, left>>
    BY DEF Approve, IInv, DesksAgree, RequestsAgree, Made
  <1>2. Stamped' = Stamped /\ \A w \in Reviewers : desk'[w] = IF w = v THEN EmptyDesk ELSE desk[w]
    BY <1>1 DEF IInv, TypeOK, Stamped
  <1>3. CASE ~IndexAllows(r, asker[r])
    <2>1. UNCHANGED <<status, ripe>>
      BY <1>3 DEF Approve
    <2>2. Made' = Made /\ \A q \in Requests : Open(q)' <=> Open(q)
      BY <2>1 DEF Made, Open
    <2>3. TypeOK'
      BY <1>1, <2>1 DEF IInv, TypeOK, EmptyDesk, teamVars, personVars, sessionVars
    <2>4. DesksAgree'
      BY <1>1, <1>2, <2>2 DEF IInv, DesksAgree, EmptyDesk, personVars
    <2>5. RequestsAgree' /\ RoomToCommit' /\ TabsAgree' /\ OneOpen' /\ PortalComesBack'
      BY <1>1, <1>2, <2>1, <2>2
      DEF IInv, RequestsAgree, RoomToCommit, TabsAgree, OneOpen, PortalComesBack, personVars
    <2>6. SessionsAgree' /\ ErasedAgree'
      BY <1>1, <1>2, <2>1, <2>2
      DEF IInv, SessionsAgree, ErasedAgree, teamVars, personVars, sessionVars
    <2> QED
      BY <2>3, <2>4, <2>5, <2>6 DEF IInv
  <1>4. CASE IndexAllows(r, asker[r])
    <2>1. status' = [status EXCEPT ![r] = "approved"] /\ ripe' = ripe \ {r}
      BY <1>4 DEF Approve
    <2>2. \A q \in Requests : status'[q] = IF q = r THEN "approved" ELSE status[q]
      BY <2>1 DEF IInv, TypeOK
    <2>3. Made' = Made /\ \A q \in Requests : Open(q)' <=> Open(q) \/ q = r
      BY <1>1, <2>2 DEF Made, Open, OpenStatuses
    <2>4. \A q \in Requests : Open(q) /\ asker[q] = asker[r] => q = r
      BY <1>4, OpenRequestsAre DEF IndexAllows
    <2>5. \A t \in Stamped : tab[t].who # asker[r]
      <3>1. CASE Open(r)
        BY <1>1, <3>1 DEF IInv, TabsAgree
      <3>2. CASE Uncommitted(asker[r]) = {}
        BY <3>2 DEF Uncommitted
      <3> QED
        BY <3>1, <3>2 DEF Approve, Open
    <2>6. TypeOK'
      BY <1>1, <2>1 DEF IInv, TypeOK, Statuses, EmptyDesk, teamVars, personVars, sessionVars
    <2>7. RequestsAgree' /\ RoomToCommit'
      BY <1>1, <1>2, <2>3 DEF IInv, RequestsAgree, RoomToCommit
    <2>8. TabsAgree'
      BY <1>1, <1>2, <2>3, <2>5 DEF IInv, TabsAgree
    <2>9. DesksAgree'
      BY <1>1, <1>2, <2>3 DEF IInv, DesksAgree, EmptyDesk, personVars
    <2>10. OneOpen'
      BY <1>1, <2>3, <2>4 DEF IInv, OneOpen
    <2>11. PortalComesBack'
      BY <1>1, <2>2 DEF IInv, PortalComesBack, OpenStatuses, personVars
    <2>12. SessionsAgree' /\ ErasedAgree'
      BY <1>1, <1>2, <2>1, <2>3
      DEF IInv, SessionsAgree, ErasedAgree, teamVars, personVars, sessionVars
    <2> QED
      BY <2>6, <2>7, <2>8, <2>9, <2>10, <2>11, <2>12 DEF IInv
  <1> QED
    BY <1>3, <1>4

LEMMA RejectPreserves ==
    ASSUME IInv, NEW v \in Reviewers, Reject(v)
    PROVE  IInv'
  <1> DEFINE r == desk[v].request
             p == asker[r]
  <1>1. /\ desk[v].does = "reject" /\ r \in Made /\ r \in Requests /\ p \in People
        /\ desk' = [desk EXCEPT ![v] = EmptyDesk]
        /\ UNCHANGED <<teamVars, erased, tab, due, sessionVars, left>>
    BY DEF Reject, IInv, DesksAgree, RequestsAgree, Made
  <1>2. Stamped' = Stamped /\ \A w \in Reviewers : desk'[w] = IF w = v THEN EmptyDesk ELSE desk[w]
    BY <1>1 DEF IInv, TypeOK, Stamped
  <1>3. CASE desk[v].reopens /\ portal[p] = "none"
    <2>1. UNCHANGED <<requestVars, portal>>
      BY <1>3 DEF Reject
    <2>2. Made' = Made /\ \A q \in Requests : Open(q)' <=> Open(q)
      BY <2>1 DEF Made, Open, requestVars
    <2>3. TypeOK'
      BY <1>1, <2>1 DEF IInv, TypeOK, EmptyDesk, teamVars, requestVars, sessionVars
    <2>4. DesksAgree'
      BY <1>1, <1>2, <2>1, <2>2 DEF IInv, DesksAgree, EmptyDesk, requestVars
    <2>5. RequestsAgree' /\ RoomToCommit' /\ TabsAgree' /\ OneOpen' /\ PortalComesBack'
      BY <1>1, <1>2, <2>1, <2>2
      DEF IInv, RequestsAgree, RoomToCommit, TabsAgree, OneOpen, PortalComesBack, requestVars
    <2>6. SessionsAgree' /\ ErasedAgree'
      BY <1>1, <1>2, <2>1, <2>2
      DEF IInv, SessionsAgree, ErasedAgree, teamVars, requestVars, sessionVars
    <2> QED
      BY <2>3, <2>4, <2>5, <2>6 DEF IInv
  <1>4. CASE ~(desk[v].reopens /\ portal[p] = "none")
    <2>1. /\ status' = [status EXCEPT ![r] = "rejected"]
          /\ ripe' = ripe \ {r} /\ closedPortal' = closedPortal \ {r}
          /\ portal' = IF desk[v].reopens THEN [portal EXCEPT ![p] = "on"] ELSE portal
          /\ UNCHANGED <<asker, waited>>
      BY <1>4 DEF Reject
    <2>2. \A q \in Requests : status'[q] = IF q = r THEN "rejected" ELSE status[q]
      BY <2>1 DEF IInv, TypeOK
    <2>3. Made' = Made /\ \A q \in Requests : Open(q)' <=> Open(q) /\ q # r
      BY <1>1, <2>2 DEF Made, Open, OpenStatuses
    <2>4. \A q \in People : portal'[q] = "off" => portal[q] = "off" /\ (q = p => ~desk[v].reopens)
      BY <2>1 DEF IInv, TypeOK
    <2>5. TypeOK'
      BY <1>1, <2>1 DEF IInv, TypeOK, Statuses, EmptyDesk, teamVars, sessionVars
    <2>6. RequestsAgree' /\ RoomToCommit' /\ TabsAgree' /\ OneOpen'
      BY <1>1, <1>2, <2>1, <2>3 DEF IInv, RequestsAgree, RoomToCommit, TabsAgree, OneOpen
    <2>7. DesksAgree'
      <3> SUFFICES ASSUME NEW w \in Reviewers, desk'[w].does # "nothing"
                   PROVE  LET q == desk'[w].request
                          IN  /\ q \in Made'
                              /\ desk'[w].does = "reject" /\ q \in closedPortal'
                                 /\ portal'[asker'[q]] = "off" => desk'[w].reopens
        BY <1>2 DEF DesksAgree
      <3>1. desk'[w] = desk[w]
        BY <1>2 DEF EmptyDesk
      <3>2. desk[w].request \in Made /\ asker[desk[w].request] \in People
        BY <3>1 DEF IInv, DesksAgree, RequestsAgree
      <3> QED
        BY <2>1, <2>3, <2>4, <3>1, <3>2 DEF IInv, DesksAgree
    <2>8. PortalComesBack'
      <3> SUFFICES ASSUME NEW q \in People, portal'[q] = "off"
                   PROVE  \E s \in Requests :
                              asker'[s] = q /\ s \in closedPortal' /\ status'[s] \in OpenStatuses
        BY DEF PortalComesBack
      <3>1. PICK s \in Requests : asker[s] = q /\ s \in closedPortal /\ status[s] \in OpenStatuses
        BY <2>4 DEF IInv, PortalComesBack
      <3>2. s # r
        BY <1>1, <2>4, <3>1 DEF IInv, DesksAgree
      <3> QED
        BY <2>1, <2>2, <3>1, <3>2
    <2>9. SessionsAgree' /\ ErasedAgree'
      BY <1>1, <1>2, <2>1, <2>3
      DEF IInv, SessionsAgree, ErasedAgree, teamVars, sessionVars
    <2> QED
      BY <2>5, <2>6, <2>7, <2>8, <2>9 DEF IInv
  <1> QED
    BY <1>3, <1>4

-----------------------------------------------------------------------------
(* The thirty days and the nightly run. *)

LEMMA GraceEndsPreserves ==
    ASSUME IInv, NEW r \in Requests, GraceEnds(r)
    PROVE  IInv'
  <1>1. TypeOK'
    BY DeletionAssumptions DEF IInv, TypeOK, Choices, GraceEnds, teamVars, requestVars,
       personVars, workVars, sessionVars
  <1>2. RequestFacts'
    BY IInvParts, RequestFactsKept DEF GraceEnds, teamVars, requestVars, personVars, workVars,
       sessionVars
  <1>3. SessionsAgree'
    BY IInvParts, SessionsAgreeKept DEF GraceEnds, teamVars, requestVars, personVars, workVars,
       sessionVars
  <1>4. ErasedAgree'
    BY MembersArePeople DEF IInv, TypeOK, SessionsAgree, ErasedAgree, Made, GraceEnds, teamVars,
       requestVars, personVars, workVars, sessionVars
  <1> QED
    BY <1>1, <1>2, <1>3, <1>4 DEF IInv, RequestFacts

LEMMA ListDuePreserves ==
    ASSUME IInv, ListDue
    PROVE  IInv'
  <1>1. TypeOK'
    BY DeletionAssumptions DEF IInv, TypeOK, Choices, ListDue, DueForPurge, teamVars,
       requestVars, personVars, workVars, sessionVars
  <1>2. RequestFacts'
    <2>1. Made' = Made /\ Stamped' = Stamped /\ \A r \in Requests : Open(r)' <=> Open(r)
      BY DEF Made, Stamped, Open, ListDue, DueForPurge, teamVars, requestVars, personVars,
         workVars, sessionVars
    <2>2. RequestsAgree'
      BY <2>1 DEF IInv, TypeOK, RequestsAgree, Made, ListDue, DueForPurge, teamVars,
         requestVars, personVars, workVars, sessionVars
    <2>3. DesksAgree' /\ RoomToCommit' /\ TabsAgree' /\ OneOpen' /\ PortalComesBack'
      BY <2>1 DEF IInv, DesksAgree, RoomToCommit, TabsAgree, OneOpen, PortalComesBack, ListDue,
         DueForPurge, teamVars, requestVars, personVars, workVars, sessionVars
    <2> QED
      BY <2>2, <2>3 DEF RequestFacts
  <1>3. SessionsAgree'
    BY IInvParts, SessionsAgreeKept DEF ListDue, DueForPurge, teamVars, requestVars, personVars,
       workVars, sessionVars
  <1>4. ErasedAgree'
    BY MembersArePeople DEF IInv, TypeOK, SessionsAgree, ErasedAgree, Made, ListDue,
       DueForPurge, teamVars, requestVars, personVars, workVars, sessionVars
  <1> QED
    BY <1>1, <1>2, <1>3, <1>4 DEF IInv, RequestFacts

LEMMA PurgeFailsPreserves ==
    ASSUME IInv, NEW r \in Requests, PurgeFails(r)
    PROVE  IInv'
  <1>1. TypeOK'
    BY DeletionAssumptions, SpendCounts DEF IInv, TypeOK, Choices, PurgeFails, teamVars,
       requestVars, personVars, workVars, sessionVars
  <1>2. RequestFacts'
    <2>1. Made' = Made /\ Stamped' = Stamped /\ \A q \in Requests : Open(q)' <=> Open(q)
      BY DEF Made, Stamped, Open, PurgeFails, teamVars, requestVars, personVars, workVars,
         sessionVars
    <2>2. RequestsAgree'
      BY <2>1 DEF IInv, TypeOK, RequestsAgree, Made, PurgeFails, teamVars, requestVars,
         personVars, workVars, sessionVars
    <2>3. DesksAgree' /\ RoomToCommit' /\ TabsAgree' /\ OneOpen' /\ PortalComesBack'
      BY <2>1 DEF IInv, DesksAgree, RoomToCommit, TabsAgree, OneOpen, PortalComesBack,
         PurgeFails, teamVars, requestVars, personVars, workVars, sessionVars
    <2> QED
      BY <2>2, <2>3 DEF RequestFacts
  <1>3. SessionsAgree'
    BY IInvParts, SessionsAgreeKept DEF PurgeFails, teamVars, requestVars, personVars, workVars,
       sessionVars
  <1>4. ErasedAgree'
    BY MembersArePeople DEF IInv, TypeOK, SessionsAgree, ErasedAgree, Made, PurgeFails,
       teamVars, requestVars, personVars, workVars, sessionVars
  <1> QED
    BY <1>1, <1>2, <1>3, <1>4 DEF IInv, RequestFacts

LEMMA PurgePreserves ==
    ASSUME IInv, NEW r \in Requests, Purge(r)
    PROVE  IInv'
  <1> DEFINE p == asker[r]
  <1>1. /\ r \in due /\ r \in Made /\ r \in waited /\ p \in People
        /\ status' = [status EXCEPT ![r] = "done"]
        /\ closedPortal' = closedPortal \ {r} /\ due' = due \ {r}
        /\ portal' = [portal EXCEPT ![p] = "none"] /\ erased' = erased \cup {p}
        /\ UNCHANGED <<rows, role, moves, asker, ripe, waited, tab, desk, left>>
    BY DEF Purge, IInv, RequestsAgree, ErasedAgree
  <1>2. /\ active' = active \ RowsOf(p) /\ invited' = invited \ RowsOf(p)
        /\ settled' = settled \ RowsOf(p) /\ fresh' = fresh \ RowsOf(p)
        /\ signing' = [m \in Members |->
              IF m \in RowsOf(p) /\ signing[m] # "no" THEN "dead" ELSE signing[m]]
    BY DEF Purge, SignedOutEverywhere
  <1>3. \A q \in Requests : status'[q] = IF q = r THEN "done" ELSE status[q]
    BY <1>1 DEF IInv, TypeOK
  <1>4. Made' = Made /\ Stamped' = Stamped /\ \A q \in Requests : Open(q)' <=> Open(q) /\ q # r
    BY <1>1, <1>3 DEF Made, Stamped, Open, OpenStatuses
  <1>5. \A q \in People : portal'[q] = "off" => portal[q] = "off" /\ q # p
    BY <1>1 DEF IInv, TypeOK
  <1>6. TypeOK'
    BY <1>1, <1>2 DEF IInv, TypeOK, Statuses
  <1>7. RequestsAgree' /\ RoomToCommit' /\ TabsAgree' /\ OneOpen'
    BY <1>1, <1>4 DEF IInv, RequestsAgree, RoomToCommit, TabsAgree, OneOpen
  <1>8. DesksAgree'
    <2>1. \A v \in Reviewers : desk[v].does # "nothing" =>
              desk[v].request \in Made /\ asker[desk[v].request] \in People
      BY DEF IInv, DesksAgree, RequestsAgree
    <2> QED
      BY <1>1, <1>4, <1>5, <2>1 DEF IInv, DesksAgree
  <1>9. PortalComesBack'
    BY <1>1, <1>3, <1>5 DEF IInv, PortalComesBack
  <1>10. SessionsAgree'
    BY <1>1, <1>2, <1>4 DEF IInv, TypeOK, SessionsAgree
  <1>11. ErasedAgree'
    BY <1>1, <1>2, <1>4 DEF IInv, TypeOK, SessionsAgree, ErasedAgree, RowsOf
  <1> QED
    BY <1>6, <1>7, <1>8, <1>9, <1>10, <1>11 DEF IInv

-----------------------------------------------------------------------------
(* The invariant is inductive. *)

LEMMA NextPreserves == IInv /\ [Next]_vars => IInv'
  <1> SUFFICES ASSUME IInv, [Next]_vars PROVE IInv'
    OBVIOUS
  <1>1. CASE Sessions
    BY <1>1, SignInPreserves, SessionStartsPreserves, SessionEndsPreserves DEF Sessions
  <1>2. CASE Team
    <2>1. ASSUME NEW a \in Members, NEW m \in Members, NEW to \in Roles, BeginSetRole(a, m, to)
          PROVE  IInv'
      <3>1. [does |-> "setRole", who |-> m, to |-> to] \in MoveSet
        BY DEF MoveSet
      <3> QED
        BY <2>1, <3>1, BeginPreserves DEF BeginSetRole
    <2>2. ASSUME NEW m \in Members, NEW does \in {"switchOff", "leave", "delete"},
                 Begin([does |-> does, who |-> m, to |-> role[m]])
          PROVE  IInv'
      <3>1. [does |-> does, who |-> m, to |-> role[m]] \in MoveSet
        BY DEF MoveSet, IInv, TypeOK
      <3> QED
        BY <2>2, <3>1, BeginPreserves
    <2>3. ASSUME NEW a \in Members, NEW m \in Members,
                 BeginSwitchOff(a, m) \/ BeginDelete(a, m) \/ SwitchOn(a, m)
          PROVE  IInv'
      BY <2>2, <2>3, SwitchOnPreserves DEF BeginSwitchOff, BeginDelete
    <2>4. ASSUME NEW m \in Members, BeginLeave(m) \/ Accept(m) PROVE IInv'
      BY <2>2, <2>4, AcceptPreserves DEF BeginLeave
    <2>5. ASSUME NEW move \in moves, EndMove(move) PROVE IInv'
      BY <2>5, EndMovePreserves
    <2> QED
      BY <1>2, <2>1, <2>3, <2>4, <2>5 DEF Team
  <1>3. CASE Asking
    BY <1>3, FileInsertPreserves, FileCommitPreserves, FileCheckPreserves DEF Asking
  <1>4. CASE Review
    BY <1>4, ReadToApprovePreserves, ReadToRejectPreserves, ApprovePreserves, RejectPreserves
    DEF Review
  <1>5. CASE Nightly
    BY <1>5, ListDuePreserves, GraceEndsPreserves, PurgePreserves, PurgeFailsPreserves DEF Nightly
  <1>6. CASE UNCHANGED vars
    <2>1. TypeOK'
      BY <1>6 DEF IInv, TypeOK, vars, teamVars, requestVars, personVars, workVars, sessionVars
    <2>2. RequestFacts' /\ SessionsAgree' /\ ErasedAgree'
      BY <1>6, IInvParts, RequestFactsKept, SessionsAgreeKept, ErasedAgreeKept
      DEF vars, teamVars, requestVars, personVars, workVars
    <2> QED
      BY <2>1, <2>2 DEF IInv, RequestFacts
  <1> QED
    BY <1>1, <1>2, <1>3, <1>4, <1>5, <1>6 DEF Next

(* Every reachable state satisfies the strengthened invariant.                *)
THEOREM Invariance == Spec => []IInv
  <1>1. Init => IInv
    BY InitEstablishes
  <1>2. IInv /\ [Next]_vars => IInv'
    BY NextPreserves
  <1> QED
    BY <1>1, <1>2, PTL DEF Spec

(* The partial unique index and the row locks leave at most one open request  *)
(* per person, though approve_request writes by primary key what it read      *)
(* before another reviewer rejected it.                                       *)
THEOREM OneOpenRequestHolds == Spec => []OneOpenRequest
  <1>1. IInv => OneOpenRequest
    <2> SUFFICES ASSUME IInv, NEW p \in People PROVE Cardinality(OpenRequests(p)) <= 1
      BY DEF OneOpenRequest
    <2>1. \A r, q \in OpenRequests(p) : r = q
      BY OpenRequestsAre DEF IInv, OneOpen
    <2>2. CASE OpenRequests(p) = {}
      BY <2>2, FS_EmptySet
    <2>3. CASE OpenRequests(p) # {}
      <3>1. PICK r \in OpenRequests(p) : OpenRequests(p) = {r}
        BY <2>1, <2>3
      <3> QED
        BY <3>1, FS_Singleton
    <2> QED
      BY <2>2, <2>3
  <1> QED
    BY <1>1, Invariance, PTL

(* file_request stamps every membership of the person: while a request is     *)
(* open no older session is alive, and none in the making can come alive.     *)
THEOREM FilingEndsSessionsHolds == Spec => []FilingEndsSessions
  <1>1. IInv => FilingEndsSessions
    <2> SUFFICES ASSUME IInv, NEW p \in People, OpenRequests(p) # {},
                        NEW m \in Members, Person(m) = p
                 PROVE  m \notin settled /\ signing[m] # "early"
      BY DEF FilingEndsSessions
    <2>1. PICK r \in Requests : Open(r) /\ asker[r] = p
      BY OpenRequestsAre
    <2>2. \A t \in Stamped : tab[t].who # p
      BY <2>1 DEF IInv, TabsAgree
    <2> QED
      BY <2>2 DEF IInv, SessionsAgree
  <1> QED
    BY <1>1, Invariance, PTL

(* Filing is what switches a portal off, and the request that did it holds it *)
(* off: reject_request switches it on again, whatever ran in between.         *)
THEOREM PortalComesBackHolds == Spec => []PortalComesBack
  <1>1. IInv => PortalComesBack
    BY DEF IInv
  <1> QED
    BY <1>1, Invariance, PTL

(* purge_account erases only on a request that was approved and waited its    *)
(* thirty days, and the erased person enters no organisation again.           *)
THEOREM ErasedWithConsentHolds == Spec => []ErasedWithConsent
  <1>1. IInv => ErasedWithConsent
    BY DEF IInv, ErasedAgree, ErasedWithConsent, Enters
  <1> QED
    BY <1>1, Invariance, PTL
=============================================================================
