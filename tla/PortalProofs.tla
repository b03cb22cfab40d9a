----------------------------- MODULE PortalProofs -----------------------------
(***************************************************************************)
(* One account per directory row, and work only on what is assigned, for   *)
(* every set of people, bureaus and documents and any number of requests   *)
(* under way.                                                              *)
(***************************************************************************)
EXTENDS Portal, FiniteSetTheorems, TLAPS

RowIds == Rows \cup {0}

(* What a request under way has decided to write, or where it is. *)
Plans ==
    [step : {"commit"}, person : Persons, account : AccountRows \cup {None}, fresh : BOOLEAN,
     links : SUBSET (Bureaus \X RowIds \X RowIds), invites : SUBSET (Rows \X InviteRows),
     gone : SUBSET Bureaus]

Invitations ==
    [step : {"invite"}, bureau : Bureaus, row : RowIds, contacts : SUBSET Contacts,
     person : Persons \cup {None}, new : BOOLEAN, fresh : BOOLEAN, seen : RowIds, gone : SUBSET Bureaus]

Works ==
    [step : Working, person : Persons, document : Documents, row : Rows, moved : BOOLEAN]

Requests == {Idle} \cup Plans \cup Invitations \cup Works

(* The types of what links rest on. *)
TypeOK ==
    /\ account \in [Persons -> AccountRows \cup {None}]
    /\ directory \in [Rows -> Bureaus \cup {None}]
    /\ made \in 0..MaxRows
    /\ link \in [Persons -> [Bureaus -> RowIds]]
    /\ invite \in [Rows -> InviteRows \cup {None}]
    /\ usable \subseteq Bureaus
    /\ assigned \in [Documents -> RowIds]
    /\ desk \in [Desks -> Requests]

(* A row that was not made yet is in no directory: no link names the next one. *)
RowsMade == \A r \in Rows : r > made => directory[r] = None

(* Whoever is about to be linked has an account, or gets one in the same commit. *)
LinksSomeone(q) ==
    /\ q \in Plans => q.account # None \/ account[q.person] # None
    /\ q \in Invitations /\ q.person # None => q.fresh \/ account[q.person] # None

(* Until something about its caller changes, a request works for the row it resolved,  *)
(* and once it has found the document, until that is reassigned, it is that row's.     *)
StillTheirs(q) ==
    q \in Works /\ ~q.moved =>
        /\ ActiveTranslator(q.person) /\ BureauOf[q.document] \in usable
        /\ link[q.person][BureauOf[q.document]] = q.row
        /\ q.step \in Found => assigned[q.document] = q.row

DesksAgree == \A k \in Desks : LinksSomeone(desk[k]) /\ StillTheirs(desk[k])

IInv == TypeOK /\ RowsMade /\ OneAccountPerRow /\ DesksAgree
-----------------------------------------------------------------------------

LEMMA NoneIsNoRow ==
    /\ None \notin Persons /\ None \notin Bureaus
    /\ \A a \in AccountRows : a # None
    /\ \A i \in InviteRows : i # None
  BY NoneAssumption

(* The step of a request tells what it is. *)
LEMMA StepTells ==
    \A q \in Requests :
        /\ q \in Plans <=> q.step = "commit"
        /\ q \in Invitations <=> q.step = "invite"
        /\ q \in Works <=> q.step \in Working
        /\ q = Idle <=> q.step = "idle"
  BY DEF Requests, Plans, Invitations, Works, Working, Found, Idle

(* A request whose caller moved, or whose link row went, is otherwise what it was. *)
LEMMA MovedWork ==
    ASSUME NEW q \in Works
    PROVE  [q EXCEPT !.moved = TRUE] \in Works /\ [q EXCEPT !.moved = TRUE].moved
  BY DEF Works

LEMMA FoundWork ==
    ASSUME NEW q \in Works, NEW where \in Found
    PROVE  LET new == [q EXCEPT !.step = where]
           IN  /\ new \in Works /\ new.step = where /\ new.person = q.person
               /\ new.document = q.document /\ new.row = q.row /\ new.moved = q.moved
  BY DEF Works, Working

LEMMA DisturbedPlan ==
    ASSUME NEW q \in Plans, NEW b \in Bureaus
    PROVE  LET new == [q EXCEPT !.gone = @ \cup {b}]
           IN  new \in Plans /\ new.person = q.person /\ new.account = q.account
  BY DEF Plans

LEMMA DisturbedInvitation ==
    ASSUME NEW q \in Invitations, NEW b \in Bureaus
    PROVE  LET new == [q EXCEPT !.gone = @ \cup {b}]
           IN  new \in Invitations /\ new.person = q.person /\ new.fresh = q.fresh
  BY DEF Invitations

(* What the other desks look like after a change to somebody: the work of    *)
(* whom it concerns, or of what is given to another row, is marked as moved, *)
(* and what is to be written stays.                                          *)
Touched(q, n, others, documents) ==
    /\ n \in Requests
    /\ n \in Plans => q \in Plans /\ n.person = q.person /\ n.account = q.account
    /\ n \in Invitations => q \in Invitations /\ n.person = q.person /\ n.fresh = q.fresh
    /\ n \in Works => 
          n.moved \/ (n = q /\ q.person \notin others /\ (q.step \in Found => q.document \notin documents))

LEMMA MovedTouches ==
    ASSUME TypeOK, NEW others \in SUBSET Persons, NEW k \in Desks
    PROVE  Touched(desk[k], Moved(others)[k], others, {})
  <1> DEFINE q == desk[k]
             n == Moved(others)[k]
  <1>1. q \in Requests
    BY DEF TypeOK
  <1>2. CASE q \in Works /\ q.person \in others
    <2>1. n = [q EXCEPT !.moved = TRUE]
      BY <1>1, <1>2, StepTells DEF Moved
    <2>2. n \in Works /\ n.moved
      BY <1>2, <2>1, MovedWork
    <2> HIDE DEF n, q
    <2>3. n \in Requests /\ n \notin Plans /\ n \notin Invitations
      BY <2>2, StepTells DEF Requests, Working, Found
    <2> QED
      BY <2>2, <2>3 DEF Touched, n, q
  <1>3. CASE ~(q \in Works /\ q.person \in others)
    <2>1. n = q
      BY <1>1, <1>3, StepTells DEF Moved
    <2> QED
      BY <1>1, <1>3, <2>1 DEF Touched
  <1> QED
    BY <1>2, <1>3

LEMMA DisturbedTouches ==
    ASSUME TypeOK, NEW p \in Persons, NEW b \in Bureaus, NEW k \in Desks
    PROVE  Touched(desk[k], Disturbed(p, b)[k], {p}, {})
  <1> DEFINE q == desk[k]
             n == Disturbed(p, b)[k]
  <1>1. q \in Requests
    BY DEF TypeOK
  <1>2. CASE q \in Plans /\ q.person = p
    <2>1. n = [q EXCEPT !.gone = @ \cup {b}]
      BY <1>1, <1>2, StepTells DEF Disturbed
    <2>2. n \in Plans /\ n.person = q.person /\ n.account = q.account
      BY <1>2, <2>1, DisturbedPlan
    <2> HIDE DEF n, q
    <2>3. n \in Requests /\ n \notin Works /\ n \notin Invitations
      BY <2>2, StepTells DEF Requests, Working, Found
    <2> QED
      BY <1>2, <2>2, <2>3 DEF Touched, n, q
  <1>3. CASE q \in Invitations /\ q.person = p
    <2>1. n = [q EXCEPT !.gone = @ \cup {b}]
      BY <1>1, <1>3, StepTells DEF Disturbed
    <2>2. n \in Invitations /\ n.person = q.person /\ n.fresh = q.fresh
      BY <1>3, <2>1, DisturbedInvitation
    <2> HIDE DEF n, q
    <2>3. n \in Requests /\ n \notin Works /\ n \notin Plans
      BY <2>2, StepTells DEF Requests, Working, Found
    <2> QED
      BY <1>3, <2>2, <2>3 DEF Touched, n, q
  <1>4. CASE q \in Works /\ q.person = p
    <2>1. n = [q EXCEPT !.moved = TRUE]
      BY <1>1, <1>4, StepTells DEF Disturbed, Working, Found
    <2>2. n \in Works /\ n.moved
      BY <1>4, <2>1, MovedWork
    <2> HIDE DEF n, q
    <2>3. n \in Requests /\ n \notin Plans /\ n \notin Invitations
      BY <2>2, StepTells DEF Requests, Working, Found
    <2> QED
      BY <2>2, <2>3 DEF Touched, n, q
  <1>5. CASE ~(q \in Plans \cup Invitations \cup Works /\ q.person = p)
    <2>1. n = q
      BY <1>1, <1>5, StepTells DEF Disturbed
    <2> QED
      BY <1>1, <1>5, <2>1 DEF Touched
  <1> QED
    BY <1>2, <1>3, <1>4, <1>5

LEMMA ReassignedTouches ==
    ASSUME NEW desks \in [Desks -> Requests], NEW others, NEW documents, NEW k \in Desks, NEW q,
           Touched(q, desks[k], others, {})
    PROVE  Touched(q, Reassigned(documents, desks)[k], others, documents)
  <1> DEFINE m == desks[k]
             n == Reassigned(documents, desks)[k]
  <1>1. m \in Requests
    OBVIOUS
  <1>2. CASE m.step \in Found /\ m.document \in documents
    <2>1. n = [m EXCEPT !.moved = TRUE]
      BY <1>2 DEF Reassigned
    <2>2. m \in Works
      BY <1>1, <1>2, StepTells DEF Working
    <2>3. n \in Works /\ n.moved
      BY <2>1, <2>2, MovedWork
    <2> HIDE DEF n, m
    <2>4. n \in Requests /\ n \notin Plans /\ n \notin Invitations
      BY <2>3, StepTells DEF Requests, Working, Found
    <2> QED
      BY <2>3, <2>4 DEF Touched, n
  <1>3. CASE ~(m.step \in Found /\ m.document \in documents)
    <2>1. n = m
      BY <1>3 DEF Reassigned
    <2> QED
      BY <1>3, <2>1 DEF Touched
  <1> QED
    BY <1>2, <1>3

-----------------------------------------------------------------------------
(* What requests decide. *)

(* What a request makes of a person's links and of the invites. *)
IsView(v) ==
    /\ v.link \in [Bureaus -> RowIds]
    /\ v.invite \in [Rows -> InviteRows \cup {None}]
    /\ \A r \in Rows : v.invite[r] # invite[r] => v.invite[r] # None

LEMMA LinkRowIsView ==
    ASSUME TypeOK, NEW p \in Persons, NEW b \in Bureaus, NEW r \in Rows
    PROVE  IsView(LinkRow(p, b, r))
  BY DEF TypeOK, IsView, LinkRow, RowIds

LEMMA AsItIsIsView ==
    ASSUME TypeOK, NEW p \in Persons
    PROVE  IsView(AsItIs(p))
  BY DEF TypeOK, IsView, AsItIs

LEMMA ResolvedIsView ==
    ASSUME TypeOK, NEW p \in Persons, NEW contacts, NEW v \in ResolvePendingInvites(p, contacts)
    PROVE  IsView(v)
  <1> DEFINE rows == Resolvable(p, contacts)
  <1>1. PICK l \in LinkedLast(p, rows) : v = [link |-> l, invite |-> MarkLinked(p, rows)]
    BY DEF ResolvePendingInvites
  <1>2. l \in [Bureaus -> RowIds]
    BY DEF LinkedLast, RowIds
  <1>3. \A r \in rows : r \in Rows /\ invite[r] \in InviteRows
    BY DEF Resolvable, PendingFor, TypeOK
  <1> HIDE DEF rows
  <1>4. \A r \in rows : [invite[r] EXCEPT !.status = "linked", !.account = p] \in InviteRows
    BY <1>3 DEF InviteRows
  <1>5. MarkLinked(p, rows) \in [Rows -> InviteRows \cup {None}]
    BY <1>4 DEF MarkLinked, TypeOK
  <1>6. \A r \in Rows : MarkLinked(p, rows)[r] # invite[r] => MarkLinked(p, rows)[r] # None
    BY <1>4, NoneIsNoRow DEF MarkLinked
  <1> QED
    BY <1>1, <1>2, <1>5, <1>6 DEF IsView

LEMMA PlanIsPlan ==
    ASSUME TypeOK, NEW p \in Persons, NEW acc \in AccountRows \cup {None}, NEW v, IsView(v),
           acc # None \/ account[p] # None
    PROVE  Plan(p, acc, v) \in Plans /\ LinksSomeone(Plan(p, acc, v))
  <1> DEFINE plan    == Plan(p, acc, v)
             links   == {<<b, link[p][b], v.link[b]>> : b \in {c \in Bureaus : v.link[c] # link[p][c]}}
             invites == {<<r, v.invite[r]>> : r \in {s \in Rows : v.invite[s] # invite[s]}}
             fresh   == acc # None /\ account[p] = None
  <1>1. links \in SUBSET (Bureaus \X RowIds \X RowIds)
    BY DEF TypeOK, IsView
  <1>2. invites \in SUBSET (Rows \X InviteRows)
    BY DEF TypeOK, IsView
  <1>3. plan = [step |-> "commit", person |-> p, account |-> acc, fresh |-> fresh,
                links |-> links, invites |-> invites, gone |-> {}]
    BY DEF Plan
  <1>4. plan \in Plans /\ plan.person = p /\ plan.account = acc
    <2>1. fresh \in BOOLEAN
      OBVIOUS
    <2> HIDE DEF plan, links, invites, fresh
    <2> QED
      BY <1>1, <1>2, <1>3, <2>1 DEF Plans
  <1>5. plan \notin Invitations
    BY <1>4 DEF Plans, Invitations
  <1> QED
    BY <1>4, <1>5 DEF LinksSomeone

-----------------------------------------------------------------------------
(* Steps that write no table: a request decides, gives up, or hands in work. *)

Writes(q) == q \in Requests /\ LinksSomeone(q) /\ StillTheirs(q)

LEMMA IdleWrites == Writes(Idle)
  <1>1. Idle \in Requests /\ Idle \notin Plans /\ Idle \notin Invitations /\ Idle \notin Works
    BY StepTells DEF Requests, Working, Found, Idle
  <1> QED
    BY <1>1 DEF Writes, LinksSomeone, StillTheirs

LEMMA PlanWrites ==
    ASSUME NEW q \in Plans, LinksSomeone(q)
    PROVE  Writes(q)
  <1>1. q \in Requests /\ q \notin Works
    BY StepTells DEF Requests, Working, Found
  <1> QED
    BY <1>1 DEF Writes, StillTheirs

LEMMA GotoPreserves ==
    ASSUME IInv, NEW k \in Desks, NEW q, Writes(q), Goto(k, q), UNCHANGED <<tables, usable, assigned>>
    PROVE  IInv'
  <1>1. desk' \in [Desks -> Requests] /\ \A i \in Desks : desk'[i] = IF i = k THEN q ELSE desk[i]
    BY DEF IInv, TypeOK, Goto, Writes
  <1>2. TypeOK'
    BY <1>1 DEF IInv, TypeOK, tables
  <1>3. RowsMade' /\ OneAccountPerRow'
    BY DEF IInv, RowsMade, OneAccountPerRow, tables
  <1>4. DesksAgree'
    BY <1>1 DEF IInv, DesksAgree, Writes, LinksSomeone, StillTheirs, ActiveTranslator, tables
  <1> QED
    BY <1>2, <1>3, <1>4 DEF IInv

LEMMA StutterPreserves == IInv /\ UNCHANGED <<tables, usable, assigned, desk>> => IInv'
  BY DEF IInv, TypeOK, RowsMade, OneAccountPerRow, DesksAgree, LinksSomeone, StillTheirs,
         ActiveTranslator, tables

LEMMA TranslatorHerePreserves ==
    ASSUME IInv, NEW k \in Desks, NEW p \in Persons, TranslatorHere(k, p)
    PROVE  IInv'
  <1> DEFINE acc == ClaimInvitedAccount(p)
             new == IF account[p] = None THEN acc ELSE None
  <1>1. acc # None
    BY DEF TranslatorHere
  <1>2. {SignIn[p]} \subseteq Contacts
    BY PortalAssumptions
  <1>3. acc \in AccountRows
    BY <1>1, <1>2 DEF IInv, TypeOK, ClaimInvitedAccount, NewAccount, AccountRows
  <1>4. PICK v \in ResolvePendingInvites(p, acc.contacts) : Goto(k, Plan(p, new, v))
    BY DEF TranslatorHere
  <1>5. UNCHANGED <<tables, usable, assigned>>
    BY DEF TranslatorHere
  <1> HIDE DEF acc
  <1>6. IsView(v)
    BY ResolvedIsView DEF IInv
  <1>7. new \in AccountRows \cup {None} /\ (new # None \/ account[p] # None)
    BY <1>1, <1>3
  <1> HIDE DEF new
  <1>8. Writes(Plan(p, new, v))
    BY <1>6, <1>7, PlanIsPlan, PlanWrites DEF IInv
  <1> QED
    BY <1>4, <1>5, <1>8, GotoPreserves

LEMMA UpsertTranslatorPreserves ==
    ASSUME IInv, NEW k \in Desks, NEW p \in Persons, NEW contacts \in Listed, NEW active \in BOOLEAN,
           UpsertTranslator(k, p, contacts, active)
    PROVE  IInv'
  <1> DEFINE acc == NewAccount(contacts, active)
  <1>1. acc \in AccountRows /\ acc # None
    BY PortalAssumptions, NoneIsNoRow DEF NewAccount, AccountRows
  <1>2. PICK v \in IF active THEN ResolvePendingInvites(p, contacts) ELSE {AsItIs(p)} : Goto(k, Plan(p, acc, v))
    BY DEF UpsertTranslator
  <1>3. UNCHANGED <<tables, usable, assigned>>
    BY DEF UpsertTranslator
  <1> HIDE DEF acc
  <1>4. IsView(v)
    BY <1>2, ResolvedIsView, AsItIsIsView DEF IInv
  <1>5. Writes(Plan(p, acc, v))
    BY <1>1, <1>4, PlanIsPlan, PlanWrites DEF IInv
  <1> QED
    BY <1>2, <1>3, <1>5, GotoPreserves

LEMMA LinkOrganizationPreserves ==
    ASSUME IInv, NEW k \in Desks, NEW p \in Persons, NEW r \in Rows, LinkOrganization(k, p, r)
    PROVE  IInv'
  <1>1. directory[r] \in Bureaus /\ account[p] # None
    BY DEF IInv, TypeOK, LinkOrganization
  <1>2. IsView(LinkRow(p, directory[r], r))
    BY <1>1, LinkRowIsView DEF IInv
  <1>3. Writes(Plan(p, None, LinkRow(p, directory[r], r)))
    BY <1>1, <1>2, PlanIsPlan, PlanWrites DEF IInv
  <1> QED
    BY <1>3, GotoPreserves DEF LinkOrganization

LEMMA InviteTranslatorPreserves ==
    ASSUME IInv, NEW k \in Desks, NEW b \in Bureaus, NEW r \in RowIds, NEW contacts \in Typed,
           NEW person \in Persons \cup {None}, InviteTranslator(k, b, r, contacts, person)
    PROVE  IInv'
  <1> DEFINE who == ToLink(person, contacts)
             new == r = 0 \/ invite[r] = None
             q == [step |-> "invite", bureau |-> b, row |-> r, contacts |-> contacts, person |-> who,
                   new |-> new, fresh |-> who # None /\ account[who] = None,
                   seen |-> IF who = None THEN 0 ELSE link[who][b], gone |-> {}]
  <1>1. who \in Persons \cup {None}
    <2>1. CASE person # None
      BY <2>1 DEF ToLink
    <2>2. CASE person = None
      <3> DEFINE found == AccountMatches(contacts)
      <3>1. found \subseteq Persons
        BY DEF AccountMatches
      <3>2. CASE Cardinality(found) = 1
        <4>1. found # {}
          BY <3>2, FS_EmptySet
        <4>2. (CHOOSE p \in found : TRUE) \in found
          BY <4>1
        <4> QED
          BY <2>2, <3>1, <3>2, <4>2 DEF ToLink
      <3>3. CASE Cardinality(found) # 1
        BY <2>2, <3>3 DEF ToLink
      <3> QED
        BY <3>2, <3>3
    <2> QED
      BY <2>1, <2>2
  <1>2. Goto(k, q) /\ UNCHANGED <<tables, usable, assigned>>
    BY DEF InviteTranslator
  <1>3. contacts \subseteq Contacts
    BY DEF Typed
  <1>4. (IF who = None THEN 0 ELSE link[who][b]) \in RowIds
    BY <1>1 DEF IInv, TypeOK, RowIds
  <1>5. new \in BOOLEAN /\ (who # None /\ account[who] = None) \in BOOLEAN
    OBVIOUS
  <1> HIDE DEF who, new
  <1>6. q \in Invitations
    BY <1>1, <1>3, <1>4, <1>5 DEF Invitations
  <1>7. q \in Requests /\ q \notin Plans /\ q \notin Works
    <2> HIDE DEF q
    <2> QED
      BY <1>6, StepTells DEF Requests, Working, Found
  <1>8. q.person # None => q.fresh \/ account[q.person] # None
    OBVIOUS
  <1> HIDE DEF q
  <1>9. Writes(q)
    BY <1>6, <1>7, <1>8 DEF Writes, LinksSomeone, StillTheirs
  <1> QED
    BY <1>2, <1>9, GotoPreserves

LEMMA OrganizationPreserves ==
    ASSUME IInv, NEW k \in Desks, NEW p \in Persons, NEW d \in Documents, Organization(k, p, d)
    PROVE  IInv'
  <1> DEFINE row == link[p][BureauOf[d]]
             q == [step |-> "work", person |-> p, document |-> d, row |-> row, moved |-> FALSE]
  <1>1. BureauOf[d] \in usable /\ row # 0 /\ ActiveTranslator(p) /\ Goto(k, q) /\ UNCHANGED <<tables, usable, assigned>>
    BY DEF Organization, LinkedOrganizations
  <1>2. row \in Rows
    BY <1>1, PortalAssumptions DEF IInv, TypeOK, RowIds
  <1>3. q.person = p /\ q.document = d /\ q.row = row /\ q \in Works /\ q.step \notin Found
    <2> HIDE DEF row
    <2> QED
      BY <1>2 DEF Works, Working, Found
  <1>4. q \in Requests /\ q \notin Plans /\ q \notin Invitations
    <2> HIDE DEF q
    <2> QED
      BY <1>3, StepTells DEF Requests, Working, Found
  <1> HIDE DEF q
  <1>5. Writes(q)
    BY <1>1, <1>3, <1>4 DEF Writes, LinksSomeone, StillTheirs
  <1> QED
    BY <1>1, <1>5, GotoPreserves

-----------------------------------------------------------------------------
(* Steps that write the tables: what they leave the requests under way with. *)

LEMMA TouchedAgree ==
    ASSUME TypeOK, DesksAgree, NEW others \in SUBSET Persons, NEW documents \in SUBSET Documents,
           \A k \in Desks : desk'[k] = Idle \/ Touched(desk[k], desk'[k], others, documents),
           \A p \in Persons : account[p] # None => account'[p] # None,
           \A p \in Persons \ others : account'[p] = account[p] /\ link'[p] = link[p] /\ usable' = usable,
           \A d \in Documents \ documents : assigned'[d] = assigned[d]
    PROVE  DesksAgree'
  <1> SUFFICES ASSUME NEW k \in Desks
               PROVE  LinksSomeone(desk[k])' /\ StillTheirs(desk[k])'
    BY DEF DesksAgree
  <1>1. CASE desk'[k] = Idle
    <2>1. Idle \notin Plans /\ Idle \notin Invitations /\ Idle \notin Works
      BY DEF Idle, Plans, Invitations, Works
    <2> QED
      BY <1>1, <2>1 DEF LinksSomeone, StillTheirs
  <1>2. CASE Touched(desk[k], desk'[k], others, documents)
    <2>1. LinksSomeone(desk[k]) /\ StillTheirs(desk[k])
      BY DEF DesksAgree
    <2>2. LinksSomeone(desk[k])'
      BY <1>2, <2>1 DEF LinksSomeone, Touched, Plans, Invitations
    <2>3. StillTheirs(desk[k])'
      <3> SUFFICES ASSUME desk'[k] \in Works, ~desk'[k].moved
                   PROVE  /\ ActiveTranslator(desk[k].person)' /\ BureauOf[desk'[k].document] \in usable'
                          /\ link'[desk'[k].person][BureauOf[desk'[k].document]] = desk'[k].row
                          /\ desk'[k].step \in Found => assigned'[desk'[k].document] = desk'[k].row
        BY DEF StillTheirs
      <3>1. desk'[k] = desk[k] /\ desk[k].person \in Persons \ others
            /\ (desk[k].step \in Found => desk[k].document \in Documents \ documents)
        BY <1>2 DEF Touched, Works
      <3> QED
        BY <2>1, <3>1 DEF StillTheirs, ActiveTranslator
    <2> QED
      BY <2>2, <2>3
  <1> QED
    BY <1>1, <1>2

LEMMA CommitPreserves ==
    ASSUME IInv, NEW k \in Desks, Commit(k)
    PROVE  IInv'
  <1> DEFINE plan == desk[k]
             who  == plan.person
  <1>1. plan \in Plans /\ LinksSomeone(plan)
    BY StepTells DEF IInv, TypeOK, DesksAgree, Commit
  <1>2. who \in Persons /\ plan.account \in AccountRows \cup {None}
        /\ plan.links \subseteq Bureaus \X RowIds \X RowIds /\ plan.invites \subseteq Rows \X InviteRows
    BY <1>1 DEF Plans
  <1>3. /\ CommitHolds(plan)
        /\ account' = IF plan.account = None THEN account ELSE [account EXCEPT ![who] = plan.account]
        /\ link' = Written(plan) /\ invite' = InviteWritten(plan)
        /\ desk' = [Moved({who}) EXCEPT ![k] = Idle]
        /\ UNCHANGED <<directory, made, usable, assigned>>
    BY DEF Commit
  <1>4. account'[who] # None
    BY <1>1, <1>2, <1>3 DEF LinksSomeone, IInv, TypeOK
  <1> HIDE DEF plan, who
  <1>5. \A p \in Persons \ {who} : account'[p] = account[p] /\ link'[p] = link[p]
    BY <1>2, <1>3 DEF IInv, TypeOK, Written, who
  <1>6. account' \in [Persons -> AccountRows \cup {None}]
    BY <1>2, <1>3 DEF IInv, TypeOK
  <1>7. link' \in [Persons -> [Bureaus -> RowIds]]
    <2> DEFINE l == [b \in Bureaus |-> IF \E w \in plan.links : w[1] = b
                                       THEN (CHOOSE w \in plan.links : w[1] = b)[3] ELSE link[who][b]]
    <2>1. \A b \in Bureaus : (\E w \in plan.links : w[1] = b) =>
             (CHOOSE w \in plan.links : w[1] = b) \in plan.links
      OBVIOUS
    <2>2. \A w \in plan.links : w[3] \in RowIds
      BY <1>2
    <2>3. l \in [Bureaus -> RowIds]
      BY <1>2, <2>1, <2>2 DEF IInv, TypeOK
    <2>4. link' = [link EXCEPT ![who] = l]
      BY <1>2, <1>3 DEF Written, who, IInv, TypeOK
    <2> HIDE DEF l
    <2> QED
      BY <1>2, <2>3, <2>4 DEF IInv, TypeOK
  <1>8. invite' \in [Rows -> InviteRows \cup {None}]
    <2>1. \A r \in Rows : (\E w \in plan.invites : w[1] = r) =>
             (CHOOSE w \in plan.invites : w[1] = r) \in plan.invites
      OBVIOUS
    <2>2. \A w \in plan.invites : w[2] \in InviteRows
      BY <1>2
    <2> HIDE DEF InviteRows
    <2> QED
      BY <1>3, <2>1, <2>2 DEF InviteWritten, IInv, TypeOK
  <1>9. DOMAIN desk' = Desks /\ \A i \in Desks : desk'[i] = IF i = k THEN Idle ELSE Moved({who})[i]
    BY <1>3 DEF Moved
  <1>10. \A i \in Desks : desk'[i] = Idle \/ Touched(desk[i], desk'[i], {who}, {})
    BY <1>2, <1>9, MovedTouches DEF IInv
  <1>11. desk' \in [Desks -> Requests]
    <2>1. \A i \in Desks : desk'[i] \in Requests
      BY <1>10 DEF Touched, Requests
    <2>2. desk' = [i \in Desks |-> desk'[i]]
      BY <1>3, <1>9
    <2> QED
      BY <2>1, <2>2
  <1>12. TypeOK'
    BY <1>3, <1>6, <1>7, <1>8, <1>11 DEF IInv, TypeOK
  <1>13. RowsMade'
    BY <1>3 DEF IInv, RowsMade
  <1>14. OneAccountPerRow'
    <2>1. LinkHolds(link')
      BY <1>3 DEF CommitHolds
    <2>2. \A p \in Persons, b \in Bureaus : link'[p][b] # 0 => account'[p] # None
      BY <1>4, <1>5 DEF IInv, OneAccountPerRow
    <2> QED
      BY <1>3, <2>1, <2>2 DEF LinkHolds, OneAccountPerRow
  <1>15. DesksAgree'
    <2>1. \A p \in Persons : account[p] # None => account'[p] # None
      BY <1>4, <1>5
    <2> QED
      BY <1>2, <1>3, <1>5, <1>10, <2>1, TouchedAgree DEF IInv
  <1> QED
    BY <1>12, <1>13, <1>14, <1>15 DEF IInv

LEMMA UnlinkOrganizationPreserves ==
    ASSUME IInv, NEW p \in Persons, NEW b \in Bureaus, UnlinkOrganization(p, b)
    PROVE  IInv'
  <1>1. /\ link' = [link EXCEPT ![p] = [link[p] EXCEPT ![b] = 0]] /\ desk' = Disturbed(p, b)
        /\ UNCHANGED <<account, directory, made, invite, usable, assigned>>
    BY DEF UnlinkOrganization, IInv, TypeOK
  <1>2. /\ link' \in [Persons -> [Bureaus -> RowIds]]
        /\ \A q \in Persons, c \in Bureaus : link'[q][c] = IF q = p /\ c = b THEN 0 ELSE link[q][c]
    BY <1>1 DEF IInv, TypeOK, RowIds
  <1>3. \A q \in Persons \ {p} : link'[q] = link[q]
    BY <1>1 DEF IInv, TypeOK
  <1>4. \A k \in Desks : Touched(desk[k], desk'[k], {p}, {})
    BY <1>1, DisturbedTouches DEF IInv
  <1>5. desk' \in [Desks -> Requests]
    BY <1>1, <1>4 DEF Touched, Disturbed
  <1>6. TypeOK'
    BY <1>1, <1>2, <1>5 DEF IInv, TypeOK
  <1>7. RowsMade' /\ OneAccountPerRow'
    BY <1>1, <1>2 DEF IInv, RowsMade, OneAccountPerRow
  <1>8. DesksAgree'
    BY <1>1, <1>3, <1>4, TouchedAgree DEF IInv
  <1> QED
    BY <1>6, <1>7, <1>8 DEF IInv

LEMMA SuspendPreserves ==
    ASSUME IInv, NEW b \in Bureaus, Suspend(b)
    PROVE  IInv'
  <1>1. usable' \subseteq usable /\ desk' = Moved(Persons) /\ UNCHANGED <<tables, assigned>>
    BY DEF Suspend
  <1>2. \A k \in Desks : Touched(desk[k], desk'[k], Persons, {})
    BY <1>1, MovedTouches DEF IInv
  <1>3. desk' \in [Desks -> Requests]
    BY <1>1, <1>2 DEF Touched, Moved
  <1>4. TypeOK'
    BY <1>1, <1>3 DEF IInv, TypeOK, tables
  <1>5. RowsMade' /\ OneAccountPerRow'
    BY <1>1 DEF IInv, RowsMade, OneAccountPerRow, tables
  <1>6. DesksAgree'
    BY <1>1, <1>2, TouchedAgree DEF IInv, tables
  <1> QED
    BY <1>4, <1>5, <1>6 DEF IInv

(* The next row of a directory is one that no link names. *)
LEMMA NewRowPreserves ==
    ASSUME IInv, NEW b \in Bureaus, made < MaxRows,
           made' = made + 1, directory' = [directory EXCEPT ![made + 1] = b]
    PROVE  /\ made' \in 0..MaxRows /\ directory' \in [Rows -> Bureaus \cup {None}]
           /\ RowsMade'
           /\ made + 1 \in Rows /\ directory'[made + 1] = b
           /\ \A r \in Rows : directory[r] \in Bureaus => directory'[r] = directory[r]
  <1>1. made \in Nat /\ MaxRows \in Nat /\ made + 1 \in Rows
    BY PortalAssumptions DEF IInv, TypeOK, Rows
  <1>2. made' \in 0..MaxRows /\ directory' \in [Rows -> Bureaus \cup {None}]
    BY <1>1 DEF IInv, TypeOK
  <1>3. \A r \in Rows : directory'[r] = IF r = made + 1 THEN b ELSE directory[r]
    BY DEF IInv, TypeOK
  <1>4. RowsMade'
    BY <1>1, <1>3 DEF IInv, RowsMade, Rows
  <1>5. directory[made + 1] = None
    BY <1>1 DEF IInv, RowsMade
  <1> QED
    BY <1>1, <1>2, <1>3, <1>4, <1>5, NoneIsNoRow

LEMMA CreateTranslatorPreserves ==
    ASSUME IInv, NEW b \in Bureaus, CreateTranslator(b)
    PROVE  IInv'
  <1>1. made < MaxRows /\ made' = made + 1 /\ directory' = [directory EXCEPT ![made + 1] = b]
        /\ UNCHANGED <<account, link, invite, usable, assigned, desk>>
    BY DEF CreateTranslator
  <1>2. TypeOK' /\ RowsMade'
    BY <1>1, NewRowPreserves DEF IInv, TypeOK
  <1>3. OneAccountPerRow'
    <2>1. \A p \in Persons, c \in Bureaus : link[p][c] # 0 => link[p][c] \in Rows
      BY DEF IInv, TypeOK, RowIds
    <2>2. \A r \in Rows : directory[r] \in Bureaus => directory'[r] = directory[r]
      BY <1>1, NewRowPreserves
    <2> QED
      BY <1>1, <2>1, <2>2 DEF IInv, OneAccountPerRow
  <1>4. DesksAgree'
    BY <1>1 DEF IInv, DesksAgree, LinksSomeone, StillTheirs, ActiveTranslator
  <1> QED
    BY <1>2, <1>3, <1>4 DEF IInv

LEMMA LinkToNewRowPreserves ==
    ASSUME IInv, NEW k \in Desks, NEW p \in Persons, NEW b \in Bureaus, LinkToNewRow(k, p, b)
    PROVE  IInv'
  <1> DEFINE q == Plan(p, None, LinkRow(p, b, made + 1))
  <1>1. made < MaxRows /\ made' = made + 1 /\ directory' = [directory EXCEPT ![made + 1] = b]
        /\ Goto(k, q) /\ account[p] # None /\ UNCHANGED <<account, link, invite, usable, assigned>>
    BY DEF LinkToNewRow
  <1>2. made + 1 \in Rows
    BY <1>1, NewRowPreserves
  <1>3. Writes(q)
    BY <1>1, <1>2, LinkRowIsView, PlanIsPlan, PlanWrites DEF IInv
  <1> HIDE DEF q
  <1>4. desk' \in [Desks -> Requests] /\ \A i \in Desks : desk'[i] = IF i = k THEN q ELSE desk[i]
    BY <1>1, <1>3 DEF IInv, TypeOK, Goto, Writes
  <1>5. TypeOK' /\ RowsMade'
    BY <1>1, <1>4, NewRowPreserves DEF IInv, TypeOK
  <1>6. OneAccountPerRow'
    <2>1. \A r \in Persons, c \in Bureaus : link[r][c] # 0 => link[r][c] \in Rows
      BY DEF IInv, TypeOK, RowIds
    <2>2. \A r \in Rows : directory[r] \in Bureaus => directory'[r] = directory[r]
      BY <1>1, NewRowPreserves
    <2> QED
      BY <1>1, <2>1, <2>2 DEF IInv, OneAccountPerRow
  <1>7. DesksAgree'
    BY <1>1, <1>3, <1>4 DEF IInv, DesksAgree, Writes, LinksSomeone, StillTheirs, ActiveTranslator
  <1> QED
    BY <1>5, <1>6, <1>7 DEF IInv

LEMMA CancelInvitePreserves ==
    ASSUME IInv, NEW r \in Rows, CancelInvite(r)
    PROVE  IInv'
  <1>1. /\ invite[r] # None /\ invite' = [invite EXCEPT ![r].status = "cancelled"]
        /\ UNCHANGED <<account, directory, made, link, usable, assigned, desk>>
    BY DEF CancelInvite
  <1>2. invite[r] \in InviteRows
    BY <1>1 DEF IInv, TypeOK
  <1>3. [invite[r] EXCEPT !.status = "cancelled"] \in InviteRows
    BY <1>2 DEF InviteRows
  <1>4. invite' \in [Rows -> InviteRows \cup {None}]
    BY <1>1, <1>3 DEF IInv, TypeOK
  <1> QED
    BY <1>1, <1>4 DEF IInv, TypeOK, RowsMade, OneAccountPerRow, DesksAgree, LinksSomeone, StillTheirs,
         ActiveTranslator

(* A row that goes takes its link with it: there is one at most, so whoever  *)
(* held it is the one whose requests under way are told.                     *)
LEMMA DeleteTranslatorPreserves ==
    ASSUME IInv, NEW r \in Rows, DeleteTranslator(r)
    PROVE  IInv'
  <1> DEFINE b == directory[r]
             holders == {p \in Persons : b # None /\ link[p][b] = r}
             theirs == {d \in Documents : assigned[d] = r}
             asked == IF holders = {} THEN desk ELSE Disturbed(CHOOSE p \in holders : TRUE, b)
  <1>1. b \in Bureaus /\ r # 0
    BY DEF IInv, TypeOK, DeleteTranslator, Rows
  <1>2. /\ directory' = [directory EXCEPT ![r] = None] /\ invite' = [invite EXCEPT ![r] = None]
        /\ link' = [p \in Persons |-> IF p \in holders THEN [link[p] EXCEPT ![b] = 0] ELSE link[p]]
        /\ assigned' = [d \in Documents |-> IF assigned[d] = r THEN 0 ELSE assigned[d]]
        /\ desk' = Reassigned(theirs, asked)
        /\ UNCHANGED <<account, made, usable>>
    BY DEF DeleteTranslator
  <1>3. \A p, q \in holders : p = q
    BY <1>1 DEF IInv, OneAccountPerRow
  <1>4. holders \subseteq Persons /\ \A p \in Persons : p \in holders <=> link[p][b] = r
    BY <1>1, NoneIsNoRow
  <1> HIDE DEF holders, b, theirs, asked
  <1>5. /\ link' \in [Persons -> [Bureaus -> RowIds]]
        /\ \A p \in Persons, c \in Bureaus : link'[p][c] = IF p \in holders /\ c = b THEN 0 ELSE link[p][c]
        /\ \A p \in Persons \ holders : link'[p] = link[p]
    BY <1>1, <1>2 DEF IInv, TypeOK, RowIds
  <1>6. asked \in [Desks -> Requests] /\ \A k \in Desks : Touched(desk[k], asked[k], holders, {})
    <2>1. CASE holders = {}
      BY <2>1, StepTells DEF IInv, TypeOK, Touched, asked
    <2>2. CASE holders # {}
      <3>1. PICK p \in Persons : holders = {p} /\ asked = Disturbed(p, b)
        BY <1>3, <1>4, <2>2 DEF asked
      <3>2. \A k \in Desks : Touched(desk[k], asked[k], holders, {})
        BY <1>1, <3>1, DisturbedTouches DEF IInv
      <3> QED
        BY <3>1, <3>2 DEF Touched, Disturbed
    <2> QED
      BY <2>1, <2>2
  <1>7. desk' \in [Desks -> Requests] /\ \A k \in Desks : Touched(desk[k], desk'[k], holders, theirs)
    <2>1. \A k \in Desks : Touched(desk[k], desk'[k], holders, theirs)
      BY <1>2, <1>6, ReassignedTouches
    <2>2. desk' = [k \in Desks |-> desk'[k]]
      BY <1>2 DEF Reassigned
    <2> QED
      BY <2>1, <2>2 DEF Touched
  <1>8. directory' \in [Rows -> Bureaus \cup {None}] /\ invite' \in [Rows -> InviteRows \cup {None}]
    BY <1>2 DEF IInv, TypeOK
  <1>9. TypeOK'
    <2>1. assigned' \in [Documents -> RowIds]
      BY <1>2 DEF IInv, TypeOK, RowIds
    <2> QED
      BY <1>2, <1>5, <1>7, <1>8, <2>1 DEF IInv, TypeOK
  <1>10. \A s \in Rows : directory'[s] = IF s = r THEN None ELSE directory[s]
    BY <1>2 DEF IInv, TypeOK
  <1>11. RowsMade'
    BY <1>2, <1>10 DEF IInv, RowsMade
  <1>12. OneAccountPerRow'
    <2>1. \A p \in Persons, c \in Bureaus : link[p][c] # 0 => link[p][c] \in Rows
      BY DEF IInv, TypeOK, RowIds
    <2>2. \A p \in Persons, c \in Bureaus : link'[p][c] # 0 => link'[p][c] = link[p][c] /\ link[p][c] # r
      BY <1>1, <1>4, <1>5 DEF IInv, OneAccountPerRow, b
    <2> QED
      BY <1>2, <1>10, <2>1, <2>2 DEF IInv, OneAccountPerRow
  <1>13. DesksAgree'
    <2>1. theirs \in SUBSET Documents /\ \A d \in Documents \ theirs : assigned'[d] = assigned[d]
      BY <1>2 DEF theirs
    <2> QED
      BY <1>2, <1>4, <1>5, <1>7, <2>1, TouchedAgree DEF IInv
  <1> QED
    BY <1>9, <1>11, <1>12, <1>13 DEF IInv

(* What is given to another row is marked in the requests that had found it. *)
LEMMA AssignPreserves ==
    ASSUME IInv, NEW d \in Documents, NEW r \in RowIds, Assign(d, r)
    PROVE  IInv'
  <1>1. assigned' = [assigned EXCEPT ![d] = r] /\ desk' = Reassigned({d}, desk) /\ UNCHANGED <<tables, usable>>
    BY DEF Assign
  <1>2. assigned' \in [Documents -> RowIds] /\ \A e \in Documents \ {d} : assigned'[e] = assigned[e]
    BY <1>1 DEF IInv, TypeOK
  <1>3. \A k \in Desks : Touched(desk[k], desk'[k], {}, {d})
    <2>1. \A k \in Desks : Touched(desk[k], desk[k], {}, {})
      BY DEF IInv, TypeOK, Touched
    <2> QED
      BY <1>1, <2>1, ReassignedTouches DEF IInv, TypeOK
  <1>4. desk' \in [Desks -> Requests]
    BY <1>1, <1>3 DEF Touched, Reassigned
  <1>5. TypeOK'
    BY <1>1, <1>2, <1>4 DEF IInv, TypeOK, tables
  <1>6. RowsMade' /\ OneAccountPerRow'
    BY <1>1 DEF IInv, RowsMade, OneAccountPerRow, tables
  <1>7. DesksAgree'
    BY <1>1, <1>2, <1>3, TouchedAgree DEF IInv, tables
  <1> QED
    BY <1>5, <1>6, <1>7 DEF IInv

(* A request that has found its document works on one of its own row's. *)
LEMMA FindPreserves ==
    ASSUME IInv, NEW k \in Desks, FindDocument(k) \/ FindFile(k)
    PROVE  IInv'
  <1>1. PICK where \in Found : Goto(k, [desk[k] EXCEPT !.step = where])
    BY DEF FindDocument, FindFile, Found
  <1>2. desk[k].step = "work" /\ assigned[desk[k].document] = desk[k].row /\ UNCHANGED <<tables, usable, assigned>>
    BY DEF FindDocument, FindFile, AssignedDocument
  <1>3. desk[k] \in Works /\ StillTheirs(desk[k])
    BY <1>2, StepTells DEF IInv, TypeOK, DesksAgree, Working
  <1>4. PICK q : q = [desk[k] EXCEPT !.step = where]
    OBVIOUS
  <1>5. /\ q \in Works /\ q.step = where /\ q.person = desk[k].person
        /\ q.document = desk[k].document /\ q.row = desk[k].row /\ q.moved = desk[k].moved
    BY <1>3, <1>4, FoundWork
  <1>6. q \in Requests /\ q \notin Plans /\ q \notin Invitations
    BY <1>5, StepTells DEF Requests, Working, Found
  <1>7. StillTheirs(q)
    BY <1>2, <1>3, <1>5 DEF StillTheirs
  <1>8. Writes(q)
    BY <1>6, <1>7 DEF Writes, LinksSomeone
  <1> QED
    BY <1>1, <1>2, <1>4, <1>8, GotoPreserves

(* The row an invitation is for when it commits: a new one, or one that is   *)
(* still in the bureau's directory.                                          *)
LEMMA CommitInvitePreserves ==
    ASSUME IInv, NEW k \in Desks, CommitInvite(k)
    PROVE  IInv'
  <1> DEFINE tx  == desk[k]
             who == tx.person
             b   == tx.bureau
             r   == IF tx.row = 0 THEN made + 1 ELSE tx.row
             row == [contacts |-> tx.contacts, account |-> who,
                     status |-> IF who = None THEN "pending" ELSE "linked"]
  <1>1. tx \in Invitations /\ LinksSomeone(tx)
    BY StepTells DEF IInv, TypeOK, DesksAgree, CommitInvite
  <1>2. /\ who \in Persons \cup {None} /\ b \in Bureaus /\ tx.row \in RowIds /\ tx.contacts \in SUBSET Contacts
        /\ who # None => tx.fresh \/ account[who] # None
    BY <1>1 DEF Invitations, LinksSomeone
  <1>3. row \in InviteRows
    <2>1. (IF who = None THEN "pending" ELSE "linked") \in {"pending", "linked", "cancelled"}
      OBVIOUS
    <2> HIDE DEF who, tx
    <2> QED
      BY <1>2, <2>1 DEF InviteRows
  <1>4. /\ r <= MaxRows /\ invite' = [invite EXCEPT ![r] = row]
        /\ IF tx.row = 0 THEN directory' = [directory EXCEPT ![r] = b] /\ made' = r
           ELSE directory[r] = b /\ UNCHANGED <<directory, made>>
        /\ UNCHANGED <<usable, assigned>>
    BY DEF CommitInvite
  <1>5. /\ who = None => UNCHANGED <<account, link>> /\ Goto(k, Idle)
        /\ who # None =>
              /\ account' = IF tx.fresh THEN [account EXCEPT ![who] = NewAccount({SignIn[who]}, TRUE)] ELSE account
              /\ link' = [link EXCEPT ![who] = [link[who] EXCEPT ![b] = r]]
              /\ \A q \in Persons \ {who} : link[q][b] # r
              /\ desk' = [Moved({who}) EXCEPT ![k] = Idle]
    BY <1>2 DEF CommitInvite, IInv, TypeOK
  <1> HIDE DEF tx, who, b, row
  <1>6. /\ r \in Rows /\ directory'[r] = b /\ directory' \in [Rows -> Bureaus \cup {None}]
        /\ made' \in 0..MaxRows /\ RowsMade'
        /\ \A s \in Rows : directory[s] \in Bureaus => directory'[s] = directory[s]
    <2>1. CASE tx.row = 0
      <3>1. made < MaxRows /\ made' = made + 1 /\ directory' = [directory EXCEPT ![made + 1] = b]
        BY <1>4, <2>1, PortalAssumptions DEF IInv, TypeOK
      <3> QED
        BY <1>2, <2>1, <3>1, NewRowPreserves
    <2>2. CASE tx.row # 0
      BY <1>2, <1>4, <2>2 DEF IInv, TypeOK, RowsMade, RowIds
    <2> QED
      BY <2>1, <2>2
  <1> HIDE DEF r
  <1>7. invite' \in [Rows -> InviteRows \cup {None}]
    BY <1>3, <1>4, <1>6 DEF IInv, TypeOK
  <1>8. \A p \in Persons, c \in Bureaus : link[p][c] # 0 => link[p][c] \in Rows
    BY DEF IInv, TypeOK, RowIds
  <1>9. CASE who = None
    <2>1. desk' \in [Desks -> Requests] /\ \A i \in Desks : desk'[i] = IF i = k THEN Idle ELSE desk[i]
      BY <1>5, <1>9 DEF IInv, TypeOK, Goto, Requests
    <2>2. TypeOK' /\ RowsMade'
      BY <1>4, <1>5, <1>6, <1>7, <1>9, <2>1 DEF IInv, TypeOK
    <2>3. OneAccountPerRow'
      BY <1>5, <1>6, <1>8, <1>9 DEF IInv, OneAccountPerRow
    <2>4. \A i \in Desks : desk'[i] = Idle \/ Touched(desk[i], desk'[i], {}, {})
      BY <2>1 DEF Touched, IInv, TypeOK
    <2>5. DesksAgree'
      BY <1>4, <1>5, <1>9, <2>4, TouchedAgree DEF IInv
    <2> QED
      BY <2>2, <2>3, <2>5 DEF IInv
  <1>10. CASE who # None
    <2>1. who \in Persons
      BY <1>2, <1>10
    <2>2. NewAccount({SignIn[who]}, TRUE) \in AccountRows
      BY <2>1, PortalAssumptions DEF NewAccount, AccountRows
    <2>3. account' \in [Persons -> AccountRows \cup {None}] /\ account'[who] # None
      <3>1. CASE tx.fresh
        <4>1. account' = [account EXCEPT ![who] = NewAccount({SignIn[who]}, TRUE)]
          BY <1>5, <1>10, <3>1
        <4> QED
          BY <2>1, <2>2, <4>1, NoneIsNoRow DEF IInv, TypeOK
      <3>2. CASE ~tx.fresh
        BY <1>2, <1>5, <1>10, <3>2 DEF IInv, TypeOK
      <3> QED
        BY <3>1, <3>2
    <2>4. /\ link' \in [Persons -> [Bureaus -> RowIds]]
          /\ \A p \in Persons, c \in Bureaus : link'[p][c] = IF p = who /\ c = b THEN r ELSE link[p][c]
      <3> DEFINE new == [link[who] EXCEPT ![b] = r]
      <3>1. link[who] \in [Bureaus -> RowIds] /\ r \in RowIds
        BY <1>6, <2>1 DEF IInv, TypeOK, RowIds
      <3>2. new \in [Bureaus -> RowIds] /\ \A c \in Bureaus : new[c] = IF c = b THEN r ELSE link[who][c]
        BY <1>2, <3>1
      <3>3. link' = [link EXCEPT ![who] = new]
        BY <1>5, <1>10
      <3> HIDE DEF new
      <3> QED
        BY <2>1, <3>2, <3>3 DEF IInv, TypeOK
    <2>5. \A p \in Persons \ {who} : account'[p] = account[p] /\ link'[p] = link[p]
      BY <1>5, <1>10, <2>1 DEF IInv, TypeOK
    <2>6. DOMAIN desk' = Desks /\ \A i \in Desks : desk'[i] = IF i = k THEN Idle ELSE Moved({who})[i]
      BY <1>5, <1>10 DEF Moved
    <2>7. \A i \in Desks : desk'[i] = Idle \/ Touched(desk[i], desk'[i], {who}, {})
      BY <2>1, <2>6, MovedTouches DEF IInv
    <2>8. desk' \in [Desks -> Requests]
      <3>1. \A i \in Desks : desk'[i] \in Requests
        BY <2>7 DEF Touched, Requests
      <3>2. desk' = [i \in Desks |-> desk'[i]]
        BY <1>5, <1>10, <2>6
      <3> QED
        BY <3>1, <3>2
    <2>9. TypeOK' /\ RowsMade'
      BY <1>4, <1>6, <1>7, <2>3, <2>4, <2>8 DEF IInv, TypeOK
    <2>10. OneAccountPerRow'
      <3> SUFFICES ASSUME NEW p \in Persons, NEW c \in Bureaus, link'[p][c] # 0
                   PROVE  /\ directory'[link'[p][c]] = c /\ account'[p] # None
                          /\ \A q \in Persons \ {p} : link'[q][c] # link'[p][c]
        BY DEF OneAccountPerRow
      <3>1. CASE p = who /\ c = b
        <4>1. \A q \in Persons \ {p} : link'[q][c] # r
          BY <1>5, <1>10, <2>4, <3>1
        <4> QED
          BY <1>6, <2>3, <2>4, <3>1, <4>1
      <3>2. CASE ~(p = who /\ c = b)
        <4>1. link'[p][c] = link[p][c] /\ link[p][c] \in Rows /\ directory[link[p][c]] = c
          BY <1>8, <2>4, <3>2 DEF IInv, OneAccountPerRow
        <4>2. directory'[link'[p][c]] = c
          BY <1>6, <4>1
        <4>3. account'[p] # None
          BY <2>3, <2>5, <4>1 DEF IInv, OneAccountPerRow
        <4>4. \A q \in Persons \ {p} : link'[q][c] # link'[p][c]
          BY <1>5, <1>10, <2>4, <3>2, <4>1 DEF IInv, OneAccountPerRow
        <4> QED
          BY <4>2, <4>3, <4>4
      <3> QED
        BY <3>1, <3>2
    <2>11. DesksAgree'
      <3>1. \A p \in Persons : account[p] # None => account'[p] # None
        BY <2>3, <2>5
      <3> QED
        BY <1>4, <2>1, <2>5, <2>7, <3>1, TouchedAgree DEF IInv
    <2> QED
      BY <2>9, <2>10, <2>11 DEF IInv
  <1> QED
    BY <1>9, <1>10

-----------------------------------------------------------------------------

LEMMA InitEstablishes == Init => IInv
  <1> SUFFICES ASSUME Init PROVE IInv
    OBVIOUS
  <1>1. DOMAIN Hired = 1..Len(Hired) /\ Len(Hired) \in 0..MaxRows /\ DOMAIN Hired \subseteq Rows
    BY PortalAssumptions DEF Rows
  <1>2. \A i \in DOMAIN Hired : Hired[i] \in Persons \X Bureaus
    BY PortalAssumptions
  <1>3. \A p \in Persons : NewAccount({SignIn[p]}, TRUE) \in AccountRows
    BY PortalAssumptions DEF NewAccount, AccountRows
  <1>4. account \in [Persons -> AccountRows \cup {None}]
    <2> HIDE DEF AccountRows
    <2> QED
      BY <1>3 DEF Init
  <1>5. directory \in [Rows -> Bureaus \cup {None}]
    BY <1>2 DEF Init
  <1>6. \A p \in Persons, b \in Bureaus :
           /\ link[p][b] \in RowIds
           /\ link[p][b] # 0 => link[p][b] \in DOMAIN Hired /\ Hired[link[p][b]] = <<p, b>>
    <2> SUFFICES ASSUME NEW p \in Persons, NEW b \in Bureaus
                 PROVE  /\ link[p][b] \in RowIds
                        /\ link[p][b] # 0 => link[p][b] \in DOMAIN Hired /\ Hired[link[p][b]] = <<p, b>>
      OBVIOUS
    <2> DEFINE Is(i) == Hired[i] = <<p, b>>
    <2>1. link[p][b] = IF \E i \in DOMAIN Hired : Is(i) THEN CHOOSE i \in DOMAIN Hired : Is(i) ELSE 0
      BY DEF Init
    <2> HIDE DEF Is
    <2>2. CASE \E i \in DOMAIN Hired : Is(i)
      <3>1. link[p][b] \in DOMAIN Hired /\ Is(link[p][b])
        BY <2>1, <2>2
      <3> QED
        BY <1>1, <3>1 DEF Is, RowIds
    <2>3. CASE ~\E i \in DOMAIN Hired : Is(i)
      BY <2>1, <2>3 DEF RowIds
    <2> QED
      BY <2>2, <2>3
  <1>7. link \in [Persons -> [Bureaus -> RowIds]]
    <2>1. /\ link = [p \in Persons |-> link[p]]
          /\ \A p \in Persons : link[p] = [b \in Bureaus |-> link[p][b]]
      BY DEF Init
    <2>2. \A p \in Persons : link[p] \in [Bureaus -> RowIds]
      BY <1>6, <2>1
    <2> QED
      BY <2>1, <2>2
  <1>8. TypeOK
    <2>1. made \in 0..MaxRows /\ usable \subseteq Bureaus /\ assigned \in [Documents -> RowIds]
      BY <1>1 DEF Init, RowIds
    <2>2. invite \in [Rows -> InviteRows \cup {None}] /\ desk \in [Desks -> Requests]
      <3> HIDE DEF InviteRows
      <3> QED
        BY DEF Init, Requests
    <2> QED
      BY <1>4, <1>5, <1>7, <2>1, <2>2 DEF TypeOK
  <1>9. RowsMade
    BY <1>1 DEF Init, RowsMade, Rows
  <1>10. OneAccountPerRow
    <2> SUFFICES ASSUME NEW p \in Persons, NEW b \in Bureaus, link[p][b] # 0
                 PROVE  /\ directory[link[p][b]] = b /\ account[p] # None
                        /\ \A q \in Persons \ {p} : link[q][b] # link[p][b]
      BY DEF OneAccountPerRow
    <2> DEFINE i == link[p][b]
    <2>1. i \in DOMAIN Hired /\ Hired[i] = <<p, b>> /\ i \in Rows
      BY <1>1, <1>6
    <2>2. directory[i] = b
      BY <2>1 DEF Init
    <2>3. account[p] # None
      <3>1. Hired[i][1] = p
        BY <2>1
      <3>2. account[p] = NewAccount({SignIn[p]}, TRUE)
        BY <2>1, <3>1 DEF Init
      <3> QED
        BY <1>3, <3>2, NoneIsNoRow
    <2>4. \A q \in Persons \ {p} : link[q][b] # i
      BY <1>6, <2>1
    <2> QED
      BY <2>2, <2>3, <2>4
  <1>11. DesksAgree
    <2>1. \A k \in Desks : desk[k] = Idle
      BY DEF Init
    <2> QED
      BY <2>1, IdleWrites DEF DesksAgree, Writes
  <1> QED
    BY <1>8, <1>9, <1>10, <1>11 DEF IInv

LEMMA NextPreserves == IInv /\ [Next]_vars => IInv'
  <1> SUFFICES ASSUME IInv, [Next]_vars PROVE IInv'
    OBVIOUS
  <1>1. ASSUME NEW k \in Desks, Commit(k) \/ CommitInvite(k) PROVE IInv'
    BY <1>1, CommitPreserves, CommitInvitePreserves
  <1>2. ASSUME NEW k \in Desks, RollBack(k) \/ UploadTranslation(k) \/ DeleteOrderFile(k) \/ NotFound(k)
        PROVE  IInv'
    <2>1. Goto(k, Idle) /\ UNCHANGED <<tables, usable, assigned>>
      BY <1>2 DEF RollBack, UploadTranslation, DeleteOrderFile, NotFound
    <2> QED
      BY <2>1, IdleWrites, GotoPreserves
  <1>3. ASSUME NEW k \in Desks, NEW p \in Persons,
               \/ TranslatorHere(k, p)
               \/ \E contacts \in Listed, active \in BOOLEAN : UpsertTranslator(k, p, contacts, active)
               \/ \E r \in Rows : LinkOrganization(k, p, r)
               \/ \E b \in Bureaus : LinkToNewRow(k, p, b)
               \/ \E d \in Documents : Organization(k, p, d)
        PROVE  IInv'
    BY <1>3, TranslatorHerePreserves, UpsertTranslatorPreserves, LinkOrganizationPreserves,
       LinkToNewRowPreserves, OrganizationPreserves
  <1>4. CASE \E k \in Desks, b \in Bureaus, r \in Rows \cup {0}, contacts \in Typed,
                person \in Persons \cup {None} : InviteTranslator(k, b, r, contacts, person)
    BY <1>4, InviteTranslatorPreserves DEF RowIds
  <1>5. CASE \E p \in Persons, b \in Bureaus : UnlinkOrganization(p, b)
    BY <1>5, UnlinkOrganizationPreserves
  <1>6. CASE \E r \in Rows : CancelInvite(r) \/ DeleteTranslator(r)
    BY <1>6, CancelInvitePreserves, DeleteTranslatorPreserves
  <1>7. CASE \E b \in Bureaus : CreateTranslator(b) \/ Suspend(b)
    BY <1>7, CreateTranslatorPreserves, SuspendPreserves
  <1>8. CASE \/ \E k \in Desks : FindDocument(k) \/ FindFile(k)
             \/ \E d \in Documents, r \in Rows \cup {0} : Assign(d, r)
    BY <1>8, FindPreserves, AssignPreserves DEF RowIds
  <1>9. CASE \/ \E p \in Persons : CreatePersonalOrder(p)
             \/ \E p \in Persons, o \in Orders :
                   UploadPersonalFile(p, o) \/ DeletePersonalFile(p, o) \/ DeletePersonalOrder(p, o)
             \/ UNCHANGED vars
    <2>1. UNCHANGED <<tables, usable, assigned, desk>>
      BY <1>9 DEF CreatePersonalOrder, UploadPersonalFile, DeletePersonalFile, DeletePersonalOrder, vars, tables
    <2> QED
      BY <2>1, StutterPreserves
  <1> QED
    BY <1>1, <1>2, <1>3, <1>4, <1>5, <1>6, <1>7, <1>8, <1>9 DEF Next

(***************************************************************************)
(* What every reachable state satisfies: links, rows, accounts and the     *)
(* requests under way agree.                                               *)
(***************************************************************************)
THEOREM Invariance == Spec => []IInv
  BY InitEstablishes, NextPreserves, PTL DEF Spec

(***************************************************************************)
(* However the admin, the bureaus' invites and the translators' visits     *)
(* interleave, no two accounts share a directory row.                      *)
(***************************************************************************)
THEOREM OneAccountPerRowHolds == Spec => []OneAccountPerRow
  <1>1. IInv => OneAccountPerRow
    BY DEF IInv
  <1> QED
    BY <1>1, Invariance, PTL

(***************************************************************************)
(* A translation is handed in, or taken back, only by the account that is  *)
(* linked to the row the document is assigned to, unless something about   *)
(* that account changed while the request was under way, or that document  *)
(* was given to another row after the request had found it.                *)
(***************************************************************************)
THEOREM OnlyOwnWorkHolds == Spec => OnlyOwnWork
  <1> DEFINE Theirs ==
        \A k \in Desks :
            desk[k].step \in Found /\ filed' # filed /\ desk'[k] = Idle /\ ~desk[k].moved =>
                LET p == desk[k].person
                    d == desk[k].document
                IN  /\ ActiveTranslator(p) /\ BureauOf[d] \in usable
                    /\ assigned[d] # 0 /\ link[p][BureauOf[d]] = assigned[d]
  <1>1. IInv /\ [Next]_vars => [Theirs]_vars
    <2> SUFFICES ASSUME IInv, Next PROVE Theirs
      OBVIOUS
    <2>1. ASSUME NEW k \in Desks, UploadTranslation(k) \/ DeleteOrderFile(k)
          PROVE  Theirs
      <3>1. desk' = [desk EXCEPT ![k] = Idle] /\ desk[k].step \in Found
        BY <2>1 DEF UploadTranslation, DeleteOrderFile, Goto, Found
      <3>2. \A i \in Desks : desk[i].step \in Found /\ desk'[i] = Idle => i = k
        BY <3>1 DEF Idle, Found, IInv, TypeOK
      <3>3. desk[k] \in Works /\ StillTheirs(desk[k])
        BY <3>1, StepTells DEF IInv, TypeOK, DesksAgree, Working
      <3>4. desk[k].row # 0
        BY <3>3 DEF Works, Rows
      <3> QED
        BY <3>1, <3>2, <3>3, <3>4 DEF StillTheirs
    <2>2. CASE filed' = filed
      BY <2>2
    <2>3. ASSUME NEW k \in Desks,
                 Commit(k) \/ CommitInvite(k) \/ RollBack(k) \/ FindDocument(k) \/ FindFile(k) \/ NotFound(k)
          PROVE  filed' = filed
      BY <2>3 DEF Commit, CommitInvite, RollBack, FindDocument, FindFile, NotFound
    <2>4. ASSUME NEW k \in Desks, NEW p \in Persons,
                 \/ TranslatorHere(k, p)
                 \/ \E contacts \in Listed, active \in BOOLEAN : UpsertTranslator(k, p, contacts, active)
                 \/ \E r \in Rows : LinkOrganization(k, p, r)
                 \/ \E b \in Bureaus : LinkToNewRow(k, p, b)
                 \/ \E d \in Documents : Organization(k, p, d)
          PROVE  filed' = filed
      BY <2>4 DEF TranslatorHere, UpsertTranslator, LinkOrganization, LinkToNewRow, Organization
    <2>5. CASE \/ \E k \in Desks, b \in Bureaus, r \in Rows \cup {0}, contacts \in Typed,
                     person \in Persons \cup {None} : InviteTranslator(k, b, r, contacts, person)
               \/ \E p \in Persons, b \in Bureaus : UnlinkOrganization(p, b)
               \/ \E r \in Rows : CancelInvite(r) \/ DeleteTranslator(r)
               \/ \E b \in Bureaus : CreateTranslator(b) \/ Suspend(b)
      <3>1. filed' = filed
        <4>1. ASSUME NEW k, NEW b, NEW r, NEW contacts, NEW person, InviteTranslator(k, b, r, contacts, person)
              PROVE  filed' = filed
          BY <4>1 DEF InviteTranslator
        <4>2. ASSUME NEW r, CancelInvite(r) \/ DeleteTranslator(r) PROVE filed' = filed
          BY <4>2 DEF CancelInvite, DeleteTranslator
        <4>3. ASSUME NEW p, NEW b, UnlinkOrganization(p, b) \/ CreateTranslator(b) \/ Suspend(b)
              PROVE  filed' = filed
          BY <4>3 DEF UnlinkOrganization, CreateTranslator, Suspend
        <4> QED
          BY <2>5, <4>1, <4>2, <4>3
      <3> QED
        BY <2>2, <3>1
    <2>6. CASE \/ \E d \in Documents, r \in Rows \cup {0} : Assign(d, r)
               \/ \E p \in Persons : CreatePersonalOrder(p)
               \/ \E p \in Persons, o \in Orders :
                     UploadPersonalFile(p, o) \/ DeletePersonalFile(p, o) \/ DeletePersonalOrder(p, o)
      <3>1. filed' = filed
        BY <2>6 DEF Assign, CreatePersonalOrder, UploadPersonalFile, DeletePersonalFile, DeletePersonalOrder
      <3> QED
        BY <2>2, <3>1
    <2> QED
      BY <2>1, <2>2, <2>3, <2>4, <2>5, <2>6 DEF Next
  <1> QED
    BY <1>1, Invariance, PTL DEF Spec, OnlyOwnWork
=============================================================================
