-------------------------------- MODULE Portal --------------------------------
(***************************************************************************)
(* The translator portal: who a suliko.ge person is to the bureaus.        *)
(*                                                                         *)
(* A person's portal account is linked to at most one row of a bureau's    *)
(* translator directory.  Links are made by the suliko.ge admin, by a      *)
(* bureau's invite, and by the person opening the portal, which resolves   *)
(* the invites that wait for their address.  A request reads what it needs *)
(* and decides (a plan), and commits later; the database's constraints are *)
(* checked then, against what is committed by then.                        *)
(***************************************************************************)
EXTENDS Integers, FiniteSets, Sequences

CONSTANTS
    Persons,      \* suliko.ge users
    SignIn,       \* the proven address or number each signs in with
    Contacts,     \* addresses and numbers, normalised
    Emails,       \* the addresses among them
    Listed,       \* what suliko.ge's user list shows the admin of anyone
    Bureaus,
    Documents,    \* documents of orders
    BureauOf,     \* the bureau each one is of
    Desks,        \* requests that may be under way at once
    MaxRows,      \* directory rows ever made
    MaxPersonal,  \* personal orders ever made, and files put on them
    Budget,       \* how often each kind of thing is done, and all of them together
    Hired,        \* who of them already works for which bureau: each holds a directory row
    None

ASSUME PortalAssumptions ==
    /\ Emails \subseteq Contacts /\ Listed \subseteq SUBSET Contacts
    /\ SignIn \in [Persons -> Contacts]
    /\ BureauOf \in [Documents -> Bureaus]
    /\ {MaxRows, MaxPersonal} \subseteq Nat
    /\ Hired \in Seq(Persons \X Bureaus) /\ Len(Hired) <= MaxRows
    /\ \A i, j \in DOMAIN Hired : Hired[i] = Hired[j] => i = j

Rows   == 1..MaxRows
Orders == 1..MaxPersonal

AccountRows == [active : BOOLEAN, contacts : SUBSET Contacts]

InviteRows ==
    [contacts : SUBSET Contacts, account : Persons \cup {None}, status : {"pending", "linked", "cancelled"}]

ASSUME NoneAssumption ==   \* where a row, a bureau or a person could be, None says there is none
    None \notin AccountRows \cup InviteRows \cup Bureaus \cup Persons

VARIABLES
    account,    \* portal_translators: account[p], None until p is marked a translator
    directory,  \* translators: the bureau of each row, None before it is made or once deleted
    made,       \* directory rows made so far
    link,       \* portal_translator_links: link[p][b], the row, 0 for none
    invite,     \* portal_account_invites, by the row each is for
    usable,     \* the bureaus that are active or on trial
    assigned,   \* order_documents.translator_id: a row, 0 for none
    filed,      \* translations handed in through the portal and not taken back
    personal,   \* personal orders: owner and number of files
    desk,       \* desk[k]: the request under way
    left        \* what may still be done

tables == <<account, directory, made, link, invite>>
vars == <<account, directory, made, link, invite, usable, assigned, filed, personal, desk, left>>

Idle == [step |-> "idle"]

Goto(k, where) == desk' = [desk EXCEPT ![k] = where]

Spend(what) == left[what] > 0 /\ left.all > 0 /\ left' = [left EXCEPT ![what] = @ - 1, !.all = @ - 1]

NewAccount(contacts, active) == [active |-> active, contacts |-> contacts]

RowsOf(b) == {r \in Rows : directory[r] = b}

-----------------------------------------------------------------------------
(* Same person?  By any address or number the two share. *)

ContactMatch(these, those) == these \cap those # {}

AccountMatches(contacts) == {p \in Persons : account[p] # None /\ ContactMatch(account[p].contacts, contacts)}

PendingFor(contacts) ==
    {r \in Rows : invite[r] # None /\ invite[r].status = "pending" /\ ContactMatch(invite[r].contacts, contacts)}

-----------------------------------------------------------------------------
(***************************************************************************)
(* Linking an account to a row: one that is another account's, or that is  *)
(* not in the directory, is refused.  A conflict leaves an invite of the   *)
(* batch pending and goes on to the next; they come in no particular       *)
(* order, and of two rows of one bureau the later stays linked.            *)
(***************************************************************************)
RowFree(p, b, r) == \A q \in Persons \ {p} : link[q][b] # r

Resolvable(p, contacts) ==
    {r \in PendingFor(contacts) : directory[r] # None /\ RowFree(p, directory[r], r)}

MarkLinked(p, rows) ==
    [r \in Rows |-> IF r \in rows THEN [invite[r] EXCEPT !.status = "linked", !.account = p] ELSE invite[r]]

(* p's links once these rows are linked: one row of a bureau, the others as they were. *)
LinkedLast(p, rows) ==
    {l \in [Bureaus -> Rows \cup {0}] :
        \A b \in Bureaus : IF \E r \in rows : directory[r] = b THEN l[b] \in rows /\ directory[l[b]] = b
                           ELSE l[b] = link[p][b]}

ResolvePendingInvites(p, contacts) ==
    LET rows == Resolvable(p, contacts)
    IN  {[link |-> l, invite |-> MarkLinked(p, rows)] : l \in LinkedLast(p, rows)}

(* Linked to one row of the bureau, whatever invites there are. *)
LinkRow(p, b, r) == [link |-> [link[p] EXCEPT ![b] = r], invite |-> invite]

AsItIs(p) == [link |-> link[p], invite |-> invite]

(* What a request is to write: an account (None for none), and what v changes of p's links and the invites. *)
Plan(p, acc, v) ==
    [step    |-> "commit",
     person  |-> p,
     account |-> acc,
     fresh   |-> acc # None /\ account[p] = None,
     links   |-> {<<b, link[p][b], v.link[b]>> : b \in {c \in Bureaus : v.link[c] # link[p][c]}},
     invites |-> {<<r, v.invite[r]>> : r \in {s \in Rows : v.invite[s] # invite[s]}},
     gone    |-> {}]

(***************************************************************************)
(* The portal is opened.  Someone nobody has marked a translator gets an   *)
(* account when an invite waits for the address they sign in with.         *)
(***************************************************************************)
ClaimInvitedAccount(p) ==
    IF account[p] # None THEN account[p]
    ELSE IF PendingFor({SignIn[p]}) # {} THEN NewAccount({SignIn[p]}, TRUE)
    ELSE None

TranslatorHere(k, p) ==
    LET acc == ClaimInvitedAccount(p)
    IN  /\ desk[k] = Idle
        /\ acc # None /\ acc.active
        /\ \E v \in ResolvePendingInvites(p, acc.contacts) :
            LET plan == Plan(p, IF account[p] = None THEN acc ELSE None, v)
            IN  /\ plan.fresh \/ plan.links # {} \/ plan.invites # {}
                /\ Goto(k, plan)
        /\ UNCHANGED <<tables, usable, assigned, filed, personal, left>>

(* The suliko.ge admin marks an account a translator, changes it, or turns it off or on. *)
UpsertTranslator(k, p, contacts, active) ==
    LET acc == NewAccount(contacts, active)
    IN  /\ desk[k] = Idle /\ acc # account[p]
        /\ Spend("admin")
        /\ \E v \in IF active THEN ResolvePendingInvites(p, contacts) ELSE {AsItIs(p)} : Goto(k, Plan(p, acc, v))
        /\ UNCHANGED <<tables, usable, assigned, filed, personal>>

LinkOrganization(k, p, r) ==
    /\ desk[k] = Idle
    /\ account[p] # None /\ directory[r] # None
    /\ RowFree(p, directory[r], r)
    /\ Spend("admin")
    /\ Goto(k, Plan(p, None, LinkRow(p, directory[r], r)))
    /\ UNCHANGED <<tables, usable, assigned, filed, personal>>

(* A new row is committed in the bureau's own transaction, before the link is. *)
LinkToNewRow(k, p, b) ==
    LET r == made + 1
    IN  /\ desk[k] = Idle
        /\ account[p] # None /\ made < MaxRows
        /\ Spend("admin")
        /\ made' = r
        /\ directory' = [directory EXCEPT ![r] = b]
        /\ Goto(k, Plan(p, None, LinkRow(p, b, r)))
        /\ UNCHANGED <<account, link, invite, usable, assigned, filed, personal>>

-----------------------------------------------------------------------------
(* A request about work on a document, and one that has found it among those assigned to its row. *)
Found   == {"storing", "removing"}
Working == {"work"} \cup Found

(* Requests under way whose link row is deleted under them: their UPDATE will find nothing. *)
Disturbed(p, b) ==
    [k \in Desks |->
        IF desk[k].step \in {"commit", "invite"} /\ desk[k].person = p THEN [desk[k] EXCEPT !.gone = @ \cup {b}]
        ELSE IF desk[k].step \in Working /\ desk[k].person = p THEN [desk[k] EXCEPT !.moved = TRUE]
        ELSE desk[k]]

(* Requests under way that resolved this person's bureaus before something about them changed. *)
Moved(others) ==
    [k \in Desks |-> IF desk[k].step \in Working /\ desk[k].person \in others THEN [desk[k] EXCEPT !.moved = TRUE]
                     ELSE desk[k]]

(* Requests that found one of these documents assigned to their row before that changed. *)
Reassigned(documents, desks) ==
    [k \in Desks |-> IF desks[k].step \in Found /\ desks[k].document \in documents
                     THEN [desks[k] EXCEPT !.moved = TRUE] ELSE desks[k]]

NoConstraint(l) == TRUE   \* a plausible bug: the table's constraints are missing

(* One account per directory row, and a link names a row that is there. *)
LinkHolds(l) ==
    /\ \A p, q \in Persons, b \in Bureaus : p # q /\ l[p][b] # 0 => l[p][b] # l[q][b]
    /\ \A p \in Persons, b \in Bureaus : l[p][b] # 0 => directory[l[p][b]] = b

(* An INSERT must not meet a link already there; an UPDATE must find the one it read. *)
WriteHolds(plan) ==
    \A w \in plan.links :
        IF w[2] = 0 THEN link[plan.person][w[1]] = 0 ELSE w[1] \notin plan.gone

Written(plan) ==
    [link EXCEPT ![plan.person] =
        [b \in Bureaus |-> IF \E w \in plan.links : w[1] = b
                           THEN (CHOOSE w \in plan.links : w[1] = b)[3] ELSE @[b]]]

InviteWritten(plan) ==
    [r \in Rows |-> IF \E w \in plan.invites : w[1] = r
                    THEN (CHOOSE w \in plan.invites : w[1] = r)[2] ELSE invite[r]]

CommitHolds(plan) ==
    /\ plan.fresh => account[plan.person] = None
    /\ WriteHolds(plan)
    /\ LinkHolds(Written(plan))
    /\ \A w \in plan.invites : directory[w[1]] # None

(* Otherwise the request is rolled back; so is one that fails on its way to the commit, at the storage or later. *)
Commit(k) ==
    LET plan == desk[k]
    IN  /\ plan.step = "commit"
        /\ CommitHolds(plan)
        /\ account' = IF plan.account = None THEN account ELSE [account EXCEPT ![plan.person] = plan.account]
        /\ link' = Written(plan)
        /\ invite' = InviteWritten(plan)
        /\ desk' = [Moved({plan.person}) EXCEPT ![k] = Idle]
        /\ UNCHANGED <<directory, made, usable, assigned, filed, personal, left>>

RollBack(k) ==
    /\ desk[k].step \in {"commit", "invite"} \cup Found
    /\ Goto(k, Idle)
    /\ UNCHANGED <<tables, usable, assigned, filed, personal, left>>

UnlinkOrganization(p, b) ==
    /\ link[p][b] # 0
    /\ Spend("admin")
    /\ link' = [link EXCEPT ![p][b] = 0]
    /\ desk' = Disturbed(p, b)
    /\ UNCHANGED <<account, directory, made, invite, usable, assigned, filed, personal>>

-----------------------------------------------------------------------------
(***************************************************************************)
(* A bureau invites a translator: an existing row or a new one (row 0,     *)
(* which gets its id when the request commits), an account it picked from  *)
(* the search (person) or an address.                                      *)
(***************************************************************************)
LinkedElsewhere(p, b, r) == link[p][b] # 0 /\ link[p][b] # r

ToLink(person, contacts) ==
    IF person # None THEN person
    ELSE LET found == AccountMatches(contacts)
         IN  IF Cardinality(found) = 1 THEN CHOOSE p \in found : TRUE ELSE None

(* What an invite records: an address, a number, or one of each. *)
Typed == {c \in SUBSET Contacts : c # {} /\ Cardinality(c \cap Emails) <= 1 /\ Cardinality(c \ Emails) <= 1}

(* An address is one invite of the bureau. *)
EmailTaken(b, r, contacts) ==
    \E s \in RowsOf(b) \ {r} : invite[s] # None /\ ContactMatch(invite[s].contacts \cap Emails, contacts)

(* Only a new invite looks whether its address is taken; a changed one is left to the constraint. *)
InviteTranslator(k, b, r, contacts, person) ==
    LET who == ToLink(person, contacts)
        new == r = 0 \/ invite[r] = None
    IN  /\ desk[k] = Idle
        /\ r = 0 \/ r \in RowsOf(b)
        /\ contacts \cap Emails # {} \/ (person # None /\ contacts = {SignIn[person]})
        /\ person # None => ~LinkedElsewhere(person, b, r)
        /\ new => ~EmailTaken(b, r, contacts)
        /\ who # None /\ r # 0 => RowFree(who, b, r)
        /\ Spend("invite")
        /\ Goto(k, [step |-> "invite", bureau |-> b, row |-> r, contacts |-> contacts, person |-> who, new |-> new,
                    fresh |-> who # None /\ account[who] = None,
                    seen |-> IF who = None THEN 0 ELSE link[who][b],
                    gone |-> {}])
        /\ UNCHANGED <<tables, usable, assigned, filed, personal>>

CommitInvite(k) ==
    LET tx  == desk[k]
        who == tx.person
        b   == tx.bureau
        r   == IF tx.row = 0 THEN made + 1 ELSE tx.row
        row == [contacts |-> tx.contacts, account |-> who,
                status |-> IF who = None THEN "pending" ELSE "linked"]
    IN  /\ tx.step = "invite" /\ r <= MaxRows
        /\ IF tx.row = 0 THEN directory' = [directory EXCEPT ![r] = b] /\ made' = r
           ELSE directory[r] = b /\ UNCHANGED <<directory, made>>
        /\ tx.new => invite[r] = None
        /\ ~EmailTaken(b, r, tx.contacts)
        /\ invite' = [invite EXCEPT ![r] = row]
        /\ IF who = None THEN UNCHANGED <<account, link>> /\ Goto(k, Idle)
           ELSE /\ tx.fresh => account[who] = None
                /\ account' = IF tx.fresh
                              THEN [account EXCEPT ![who] = NewAccount({SignIn[who]}, TRUE)]
                              ELSE account
                /\ IF tx.seen = 0 THEN link[who][b] = 0 ELSE b \notin tx.gone
                /\ link' = [link EXCEPT ![who][b] = r]
                /\ \A q \in Persons \ {who} : link[q][b] # r
                /\ desk' = [Moved({who}) EXCEPT ![k] = Idle]
        /\ UNCHANGED <<usable, assigned, filed, personal, left>>

(* Whatever its status was; the link stays. *)
CancelInvite(r) ==
    /\ invite[r] # None /\ invite[r].status # "cancelled"
    /\ Spend("invite")
    /\ invite' = [invite EXCEPT ![r].status = "cancelled"]
    /\ UNCHANGED <<account, directory, made, link, usable, assigned, filed, personal, desk>>

-----------------------------------------------------------------------------
(* The bureau's directory and its orders. *)

CreateTranslator(b) ==
    /\ made < MaxRows /\ Spend("staff")
    /\ made' = made + 1
    /\ directory' = [directory EXCEPT ![made + 1] = b]
    /\ UNCHANGED <<account, link, invite, usable, assigned, filed, personal, desk>>

(* Its link and its invite go with it, and its documents become unassigned. *)
DeleteTranslator(r) ==
    LET b == directory[r]
        holders == {p \in Persons : b # None /\ link[p][b] = r}
    IN  /\ b # None /\ Spend("staff")
        /\ directory' = [directory EXCEPT ![r] = None]
        /\ link' = [p \in Persons |-> IF p \in holders THEN [link[p] EXCEPT ![b] = 0] ELSE link[p]]
        /\ invite' = [invite EXCEPT ![r] = None]
        /\ assigned' = [d \in Documents |-> IF assigned[d] = r THEN 0 ELSE assigned[d]]
        /\ desk' = Reassigned({d \in Documents : assigned[d] = r},
                              IF holders = {} THEN desk ELSE Disturbed(CHOOSE p \in holders : TRUE, b))
        /\ UNCHANGED <<account, made, usable, filed, personal>>

Assign(d, r) ==
    /\ r = 0 \/ r \in RowsOf(BureauOf[d])
    /\ assigned[d] # r /\ Spend("staff")
    /\ assigned' = [assigned EXCEPT ![d] = r]
    /\ desk' = Reassigned({d}, desk)
    /\ UNCHANGED <<tables, usable, filed, personal>>

Suspend(b) ==
    /\ b \in usable /\ Spend("staff")
    /\ usable' = usable \ {b}
    /\ desk' = Moved(Persons)
    /\ UNCHANGED <<tables, assigned, filed, personal>>

-----------------------------------------------------------------------------
(***************************************************************************)
(* Work on an assigned document.  The bureau and the row come from the     *)
(* caller's link; the upload is read; then the bureau's own transaction    *)
(* looks the document up among those assigned to that row, stores the file *)
(* over the network, and commits.  The assignment is not looked at again,  *)
(* and nothing locks it: staff may change it before the commit.            *)
(***************************************************************************)
ActiveTranslator(p) == account[p] # None /\ account[p].active

LinkedOrganizations(p) == {b \in usable : link[p][b] # 0}

Organization(k, p, d) ==
    /\ desk[k] = Idle /\ ActiveTranslator(p)
    /\ BureauOf[d] \in LinkedOrganizations(p)
    /\ Spend("work")
    /\ Goto(k, [step |-> "work", person |-> p, document |-> d, row |-> link[p][BureauOf[d]], moved |-> FALSE])
    /\ UNCHANGED <<tables, usable, assigned, filed, personal>>

AnyAssigned(d, r) == \E e \in Documents : BureauOf[e] = BureauOf[d] /\ assigned[e] = r   \* a plausible bug: the order is looked up, not the document

AssignedDocument(d, r) == assigned[d] = r

FindDocument(k) ==
    /\ desk[k].step = "work" /\ AssignedDocument(desk[k].document, desk[k].row)
    /\ Goto(k, [desk[k] EXCEPT !.step = "storing"])
    /\ UNCHANGED <<tables, usable, assigned, filed, personal, left>>

(* Only a translation the caller uploaded. *)
FindFile(k) ==
    /\ desk[k].step = "work" /\ AssignedDocument(desk[k].document, desk[k].row)
    /\ <<desk[k].document, desk[k].person>> \in filed
    /\ Goto(k, [desk[k] EXCEPT !.step = "removing"])
    /\ UNCHANGED <<tables, usable, assigned, filed, personal, left>>

UploadTranslation(k) ==
    /\ desk[k].step = "storing"
    /\ filed' = filed \cup {<<desk[k].document, desk[k].person>>}
    /\ Goto(k, Idle)
    /\ UNCHANGED <<tables, usable, assigned, personal, left>>

DeleteOrderFile(k) ==
    /\ desk[k].step = "removing"
    /\ filed' = filed \ {<<desk[k].document, desk[k].person>>}
    /\ Goto(k, Idle)
    /\ UNCHANGED <<tables, usable, assigned, personal, left>>

NotFound(k) ==
    /\ desk[k].step = "work" /\ ~AssignedDocument(desk[k].document, desk[k].row)
    /\ Goto(k, Idle)
    /\ UNCHANGED <<tables, usable, assigned, filed, personal, left>>

-----------------------------------------------------------------------------
(* Personal orders: the translator's own, seen by no bureau. *)

NewPersonalOrder(p) == [owner |-> p, files |-> 0]

OwnedPersonalOrder(p, o) == personal[o] # None /\ personal[o].owner = p

CreatePersonalOrder(p) ==
    \E o \in Orders :
        /\ ActiveTranslator(p) /\ personal[o] = None
        /\ Spend("personal")
        /\ personal' = [personal EXCEPT ![o] = NewPersonalOrder(p)]
        /\ UNCHANGED <<tables, usable, assigned, filed, desk>>

UploadPersonalFile(p, o) ==
    /\ ActiveTranslator(p) /\ OwnedPersonalOrder(p, o) /\ personal[o].files < MaxPersonal
    /\ personal' = [personal EXCEPT ![o].files = @ + 1]
    /\ UNCHANGED <<tables, usable, assigned, filed, desk, left>>

DeletePersonalFile(p, o) ==
    /\ ActiveTranslator(p) /\ OwnedPersonalOrder(p, o) /\ personal[o].files > 0
    /\ personal' = [personal EXCEPT ![o].files = @ - 1]
    /\ UNCHANGED <<tables, usable, assigned, filed, desk, left>>

DeletePersonalOrder(p, o) ==
    /\ ActiveTranslator(p) /\ OwnedPersonalOrder(p, o)
    /\ personal' = [personal EXCEPT ![o] = None]
    /\ UNCHANGED <<tables, usable, assigned, filed, desk, left>>

-----------------------------------------------------------------------------
Init ==
    /\ account = [p \in Persons |-> IF \E i \in DOMAIN Hired : Hired[i][1] = p
                                    THEN NewAccount({SignIn[p]}, TRUE) ELSE None]
    /\ directory = [r \in Rows |-> IF r \in DOMAIN Hired THEN Hired[r][2] ELSE None]
    /\ made = Len(Hired)
    /\ link = [p \in Persons |-> [b \in Bureaus |-> IF \E i \in DOMAIN Hired : Hired[i] = <<p, b>>
                                                    THEN CHOOSE i \in DOMAIN Hired : Hired[i] = <<p, b>> ELSE 0]]
    /\ invite = [r \in Rows |-> None]
    /\ usable = Bureaus
    /\ assigned = [d \in Documents |-> 0]
    /\ filed = {}
    /\ personal = [o \in Orders |-> None]
    /\ desk = [k \in Desks |-> Idle]
    /\ left = Budget

Next ==
    \/ \E k \in Desks : Commit(k) \/ CommitInvite(k) \/ RollBack(k)
    \/ \E k \in Desks : FindDocument(k) \/ FindFile(k) \/ UploadTranslation(k) \/ DeleteOrderFile(k) \/ NotFound(k)
    \/ \E k \in Desks, p \in Persons :
        \/ TranslatorHere(k, p)
        \/ \E contacts \in Listed, active \in BOOLEAN : UpsertTranslator(k, p, contacts, active)
        \/ \E r \in Rows : LinkOrganization(k, p, r)
        \/ \E b \in Bureaus : LinkToNewRow(k, p, b)
        \/ \E d \in Documents : Organization(k, p, d)
    \/ \E k \in Desks, b \in Bureaus, r \in Rows \cup {0}, contacts \in Typed, person \in Persons \cup {None} :
        InviteTranslator(k, b, r, contacts, person)
    \/ \E p \in Persons, b \in Bureaus : UnlinkOrganization(p, b)
    \/ \E r \in Rows : CancelInvite(r) \/ DeleteTranslator(r)
    \/ \E b \in Bureaus : CreateTranslator(b) \/ Suspend(b)
    \/ \E d \in Documents, r \in Rows \cup {0} : Assign(d, r)
    \/ \E p \in Persons : CreatePersonalOrder(p)
    \/ \E p \in Persons, o \in Orders : UploadPersonalFile(p, o) \/ DeletePersonalFile(p, o) \/ DeletePersonalOrder(p, o)

Spec == Init /\ [][Next]_vars

-----------------------------------------------------------------------------
(***************************************************************************)
(* "Two accounts sharing a row would each see the other's assignments":    *)
(* however the admin, the bureaus' invites and the translators' visits     *)
(* interleave, a directory row is linked to one account at most, and a     *)
(* link names a row that is still in that bureau's directory.              *)
(***************************************************************************)
OneAccountPerRow ==
    \A p \in Persons, b \in Bureaus :
        link[p][b] # 0 =>
            /\ directory[link[p][b]] = b
            /\ account[p] # None
            /\ \A q \in Persons \ {p} : link[q][b] # link[p][b]

(***************************************************************************)
(* A translator reaches only the documents assigned to them: a translation *)
(* is handed in, or taken back, by the account that is linked, active, to  *)
(* the row the document is assigned to, in a bureau that is not suspended. *)
(* Two changes may differ, and no other: one of the caller's account, link *)
(* or bureau while that very request was under way, and one of that very   *)
(* document's assignment after the request had found it and before its     *)
(* commit.                                                                 *)
(***************************************************************************)
OnlyOwnWork ==
    [][\A k \in Desks :
        desk[k].step \in Found /\ filed' # filed /\ desk'[k] = Idle /\ ~desk[k].moved =>
            LET p == desk[k].person
                d == desk[k].document
            IN  /\ ActiveTranslator(p) /\ BureauOf[d] \in usable
                /\ assigned[d] # 0 /\ link[p][BureauOf[d]] = assigned[d]]_vars

(***************************************************************************)
(* A translation is filed only under a document that is still assigned to  *)
(* the row its request resolved.  The code does not keep this: it looks    *)
(* before it stores the file, and staff may give the document to another   *)
(* translator before the commit.                                           *)
(***************************************************************************)
AssignedWhenFiled ==
    [][\A k \in Desks :
        desk[k].step = "storing" /\ filed' # filed /\ desk'[k] = Idle =>
            AssignedDocument(desk[k].document, desk[k].row)]_vars
===============================================================================
