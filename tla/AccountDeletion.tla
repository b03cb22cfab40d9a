-------------------------- MODULE AccountDeletion --------------------------
(***************************************************************************)
(* People, the organisations they belong to, signing in, and having an     *)
(* account deleted: filing the request, the review, the thirty days and    *)
(* the nightly run that erases the person's data; and beside it the moves  *)
(* inside an organisation that decide whether anyone is left to run it.    *)
(*                                                                         *)
(* A request that decides on what it read and writes later is two actions, *)
(* with what it read kept in between: under READ COMMITTED other requests  *)
(* commit in the gap.  Time stamps are kept as what they order: a session  *)
(* is dead when it began before the stamp its owner's row carries.         *)
(***************************************************************************)
EXTENDS Integers, FiniteSets

CONSTANTS
    People,         \* accounts
    Organisations,  \* tenants
    Members,        \* the users rows there can be: <<person, organisation>>
    FirstRole,      \* the role each has at first
    FirstInvited,   \* members who have not accepted their invitation yet
    Translators,    \* people with a translator-portal record
    Tabs,           \* browser tabs a deletion can be asked for in
    Reviewers,      \* superusers, and the operator's command line
    MaxRequests,    \* bound: deletion requests ever filed
    MaxMoves,       \* bound: member changes in flight at the same time
    Budget,         \* bound: how often each event that people choose may happen
    None

Roles == {"staff", "admin", "owner"}   \* a manager changes no member: staff, here

Choices == {"signIn", "signOut", "move", "file", "decide", "fail"}

ASSUME DeletionAssumptions ==
    /\ IsFiniteSet(Members) /\ Members \subseteq People \X Organisations
    /\ FirstRole \in [Members -> Roles]
    /\ FirstInvited \subseteq Members
    /\ MaxRequests \in Nat /\ MaxMoves \in Nat
    /\ Budget \in [Choices -> Nat]
    /\ None \notin People

Requests == 1..MaxRequests

VARIABLES
    rows,       \* members whose users row exists
    role,       \* users.role
    active,     \* members with is_active
    invited,    \* members with invitation_pending
    moves,      \* member changes that passed their checks and have not written
    status,     \* status of each deletion request, "none" before it exists
    asker,      \* whose request it is
    closedPortal, \* requests with portal_deactivated
    ripe,       \* approved requests whose purge_after has passed
    waited,     \* history: requests approved and then left for thirty days
    portal,     \* each person's translator-portal record: "none", "on" or "off"
    erased,     \* people whose data is gone
    tab,        \* tab[t]: where a tab's deletion request stands
    desk,       \* desk[v]: the decision reviewer v has read for and not written
    due,        \* what the nightly run listed and has not dealt with yet
    signing,    \* signing[m]: a sign-in past its checks, by the stamp it precedes
    settled,    \* members with a session older than the latest stamp taken
    fresh,      \* members with a session younger than that
    left        \* left[k]: how often k may still happen

teamVars    == <<rows, role, active, invited, moves>>
requestVars == <<status, asker, closedPortal, ripe, waited>>
personVars  == <<portal, erased>>
workVars    == <<tab, desk, due>>
sessionVars == <<signing, settled, fresh>>
vars        == <<teamVars, requestVars, personVars, workVars, sessionVars, left>>

Statuses == {"none", "requested", "approved", "rejected", "done"}
OpenStatuses == {"requested", "approved"}

IdleTab   == [at |-> "idle", who |-> None, closes |-> FALSE]
EmptyDesk == [does |-> "nothing", request |-> 0, reopens |-> FALSE]

Person(m)       == m[1]
Organisation(m) == m[2]
RowsOf(p)       == {m \in rows : Person(m) = p}
Colleagues(m)   == {n \in rows \ {m} : Organisation(n) = Organisation(m)}

Made == {r \in Requests : status[r] # "none"}

OpenRequests(p) == {r \in Made : asker[r] = p /\ status[r] \in OpenStatuses}

Spend(k) == left[k] > 0 /\ left' = [left EXCEPT ![k] = @ - 1]

MoveSet == [does : {"setRole", "switchOff", "leave", "delete"}, who : Members, to : Roles]

TypeOK ==
    /\ rows \subseteq Members /\ active \subseteq Members /\ invited \subseteq Members
    /\ role \in [Members -> Roles]
    /\ moves \subseteq MoveSet
    /\ status \in [Requests -> Statuses]
    /\ asker \in [Requests -> People \cup {None}]
    /\ closedPortal \subseteq Requests /\ ripe \subseteq Requests /\ waited \subseteq Requests
    /\ portal \in [People -> {"none", "on", "off"}]
    /\ erased \subseteq People
    /\ tab \in [Tabs -> [at : {"idle", "checked", "stamped"}, who : People \cup {None},
                         closes : BOOLEAN]]
    /\ desk \in [Reviewers -> [does : {"nothing", "approve", "reject"},
                               request : Requests \cup {0}, reopens : BOOLEAN]]
    /\ due \subseteq Requests
    /\ signing \in [Members -> {"no", "early", "late", "dead"}]
    /\ settled \subseteq Members /\ fresh \subseteq Members
    /\ left \in [Choices -> Nat]

Init ==
    /\ rows = Members /\ active = Members /\ invited = FirstInvited
    /\ role = FirstRole
    /\ moves = {}
    /\ status = [r \in Requests |-> "none"]
    /\ asker = [r \in Requests |-> None]
    /\ closedPortal = {} /\ ripe = {} /\ waited = {}
    /\ portal = [p \in People |-> IF p \in Translators THEN "on" ELSE "none"]
    /\ erased = {}
    /\ tab = [t \in Tabs |-> IdleTab]
    /\ desk = [v \in Reviewers |-> EmptyDesk]
    /\ due = {}
    /\ signing = [m \in Members |-> "no"]
    /\ settled = {} /\ fresh = {}
    /\ left = Budget

-----------------------------------------------------------------------------
(* Sessions. *)

(* What resolve_session accepts: an unrevoked session of a member who is in. *)
Enters(m) == m \in (settled \cup fresh) /\ m \in rows /\ m \in active /\ m \notin invited

(* Everything the members ms began is from before now; none of it counts. *)
SignedOutEverywhere(ms) ==
    /\ settled' = settled \ ms
    /\ fresh' = fresh \ ms
    /\ signing' = [m \in Members |-> IF m \in ms /\ signing[m] # "no" THEN "dead" ELSE signing[m]]

(* Signing in, its last check: the account is not closed, the row is in use. *)
SignIn(m) ==
    /\ Spend("signIn")
    /\ signing[m] = "no"
    /\ m \in rows /\ m \in active /\ m \notin invited
    /\ Person(m) \notin erased
    /\ OpenRequests(Person(m)) = {}
    /\ signing' = [signing EXCEPT ![m] = "late"]
    /\ UNCHANGED <<teamVars, requestVars, personVars, workVars, settled, fresh>>

(* The session row commits, dated when its transaction began. *)
SessionStarts(m) ==
    /\ signing[m] # "no"
    /\ signing' = [signing EXCEPT ![m] = "no"]
    /\ fresh' = IF signing[m] = "late" /\ m \in rows THEN fresh \cup {m} ELSE fresh
    /\ settled' = IF signing[m] = "early" /\ m \in rows THEN settled \cup {m} ELSE settled
    /\ UNCHANGED <<teamVars, requestVars, personVars, workVars, left>>

(* Signing out, or the idle or absolute limit. *)
SessionEnds(m) ==
    /\ Spend("signOut")
    /\ m \in settled \cup fresh
    /\ settled' = settled \ {m} /\ fresh' = fresh \ {m}
    /\ UNCHANGED <<teamVars, requestVars, personVars, workVars, signing>>

-----------------------------------------------------------------------------
(* Who runs an organisation. *)

Rank(r) == CASE r = "staff" -> 1 [] r = "admin" -> 3 [] r = "owner" -> 4

Owners(ms) == {m \in ms : role[m] = "owner"}

ActiveOwners(o) == Owners({m \in rows \cap active : Organisation(m) = o})

(* would_strand_organisation: the last active owner, others still active.     *)
(* Someone invited counts, and so does someone who asked to be deleted.       *)
WouldStrand(m) ==
    /\ role[m] = "owner"
    /\ Colleagues(m) \cap active # {}
    /\ Owners(Colleagues(m) \cap active) = {}

Stranded(p) == {m \in Owners(RowsOf(p) \cap active) \ invited : WouldStrand(m)}

(* _guard_target: never yourself here, never your rank unless you both own. *)
MayManage(a, m) ==
    /\ Enters(a) /\ role[a] \in {"admin", "owner"}
    /\ m \in Colleagues(a)
    /\ Rank(role[m]) < Rank(role[a]) \/ (role[a] = "owner" /\ role[m] = "owner")

KeepsTheOwner(m) == role[m] = "owner" => Cardinality(ActiveOwners(Organisation(m))) > 1

Begin(move) ==
    /\ Spend("move")
    /\ Cardinality(moves) < MaxMoves
    /\ moves' = moves \cup {move}
    /\ UNCHANGED <<rows, role, active, invited, requestVars, personVars, workVars, sessionVars>>

BeginSetRole(a, m, to) ==
    /\ MayManage(a, m) /\ to # role[m] /\ Rank(to) <= Rank(role[a])
    /\ to # "owner" => KeepsTheOwner(m)
    /\ Begin([does |-> "setRole", who |-> m, to |-> to])

BeginSwitchOff(a, m) ==
    /\ MayManage(a, m) /\ m \in active /\ KeepsTheOwner(m)
    /\ Begin([does |-> "switchOff", who |-> m, to |-> role[m]])

BeginDelete(a, m) ==
    /\ MayManage(a, m) /\ KeepsTheOwner(m)
    /\ Begin([does |-> "delete", who |-> m, to |-> role[m]])

(* Closing your own access. *)
BeginLeave(m) ==
    /\ Enters(m) /\ ~WouldStrand(m)
    /\ Begin([does |-> "leave", who |-> m, to |-> role[m]])

(* The write: only the columns that change, whatever happened in between. *)
EndMove(move) ==
    /\ move \in moves
    /\ moves' = moves \ {move}
    /\ LET m == move.who IN
       IF m \notin rows
       THEN UNCHANGED <<rows, role, active, invited, sessionVars>>
       ELSE /\ rows' = IF move.does = "delete" THEN rows \ {m} ELSE rows
            /\ role' = IF move.does = "setRole" THEN [role EXCEPT ![m] = move.to] ELSE role
            /\ active' = IF move.does = "setRole" THEN active ELSE active \ {m}
            /\ SignedOutEverywhere({m})
            /\ UNCHANGED invited
    /\ UNCHANGED <<requestVars, personVars, workVars, left>>

(* A member is switched on again; an invitation is accepted. *)
SwitchOn(a, m) ==
    /\ Spend("move")
    /\ MayManage(a, m) /\ m \notin active
    /\ active' = active \cup {m}
    /\ UNCHANGED <<rows, role, invited, moves, requestVars, personVars, workVars, sessionVars>>

Accept(m) ==
    /\ m \in invited /\ m \in rows /\ m \in active
    /\ invited' = invited \ {m}
    /\ UNCHANGED <<rows, role, active, moves, requestVars, personVars, workVars, sessionVars, left>>

-----------------------------------------------------------------------------
(* Asking for an account to be deleted. *)

NoOpenIndex(r, p) == TRUE   \* a plausible bug: the migration without the index

(* uq_account_deletion_requests_open: at most one open request per account. *)
IndexAllows(r, p) == OpenRequests(p) \subseteq {r}

Stamped == {t \in Tabs : tab[t].at = "stamped"}

(* Tabs whose inserted request and stamps nobody else can see yet. *)
Uncommitted(p) == {t \in Stamped : tab[t].who = p}

(* request_account_deletion and file_request, what they read. *)
FileCheck(t, m) ==
    /\ Spend("file")
    /\ tab[t].at = "idle"
    /\ Enters(m)
    /\ LET p == Person(m) IN
       /\ Stranded(p) = {}
       /\ OpenRequests(p) = {}
       /\ tab' = [tab EXCEPT ![t] = [at |-> "checked", who |-> p, closes |-> FALSE]]
    /\ UNCHANGED <<teamVars, requestVars, personVars, desk, due, sessionVars>>

(* The row is inserted, the portal switched off and every membership stamped *)
(* with the time of this step; or the index refuses and all is rolled back.  *)
FileInsert(t) ==
    /\ tab[t].at = "checked"
    /\ LET p == tab[t].who IN
       /\ Uncommitted(p) = {}
       /\ Cardinality(Made) + Cardinality(Stamped) < MaxRequests
       /\ IF IndexAllows(0, p)
          THEN /\ tab' = [tab EXCEPT ![t].at = "stamped", ![t].closes = (portal[p] = "on")]
               /\ settled' = settled \cup {m \in fresh : Person(m) = p}
               /\ fresh' = {m \in fresh : Person(m) # p}
               /\ signing' = [m \in Members |->
                     IF Person(m) = p /\ signing[m] = "late" THEN "early" ELSE signing[m]]
          ELSE tab' = [tab EXCEPT ![t] = IdleTab] /\ UNCHANGED sessionVars
    /\ UNCHANGED <<teamVars, requestVars, personVars, desk, due, left>>

NewRequest == Cardinality(Made) + 1

OneMembership(p) ==   \* a plausible bug: the other organisations are forgotten
    {CHOOSE m \in Members : Person(m) = p}

EveryMembership(p) == {m \in Members : Person(m) = p}

FileCommit(t) ==
    /\ tab[t].at = "stamped"
    /\ LET p == tab[t].who
           ms == EveryMembership(p)
       IN
       /\ status' = [status EXCEPT ![NewRequest] = "requested"]
       /\ asker' = [asker EXCEPT ![NewRequest] = p]
       /\ closedPortal' = IF tab[t].closes THEN closedPortal \cup {NewRequest} ELSE closedPortal
       /\ portal' = IF tab[t].closes THEN [portal EXCEPT ![p] = "off"] ELSE portal
       /\ settled' = settled \ ms
       /\ signing' = [m \in Members |->
             IF m \in ms /\ signing[m] = "early" THEN "dead" ELSE signing[m]]
    /\ tab' = [tab EXCEPT ![t] = IdleTab]
    /\ UNCHANGED <<teamVars, ripe, waited, erased, desk, due, fresh, left>>

-----------------------------------------------------------------------------
(* The review. *)

(* approve_request: only a new request, and nobody's organisation stranded. *)
ReadToApprove(v, r) ==
    /\ Spend("decide")
    /\ desk[v] = EmptyDesk
    /\ status[r] = "requested"
    /\ Stranded(asker[r]) = {}
    /\ desk' = [desk EXCEPT ![v] = [does |-> "approve", request |-> r, reopens |-> FALSE]]
    /\ UNCHANGED <<teamVars, requestVars, personVars, tab, due, sessionVars>>

(* Writes by primary key; only the index can still refuse. *)
Approve(v) ==
    /\ desk[v].does = "approve"
    /\ LET r == desk[v].request IN
       /\ status[r] \in OpenStatuses \/ Uncommitted(asker[r]) = {}
       /\ IF IndexAllows(r, asker[r])
          THEN /\ status' = [status EXCEPT ![r] = "approved"]
               /\ ripe' = ripe \ {r}
          ELSE UNCHANGED <<status, ripe>>
    /\ desk' = [desk EXCEPT ![v] = EmptyDesk]
    /\ UNCHANGED <<teamVars, asker, closedPortal, waited, personVars, tab, due, sessionVars, left>>

ReopensNothing(r) == FALSE   \* a plausible bug: the portal is forgotten

(* What filing switched off is switched on again. *)
Reopens(r) == r \in closedPortal /\ portal[asker[r]] = "off"

(* reject_request, by a reviewer or by cancel-deletion-request. *)
ReadToReject(v, r) ==
    /\ Spend("decide")
    /\ desk[v] = EmptyDesk
    /\ status[r] \in OpenStatuses
    /\ desk' = [desk EXCEPT ![v] = [does |-> "reject", request |-> r, reopens |-> Reopens(r)]]
    /\ UNCHANGED <<teamVars, requestVars, personVars, tab, due, sessionVars>>

Reject(v) ==
    /\ desk[v].does = "reject"
    /\ LET r == desk[v].request
           p == asker[r]
       IN
       /\ desk[v].reopens => Uncommitted(p) = {}
       /\ IF desk[v].reopens /\ portal[p] = "none"
          THEN UNCHANGED <<requestVars, portal>>
          ELSE /\ status' = [status EXCEPT ![r] = "rejected"]
               /\ ripe' = ripe \ {r}
               /\ closedPortal' = closedPortal \ {r}
               /\ portal' = IF desk[v].reopens THEN [portal EXCEPT ![p] = "on"] ELSE portal
               /\ UNCHANGED <<asker, waited>>
    /\ desk' = [desk EXCEPT ![v] = EmptyDesk]
    /\ UNCHANGED <<teamVars, erased, tab, due, sessionVars, left>>

-----------------------------------------------------------------------------
(* The thirty days and the nightly run. *)

(* Thirty days pass: longer than any request, or any nightly run, takes. *)
GraceEnds(r) ==
    /\ status[r] = "approved" /\ r \notin ripe
    /\ \A v \in Reviewers : desk[v] = EmptyDesk
    /\ \A t \in Tabs : tab[t] = IdleTab
    /\ \A m \in Members : signing[m] = "no"
    /\ moves = {} /\ due = {}
    /\ ripe' = ripe \cup {r}
    /\ waited' = waited \cup {r}
    /\ UNCHANGED <<teamVars, status, asker, closedPortal, personVars, workVars,
                   sessionVars, left>>

NothingDue == {}   \* a plausible bug: what failed once is never listed again

AnyApproved == {r \in Requests : status[r] = "approved"}   \* a plausible bug: no grace

DueForPurge == {r \in ripe : status[r] = "approved"}

(* purge_accounts reads what is due once, in a transaction of its own. *)
ListDue ==
    /\ due = {} /\ DueForPurge # {}
    /\ due' = DueForPurge
    /\ UNCHANGED <<teamVars, requestVars, personVars, tab, desk, sessionVars, left>>

(* purge_account, one transaction for each: the status is not read again. *)
Purge(r) ==
    /\ r \in due
    /\ LET p == asker[r] IN
       /\ Uncommitted(p) = {}
       /\ erased' = erased \cup {p}
       /\ active' = active \ RowsOf(p)
       /\ invited' = invited \ RowsOf(p)
       /\ portal' = [portal EXCEPT ![p] = "none"]
       /\ SignedOutEverywhere(RowsOf(p))
    /\ status' = [status EXCEPT ![r] = "done"]
    /\ closedPortal' = closedPortal \ {r}
    /\ due' = due \ {r}
    /\ UNCHANGED <<rows, role, moves, asker, ripe, waited, tab, desk, left>>

(* It raised: that one is rolled back, and due again the next night. *)
PurgeFails(r) ==
    /\ Spend("fail")
    /\ r \in due
    /\ due' = due \ {r}
    /\ UNCHANGED <<teamVars, requestVars, personVars, tab, desk, sessionVars>>

-----------------------------------------------------------------------------

Sessions == \E m \in Members : SignIn(m) \/ SessionStarts(m) \/ SessionEnds(m)

Team ==
    \/ \E a, m \in Members :
          \/ \E to \in Roles : BeginSetRole(a, m, to)
          \/ BeginSwitchOff(a, m) \/ BeginDelete(a, m) \/ SwitchOn(a, m)
    \/ \E m \in Members : BeginLeave(m) \/ Accept(m)
    \/ \E move \in moves : EndMove(move)

Asking == \E t \in Tabs : FileInsert(t) \/ FileCommit(t) \/ \E m \in Members : FileCheck(t, m)

Review ==
    \E v \in Reviewers :
        \/ \E r \in Requests : ReadToApprove(v, r) \/ ReadToReject(v, r)
        \/ Approve(v) \/ Reject(v)

Nightly == ListDue \/ \E r \in Requests : GraceEnds(r) \/ Purge(r) \/ PurgeFails(r)

Next == Sessions \/ Team \/ Asking \/ Review \/ Nightly

Spec == Init /\ [][Next]_vars

(* Requests that were begun end, time passes, and the nightly run is run. *)
Fairness ==
    /\ \A m \in Members : WF_vars(SessionStarts(m))
    /\ WF_vars(\E move \in moves : EndMove(move))
    /\ \A t \in Tabs : WF_vars(FileCommit(t)) /\ WF_vars(FileInsert(t))
    /\ \A v \in Reviewers : WF_vars(Approve(v)) /\ WF_vars(Reject(v))
    /\ WF_vars(ListDue)
    /\ \A r \in Requests : WF_vars(GraceEnds(r)) /\ WF_vars(Purge(r))

FairSpec == Spec /\ Fairness

-----------------------------------------------------------------------------
(* Properties. *)

(* One open request per person, whatever two tabs, and a reviewer who       *)
(* approves what another has just rejected, do at the same moment.          *)
OneOpenRequest == \A p \in People : Cardinality(OpenRequests(p)) <= 1

(* While a request is open, no session that began before it was filed is    *)
(* alive in any organisation, nor can one in the making become alive.       *)
FilingEndsSessions ==
    \A p \in People : OpenRequests(p) # {} =>
        \A m \in Members : Person(m) = p => m \notin settled /\ signing[m] # "early"

(* A person's portal is off only while a request of theirs holds it off: a  *)
(* request that ends without deleting leaves it on, as filing found it,     *)
(* however reviewers, the operator and the nightly run meet.                *)
PortalComesBack ==
    \A p \in People : portal[p] = "off" =>
        \E r \in Requests : asker[r] = p /\ r \in closedPortal /\ status[r] \in OpenStatuses

(* Nobody is erased except on a request that a reviewer approved and whose  *)
(* thirty days passed, and an erased person enters nowhere.                 *)
ErasedWithConsent ==
    /\ \A p \in erased : \E r \in waited : asker[r] = p
    /\ \A m \in Members : Person(m) \in erased => ~Enters(m) /\ signing[m] \in {"no", "dead"}

(* An approved request does not wait for ever: it is carried out, unless    *)
(* somebody ends it first.                                                  *)
ApprovedIsCarriedOut ==
    \A r \in Requests : status[r] = "approved" ~> status[r] \in {"done", "rejected"}

(* The docstring of account_deletion.py on reject_request: it ends a        *)
(* request without deleting anything.                                       *)
RejectedIsKept ==
    [][\A r \in Requests : status[r] = "rejected" => status'[r] # "done"]_vars

(* The docstring of approve_request: refused when an organisation would be  *)
(* left without an owner, whatever anyone says.  An organisation that       *)
(* people still use therefore has an owner after every deletion.            *)
DeletionLeavesAnOwner ==
    [][\A o \in Organisations :
        erased' # erased /\ ActiveOwners(o) # {} /\ {m \in active' : Organisation(m) = o} # {}
            => ActiveOwners(o)' # {}]_vars
=============================================================================
