------------------------------- MODULE Members -------------------------------
(***************************************************************************)
(* Who belongs to an organisation: inviting, changing, switching off and   *)
(* removing people, leaving, and what the platform's superusers do to      *)
(* organisations from outside.  With the sign-in, the whole of the account *)
(* system.                                                                 *)
(***************************************************************************)
EXTENDS SignIn

Invite == {"manager", "admin", "owner", "superuser"}   \* who holds users.invite
Manage == {"admin", "owner", "superuser"}              \* who holds users.manage

(* a, acting in the organisation of the session, and what the permission asks for. *)
Acting(s, roles) == session[s] # None /\ AuthenticatedSession(s) /\ RoleOf(s) \in roles

GuardAssignable(actor, role) == role # "superuser" /\ RANK(role) <= RANK(actor)

(* Nobody acts on an account at or above their own rank, owners on each other excepted. *)
GuardTarget(s, q) ==
    LET actor == RoleOf(s)
        target == member[q][session[s].org].role
    IN  q = session[s].person
        \/ (target # "superuser" /\ (RANK(target) < RANK(actor) \/ (target = "owner" /\ actor = "owner")))

(* Whoever sent an invitation may send it again to their own rank. *)
GuardResend(s, q) ==
    LET row == member[q][session[s].org]
    IN  \/ GuardTarget(s, q)
        \/ row.role # "superuser" /\ RANK(row.role) <= RANK(RoleOf(s)) /\ row.by = session[s].person

(* An account made for an invitation that nobody has signed in to. *)
NeedsRegistration(a) == Connected /\ ~a.linked /\ a.pw = 0

-----------------------------------------------------------------------------
(* found: suliko.ge knows this person, who has never opened Office. *)
InviteUser(s, q, role, found) ==
    LET o == session[s].org
        made == IF account[q] # None THEN account
                ELSE IF Connected /\ found THEN UpsertFromSuliko(q)
                ELSE [account EXCEPT ![q] = NewAccount(IF Connected THEN 0 ELSE -1, FALSE, FALSE)]
    IN  /\ Acting(s, Invite) /\ GuardAssignable(RoleOf(s), role)
        /\ member[q][o] = None /\ HasLinkRoom
        /\ found => (account[q] = None /\ Connected)
        /\ Spend("manage")
        /\ account' = made
        /\ member' = [member EXCEPT ![q][o] = NewMember(role, TRUE, session[s].person)]
        /\ link' = Issued({}, q, o, IF account[q] # None \/ Connected THEN "invitation" ELSE "reset")
        /\ Overlap(<<None, o, "members">>)
        /\ UNCHANGED <<org, ticket, session, factor, clock, minted, desk>>

(* Whether the account has ever been somebody's. *)
Known(q) == account[q].linked \/ account[q].verified \/ \E t \in Sessions : session[t] # None /\ session[t].person = q

ResendInvitation(k, s, q) ==
    LET o == session[s].org
    IN  /\ desk[k] = Idle /\ Acting(s, Invite)
        /\ member[q][o] # None /\ GuardResend(s, q) /\ member[q][o].active
        /\ member[q][o].pending \/ NeedsRegistration(account[q])
        /\ Spend("manage")
        /\ Issue(k, q, o, IF NeedsRegistration(account[q]) \/ Known(q) THEN "invitation" ELSE "reset")
        /\ UNCHANGED <<tables, ticket, clock>>

(* What was about a membership goes with it, requests to write it included. *)
Writing(tx) == tx.step \notin {"idle", "lost", "switch", "open"}

Following(about, p, q, o) == IF about[1] = p /\ about[2] = o THEN <<q, o, about[3]>> ELSE about

(* The membership of p in o is q's from now on, with all that hangs on it; an account left without any goes. *)
Handed(p, q, o) ==
    /\ account' = [UpsertFromSuliko(q) EXCEPT ![p] = IF \E u \in Orgs \ {o} : member[p][u] # None THEN @ ELSE None]
    /\ member' = [member EXCEPT ![q][o] = member[p][o], ![p][o] = None]
    /\ link' = [l \in Links |-> IF link[l] # None /\ link[l].person = p /\ link[l].org = o
                                THEN [link[l] EXCEPT !.person = q] ELSE link[l]]
    /\ factor' = [factor EXCEPT ![q][o] = factor[p][o], ![p][o] = NoFactor]
    /\ overlapped' = {Following(about, p, q, o) : about \in overlapped}
    /\ desk' = [k \in Desks |-> IF Writing(desk[k]) /\ desk[k].person = p /\ desk[k].org = o
                                THEN [desk[k] EXCEPT !.person = q, !.about = Following(@, p, q, o)] ELSE desk[k]]

(* The membership goes to the sign-in its person really uses, and what the invitation made is removed. *)
AttachSulikoAccount(s, p, q) ==
    LET o == session[s].org
    IN  /\ Connected /\ Acting(s, Invite)
        /\ member[p][o] # None /\ GuardResend(s, p) /\ member[p][o].active
        /\ NeedsRegistration(account[p])
        /\ q # p => member[q][o] = None
        /\ Spend("manage")
        /\ IF q = p THEN account' = UpsertFromSuliko(p) /\ UNCHANGED <<member, link, factor, desk, overlapped>>
           ELSE Handed(p, q, o)
        /\ UNCHANGED <<org, ticket, session, clock, minted>>

-----------------------------------------------------------------------------
(* Changing a membership: the checks, and the commit they were made for. *)

Change(k, q, o, do) ==
    /\ Overlap(<<None, o, "members">>)
    /\ Goto(k, [step |-> "member", about |-> <<None, o, "members">>, person |-> q, org |-> o, change |-> do,
                kills |-> Begun(q, {o})])

OwnsIt(p, o) == member[p][o] # None /\ member[p][o].active /\ member[p][o].role = "owner"

(* _active_owner_count: an owner who has not accepted the invitation counts. *)
NotLastOwner(q, o) == Cardinality({p \in People : OwnsIt(p, o)}) > 1

(* do: a role, "on", "off", or "access" when only the permissions change. *)
UpdateUser(k, s, q, do) ==
    LET o == session[s].org
        row == member[q][o]
    IN  /\ desk[k] = Idle /\ Acting(s, Manage)
        /\ row # None /\ GuardTarget(s, q) /\ q # session[s].person
        /\ do \in Roles => (do # row.role /\ GuardAssignable(RoleOf(s), do))
        /\ do = "access" => GuardAssignable(RoleOf(s), row.role)
        /\ do \in {"on", "off"} => row.active = (do = "off")
        /\ (row.role = "owner" /\ (do = "off" \/ do \in Roles)) => NotLastOwner(q, o)
        /\ Spend("manage")
        /\ Change(k, q, o, do)
        /\ UNCHANGED <<tables, ticket, clock>>

DeleteUser(k, s, q) ==
    LET o == session[s].org
    IN  /\ desk[k] = Idle /\ Acting(s, Manage)
        /\ member[q][o] # None /\ q # session[s].person /\ GuardTarget(s, q)
        /\ member[q][o].role = "owner" => NotLastOwner(q, o)
        /\ Spend("manage")
        /\ Change(k, q, o, "delete")
        /\ UNCHANGED <<tables, ticket, clock>>

NeverStrands(p, o) == FALSE   \* a plausible bug: an owner may always leave

(* The last active owner of an organisation other people use. *)
WouldStrand(p, o) == member[p][o].role = "owner" /\ Others(p, o, Roles) # {} /\ Others(p, o, {"owner"}) = {}

(* With the password, or suliko.ge's word for it. *)
LeaveOrganisation(k, s) ==
    LET p == session[s].person
        o == session[s].org
    IN  /\ desk[k] = Idle /\ Acting(s, Roles) /\ ~WouldStrand(p, o)
        /\ Spend("manage")
        /\ Change(k, p, o, "off")
        /\ UNCHANGED <<tables, ticket, clock>>

ResetUserMfa(s, q) ==
    LET o == session[s].org
    IN  /\ Acting(s, Manage)
        /\ member[q][o] # None /\ q # session[s].person /\ GuardTarget(s, q)
        /\ Spend("manage")
        /\ factor' = [factor EXCEPT ![q][o] = NoFactor]
        /\ session' = Retired(Begun(q, {o}))
        /\ desk' = RetiredDesks(Begun(q, {o}))
        /\ UNCHANGED <<account, member, org, ticket, link, clock, minted, overlapped>>

(* Only what changed is written. *)
CommitChange(k) ==
    LET tx == desk[k]
        q == tx.person
        o == tx.org
        kills == IF tx.change = "on" THEN {} ELSE tx.kills
    IN  /\ tx.step = "member"
        /\ IF tx.change = "delete" THEN Removed(q, o) /\ desk' = [Bereft(q, o) EXCEPT ![k] = Idle]
           ELSE /\ member' = CASE tx.change = "on" -> [member EXCEPT ![q][o].active = TRUE]
                               [] tx.change = "off" -> [member EXCEPT ![q][o].active = FALSE]
                               [] tx.change = "access" -> member
                               [] OTHER -> [member EXCEPT ![q][o].role = tx.change]
                /\ session' = Retired(kills)
                /\ desk' = [RetiredDesks(kills) EXCEPT ![k] = Idle]
                /\ UNCHANGED <<link, factor>>
        /\ UNCHANGED <<account, org, ticket, clock, minted, overlapped, left>>

-----------------------------------------------------------------------------
(* The platform. *)

SetTenantStatus(s, o) ==
    /\ Acting(s, {"superuser"}) /\ org[o] # "none"
    /\ o = session[s].org => org[o] = "suspended"
    /\ Spend("platform")
    /\ org' = [org EXCEPT ![o] = IF @ = "usable" THEN "suspended" ELSE "usable"]
    /\ UNCHANGED <<account, member, ticket, session, link, factor, clock, minted, desk, overlapped>>

(* A new account gets a one-time password that must be changed. *)
CreateTenantUser(s, q, o, role) ==
    /\ Acting(s, {"superuser"}) /\ org[o] # "none" /\ role # "superuser"
    /\ member[q][o] = None
    /\ Spend("platform")
    /\ IF account[q] # None THEN UNCHANGED <<account, minted>>
       ELSE /\ minted' = minted + 1
            /\ account' = [account EXCEPT ![q] = [NewAccount(minted', FALSE, TRUE) EXCEPT !.verified = TRUE]]
    /\ member' = [member EXCEPT ![q][o] = NewMember(role, FALSE, None)]
    /\ Overlap(<<None, o, "members">>)
    /\ UNCHANGED <<org, ticket, session, link, factor, clock, desk>>

DeleteTenantUser(k, s, q, o) ==
    /\ desk[k] = Idle /\ Acting(s, {"superuser"})
    /\ member[q][o] # None /\ member[q][o].role # "superuser"
    /\ <<q, o>> # <<session[s].person, session[s].org>>
    /\ member[q][o].role = "owner" => Others(q, o, {"owner"}) # {}
    /\ Spend("platform")
    /\ Change(k, q, o, "delete")
    /\ UNCHANGED <<tables, ticket, clock>>

(* A membership that is there is promoted, whatever it was. *)
GrantSuperuser(s, q) ==
    LET o == session[s].org
        row == member[q][o]
        already == row # None /\ row.role = "superuser" /\ row.active
        kills == IF row = None \/ already THEN {} ELSE Begun(q, {o})
    IN  /\ Connected /\ Acting(s, {"superuser"})
        /\ Spend("platform")
        /\ account' = UpsertFromSuliko(q)
        /\ member' = IF already THEN member
                     ELSE [member EXCEPT ![q][o] =
                             NewMember("superuser", FALSE, IF row = None THEN None ELSE row.by)]
        /\ session' = Retired(kills)
        /\ desk' = RetiredDesks(kills)
        /\ UNCHANGED <<org, ticket, link, factor, clock, minted, overlapped>>

RevokeSuperuser(k, s, q, o) ==
    /\ desk[k] = Idle /\ Acting(s, {"superuser"})
    /\ member[q][o] # None /\ member[q][o].role = "superuser" /\ q # session[s].person
    /\ Spend("platform")
    /\ Change(k, q, o, "delete")
    /\ UNCHANGED <<tables, ticket, clock>>

-----------------------------------------------------------------------------
Init ==
    /\ account = [p \in People |-> IF \E o \in Orgs : Start[p][o] # None
                                   THEN [NewAccount(1, FALSE, FALSE) EXCEPT !.verified = TRUE] ELSE None]
    /\ member = [p \in People |-> [o \in Orgs |-> IF Start[p][o] = None THEN None
                                                  ELSE NewMember(Start[p][o], FALSE, None)]]
    /\ org = [o \in Orgs |-> IF \E p \in People : Start[p][o] # None THEN "usable" ELSE "none"]
    /\ ticket = {}
    /\ session = [s \in Sessions |->
          IF s > Len(SignedIn) THEN None
          ELSE [person |-> SignedIn[s][1], org |-> SignedIn[s][2], pw |-> 1, live |-> TRUE, raced |-> FALSE,
                passed |-> TRUE, code |-> None]]
    /\ link = [l \in Links |-> None]
    /\ factor = [p \in People |-> [o \in Orgs |->
          IF \E i \in DOMAIN Enrolled : Enrolled[i] = <<p, o>>
          THEN LET i == CHOOSE j \in DOMAIN Enrolled : Enrolled[j] = <<p, o>>
               IN  [state |-> "on", secret |-> 2 * i, last |-> 0, spare |-> 2 * i + 1]
          ELSE NoFactor]]
    /\ clock = 1 /\ minted = 2 * Len(Enrolled) + 1
    /\ desk = [k \in Desks |-> Idle]
    /\ overlapped = {}
    /\ left = Budget

Entering ==
    \/ \E p \in People : Login(p) \/ SsoExchange(p) \/ \E o \in Orgs : Signup(p, o)
    \/ \E t \in ticket, k \in Desks, o \in Orgs : LoginSelect(k, t, o) \/ LoginCreateBureau(k, t, o)
    \/ \E k \in Desks, s \in Sessions : SwitchOrganisation(k, s) \/ ResendVerificationEmail(k, s) \/ ChangePassword(k, s)
    \/ \E k \in Desks, o \in Orgs : SwitchOpens(k, o) \/ CreateOrganisation(k, o)
    \/ \E s \in Sessions : Logout(s)
    \/ \E k \in Desks, p \in People, o \in Orgs : ForgotPassword(k, p, o)
    \/ \E k \in Desks, l \in Links : ResetPassword(k, l) \/ VerifyEmail(k, l) \/ AcceptInvitation(k, l)

Held == {s \in Sessions : session[s] # None}

Proving ==
    \/ \E s \in Held : Enrol(s)
    \/ \E k \in Desks, s \in Held, n \in Steps, do \in Proofs : Prove(k, s, do, n)

Finishing ==
    \E k \in Desks : StartSession(k) \/ RollBack(k) \/ CommitIssue(k) \/ SetPassword(k) \/ UseLink(k) \/ Proved(k) \/ CommitChange(k)

Managing ==
    \E s \in Held, q \in People :
        \/ \E role \in Offered, found \in BOOLEAN : InviteUser(s, q, role, found)
        \/ \E p \in People : AttachSulikoAccount(s, q, p)
        \/ ResetUserMfa(s, q)
        \/ \E k \in Desks : ResendInvitation(k, s, q) \/ DeleteUser(k, s, q)
                            \/ \E do \in Offered \cup {"on", "off", "access"} : UpdateUser(k, s, q, do)

Leaving == \E k \in Desks, s \in Held : LeaveOrganisation(k, s)

Operating ==
    \E s \in Held :
        \/ \E o \in Orgs : SetTenantStatus(s, o)
        \/ \E q \in People : GrantSuperuser(s, q)
        \/ \E q \in People, o \in Orgs :
              \/ \E role \in Offered : CreateTenantUser(s, q, o, role)
              \/ \E k \in Desks : DeleteTenantUser(k, s, q, o) \/ RevokeSuperuser(k, s, q, o)

Next ==
    \/ Entering \/ Finishing
    \/ left.all > 0 /\ (Proving \/ Managing \/ Leaving \/ Operating)

Spec == Init /\ [][Next]_vars

-----------------------------------------------------------------------------
(* No step takes the last active owner from an organisation other people still use, whatever is changed,
   switched off, deleted or left, in any order (update_user, delete_user, delete_tenant_user,
   leave_organisation, attach_suliko_account).  Owners are counted as the code counts them, an invited one
   included; an organisation the platform's own people sit in, and one whose memberships two requests changed
   at once, are outside the promise. *)
SomeoneRunsIt ==
    [][\A o \in Orgs :
          (\E p \in People : OwnsIt(p, o)) /\ (\E p \in People : member'[p][o] # None /\ member'[p][o].active)
            => \/ <<None, o, "members">> \in overlapped'
               \/ \E p \in People : OwnsIt(p, o)' \/ (member'[p][o] # None /\ member'[p][o].role = "superuser")]_vars

(* After a password was changed or reset, nothing that rests on the old one is open: no session signed in
   with it, in any organisation, and none opened since from a ticket or by switching (reset_password,
   change_password, _account_from_ticket), unless that session was being opened while it happened. *)
OldPasswordOpensNothing ==
    \A s \in Sessions :
        LET held == session[s]
        IN  held # None /\ ResolveSession(s) /\ account[held.person].pw # 0
              => held.raced \/ held.pw = account[held.person].pw

(* A mailed link is good once, and the newest replaces the rest (reset_tokens.issue and consume), unless two
   requests about it ran at once. *)
LinkSpentOnce ==
    \A l \in Links : link[l] # None =>
        \/ <<link[l].person, link[l].org, link[l].purpose>> \in overlapped
        \/ link[l].uses <= 1 /\ Cardinality(Outstanding(link[l].person, link[l].org, link[l].purpose)) <= 1

(* One code, of the authenticator or of the recovery list, releases one session (verify_mfa, confirm),
   unless two were answered at once. *)
CodeUsedOnce ==
    \A s, t \in Sessions :
        s # t /\ session[s] # None /\ session[t] # None /\ session[s].code # None /\ session[s].code = session[t].code
          => <<session[s].person, session[s].org, "code">> \in overlapped
===============================================================================
