------------------------------- MODULE Accounts -------------------------------
(***************************************************************************)
(* The people of Suliko Office: accounts and their passwords, memberships  *)
(* of organisations, sessions, mailed links and second factors, as the     *)
(* tables hold them, and what every request does with them.                *)
(*                                                                         *)
(* An account's password is a number (0 verifies as nothing: the password  *)
(* is kept on suliko.ge, or there is none yet; -1 is one nobody knows).  Revoking stamps a time on *)
(* a membership and retires the sessions whose transaction began before    *)
(* it; a request that revokes therefore carries the sessions that had      *)
(* begun, open or still opening, when it took its stamp.                   *)
(***************************************************************************)
EXTENDS Integers, Sequences, FiniteSets, FiniteSetsExt

CONSTANTS
    People,
    Orgs,
    Start,             \* member at first: a function from people to organisations to a role, or None
    SignedIn,          \* who has signed in, and where: a sequence of <<person, organisation>>
    Enrolled,          \* who has a second factor, and where: a sequence as well
    Offered,           \* the roles that are given out
    Connected,         \* Office is connected to suliko.ge
    RequireEnrolment,  \* MFA_REQUIRE_ENROLMENT
    Desks,             \* requests that may be under way at once
    MaxSessions, MaxLinks, MaxSteps,
    Budget,            \* how often each kind of thing is done, and all of them together
    None

Roles == {"staff", "manager", "admin", "owner", "superuser"}

RANK(role) == CASE role = "staff" -> 1 [] role = "manager" -> 2 [] role = "admin" -> 3
                [] role = "owner" -> 4 [] role = "superuser" -> 5

ASSUME AccountsAssumptions ==
    /\ Start \in [People -> [Orgs -> Roles \cup {None}]]
    /\ SignedIn \in Seq(People \X Orgs) /\ Len(SignedIn) <= MaxSessions
    /\ Enrolled \in Seq(People \X Orgs)
    /\ \A i, j \in DOMAIN Enrolled : Enrolled[i] = Enrolled[j] => i = j
    /\ \A i \in DOMAIN SignedIn : Start[SignedIn[i][1]][SignedIn[i][2]] # None
    /\ \A i \in DOMAIN Enrolled : Start[Enrolled[i][1]][Enrolled[i][2]] # None
    /\ Offered \subseteq Roles
    /\ {Connected, RequireEnrolment} \subseteq BOOLEAN
    /\ {MaxSessions, MaxLinks, MaxSteps} \subseteq Nat

Sessions == 1..MaxSessions
Links    == 1..MaxLinks
Steps    == 0..MaxSteps

Purposes == {"reset", "verification", "invitation"}

AccountRows == [pw : Int, linked : BOOLEAN, must : BOOLEAN, verified : BOOLEAN]
MemberRows  == [role : Roles, active : BOOLEAN, pending : BOOLEAN, by : People \cup {None}]
FactorRows  == [state : {"off", "unconfirmed", "on"}, secret : Nat, last : Int, spare : Nat]
Codes       == [of : Nat, at : Steps]
SessionRows == [person : People, org : Orgs, pw : Int, live : BOOLEAN, raced : BOOLEAN, passed : BOOLEAN,
                code : Codes \cup {None}]
LinkRows    == [person : People, org : Orgs, purpose : Purposes, used : BOOLEAN, uses : Nat]

ASSUME NoneAssumption ==   \* where a row, a person or an organisation could be, None says there is none
    None \notin AccountRows \cup MemberRows \cup Codes \cup SessionRows \cup LinkRows \cup People \cup Orgs

VARIABLES
    account,   \* accounts
    member,    \* users: member[p][o], None where p is not in o
    org,       \* tenants: "none" until founded, "usable" or "suspended"
    ticket,    \* sign-in tickets handed out and not expired: <<person, password>>
    session,   \* sessions
    link,      \* password_reset_tokens
    factor,    \* mfa_methods and mfa_recovery_codes of a membership
    clock,     \* the time step of one-time codes
    minted,    \* passwords, secrets and sets of recovery codes made so far
    desk,      \* desk[k]: the request under way, and what two at once would be about: <<person, org, what>>
    overlapped,  \* history: what two requests at once were about
    left       \* what may still be done

vars == <<account, member, org, ticket, session, link, factor, clock, minted, desk, overlapped, left>>

Idle == [step |-> "idle"]

(* The membership a request works on was deleted under it: nothing is left for it to write to. *)
Lost == [step |-> "lost"]

Goto(k, where) == desk' = [desk EXCEPT ![k] = where]

Spend(what) == left[what] > 0 /\ left.all > 0 /\ left' = [left EXCEPT ![what] = @ - 1, !.all = @ - 1]

-----------------------------------------------------------------------------
NewAccount(pw, linked, must) == [pw |-> pw, linked |-> linked, must |-> must, verified |-> linked]

(* by: who recorded the invitation. *)
NewMember(role, pending, by) == [role |-> role, active |-> TRUE, pending |-> pending, by |-> by]

NoFactor == [state |-> "off", secret |-> 0, last |-> -1, spare |-> 0]

(* Everything that signs in with suliko.ge ends here: the account is that person's, without a password here,
   the one it had included. *)
UpsertFromSuliko(p) ==
    IF account[p] # None /\ account[p].linked THEN account
    ELSE [account EXCEPT ![p] = NewAccount(0, TRUE, FALSE)]

(* The organisations someone can enter right now. *)
Memberships(p) ==
    {o \in Orgs : member[p][o] # None /\ member[p][o].active /\ ~member[p][o].pending /\ org[o] = "usable"}

Others(p, o, roles) ==
    {q \in People \ {p} : member[q][o] # None /\ member[q][o].active /\ member[q][o].role \in roles}

-----------------------------------------------------------------------------
(* Sessions. *)

Opening == {desk[k].id : k \in {j \in Desks : desk[j].step = "open"}}

FreeSessions == {s \in Sessions : session[s] = None} \ Opening

Begun(p, orgs) ==
    {s \in Sessions : session[s] # None /\ session[s].person = p /\ session[s].org \in orgs}
        \cup {desk[k].id : k \in {j \in Desks : desk[j].step = "open" /\ desk[j].person = p /\ desk[j].org \in orgs}}

Retired(kills) ==
    [s \in Sessions |-> IF s \in kills /\ session[s] # None THEN [session[s] EXCEPT !.live = FALSE] ELSE session[s]]

RetiredDesks(kills) ==
    [k \in Desks |-> IF desk[k].step = "open" /\ desk[k].id \in kills THEN [desk[k] EXCEPT !.dead = TRUE] ELSE desk[k]]

(* A token that still opens something, whether or not its second factor is answered. *)
ResolveSession(s) ==
    /\ session[s] # None /\ session[s].live
    /\ session[s].org \in Memberships(session[s].person)

RoleOf(s) == member[session[s].person][session[s].org].role

RequireMfa(s) == ResolveSession(s) /\ session[s].passed

(* The gate every business endpoint sits behind. *)
AuthenticatedSession(s) == RequireMfa(s) /\ ~account[session[s].person].must

RequiresMfa(role) == RequireEnrolment /\ role \in {"admin", "owner", "superuser"}

(* Whether a session of this membership may go on without a challenge. *)
MfaSatisfied(p, o, role) == factor[p][o].state # "on" /\ ~RequiresMfa(role)

-----------------------------------------------------------------------------
(***************************************************************************)
(* Mailed links: the newest of a purpose for a membership works, once.     *)
(***************************************************************************)
Outstanding(p, o, purpose) ==
    {l \in Links : link[l] # None /\ link[l].person = p /\ link[l].org = o /\ link[l].purpose = purpose /\ ~link[l].used}

HasLinkRoom == \E l \in Links : link[l] = None

(* spent: the links that were outstanding when the request looked. *)
Issued(spent, p, o, purpose) ==
    LET fresh == Min({l \in Links : link[l] = None})
    IN  [l \in Links |->
            IF l = fresh THEN [person |-> p, org |-> o, purpose |-> purpose, used |-> FALSE, uses |-> 0]
            ELSE IF l \in spent /\ link[l] # None THEN [link[l] EXCEPT !.used = TRUE] ELSE link[l]]

NeverUsed(l) == FALSE   \* a plausible bug: a link that was spent is not refused

UsedUp(l) == link[l].used

(* What consume() looks at; the membership must be switched on. *)
Consumable(l, purpose) ==
    /\ link[l] # None /\ link[l].purpose = purpose /\ ~UsedUp(l)
    /\ member[link[l].person][link[l].org].active

Consumed(l) == [link EXCEPT ![l].used = TRUE, ![l].uses = @ + 1]

(* Two requests about the same thing that are under way together have not seen what the other does. *)
Overlap(what) ==
    overlapped' = IF \E k \in Desks : desk[k] \notin {Idle, Lost} /\ desk[k].about = what
                  THEN overlapped \cup {what} ELSE overlapped

(* What is deleted with a membership, and the requests that are left with nothing. *)
LinksWithout(p, o) ==
    [l \in Links |-> IF link[l] # None /\ link[l].person = p /\ link[l].org = o THEN None ELSE link[l]]

Removed(p, o) ==
    /\ member' = [member EXCEPT ![p][o] = None]
    /\ link' = LinksWithout(p, o)
    /\ factor' = [factor EXCEPT ![p][o] = NoFactor]
    /\ session' = Retired(Begun(p, {o}))

Bereft(p, o) ==
    [k \in Desks |-> IF desk[k].step \notin {"idle", "lost", "switch"} /\ desk[k].person = p /\ desk[k].org = o
                     THEN Lost ELSE desk[k]]
===============================================================================
