-------------------------------- MODULE SignIn --------------------------------
(***************************************************************************)
(* Signing in and out: tickets, sessions, switching organisation, founding *)
(* one, passwords and the links that reset them, and the second factor.    *)
(* A request that reads, decides and writes in one transaction is two      *)
(* steps here: what it read may be gone when it commits.                   *)
(***************************************************************************)
EXTENDS Accounts

tables == <<account, member, org, session, link, factor, minted>>

Proofs == {"confirm", "verify", "recovery", "disable"}   \* what a code is asked for

(* Password, suliko.ge's answer, or its one-time code: a ticket for the chooser.  Its lifetime is left out:
   a ticket that never expires opens all that one that does could open. *)
Login(p) ==
    /\ account[p] # None /\ ~account[p].linked /\ account[p].pw > 0
    /\ <<p, account[p].pw>> \notin ticket
    /\ Spend("signin")
    /\ ticket' = ticket \cup {<<p, account[p].pw>>}
    /\ UNCHANGED <<tables, clock, desk, overlapped>>

SsoExchange(p) ==
    /\ Connected
    /\ Spend("signin")
    /\ account' = UpsertFromSuliko(p)
    /\ ticket' = ticket \cup {<<p, account'[p].pw>>}
    /\ UNCHANGED <<member, org, session, link, factor, minted, clock, desk, overlapped>>

AnyTicket(p, pw) == TRUE   \* a plausible bug: a ticket outlives the password it was issued under

Matches(p, pw) == account[p] # None /\ pw = account[p].pw

(* A password of p is being set: it took its stamp and has not committed. *)
PasswordChanging(p) == \E k \in Desks : desk[k].step = "password" /\ desk[k].person = p

(* old: the session left behind, 0 at a sign-in; raced: history, for the property below. *)
Open(k, p, o, pw, old, raced, founding) ==
    /\ FreeSessions # {}
    /\ Goto(k, [step |-> "open", about |-> <<p, o, "session">>, id |-> Min(FreeSessions), person |-> p, org |-> o,
                pw |-> pw, old |-> old, founding |-> founding, dead |-> FALSE,
                raced |-> raced \/ PasswordChanging(p),
                passed |-> MfaSatisfied(p, o, IF founding THEN "owner" ELSE member[p][o].role)])

LoginSelect(k, t, o) ==
    LET p == t[1]
    IN  /\ desk[k] = Idle /\ Matches(p, t[2])
        /\ o \in Memberships(p)
        /\ Open(k, p, o, t[2], 0, FALSE, FALSE)
        /\ UNCHANGED <<tables, ticket, clock, overlapped, left>>

(* A new organisation: from the chooser, or the personal workspace at its first pick. *)
LoginCreateBureau(k, t, o) ==
    LET p == t[1]
    IN  /\ desk[k] = Idle /\ Matches(p, t[2])
        /\ org[o] = "none"
        /\ Spend("signin")
        /\ Open(k, p, o, t[2], 0, FALSE, TRUE)
        /\ UNCHANGED <<tables, ticket, clock, overlapped>>

(* From inside: the session is resolved in a transaction of its own, before the one that opens the next. *)
SwitchOrganisation(k, s) ==
    /\ desk[k] = Idle /\ ResolveSession(s)
    /\ Spend("signin")
    /\ Goto(k, [step |-> "switch", about |-> <<session[s].person, None, "switch">>,
                person |-> session[s].person, pw |-> session[s].pw, old |-> s,
                raced |-> session[s].raced \/ PasswordChanging(session[s].person)])
    /\ UNCHANGED <<tables, ticket, clock, overlapped>>

SwitchOpens(k, o) ==
    LET req == desk[k]
    IN  /\ req.step = "switch" /\ o \in Memberships(req.person)
        /\ Open(k, req.person, o, req.pw, req.old, req.raced, FALSE)
        /\ UNCHANGED <<tables, ticket, clock, overlapped, left>>

CreateOrganisation(k, o) ==
    LET req == desk[k]
    IN  /\ req.step = "switch" /\ org[o] = "none"
        /\ Open(k, req.person, o, req.pw, req.old, req.raced, TRUE)
        /\ UNCHANGED <<tables, ticket, clock, overlapped, left>>

(* The commit.  Two that picked one handle for a new organisation: the second breaks its uniqueness. *)
StartSession(k) ==
    LET req == desk[k]
        new == [person |-> req.person, org |-> req.org, pw |-> req.pw, live |-> ~req.dead, raced |-> req.raced,
                passed |-> req.passed, code |-> None]
        gone == Retired({req.old})
    IN  /\ req.step = "open"
        /\ session' = [gone EXCEPT ![req.id] = new]
        /\ IF req.founding
           THEN /\ org[req.org] = "none"
                /\ org' = [org EXCEPT ![req.org] = "usable"]
                /\ member' = [member EXCEPT ![req.person][req.org] = NewMember("owner", FALSE, None)]
           ELSE UNCHANGED <<org, member>>
        /\ Goto(k, Idle)
        /\ UNCHANGED <<account, ticket, link, factor, clock, minted, overlapped, left>>

(* What a request was to write is gone, or taken by another.  (One that fails for a reason of its own leaves
   the tables as they were.) *)
RollBack(k) ==
    LET req == desk[k]
        taken == CASE req.step \in {"switch", "lost"} -> TRUE
                   [] req.step = "open"   -> req.founding /\ org[req.org] # "none"
                   [] req.step \in Proofs -> factor[req.person][req.org].secret # req.factor.secret
                   [] OTHER               -> FALSE
    IN  /\ taken
        /\ Goto(k, Idle)
        /\ UNCHANGED <<tables, ticket, clock, overlapped, left>>

Logout(s) ==
    /\ ResolveSession(s)
    /\ Spend("signin")
    /\ session' = Retired({s})
    /\ UNCHANGED <<account, member, org, ticket, link, factor, clock, minted, desk, overlapped>>

(* Closed by default; an address that is known anywhere is refused. *)
Signup(p, o) ==
    /\ account[p] = None /\ org[o] = "none" /\ HasLinkRoom /\ FreeSessions # {}
    /\ Spend("signin")
    /\ minted' = minted + 1
    /\ account' = [account EXCEPT ![p] = NewAccount(minted', FALSE, FALSE)]
    /\ org' = [org EXCEPT ![o] = "usable"]
    /\ member' = [member EXCEPT ![p][o] = NewMember("owner", FALSE, None)]
    /\ link' = Issued({}, p, o, "verification")
    /\ session' = [session EXCEPT ![Min(FreeSessions)] =
                     [person |-> p, org |-> o, pw |-> minted', live |-> TRUE, raced |-> FALSE,
                      passed |-> ~RequiresMfa("owner"), code |-> None]]
    /\ UNCHANGED <<ticket, factor, clock, desk, overlapped>>

-----------------------------------------------------------------------------
(* Links. *)

Issue(k, p, o, purpose) ==
    /\ HasLinkRoom
    /\ Overlap(<<p, o, purpose>>)
    /\ Goto(k, [step |-> "issue", about |-> <<p, o, purpose>>, person |-> p, org |-> o,
                purpose |-> purpose, spent |-> Outstanding(p, o, purpose)])

(* The link goes to one of the memberships that are on; an account kept on suliko.ge gets none. *)
ForgotPassword(k, p, o) ==
    /\ desk[k] = Idle
    /\ account[p] # None /\ ~account[p].linked /\ account[p].pw # 0
    /\ member[p][o] # None /\ member[p][o].active
    /\ Spend("password")
    /\ Issue(k, p, o, "reset")
    /\ UNCHANGED <<tables, ticket, clock>>

ResendVerificationEmail(k, s) ==
    /\ desk[k] = Idle /\ ResolveSession(s) /\ ~account[session[s].person].verified
    /\ Spend("password")
    /\ Issue(k, session[s].person, session[s].org, "verification")
    /\ UNCHANGED <<tables, ticket, clock>>

CommitIssue(k) ==
    LET tx == desk[k]
    IN  /\ tx.step = "issue" /\ HasLinkRoom
        /\ link' = Issued(tx.spent, tx.person, tx.org, tx.purpose)
        /\ Goto(k, Idle)
        /\ UNCHANGED <<account, member, org, ticket, session, factor, clock, minted, overlapped, left>>

SpendLink(k, l, do, kills) ==
    LET about == <<link[l].person, link[l].org, link[l].purpose>>
    IN  /\ Overlap(about)
        /\ Goto(k, [step |-> do, about |-> about, person |-> link[l].person, org |-> link[l].org,
                    link |-> l, kills |-> kills])

(* Refused, and the link left as it was, when the password is kept on suliko.ge. *)
ResetPassword(k, l) ==
    /\ desk[k] = Idle /\ Consumable(l, "reset")
    /\ ~account[link[l].person].linked
    /\ SpendLink(k, l, "password", Begun(link[l].person, Orgs))
    /\ UNCHANGED <<tables, ticket, clock, left>>

VerifyEmail(k, l) ==
    /\ desk[k] = Idle /\ Consumable(l, "verification")
    /\ SpendLink(k, l, "address", {})
    /\ UNCHANGED <<tables, ticket, clock, left>>

AcceptInvitation(k, l) ==
    /\ desk[k] = Idle /\ Consumable(l, "invitation")
    /\ SpendLink(k, l, "accept", {})
    /\ UNCHANGED <<tables, ticket, clock, left>>

(* With the current password; every session goes, the caller's included.  It is the account that is written,
   and no membership that could be deleted meanwhile. *)
ChangePassword(k, s) ==
    LET p == session[s].person
    IN  /\ desk[k] = Idle /\ RequireMfa(s)
        /\ ~account[p].linked /\ account[p].pw > 0
        /\ Spend("password")
        /\ Goto(k, [step |-> "password", about |-> <<p, None, "password">>, person |-> p, org |-> None,
                    link |-> 0, kills |-> Begun(p, Orgs)])
        /\ UNCHANGED <<tables, ticket, clock, overlapped>>

(* A switch that resolved its session before this commit goes on with it. *)
Overtaken(k, kills, p) ==
    [j \in Desks |-> IF j = k THEN Idle
                     ELSE IF desk[j].step = "switch" /\ desk[j].person = p THEN [desk[j] EXCEPT !.raced = TRUE]
                     ELSE RetiredDesks(kills)[j]]

SetPassword(k) ==
    LET tx == desk[k]
        p == tx.person
    IN  /\ tx.step = "password"
        /\ minted' = minted + 1
        /\ account' = [account EXCEPT ![p].pw = minted', ![p].must = FALSE, ![p].verified = @ \/ tx.link # 0]
        /\ IF tx.link = 0 THEN UNCHANGED <<member, link>>
           ELSE /\ member' = [member EXCEPT ![p][tx.org].pending = FALSE]
                /\ link' = Consumed(tx.link)
        /\ session' = Retired(tx.kills)
        /\ desk' = Overtaken(k, tx.kills, p)
        /\ UNCHANGED <<org, ticket, factor, clock, overlapped, left>>

UseLink(k) ==
    LET tx == desk[k]
    IN  /\ tx.step \in {"address", "accept"}
        /\ link' = Consumed(tx.link)
        /\ IF tx.step = "accept" THEN member' = [member EXCEPT ![tx.person][tx.org].pending = FALSE] /\ UNCHANGED account
           ELSE account' = [account EXCEPT ![tx.person].verified = TRUE] /\ UNCHANGED member
        /\ Goto(k, Idle)
        /\ UNCHANGED <<org, ticket, session, factor, clock, minted, overlapped, left>>

-----------------------------------------------------------------------------
(***************************************************************************)
(* The second factor.  A code is the number of its time step; 0 stands for *)
(* a recovery code, and one is kept of each set.  Time passes between one  *)
(* answer and the next.                                                    *)
(***************************************************************************)
Replayed(f, n) == TRUE   \* a plausible bug: a code is good as long as its window lasts

NotReplayed(f, n) == n > f.last

CodeGood(f, n) == IF n = 0 THEN f.spare # 0 ELSE n \in (clock' - 1)..(clock' + 1) /\ NotReplayed(f, n)

(* Signed in, or waiting only because there is no factor yet. *)
EnrollingSession(s) ==
    /\ ResolveSession(s) /\ ~account[session[s].person].must
    /\ session[s].passed \/ factor[session[s].person][session[s].org].state # "on"

Enrol(s) ==
    LET p == session[s].person
        o == session[s].org
    IN  /\ EnrollingSession(s) /\ factor[p][o].state # "on"
        /\ Spend("mfa")
        /\ minted' = minted + 1
        /\ factor' = [factor EXCEPT ![p][o] = [NoFactor EXCEPT !.state = "unconfirmed", !.secret = minted']]
        /\ UNCHANGED <<account, member, org, ticket, session, link, clock, desk, overlapped>>

(* Which of the screens that take a code this session may use now. *)
MayAnswer(s, do) ==
    LET state == factor[session[s].person][session[s].org].state
    IN  CASE do = "confirm" -> EnrollingSession(s) /\ state = "unconfirmed"
          [] do = "verify" -> ResolveSession(s) /\ state = "on"
          [] do = "recovery" -> AuthenticatedSession(s) /\ state = "on"
          [] do = "disable" -> AuthenticatedSession(s) /\ state = "on" /\ ~RequiresMfa(RoleOf(s))

Prove(k, s, do, n) ==
    LET p == session[s].person
        o == session[s].org
    IN  /\ desk[k] = Idle /\ session[s] # None /\ MayAnswer(s, do)
        /\ clock' \in clock..MaxSteps
        /\ CodeGood(factor[p][o], n) /\ (do = "confirm" => n # 0)
        /\ Spend("mfa")
        /\ Overlap(<<p, o, "code">>)
        /\ Goto(k, [step |-> do, about |-> <<p, o, "code">>, person |-> p, org |-> o, session |-> s,
                    factor |-> factor[p][o], code |-> n])
        /\ UNCHANGED <<tables, ticket>>

(* The first code switches the factor on; every new set of recovery codes replaces the old one. *)
FactorAfter(do, f) ==
    CASE do = "verify" -> f
      [] do = "disable" -> NoFactor
      [] OTHER -> [f EXCEPT !.state = "on", !.spare = minted + 1]

(* The commit; a factor that was removed meanwhile leaves no row to write.  The session remembers its code. *)
Proved(k) ==
    LET tx == desk[k]
        f == factor[tx.person][tx.org]
        spent == IF tx.code = 0 THEN [f EXCEPT !.spare = 0] ELSE [f EXCEPT !.last = tx.code]
    IN  /\ tx.step \in Proofs
        /\ f.secret = tx.factor.secret /\ f.state # "off"
        /\ factor' = [factor EXCEPT ![tx.person][tx.org] = FactorAfter(tx.step, spent)]
        /\ minted' = IF tx.step \in {"confirm", "recovery"} THEN minted + 1 ELSE minted
        /\ session' = IF tx.step \in {"confirm", "verify"}
                      THEN [session EXCEPT ![tx.session].passed = TRUE,
                              ![tx.session].code = [of |-> IF tx.code = 0 THEN tx.factor.spare ELSE f.secret, at |-> tx.code]]
                      ELSE session
        /\ Goto(k, Idle)
        /\ UNCHANGED <<account, member, org, ticket, link, clock, overlapped, left>>
===============================================================================
