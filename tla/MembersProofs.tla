---------------------------- MODULE MembersProofs ----------------------------
(***************************************************************************)
(* What passwords, links and codes open, for every number of people,       *)
(* organisations, sessions and requests under way.                         *)
(***************************************************************************)
EXTENDS Members, FiniteSetTheorems, WellFoundedInduction, TLAPS

(* What a request under way has at its desk. *)
Abouts == (People \cup {None}) \X (Orgs \cup {None}) \X (Purposes \cup {"session", "switch", "password", "members", "code"})

Openings == [step : {"open"}, about : Abouts, id : Sessions, person : People, org : Orgs, pw : Int,
             old : Sessions \cup {0}, founding : BOOLEAN, dead : BOOLEAN, raced : BOOLEAN, passed : BOOLEAN]

Switches == [step : {"switch"}, about : Abouts, person : People, pw : Int, old : Sessions, raced : BOOLEAN]

Issues == [step : {"issue"}, about : Abouts, person : People, org : Orgs, purpose : Purposes, spent : SUBSET Links]

Uses == [step : {"password", "address", "accept"}, about : Abouts, person : People, org : Orgs \cup {None},
         link : Links \cup {0}, kills : SUBSET Sessions]

Changes == [step : {"member"}, about : Abouts, person : People, org : Orgs,
            change : Roles \cup {"on", "off", "access", "delete"}, kills : SUBSET Sessions]

Answers == [step : Proofs, about : Abouts, person : People, org : Orgs, session : Sessions,
            factor : FactorRows, code : Steps]

TypeOK ==
    /\ account \in [People -> AccountRows \cup {None}]
    /\ member \in [People -> [Orgs -> MemberRows \cup {None}]]
    /\ org \in [Orgs -> {"none", "usable", "suspended"}]
    /\ ticket \subseteq People \X Int
    /\ session \in [Sessions -> SessionRows \cup {None}]
    /\ link \in [Links -> LinkRows \cup {None}]
    /\ factor \in [People -> [Orgs -> FactorRows]]
    /\ minted \in Nat
    /\ desk \in [Desks -> {Idle, Lost} \cup Openings \cup Switches \cup Issues \cup Uses \cup Changes \cup Answers]

-----------------------------------------------------------------------------
(* A member has an account, and belongs to an organisation that was founded.  Without suliko.ge every account *)
(* has a password here, if one that nobody knows.                                                             *)
MembersAgree ==
    /\ \A p \in People, o \in Orgs : member[p][o] # None => account[p] # None /\ org[o] # "none"
    /\ ~Connected => \A p \in People : account[p] # None => account[p].pw # 0

(* Somebody has signed in to this account, or can: it is not the placeholder of an invitation. *)
Claimed(p) == account[p] # None /\ (account[p].linked \/ account[p].pw # 0)

(* Requests only the owner of an account makes. *)
Personal(tx) ==
    \/ tx.step \in Proofs \cup {"open", "switch", "password", "address"}
    \/ tx.step = "issue" /\ tx.purpose # "invitation"

ClaimsAgree ==
    /\ \A s \in Sessions : session[s] # None => Claimed(session[s].person)
    /\ \A l \in Links : link[l] # None /\ link[l].purpose # "invitation" => Claimed(link[l].person)
    /\ \A t \in ticket : t[2] = 0 => Claimed(t[1])
    /\ \A k \in Desks : Personal(desk[k]) => Claimed(desk[k].person)

(* A session being opened has an id of its own. *)
OpeningsAgree ==
    \A k \in Desks : desk[k].step = "open" =>
        /\ session[desk[k].id] = None
        /\ \A j \in Desks \ {k} : desk[j].step = "open" => desk[j].id # desk[k].id

(* What rests on password pw of p rests on the present one, unless the change was under way. *)
Current(p, pw, raced) == raced \/ account[p].pw = 0 \/ pw = account[p].pw

(* A request that sets the password of p will end session s. *)
Covers(tx, s, p, raced) == tx.step = "password" /\ tx.person = p => raced \/ s \in tx.kills

PasswordsAgree ==
    /\ \A s \in Sessions : session[s] # None /\ session[s].live =>
          /\ Current(session[s].person, session[s].pw, session[s].raced)
          /\ \A k \in Desks : Covers(desk[k], s, session[s].person, session[s].raced)
    /\ \A j \in Desks : desk[j].step = "open" /\ ~desk[j].dead =>
          /\ Current(desk[j].person, desk[j].pw, desk[j].raced)
          /\ \A k \in Desks : Covers(desk[k], desk[j].id, desk[j].person, desk[j].raced)
    /\ \A j \in Desks : desk[j].step = "switch" => Current(desk[j].person, desk[j].pw, desk[j].raced)

-----------------------------------------------------------------------------
(* Requests that write a membership or what hangs on it; nobody writes one that is gone. *)
OnMember(tx) ==
    tx.step \in Proofs \cup {"issue", "address", "accept", "member"} \/ (tx.step = "password" /\ tx.link # 0)

RowsAgree ==
    /\ \A l \in Links : link[l] # None => member[link[l].person][link[l].org] # None
    /\ \A k \in Desks : OnMember(desk[k]) => desk[k].org \in Orgs /\ member[desk[k].person][desk[k].org] # None

Key(l) == <<link[l].person, link[l].org, link[l].purpose>>

PurposeOf(step) == CASE step = "password" -> "reset" [] step = "address" -> "verification" [] step = "accept" -> "invitation"

(* Requests that spend a link, make one, or answer with a code. *)
Spends(tx) == tx.step \in {"password", "address", "accept"} /\ tx.link # 0
Guarded(tx) == Spends(tx) \/ tx.step = "issue" \/ tx.step \in Proofs

AboutsAgree ==
    \A k \in Desks :
        /\ Spends(desk[k]) => /\ link[desk[k].link] # None
                              /\ desk[k].about = Key(desk[k].link)
                              /\ desk[k].about = <<desk[k].person, desk[k].org, PurposeOf(desk[k].step)>>
        /\ desk[k].step \in {"address", "accept"} => desk[k].link # 0
        /\ desk[k].step = "issue" => /\ desk[k].about = <<desk[k].person, desk[k].org, desk[k].purpose>>
                                     /\ \A l \in desk[k].spent : link[l] # None /\ Key(l) = desk[k].about
        /\ desk[k].step \in Proofs => desk[k].about = <<desk[k].person, desk[k].org, "code">>
        /\ \A j \in Desks \ {k} :
              Guarded(desk[k]) /\ Guarded(desk[j]) /\ desk[k].about = desk[j].about => desk[k].about \in overlapped

(* Outside what two requests were about at once, a link in use is unspent, and a new one replaces all there are. *)
LinksAgree ==
    /\ \A l \in Links : link[l] # None /\ Key(l) \notin overlapped =>
          /\ link[l].uses <= 1 /\ (~link[l].used => link[l].uses = 0)
          /\ \A m \in Links : link[m] # None /\ Key(m) = Key(l) /\ ~link[m].used /\ ~link[l].used => m = l
    /\ \A k \in Desks : Guarded(desk[k]) /\ desk[k].about \notin overlapped =>
          /\ Spends(desk[k]) => ~link[desk[k].link].used
          /\ desk[k].step = "issue" =>
                \A l \in Links : link[l] # None /\ Key(l) = desk[k].about /\ ~link[l].used => l \in desk[k].spent

-----------------------------------------------------------------------------
(* A factor that is not off has a secret of its own. *)
FactorsAgree ==
    /\ \A p \in People, o \in Orgs : factor[p][o].state # "off" => factor[p][o].secret # 0
    /\ \A k \in Desks : desk[k].step \in Proofs =>
          /\ desk[k].factor.secret # 0
          /\ desk[k].code = 0 => desk[k].factor.spare # 0
          /\ session[desk[k].session] # None
          /\ session[desk[k].session].person = desk[k].person
          /\ session[desk[k].session].org = desk[k].org

(* Secrets and sets of recovery codes are made once, each for one membership. *)
Holds(c, p, o) ==
    \/ c \in {factor[p][o].secret, factor[p][o].spare}
    \/ \E s \in Sessions : /\ session[s] # None /\ session[s].code # None
                           /\ session[s].person = p /\ session[s].org = o /\ session[s].code.of = c
    \/ \E k \in Desks : /\ desk[k].step \in Proofs /\ desk[k].person = p /\ desk[k].org = o
                        /\ c \in {desk[k].factor.secret, desk[k].factor.spare}

OneHolder ==
    \A c \in Nat \ {0}, p \in People, o \in Orgs : Holds(c, p, o) =>
        /\ c <= minted
        /\ \A q \in People, u \in Orgs : Holds(c, q, u) => q = p /\ u = o

CodeKey(s) == <<session[s].person, session[s].org, "code">>

FactorOf(s) == factor[session[s].person][session[s].org]

(* Outside what two requests were about at once, a code that released a session is spent, *)
(* and a request's code is not.                                                            *)
CodesAgree ==
    /\ \A s \in Sessions : session[s] # None /\ session[s].code # None =>
          /\ session[s].code.of # 0
          /\ CodeKey(s) \notin overlapped =>
                IF session[s].code.at = 0 THEN FactorOf(s).spare # session[s].code.of
                ELSE FactorOf(s).secret = session[s].code.of => session[s].code.at <= FactorOf(s).last
    /\ \A k \in Desks : desk[k].step \in Proofs /\ desk[k].about \notin overlapped =>
          LET f == factor[desk[k].person][desk[k].org]
          IN  f.secret = desk[k].factor.secret =>
                 IF desk[k].code = 0 THEN f.spare = desk[k].factor.spare ELSE f.last < desk[k].code

IInv ==
    /\ TypeOK
    /\ MembersAgree /\ ClaimsAgree /\ OpeningsAgree /\ PasswordsAgree
    /\ RowsAgree /\ AboutsAgree /\ LinksAgree
    /\ FactorsAgree /\ OneHolder /\ CodesAgree /\ CodeUsedOnce
-----------------------------------------------------------------------------
(* What a step does to the requests under way and to the sessions. *)

Requests == {Idle, Lost} \cup Openings \cup Switches \cup Issues \cup Uses \cup Changes \cup Answers

(* A request goes on as it was, ends, or learns that its session is revoked. *)
Calm(j) ==
    \/ desk'[j] = desk[j]
    \/ desk'[j] \in {Idle, Lost}
    \/ desk[j].step = "open" /\ desk'[j] = [desk[j] EXCEPT !.dead = TRUE]
    \/ desk[j].step = "switch" /\ desk'[j] = [desk[j] EXCEPT !.raced = TRUE]

AllCalm == desk' = [j \in Desks |-> desk'[j]] /\ \A j \in Desks : Calm(j)

(* A session goes on or ends, and nobody else's is made of it. *)
Fate(s) ==
    IF session[s] = None THEN session'[s] = None
    ELSE /\ session'[s] # None
         /\ session'[s].person = session[s].person /\ session'[s].org = session[s].org
         /\ session'[s].pw = session[s].pw /\ session'[s].raced = session[s].raced
         /\ session'[s].live => session[s].live

KeepsCode(s) == Fate(s) /\ session'[s].code = session[s].code

(* A session is opened. *)
New(s) == session[s] = None /\ session'[s] \in SessionRows /\ session'[s].code = None

(* A request is taken up at desk k. *)
Joins(k, tx) ==
    /\ desk' = [desk EXCEPT ![k] = tx] /\ desk[k].step \in {"idle", "switch"}
    /\ UNCHANGED <<tables, ticket>>
    /\ overlapped \subseteq overlapped'

ClaimsStay == \A p \in People : Claimed(p) => Claimed(p)'

(* The lowest free id is free. *)
LEMMA LowestIsThere ==
    ASSUME NEW S \in SUBSET Nat, S # {}
    PROVE  Min(S) \in S
  <1> DEFINE Less == {d \in Nat \X Nat : d[1] < d[2]}
  <1>1. IsWellFoundedOn(Less, Nat)
    BY NatLessThanWellFounded DEF OpToRel
  <1>2. PICK x \in S : \A y \in S : <<y, x>> \notin Less
    <2> HIDE DEF Less
    <2> QED BY <1>1, WFMin
  <1>3. \A y \in S : x <= y
    <2> SUFFICES ASSUME NEW y \in S, y < x PROVE FALSE
      OBVIOUS
    <2> DEFINE d == <<y, x>>
    <2>1. d \in Nat \X Nat /\ d[1] < d[2]
      OBVIOUS
    <2> QED
      BY <2>1, <1>2
  <1> QED
    BY <1>3 DEF Min

(* The row a session is written to is unused, and no sign-in has taken its number. *)
LEMMA FreeSessionIsFree ==
    FreeSessions # {} => Min(FreeSessions) \in Sessions /\ session[Min(FreeSessions)] = None /\ Min(FreeSessions) \notin Opening
  <1>1. FreeSessions \subseteq Nat
    BY AccountsAssumptions DEF FreeSessions, Sessions
  <1> QED
    BY <1>1, LowestIsThere DEF FreeSessions

(* The row a link is written to is unused. *)
LEMMA FreeLinkIsFree ==
    HasLinkRoom => Min({l \in Links : link[l] = None}) \in {l \in Links : link[l] = None}
  <1>1. {l \in Links : link[l] = None} \subseteq Nat
    BY AccountsAssumptions DEF Links
  <1> QED
    BY <1>1, LowestIsThere DEF HasLinkRoom

(* What stands at a desk is told by its step. *)
LEMMA Shapes ==
    ASSUME NEW tx \in Requests
    PROVE  /\ tx.step = "idle" <=> tx = Idle
           /\ tx.step = "lost" <=> tx = Lost
           /\ tx.step = "open" <=> tx \in Openings
           /\ tx.step = "switch" <=> tx \in Switches
           /\ tx.step = "issue" <=> tx \in Issues
           /\ tx.step \in {"password", "address", "accept"} <=> tx \in Uses
           /\ tx.step = "member" <=> tx \in Changes
           /\ tx.step \in Proofs <=> tx \in Answers
           /\ tx.step \in {"idle", "lost", "open", "switch", "issue", "password", "address", "accept", "member"} \cup Proofs
  BY DEF Requests, Idle, Lost, Openings, Switches, Issues, Uses, Changes, Answers, Proofs

(* None is no row, no person and no organisation. *)
LEMMA NoneIsNothing ==
    /\ None \notin People /\ None \notin Orgs
    /\ \A r \in AccountRows : r # None
    /\ \A r \in MemberRows : r # None
    /\ \A r \in SessionRows : r # None
    /\ \A r \in LinkRows : r # None
    /\ \A r \in Codes : r # None
  BY NoneAssumption

(* A request that goes on is what it was, except that a session being opened or left may be revoked. *)
LEMMA CalmShapes ==
    ASSUME TypeOK, AllCalm, NEW j \in Desks
    PROVE  /\ desk[j] \in Requests /\ desk'[j] \in Requests
           /\ desk'[j].step \in {"idle", "lost"} \/ desk'[j].step = desk[j].step
           /\ desk'[j].step \notin {"idle", "lost", "open", "switch"} => desk'[j] = desk[j]
           /\ desk'[j].step = "open" => /\ desk[j].step = "open"
                                        /\ desk'[j].id = desk[j].id /\ desk'[j].person = desk[j].person
                                        /\ desk'[j].pw = desk[j].pw /\ desk'[j].raced = desk[j].raced
                                        /\ desk'[j].dead = desk[j].dead \/ desk'[j].dead
           /\ desk'[j].step = "switch" => /\ desk[j].step = "switch"
                                          /\ desk'[j].person = desk[j].person /\ desk'[j].pw = desk[j].pw
                                          /\ desk'[j].raced = desk[j].raced \/ desk'[j].raced
  <1>1. desk[j] \in Requests
    BY DEF TypeOK, Requests
  <1>2. Calm(j)
    BY DEF AllCalm
  <1>3. CASE desk'[j] = desk[j] \/ desk'[j] \in {Idle, Lost}
    <2>1. desk'[j] \in Requests
      BY <1>1, <1>3 DEF Requests
    <2>2. desk'[j].step \in {"idle", "lost"} \/ desk'[j] = desk[j]
      BY <1>3 DEF Idle, Lost
    <2> QED BY <1>1, <2>1, <2>2
  <1>4. CASE desk[j].step = "open" /\ desk'[j] = [desk[j] EXCEPT !.dead = TRUE]
    <2>1. desk[j] \in Openings
      BY <1>1, <1>4, Shapes
    <2>2. desk'[j] \in Openings /\ desk'[j].id = desk[j].id /\ desk'[j].person = desk[j].person /\ desk'[j].step = "open"
          /\ desk'[j].pw = desk[j].pw /\ desk'[j].raced = desk[j].raced /\ desk'[j].dead
      BY <2>1, <1>4 DEF Openings
    <2> QED BY <1>1, <1>4, <2>2 DEF Requests
  <1>5. CASE desk[j].step = "switch" /\ desk'[j] = [desk[j] EXCEPT !.raced = TRUE]
    <2>1. desk[j] \in Switches
      BY <1>1, <1>5, Shapes
    <2>2. desk'[j] \in Switches /\ desk'[j].person = desk[j].person /\ desk'[j].step = "switch"
          /\ desk'[j].pw = desk[j].pw /\ desk'[j].raced
      BY <2>1, <1>5 DEF Switches
    <2> QED BY <1>1, <1>5, <2>2 DEF Requests
  <1> QED
    BY <1>2, <1>3, <1>4, <1>5 DEF Calm

-----------------------------------------------------------------------------
(* Steps in which every request under way goes on or ends. *)

(* When no request is taken up, desks keep their type. *)
LEMMA TypeCalm ==
    ASSUME TypeOK, AllCalm
    PROVE  desk' \in [Desks -> Requests]
  BY CalmShapes DEF AllCalm

(* No request is taken up: whoever signs in, or is sent a link, still has a claimed account. *)
LEMMA ClaimsCalm ==
    ASSUME TypeOK, ClaimsAgree, AllCalm, ClaimsStay,
           \A s \in Sessions : Fate(s) \/ (New(s) /\ Claimed(session[s].person)'),
           \A l \in Links : link'[l] # None /\ link'[l].purpose # "invitation" =>
              \/ link[l] # None /\ link'[l].person = link[l].person /\ link'[l].purpose = link[l].purpose
              \/ link'[l].person \in People /\ Claimed(link[l].person)',
           \A t \in ticket' : t[2] = 0 => t \in ticket \/ Claimed(t[1])'
    PROVE  ClaimsAgree'
  <1>1. ASSUME NEW s \in Sessions, session'[s] # None PROVE Claimed(session[s].person)'
    <2>1. CASE Fate(s)
      BY <1>1, <2>1 DEF ClaimsAgree, ClaimsStay, TypeOK, SessionRows, Fate
    <2> QED BY <2>1
  <1>2. ASSUME NEW l \in Links, link'[l] # None /\ link'[l].purpose # "invitation" PROVE Claimed(link[l].person)'
    BY <1>2 DEF ClaimsAgree, ClaimsStay, TypeOK, LinkRows
  <1>3. ASSUME NEW t \in ticket', t[2] = 0 PROVE Claimed(t[1])'
    BY <1>3 DEF ClaimsAgree, ClaimsStay, TypeOK
  <1>4. ASSUME NEW k \in Desks, Personal(desk'[k]) PROVE Claimed(desk[k].person)'
    <2>1. desk'[k].step = desk[k].step /\ desk'[k].person = desk[k].person /\ (desk'[k].step = "issue" => desk'[k] = desk[k])
      BY <1>4, CalmShapes DEF Personal, Proofs
    <2>2. Personal(desk[k]) /\ desk[k].person \in People
      BY <1>4, <2>1, CalmShapes, Shapes DEF Personal, Openings, Switches, Issues, Uses, Answers
    <2> QED BY <2>1, <2>2 DEF ClaimsAgree, ClaimsStay
  <1> QED
    BY <1>1, <1>2, <1>3, <1>4 DEF ClaimsAgree, Personal

(* No request is taken up: two sign-ins still write different rows. *)
LEMMA OpeningsCalm ==
    ASSUME TypeOK, OpeningsAgree, AllCalm,
           \A s \in Sessions : Fate(s) \/ \A k \in Desks : desk'[k].step = "open" => desk'[k].id # s
    PROVE  OpeningsAgree'
  <1> SUFFICES ASSUME NEW k \in Desks, desk'[k].step = "open"
               PROVE  /\ session'[desk'[k].id] = None
                      /\ \A j \in Desks \ {k} : desk'[j].step = "open" => desk'[j].id # desk'[k].id
    BY DEF OpeningsAgree
  <1>1. desk[k].step = "open" /\ desk'[k].id = desk[k].id /\ desk[k].id \in Sessions
    BY CalmShapes, Shapes DEF Openings
  <1>2. session'[desk'[k].id] = None
    BY <1>1 DEF Fate, OpeningsAgree
  <1>3. ASSUME NEW j \in Desks \ {k}, desk'[j].step = "open" PROVE desk'[j].id # desk'[k].id
    BY <1>1, <1>3, CalmShapes DEF OpeningsAgree
  <1> QED
    BY <1>2, <1>3

(* Passwords are as they were, or the accounts sign in on suliko.ge. *)
LEMMA PasswordsCalm ==
    ASSUME TypeOK, PasswordsAgree, ClaimsAgree, AllCalm,
           \A p \in People : Claimed(p) => account'[p].pw \in {account[p].pw, 0},
           \A s \in Sessions : \/ Fate(s)
                               \/ session'[s].live =>
                                    /\ Current(session[s].person, session[s].pw, session[s].raced)'
                                    /\ \A k \in Desks : Covers(desk'[k], s, session'[s].person, session'[s].raced)
    PROVE  PasswordsAgree'
  <1>1. ASSUME NEW p \in People, NEW pw, NEW raced, Claimed(p), Current(p, pw, raced) PROVE Current(p, pw, raced)'
    BY <1>1 DEF Current
  <1>2. ASSUME NEW k \in Desks, NEW s, NEW p, NEW raced, Covers(desk[k], s, p, raced) PROVE Covers(desk'[k], s, p, raced)
    BY <1>2, CalmShapes DEF Covers
  <1>3. ASSUME NEW s \in Sessions, session'[s] # None, session'[s].live
        PROVE  /\ Current(session[s].person, session[s].pw, session[s].raced)'
               /\ \A k \in Desks : Covers(desk'[k], s, session'[s].person, session'[s].raced)
    <2>1. CASE Fate(s)
      <3>1. session[s] # None /\ session[s].live /\ session'[s].person = session[s].person
            /\ session'[s].pw = session[s].pw /\ session'[s].raced = session[s].raced
        BY <1>3, <2>1 DEF Fate
      <3>2. Claimed(session[s].person) /\ session[s].person \in People
        BY <3>1 DEF ClaimsAgree, TypeOK, SessionRows
      <3>3. /\ Current(session[s].person, session[s].pw, session[s].raced)
            /\ \A k \in Desks : Covers(desk[k], s, session[s].person, session[s].raced)
        BY <3>1 DEF PasswordsAgree
      <3> QED BY <1>2, <3>1, <3>2, <3>3 DEF Current
    <2> QED BY <1>3, <2>1
  <1>4. ASSUME NEW j \in Desks, desk'[j].step = "open", ~desk'[j].dead
        PROVE  /\ Current(desk[j].person, desk[j].pw, desk[j].raced)'
               /\ \A k \in Desks : Covers(desk'[k], desk'[j].id, desk'[j].person, desk'[j].raced)
    <2>1. desk[j].step = "open" /\ ~desk[j].dead /\ desk'[j].id = desk[j].id /\ desk'[j].person = desk[j].person
          /\ desk'[j].pw = desk[j].pw /\ desk'[j].raced = desk[j].raced /\ desk[j].person \in People
      BY <1>4, CalmShapes, Shapes DEF Openings
    <2>2. Claimed(desk[j].person)
      BY <2>1 DEF ClaimsAgree, Personal
    <2>3. /\ Current(desk[j].person, desk[j].pw, desk[j].raced)
          /\ \A k \in Desks : Covers(desk[k], desk[j].id, desk[j].person, desk[j].raced)
      BY <2>1 DEF PasswordsAgree
    <2> QED BY <2>1, <2>2, <2>3, <1>2 DEF Current
  <1>5. ASSUME NEW j \in Desks, desk'[j].step = "switch"
        PROVE  Current(desk[j].person, desk[j].pw, desk[j].raced)'
    <2>1. desk[j].step = "switch" /\ desk'[j].person = desk[j].person /\ desk[j].person \in People
          /\ desk'[j].pw = desk[j].pw /\ (desk'[j].raced = desk[j].raced \/ desk'[j].raced)
      BY <1>5, CalmShapes, Shapes DEF Switches
    <2>2. Claimed(desk[j].person) /\ Current(desk[j].person, desk[j].pw, desk[j].raced)
      BY <2>1 DEF ClaimsAgree, Personal, PasswordsAgree
    <2> QED BY <2>1, <2>2 DEF Current
  <1> QED
    BY <1>3, <1>4, <1>5 DEF PasswordsAgree, Current, Covers

(* Links are as they were, nobody is removed, and a request that is taken up is about none of them. *)
LEMMA LinksCalm ==
    ASSUME TypeOK, RowsAgree, AboutsAgree, LinksAgree, AllCalm,
           link' = link, overlapped \subseteq overlapped',
           \A p \in People, o \in Orgs : member[p][o] # None => member'[p][o] # None
    PROVE  (RowsAgree /\ AboutsAgree /\ LinksAgree)'
  <1> USE DEF Key, Spends, Guarded, OnMember
  <1>1. ASSUME NEW k \in Desks, desk'[k].step \notin {"idle", "lost", "open", "switch"}
        PROVE  desk'[k] = desk[k]
    BY <1>1, CalmShapes
  <1>2. ASSUME NEW k \in Desks PROVE OnMember(desk'[k]) \/ Guarded(desk'[k]) => desk'[k] = desk[k]
    BY <1>1 DEF Proofs
  <1>3. RowsAgree'
    <2>1. \A l \in Links : link[l] # None => link[l].person \in People /\ link[l].org \in Orgs
      BY DEF TypeOK, LinkRows
    <2>2. \A k \in Desks : OnMember(desk[k]) => desk[k].person \in People /\ desk[k].org \in Orgs
      BY Shapes DEF RowsAgree, TypeOK, Requests, Issues, Uses, Changes, Answers
    <2> HIDE DEF OnMember
    <2>3. ASSUME NEW k \in Desks, OnMember(desk'[k])
          PROVE  desk'[k].org \in Orgs /\ member'[desk'[k].person][desk'[k].org] # None
      BY <1>2, <2>2, <2>3 DEF RowsAgree
    <2> QED
      BY <2>1, <2>3 DEF RowsAgree, OnMember
  <1>4. AboutsAgree'
    <2> SUFFICES ASSUME NEW k \in Desks
                 PROVE  /\ Spends(desk[k])' => /\ link'[desk'[k].link] # None
                                               /\ desk'[k].about = Key(desk[k].link)'
                                               /\ desk'[k].about = <<desk'[k].person, desk'[k].org, PurposeOf(desk'[k].step)>>
                        /\ desk'[k].step \in {"address", "accept"} => desk'[k].link # 0
                        /\ desk'[k].step = "issue" => /\ desk'[k].about = <<desk'[k].person, desk'[k].org, desk'[k].purpose>>
                                                         /\ \A l \in desk'[k].spent : link'[l] # None /\ Key(l)' = desk'[k].about
                        /\ desk'[k].step \in Proofs => desk'[k].about = <<desk'[k].person, desk'[k].org, "code">>
                        /\ \A j \in Desks \ {k} :
                              Guarded(desk[k])' /\ Guarded(desk[j])' /\ desk'[k].about = desk'[j].about
                                => desk'[k].about \in overlapped'
      BY DEF AboutsAgree, PurposeOf
    <2>1. /\ Spends(desk[k])' => desk'[k] = desk[k]
          /\ desk'[k].step \in {"address", "accept", "issue"} \cup Proofs => desk'[k] = desk[k]
      BY <1>1 DEF Proofs
    <2>2. ASSUME NEW j \in Desks \ {k}, Guarded(desk[k])', Guarded(desk[j])', desk'[k].about = desk'[j].about
          PROVE  desk'[k].about \in overlapped'
      BY <2>2, <1>2 DEF AboutsAgree
    <2> QED
      BY <2>1, <2>2 DEF AboutsAgree, PurposeOf
  <1>5. LinksAgree'
    <2>1. ASSUME NEW k \in Desks, Guarded(desk[k])', desk'[k].about \notin overlapped'
          PROVE  /\ Spends(desk[k])' => ~link'[desk'[k].link].used
                 /\ desk'[k].step = "issue" =>
                      \A l \in Links : link'[l] # None /\ Key(l)' = desk'[k].about /\ ~link'[l].used => l \in desk'[k].spent
      BY <2>1, <1>2 DEF LinksAgree
    <2>2. ASSUME NEW l \in Links, link'[l] # None, Key(l)' \notin overlapped'
          PROVE  /\ link'[l].uses <= 1 /\ (~link'[l].used => link'[l].uses = 0)
                 /\ \A m \in Links : link'[m] # None /\ Key(m)' = Key(l)' /\ ~link'[m].used /\ ~link'[l].used => m = l
      BY <2>2 DEF LinksAgree
    <2> QED
      BY <2>1, <2>2 DEF LinksAgree
  <1> QED
    BY <1>3, <1>4, <1>5

(* Factors are as they were or switched off. *)
LEMMA CodesCalm ==
    ASSUME TypeOK, FactorsAgree, OneHolder, CodesAgree, CodeUsedOnce, AllCalm,
           \A s \in Sessions : KeepsCode(s) \/ New(s),
           \A p \in People, o \in Orgs : factor'[p][o] \in {factor[p][o], NoFactor},
           minted' \in Nat, minted <= minted', overlapped \subseteq overlapped'
    PROVE  (FactorsAgree /\ OneHolder /\ CodesAgree /\ CodeUsedOnce)'
  <1>1. ASSUME NEW k \in Desks, desk'[k].step \in Proofs
        PROVE  /\ desk'[k] = desk[k] /\ desk[k].session \in Sessions
               /\ desk[k].person \in People /\ desk[k].org \in Orgs
    BY <1>1, CalmShapes, Shapes DEF Proofs, Answers
  <1>2. ASSUME NEW s \in Sessions, session[s] # None
        PROVE  session'[s] # None /\ session'[s].person = session[s].person /\ session'[s].org = session[s].org
               /\ session'[s].code = session[s].code
    BY <1>2 DEF KeepsCode, Fate, New
  <1>3. ASSUME NEW s \in Sessions, session'[s] # None, session'[s].code # None
        PROVE  session[s] # None /\ session[s].code # None /\ session[s].person \in People /\ session[s].org \in Orgs
               /\ session[s].code \in Codes
    <2>1. session[s] # None
      BY <1>3 DEF KeepsCode, Fate, New
    <2>2. session[s] \in SessionRows /\ session[s].code # None
      BY <1>2, <1>3, <2>1 DEF TypeOK
    <2> QED BY <2>1, <2>2 DEF SessionRows
  <1>4. FactorsAgree'
    <2>1. \A p \in People, o \in Orgs : factor'[p][o].state # "off" => factor'[p][o].secret # 0
      BY DEF FactorsAgree, NoFactor
    <2>2. ASSUME NEW k \in Desks, desk'[k].step \in Proofs
          PROVE  /\ desk'[k].factor.secret # 0
                 /\ desk'[k].code = 0 => desk'[k].factor.spare # 0
                 /\ session'[desk'[k].session] # None
                 /\ session'[desk'[k].session].person = desk'[k].person
                 /\ session'[desk'[k].session].org = desk'[k].org
      BY <2>2, <1>1, <1>2 DEF FactorsAgree
    <2> QED BY <2>1, <2>2 DEF FactorsAgree
  <1>5. ASSUME NEW c \in Nat \ {0}, NEW p \in People, NEW o \in Orgs, Holds(c, p, o)'
        PROVE  Holds(c, p, o)
    <2>1. CASE c \in {factor'[p][o].secret, factor'[p][o].spare}
      BY <2>1 DEF Holds, NoFactor
    <2>2. CASE \E s \in Sessions : /\ session'[s] # None /\ session'[s].code # None
                                   /\ session'[s].person = p /\ session'[s].org = o /\ session'[s].code.of = c
      BY <2>2, <1>2, <1>3 DEF Holds
    <2>3. CASE \E k \in Desks : /\ desk'[k].step \in Proofs /\ desk'[k].person = p /\ desk'[k].org = o
                                /\ c \in {desk'[k].factor.secret, desk'[k].factor.spare}
      BY <2>3, <1>1 DEF Holds
    <2> QED BY <1>5, <2>1, <2>2, <2>3 DEF Holds
  <1>6. OneHolder'
    <2> SUFFICES ASSUME NEW c \in Nat \ {0}, NEW p \in People, NEW o \in Orgs, Holds(c, p, o)'
                 PROVE  /\ c <= minted'
                        /\ \A q \in People, u \in Orgs : Holds(c, q, u)' => q = p /\ u = o
      BY DEF OneHolder, Holds
    <2>1. Holds(c, p, o) /\ \A q \in People, u \in Orgs : Holds(c, q, u)' => Holds(c, q, u)
      BY <1>5
    <2> QED
      BY <2>1 DEF OneHolder, TypeOK
  <1>7. CodesAgree'
    <2>1. ASSUME NEW s \in Sessions, session'[s] # None, session'[s].code # None
          PROVE  /\ session'[s].code.of # 0
                 /\ CodeKey(s)' \notin overlapped' =>
                      IF session'[s].code.at = 0 THEN FactorOf(s)'.spare # session'[s].code.of
                      ELSE FactorOf(s)'.secret = session'[s].code.of => session'[s].code.at <= FactorOf(s)'.last
      <3> DEFINE p == session[s].person
                 o == session[s].org
      <3>1. session[s] # None /\ session[s].code # None /\ p \in People /\ o \in Orgs /\ session[s].code \in Codes
        BY <2>1, <1>3
      <3>2. session'[s].person = p /\ session'[s].org = o /\ session'[s].code = session[s].code
        BY <3>1, <1>2
      <3>3. factor'[p][o] = factor[p][o] \/ factor'[p][o] = NoFactor
        BY <3>1
      <3>4. /\ session[s].code.of # 0
            /\ CodeKey(s) \notin overlapped =>
                 IF session[s].code.at = 0 THEN factor[p][o].spare # session[s].code.of
                 ELSE factor[p][o].secret = session[s].code.of => session[s].code.at <= factor[p][o].last
        BY <3>1 DEF CodesAgree, FactorOf
      <3>5. CodeKey(s)' = CodeKey(s) /\ FactorOf(s)' = factor'[p][o]
        BY <3>2 DEF CodeKey, FactorOf
      <3> HIDE DEF p, o
      <3>6. CASE factor'[p][o] = factor[p][o]
        BY <3>2, <3>4, <3>5, <3>6
      <3>7. CASE factor'[p][o] = NoFactor
        BY <3>2, <3>4, <3>5, <3>7 DEF NoFactor
      <3> QED BY <3>3, <3>6, <3>7
    <2>2. ASSUME NEW k \in Desks, desk'[k].step \in Proofs, desk'[k].about \notin overlapped',
                 factor'[desk'[k].person][desk'[k].org].secret = desk'[k].factor.secret
          PROVE  IF desk'[k].code = 0 THEN factor'[desk'[k].person][desk'[k].org].spare = desk'[k].factor.spare
                 ELSE factor'[desk'[k].person][desk'[k].org].last < desk'[k].code
      <3> DEFINE p == desk[k].person
                 o == desk[k].org
      <3>1. desk'[k] = desk[k] /\ p \in People /\ o \in Orgs /\ desk[k].step \in Proofs
        BY <2>2, <1>1
      <3>2. factor'[p][o] = factor[p][o]
        <4>1. factor'[p][o].secret # 0
          BY <2>2, <3>1 DEF FactorsAgree
        <4> HIDE DEF p, o
        <4> QED BY <3>1, <4>1 DEF NoFactor
      <3> QED BY <2>2, <3>1, <3>2 DEF CodesAgree
    <2> QED BY <2>1, <2>2 DEF CodesAgree
  <1>8. CodeUsedOnce'
    BY <1>2, <1>3 DEF CodeUsedOnce
  <1> QED
    BY <1>4, <1>6, <1>7, <1>8

-----------------------------------------------------------------------------
(* Steps in which a request is taken up. *)

(* A request that is taken up fits in with what there is. *)
FitsClaims(tx) == tx.person \in People /\ (Personal(tx) => Claimed(tx.person))

FitsOpenings(k, tx) ==
    tx.step = "open" =>
        /\ session[tx.id] = None
        /\ \A j \in Desks : desk[j].step = "open" => desk[j].id # tx.id

FitsPasswords(tx) ==
    /\ tx.step \in {"open", "switch"} => Current(tx.person, tx.pw, tx.raced)
    /\ tx.step = "open" => \A j \in Desks : Covers(desk[j], tx.id, tx.person, tx.raced)
    /\ tx.step = "password" =>
          /\ \A s \in Sessions : session[s] # None /\ session[s].live => Covers(tx, s, session[s].person, session[s].raced)
          /\ \A j \in Desks : desk[j].step = "open" => Covers(tx, desk[j].id, desk[j].person, desk[j].raced)

FitsLinks(tx) ==
    /\ OnMember(tx) => tx.org \in Orgs /\ member[tx.person][tx.org] # None
    /\ Guarded(tx) => Overlap(tx.about)
    /\ Spends(tx) => /\ link[tx.link] # None /\ ~link[tx.link].used
                     /\ tx.about = Key(tx.link) /\ tx.about = <<tx.person, tx.org, PurposeOf(tx.step)>>
    /\ tx.step \in {"address", "accept"} => tx.link # 0
    /\ tx.step = "issue" => /\ tx.about = <<tx.person, tx.org, tx.purpose>>
                            /\ \A l \in tx.spent : link[l] # None /\ Key(l) = tx.about
                            /\ \A l \in Links : link[l] # None /\ Key(l) = tx.about /\ ~link[l].used => l \in tx.spent
    /\ tx.step \in Proofs => tx.about = <<tx.person, tx.org, "code">>

FitsCodes(tx) ==
    tx.step \in Proofs =>
        /\ tx.org \in Orgs /\ session[tx.session] # None
        /\ session[tx.session].person = tx.person /\ session[tx.session].org = tx.org
        /\ tx.factor = factor[tx.person][tx.org] /\ tx.factor.state # "off"
        /\ IF tx.code = 0 THEN tx.factor.spare # 0 ELSE tx.factor.last < tx.code

(* One desk takes up a request and the others go on. *)
LEMMA Joined ==
    ASSUME TypeOK, NEW k \in Desks, NEW tx \in Requests, Joins(k, tx), NEW j \in Desks
    PROVE  /\ desk'[k] = tx
           /\ j # k => desk'[j] = desk[j]
           /\ desk[j] \in Requests /\ desk'[j] \in Requests
           /\ desk' \in [Desks -> Requests]
  BY DEF TypeOK, Joins, Requests

(* A request that fits is taken up: claims stay agreed. *)
LEMMA ClaimsJoin ==
    ASSUME TypeOK, ClaimsAgree, NEW k \in Desks, NEW tx \in Requests, Joins(k, tx), FitsClaims(tx)
    PROVE  ClaimsAgree'
  <1>1. account' = account /\ session' = session /\ link' = link /\ ticket' = ticket
    BY DEF Joins, tables
  <1>2. ASSUME NEW j \in Desks, Personal(desk[j])' PROVE Claimed(desk[j].person)'
    <2>1. CASE j = k
      BY <1>1, <1>2, <2>1, Joined DEF FitsClaims, Personal, Claimed
    <2>2. CASE j # k
      BY <1>1, <1>2, <2>2, Joined DEF ClaimsAgree, Personal, Claimed
    <2> QED BY <2>1, <2>2
  <1> QED
    BY <1>1, <1>2 DEF ClaimsAgree, Claimed

(* A request that fits is taken up: sign-ins still write different rows. *)
LEMMA OpeningsJoin ==
    ASSUME TypeOK, OpeningsAgree, NEW k \in Desks, NEW tx \in Requests, Joins(k, tx), FitsOpenings(k, tx)
    PROVE  OpeningsAgree'
  BY Joined DEF OpeningsAgree, FitsOpenings, Joins, tables

(* A request that fits is taken up: passwords stay agreed. *)
LEMMA PasswordsJoin ==
    ASSUME TypeOK, PasswordsAgree, NEW k \in Desks, NEW tx \in Requests, Joins(k, tx), FitsPasswords(tx)
    PROVE  PasswordsAgree'
  <1>1. account' = account /\ session' = session
    BY DEF Joins, tables
  <1>2. \A p, pw, raced : Current(p, pw, raced)' <=> Current(p, pw, raced)
    BY <1>1 DEF Current
  <1>3. ASSUME NEW s \in Sessions, session[s] # None, session[s].live
        PROVE  /\ Current(session[s].person, session[s].pw, session[s].raced)
               /\ \A j \in Desks : Covers(desk'[j], s, session[s].person, session[s].raced)
    BY <1>3, Joined DEF PasswordsAgree, FitsPasswords, Covers
  <1>4. ASSUME NEW j \in Desks, desk'[j].step = "open", ~desk'[j].dead
        PROVE  /\ Current(desk'[j].person, desk'[j].pw, desk'[j].raced)
               /\ \A i \in Desks : Covers(desk'[i], desk'[j].id, desk'[j].person, desk'[j].raced)
    <2>1. CASE j = k
      <3>1. tx.step = "open" /\ desk'[j] = tx
        BY <1>4, <2>1, Joined
      <3> QED BY <3>1, Joined DEF FitsPasswords, Covers
    <2>2. CASE j # k
      <3>1. desk'[j] = desk[j] /\ desk[j].step = "open" /\ ~desk[j].dead
        BY <1>4, <2>2, Joined
      <3>2. ASSUME NEW i \in Desks PROVE Covers(desk'[i], desk[j].id, desk[j].person, desk[j].raced)
        <4>1. CASE i = k
          BY <3>1, <4>1, Joined DEF FitsPasswords, Covers
        <4>2. CASE i # k
          BY <3>1, <4>2, Joined DEF PasswordsAgree
        <4> QED BY <4>1, <4>2
      <3> QED BY <3>1, <3>2 DEF PasswordsAgree
    <2> QED BY <2>1, <2>2
  <1>5. ASSUME NEW j \in Desks, desk'[j].step = "switch"
        PROVE  Current(desk'[j].person, desk'[j].pw, desk'[j].raced)
    BY <1>5, Joined DEF PasswordsAgree, FitsPasswords
  <1> QED
    BY <1>1, <1>3, <1>4, <1>5 DEF PasswordsAgree, Current, Covers

(* A request that fits is taken up: links stay agreed. *)
LEMMA LinksJoin ==
    ASSUME TypeOK, RowsAgree, AboutsAgree, LinksAgree, NEW k \in Desks, NEW tx \in Requests, Joins(k, tx), FitsLinks(tx)
    PROVE  (RowsAgree /\ AboutsAgree /\ LinksAgree)'
  <1>1. link' = link /\ member' = member /\ overlapped \subseteq overlapped' /\ desk[k].step \in {"idle", "switch"}
    BY DEF Joins, tables
  <1>2. RowsAgree'
    BY <1>1, Joined DEF RowsAgree, FitsLinks, OnMember
  <1>3. ~Guarded(desk[k])
    BY <1>1 DEF Guarded, Spends, Proofs
  <1>4. ASSUME NEW j \in Desks \ {k}, Guarded(tx), Guarded(desk[j]), desk[j].about = tx.about PROVE tx.about \in overlapped'
    <2>1. desk[j] \notin {Idle, Lost}
      BY <1>4 DEF Guarded, Spends, Proofs, Idle, Lost
    <2> QED BY <1>4, <2>1 DEF FitsLinks, Overlap
  <1>5. AboutsAgree'
    <2> SUFFICES ASSUME NEW i \in Desks
                 PROVE  /\ Spends(desk'[i]) => /\ link[desk'[i].link] # None
                                               /\ desk'[i].about = Key(desk'[i].link)
                                               /\ desk'[i].about = <<desk'[i].person, desk'[i].org, PurposeOf(desk'[i].step)>>
                        /\ desk'[i].step \in {"address", "accept"} => desk'[i].link # 0
                        /\ desk'[i].step = "issue" => /\ desk'[i].about = <<desk'[i].person, desk'[i].org, desk'[i].purpose>>
                                                         /\ \A l \in desk'[i].spent : link[l] # None /\ Key(l) = desk'[i].about
                        /\ desk'[i].step \in Proofs => desk'[i].about = <<desk'[i].person, desk'[i].org, "code">>
                        /\ \A j \in Desks \ {i} :
                              Guarded(desk'[i]) /\ Guarded(desk'[j]) /\ desk'[i].about = desk'[j].about
                                => desk'[i].about \in overlapped'
      BY <1>1 DEF AboutsAgree, Spends, Guarded, Key, PurposeOf
    <2>1. CASE i = k
      BY <2>1, <1>4, Joined DEF FitsLinks
    <2>2. CASE i # k
      <3>1. desk'[i] = desk[i]
        BY <2>2, Joined
      <3>2. ASSUME NEW j \in Desks \ {i}, Guarded(desk'[i]), Guarded(desk'[j]), desk'[i].about = desk'[j].about
            PROVE  desk'[i].about \in overlapped'
        <4>1. CASE j = k
          BY <3>1, <3>2, <4>1, <2>2, <1>4, Joined
        <4>2. CASE j # k
          BY <3>1, <3>2, <4>2, <1>1, Joined DEF AboutsAgree
        <4> QED BY <4>1, <4>2
      <3> QED BY <3>1, <3>2 DEF AboutsAgree
    <2> QED BY <2>1, <2>2
  <1>6. LinksAgree'
    <2>1. ASSUME NEW l \in Links, link[l] # None, Key(l) \notin overlapped'
          PROVE  /\ link[l].uses <= 1 /\ (~link[l].used => link[l].uses = 0)
                 /\ \A m \in Links : link[m] # None /\ Key(m) = Key(l) /\ ~link[m].used /\ ~link[l].used => m = l
      BY <2>1, <1>1 DEF LinksAgree
    <2>2. ASSUME NEW j \in Desks, Guarded(desk'[j]), desk'[j].about \notin overlapped'
          PROVE  /\ Spends(desk'[j]) => ~link[desk'[j].link].used
                 /\ desk'[j].step = "issue" =>
                      \A l \in Links : link[l] # None /\ Key(l) = desk'[j].about /\ ~link[l].used => l \in desk'[j].spent
      <3>1. CASE j = k
        BY <3>1, Joined DEF FitsLinks
      <3>2. CASE j # k
        BY <2>2, <3>2, <1>1, Joined DEF LinksAgree
      <3> QED BY <3>1, <3>2
    <2> QED
      BY <1>1, <2>1, <2>2 DEF LinksAgree, Key, Guarded, Spends
  <1> QED
    BY <1>2, <1>5, <1>6

(* A request that fits is taken up: factors and codes stay agreed. *)
LEMMA CodesJoin ==
    ASSUME TypeOK, FactorsAgree, OneHolder, CodesAgree, CodeUsedOnce, NEW k \in Desks, NEW tx \in Requests,
           Joins(k, tx), FitsClaims(tx), FitsCodes(tx)
    PROVE  (FactorsAgree /\ OneHolder /\ CodesAgree /\ CodeUsedOnce)'
  <1>1. session' = session /\ factor' = factor /\ minted' = minted /\ overlapped \subseteq overlapped'
    BY DEF Joins, tables
  <1>2. FactorsAgree'
    <2>1. ASSUME NEW j \in Desks, desk'[j].step \in Proofs
          PROVE  /\ desk'[j].factor.secret # 0
                 /\ desk'[j].code = 0 => desk'[j].factor.spare # 0
                 /\ session[desk'[j].session] # None
                 /\ session[desk'[j].session].person = desk'[j].person
                 /\ session[desk'[j].session].org = desk'[j].org
      <3>1. CASE j = k
        BY <2>1, <3>1, Joined DEF FitsCodes, FitsClaims, FactorsAgree
      <3>2. CASE j # k
        BY <2>1, <3>2, Joined DEF FactorsAgree
      <3> QED BY <3>1, <3>2
    <2> QED BY <2>1, <1>1 DEF FactorsAgree
  <1>3. ASSUME NEW c, NEW p, NEW o, Holds(c, p, o)'
        PROVE  Holds(c, p, o)
    <2>1. CASE \E j \in Desks : /\ desk'[j].step \in Proofs /\ desk'[j].person = p /\ desk'[j].org = o
                                /\ c \in {desk'[j].factor.secret, desk'[j].factor.spare}
      BY <2>1, Joined DEF Holds, FitsCodes
    <2> QED BY <1>1, <1>3, <2>1 DEF Holds
  <1>4. OneHolder'
    <2> SUFFICES ASSUME NEW c \in Nat \ {0}, NEW p \in People, NEW o \in Orgs, Holds(c, p, o)'
                 PROVE  /\ c <= minted'
                        /\ \A q \in People, u \in Orgs : Holds(c, q, u)' => q = p /\ u = o
      BY DEF OneHolder, Holds
    <2> QED
      BY <1>1, <1>3 DEF OneHolder
  <1>5. CodesAgree'
    <2>1. ASSUME NEW s \in Sessions, session[s] # None, session[s].code # None
          PROVE  /\ session[s].code.of # 0
                 /\ CodeKey(s) \notin overlapped' =>
                      IF session[s].code.at = 0 THEN FactorOf(s).spare # session[s].code.of
                      ELSE FactorOf(s).secret = session[s].code.of => session[s].code.at <= FactorOf(s).last
      BY <2>1, <1>1 DEF CodesAgree
    <2>2. ASSUME NEW j \in Desks, desk'[j].step \in Proofs, desk'[j].about \notin overlapped',
                 factor[desk'[j].person][desk'[j].org].secret = desk'[j].factor.secret
          PROVE  IF desk'[j].code = 0 THEN factor[desk'[j].person][desk'[j].org].spare = desk'[j].factor.spare
                 ELSE factor[desk'[j].person][desk'[j].org].last < desk'[j].code
      <3>1. CASE j = k
        BY <2>2, <3>1, Joined DEF FitsCodes
      <3>2. CASE j # k
        BY <2>2, <3>2, <1>1, Joined DEF CodesAgree
      <3> QED BY <3>1, <3>2
    <2> QED
      BY <1>1, <2>1, <2>2 DEF CodesAgree, CodeKey, FactorOf
  <1>6. CodeUsedOnce'
    BY <1>1 DEF CodeUsedOnce
  <1> QED
    BY <1>2, <1>4, <1>5, <1>6

(* The whole of the invariant. *)
LEMMA RequestJoins ==
    ASSUME IInv, NEW k \in Desks, NEW tx \in Requests, Joins(k, tx),
           FitsClaims(tx), FitsOpenings(k, tx), FitsPasswords(tx), FitsLinks(tx), FitsCodes(tx)
    PROVE  IInv'
  <1>1. TypeOK'
    <2>1. desk' \in [Desks -> Requests]
      BY Joined DEF IInv
    <2> QED BY <2>1 DEF IInv, TypeOK, Joins, tables, Requests
  <1>2. MembersAgree'
    BY DEF IInv, MembersAgree, Joins, tables
  <1> QED
    BY <1>1, <1>2, ClaimsJoin, OpeningsJoin, PasswordsJoin, LinksJoin, CodesJoin DEF IInv

-----------------------------------------------------------------------------
(* Entering an organisation. *)

(* A resolved session is a live row of a member. *)
LEMMA Resolved ==
    ASSUME TypeOK, NEW s \in Sessions, ResolveSession(s)
    PROVE  /\ session[s] # None /\ session[s] \in SessionRows /\ session[s].live
           /\ session[s].person \in People /\ session[s].org \in Orgs
           /\ member[session[s].person][session[s].org] # None
           /\ session[s].pw \in Int /\ session[s].raced \in BOOLEAN
  BY DEF ResolveSession, Memberships, TypeOK, SessionRows

LEMMA OpenPreserves ==
    ASSUME IInv, NEW k \in Desks, NEW p \in People, NEW o \in Orgs, NEW pw \in Int, NEW old \in Sessions \cup {0},
           NEW raced \in BOOLEAN, NEW founding \in BOOLEAN,
           Open(k, p, o, pw, old, raced, founding), desk[k].step \in {"idle", "switch"},
           UNCHANGED <<tables, ticket, overlapped>>, Claimed(p), Current(p, pw, raced)
    PROVE  IInv'
  <1> DEFINE id == Min(FreeSessions)
             changing == raced \/ PasswordChanging(p)
             passed == MfaSatisfied(p, o, IF founding THEN "owner" ELSE member[p][o].role)
             tx == [step |-> "open", about |-> <<p, o, "session">>, id |-> id, person |-> p, org |-> o,
                    pw |-> pw, old |-> old, founding |-> founding, dead |-> FALSE, raced |-> changing, passed |-> passed]
  <1>1. id \in Sessions /\ session[id] = None /\ id \notin Opening
    BY FreeSessionIsFree DEF Open
  <1>2. changing \in BOOLEAN /\ passed \in BOOLEAN
    BY DEF PasswordChanging, MfaSatisfied
  <1>3. <<p, o, "session">> \in Abouts
    BY DEF Abouts
  <1>4. Goto(k, tx)
    BY DEF Open
  <1>5. \A j \in Desks : Covers(desk[j], id, p, changing)
    BY DEF Covers, PasswordChanging
  <1>6. Current(p, pw, changing)
    BY DEF Current
  <1>7. \A j \in Desks : desk[j].step = "open" => desk[j].id # id
    BY <1>1 DEF Opening
  <1> HIDE DEF id, changing, passed
  <1>8. tx \in Openings
    BY <1>1, <1>2, <1>3 DEF Openings
  <1>9. Joins(k, tx)
    BY <1>4 DEF Joins, Goto
  <1>10. FitsClaims(tx) /\ FitsOpenings(k, tx) /\ FitsPasswords(tx) /\ FitsLinks(tx) /\ FitsCodes(tx)
    <2>1. tx.step = "open" /\ tx.id = id /\ tx.person = p /\ tx.pw = pw /\ tx.raced = changing
      OBVIOUS
    <2> HIDE DEF tx
    <2> QED
      BY <2>1, <1>1, <1>5, <1>6, <1>7
      DEF FitsClaims, FitsOpenings, FitsPasswords, FitsLinks, FitsCodes, OnMember, Guarded, Spends, Proofs
  <1>11. tx \in Requests
    BY <1>8 DEF Requests
  <1> HIDE DEF tx
  <1> QED
    BY <1>9, <1>10, <1>11, RequestJoins

LEMMA LoginSelectPreserves ==
    ASSUME IInv, NEW t \in ticket, NEW k \in Desks, NEW o \in Orgs, LoginSelect(k, t, o) \/ LoginCreateBureau(k, t, o)
    PROVE  IInv'
  <1>1. t \in People \X Int
    BY DEF IInv, TypeOK
  <1>2. t[1] \in People /\ t[2] \in Int
    BY <1>1
  <1>3. Claimed(t[1])
    BY <1>2 DEF IInv, ClaimsAgree, Claimed, LoginSelect, LoginCreateBureau, Matches
  <1>4. Current(t[1], t[2], FALSE)
    BY DEF Current, LoginSelect, LoginCreateBureau, Matches
  <1>5. \E founding \in BOOLEAN : Open(k, t[1], o, t[2], 0, FALSE, founding)
    BY DEF LoginSelect, LoginCreateBureau
  <1>6. desk[k].step = "idle" /\ UNCHANGED <<tables, ticket, overlapped>>
    <2>1. desk[k] = Idle /\ UNCHANGED <<tables, ticket, overlapped>>
      BY DEF LoginSelect, LoginCreateBureau
    <2> QED BY <2>1 DEF Idle
  <1> QED
    BY <1>2, <1>3, <1>4, <1>5, <1>6, OpenPreserves

LEMMA SwitchOpensPreserves ==
    ASSUME IInv, NEW k \in Desks, NEW o \in Orgs, SwitchOpens(k, o) \/ CreateOrganisation(k, o)
    PROVE  IInv'
  <1> DEFINE req == desk[k]
  <1>1. req.step = "switch" /\ UNCHANGED <<tables, ticket, overlapped>>
    BY DEF SwitchOpens, CreateOrganisation
  <1>2. req \in Switches
    BY <1>1, Shapes DEF IInv, TypeOK, Requests
  <1>3. req.person \in People /\ req.pw \in Int /\ req.old \in Sessions \cup {0} /\ req.raced \in BOOLEAN
    BY <1>2 DEF Switches
  <1>4. Claimed(req.person) /\ Current(req.person, req.pw, req.raced)
    BY <1>1 DEF IInv, ClaimsAgree, Personal, PasswordsAgree
  <1>5. \E founding \in BOOLEAN : Open(k, req.person, o, req.pw, req.old, req.raced, founding)
    BY DEF SwitchOpens, CreateOrganisation
  <1> HIDE DEF req
  <1>6. desk[k].step \in {"idle", "switch"}
    BY <1>1 DEF req
  <1> QED
    BY <1>1, <1>3, <1>4, <1>5, <1>6, OpenPreserves

LEMMA SwitchOrganisationPreserves ==
    ASSUME IInv, NEW k \in Desks, NEW s \in Sessions, SwitchOrganisation(k, s)
    PROVE  IInv'
  <1> DEFINE p == session[s].person
             changing == session[s].raced \/ PasswordChanging(p)
             tx == [step |-> "switch", about |-> <<p, None, "switch">>, person |-> p, pw |-> session[s].pw, old |-> s,
                    raced |-> changing]
  <1>1. p \in People /\ session[s].pw \in Int /\ session[s] # None /\ session[s].live /\ session[s].raced \in BOOLEAN
    BY Resolved DEF SwitchOrganisation, IInv
  <1>2. Claimed(p) /\ Current(p, session[s].pw, session[s].raced)
    BY <1>1 DEF IInv, ClaimsAgree, PasswordsAgree
  <1>3. changing \in BOOLEAN
    BY <1>1 DEF PasswordChanging
  <1>4. Current(p, session[s].pw, changing)
    BY <1>2 DEF Current
  <1>5. <<p, None, "switch">> \in Abouts
    BY <1>1 DEF Abouts
  <1>6. Joins(k, tx)
    BY DEF SwitchOrganisation, Goto, Joins, Idle
  <1> HIDE DEF p, changing
  <1>7. tx \in Requests
    <2>1. tx \in Switches
      BY <1>1, <1>3, <1>5 DEF Switches
    <2> QED BY <2>1 DEF Requests
  <1>8. tx.step = "switch" /\ tx.person = p /\ tx.pw = session[s].pw /\ tx.raced = changing
    OBVIOUS
  <1> HIDE DEF tx
  <1>9. FitsClaims(tx) /\ FitsOpenings(k, tx) /\ FitsPasswords(tx) /\ FitsLinks(tx) /\ FitsCodes(tx)
    BY <1>1, <1>2, <1>4, <1>8
    DEF FitsClaims, FitsOpenings, FitsPasswords, FitsLinks, FitsCodes, OnMember, Guarded, Spends, Proofs
  <1> QED
    BY <1>6, <1>7, <1>9, RequestJoins

-----------------------------------------------------------------------------
(* Links are asked for, and followed. *)

LEMMA IssuePreserves ==
    ASSUME IInv, NEW k \in Desks, NEW p \in People, NEW o \in Orgs, NEW purpose \in Purposes,
           Issue(k, p, o, purpose), desk[k] = Idle, UNCHANGED <<tables, ticket>>,
           member[p][o] # None, purpose # "invitation" => Claimed(p)
    PROVE  IInv'
  <1> DEFINE spent == Outstanding(p, o, purpose)
             tx == [step |-> "issue", about |-> <<p, o, purpose>>, person |-> p, org |-> o,
                    purpose |-> purpose, spent |-> spent]
  <1>1. spent \in SUBSET Links
    BY DEF Outstanding
  <1>2. <<p, o, purpose>> \in Abouts
    BY DEF Abouts
  <1>3. Joins(k, tx) /\ Overlap(<<p, o, purpose>>)
    <2>1. Overlap(<<p, o, purpose>>) /\ Goto(k, tx)
      BY DEF Issue
    <2> HIDE DEF tx
    <2> QED
      BY <2>1 DEF Goto, Joins, Idle, Overlap
  <1>4. /\ \A l \in Links : link[l] # None /\ Key(l) = <<p, o, purpose>> /\ ~link[l].used => l \in spent
        /\ \A l \in spent : link[l] # None /\ Key(l) = <<p, o, purpose>>
    BY DEF Key, Outstanding
  <1> HIDE DEF spent
  <1>5. tx \in Requests
    <2>1. tx \in Issues
      BY <1>1, <1>2 DEF Issues
    <2> QED BY <2>1 DEF Requests
  <1>6. tx.step = "issue" /\ tx.person = p /\ tx.org = o /\ tx.purpose = purpose /\ tx.about = <<p, o, purpose>> /\ tx.spent = spent
    OBVIOUS
  <1> HIDE DEF tx
  <1>7. FitsClaims(tx) /\ FitsOpenings(k, tx) /\ FitsPasswords(tx) /\ FitsCodes(tx)
    BY <1>6 DEF FitsClaims, FitsOpenings, FitsPasswords, FitsCodes, Proofs, Personal
  <1>8. FitsLinks(tx)
    BY <1>3, <1>4, <1>6 DEF FitsLinks, OnMember, Guarded, Spends, Proofs
  <1> QED
    BY <1>3, <1>5, <1>7, <1>8, RequestJoins

LEMMA ForgotPasswordPreserves ==
    ASSUME IInv, NEW k \in Desks, NEW p \in People, NEW o \in Orgs, ForgotPassword(k, p, o)
    PROVE  IInv'
  BY IssuePreserves DEF ForgotPassword, Claimed, Purposes

LEMMA ResendVerificationEmailPreserves ==
    ASSUME IInv, NEW k \in Desks, NEW s \in Sessions, ResendVerificationEmail(k, s)
    PROVE  IInv'
  <1>1. session[s] # None /\ session[s].person \in People /\ session[s].org \in Orgs
        /\ member[session[s].person][session[s].org] # None
    BY Resolved DEF ResendVerificationEmail, IInv
  <1>2. Claimed(session[s].person)
    BY <1>1 DEF IInv, ClaimsAgree
  <1> QED
    BY <1>1, <1>2, IssuePreserves DEF ResendVerificationEmail, Purposes

(* A session that acts in a role is a row of a member. *)
LEMMA ActingSession ==
    ASSUME TypeOK, NEW s \in Sessions, NEW roles, Acting(s, roles)
    PROVE  /\ session[s] # None /\ session[s] \in SessionRows
           /\ session[s].person \in People /\ session[s].org \in Orgs
           /\ member[session[s].person][session[s].org] # None
  BY Resolved DEF Acting, AuthenticatedSession, RequireMfa

LEMMA ResendInvitationPreserves ==
    ASSUME IInv, NEW k \in Desks, NEW s \in Sessions, NEW q \in People, ResendInvitation(k, s, q)
    PROVE  IInv'
  <1> DEFINE o == session[s].org
             purpose == IF NeedsRegistration(account[q]) \/ Known(q) THEN "invitation" ELSE "reset"
  <1>1. o \in Orgs /\ member[q][o] # None /\ purpose \in Purposes
    BY ActingSession DEF ResendInvitation, IInv, Purposes
  <1>2. purpose # "invitation" => Claimed(q)
    <2>1. account[q] # None /\ account[q] \in AccountRows
      BY <1>1 DEF IInv, MembersAgree, TypeOK
    <2>2. ASSUME purpose # "invitation" PROVE ~NeedsRegistration(account[q]) /\ ~Known(q)
      BY <2>2
    <2> QED
      BY <2>1, <2>2 DEF NeedsRegistration, Claimed, Known, AccountRows, IInv, MembersAgree
  <1>3. Issue(k, q, o, purpose) /\ desk[k] = Idle /\ UNCHANGED <<tables, ticket>>
    BY DEF ResendInvitation
  <1> HIDE DEF o, purpose
  <1> QED
    BY <1>1, <1>2, <1>3, IssuePreserves

(* A session or an opening one belongs to what a change of password will end, or was raced by it. *)
LEMMA BegunCovers ==
    ASSUME TypeOK, NEW p \in People, NEW tx, tx.step = "password", tx.person = p, tx.kills = Begun(p, Orgs)
    PROVE  /\ \A s \in Sessions : session[s] # None /\ session[s].live => Covers(tx, s, session[s].person, session[s].raced)
           /\ \A j \in Desks : desk[j].step = "open" => Covers(tx, desk[j].id, desk[j].person, desk[j].raced)
  <1>1. ASSUME NEW s \in Sessions, session[s] # None PROVE Covers(tx, s, session[s].person, session[s].raced)
    BY <1>1 DEF Covers, Begun, TypeOK, SessionRows
  <1>2. ASSUME NEW j \in Desks, desk[j].step = "open" PROVE Covers(tx, desk[j].id, desk[j].person, desk[j].raced)
    <2>1. desk[j] \in Openings
      BY <1>2, Shapes DEF TypeOK, Requests
    <2> QED
      BY <1>2, <2>1 DEF Covers, Begun, Openings
  <1> QED
    BY <1>1, <1>2

LEMMA ChangePasswordPreserves ==
    ASSUME IInv, NEW k \in Desks, NEW s \in Sessions, ChangePassword(k, s)
    PROVE  IInv'
  <1> DEFINE p == session[s].person
             kills == Begun(p, Orgs)
             tx == [step |-> "password", about |-> <<p, None, "password">>, person |-> p, org |-> None,
                    link |-> 0, kills |-> kills]
  <1>1. p \in People /\ Claimed(p)
    BY Resolved DEF ChangePassword, RequireMfa, IInv, ClaimsAgree
  <1>2. kills \in SUBSET Sessions
    BY Shapes DEF Begun, IInv, TypeOK, Requests, Openings
  <1>3. <<p, None, "password">> \in Abouts
    BY <1>1 DEF Abouts
  <1>4. Joins(k, tx)
    <2>1. desk[k] = Idle /\ Goto(k, tx) /\ UNCHANGED <<tables, ticket, overlapped>>
      BY DEF ChangePassword
    <2> HIDE DEF tx
    <2> QED BY <2>1 DEF Goto, Joins, Idle
  <1> HIDE DEF kills, p
  <1>5. tx \in Requests
    <2>1. tx \in Uses
      BY <1>1, <1>2, <1>3 DEF Uses
    <2> QED BY <2>1 DEF Requests
  <1>6. tx.step = "password" /\ tx.person = p /\ tx.link = 0 /\ tx.kills = Begun(p, Orgs)
    BY DEF kills
  <1> HIDE DEF tx
  <1>7. FitsClaims(tx) /\ FitsOpenings(k, tx) /\ FitsLinks(tx) /\ FitsCodes(tx)
    BY <1>1, <1>6 DEF FitsClaims, FitsOpenings, FitsCodes, FitsLinks, OnMember, Guarded, Spends,
       Proofs
  <1>8. FitsPasswords(tx)
    BY <1>1, <1>6, BegunCovers DEF FitsPasswords, IInv
  <1> QED
    BY <1>4, <1>5, <1>7, <1>8, RequestJoins

LEMMA SpendLinkPreserves ==
    ASSUME IInv, NEW k \in Desks, NEW l \in Links, NEW do \in {"password", "address", "accept"}, NEW kills \in SUBSET Sessions,
           SpendLink(k, l, do, kills), Consumable(l, PurposeOf(do)), desk[k] = Idle, UNCHANGED <<tables, ticket>>,
           do = "password" => kills = Begun(link[l].person, Orgs)
    PROVE  IInv'
  <1> DEFINE p == link[l].person
             o == link[l].org
             about == <<link[l].person, link[l].org, link[l].purpose>>
             tx == [step |-> do, about |-> about, person |-> p, org |-> o, link |-> l, kills |-> kills]
  <1>1. link[l] # None /\ link[l] \in LinkRows /\ ~link[l].used /\ link[l].purpose = PurposeOf(do)
    BY DEF Consumable, UsedUp, IInv, TypeOK
  <1>2. p \in People /\ o \in Orgs /\ member[p][o] # None
    BY <1>1 DEF IInv, RowsAgree, LinkRows
  <1>3. about \in Abouts /\ about = Key(l) /\ about = <<p, o, PurposeOf(do)>>
    BY <1>1, <1>2 DEF Abouts, LinkRows, Key
  <1>4. do # "accept" => Claimed(p)
    BY <1>1 DEF IInv, ClaimsAgree, PurposeOf
  <1>5. Joins(k, tx) /\ Overlap(about)
    <2>1. Overlap(about) /\ Goto(k, tx)
      BY DEF SpendLink
    <2> HIDE DEF tx, about
    <2> QED
      BY <2>1 DEF Goto, Joins, Idle, Overlap
  <1>6. do = "password" => kills = Begun(p, Orgs)
    OBVIOUS
  <1>7. l # 0
    BY DEF Links
  <1> HIDE DEF p, o, about
  <1>8. tx \in Requests
    <2>1. tx \in Uses
      BY <1>1, <1>2, <1>3 DEF Uses
    <2> QED BY <2>1 DEF Requests
  <1>9. tx.step = do /\ tx.person = p /\ tx.org = o /\ tx.link = l /\ tx.about = about /\ tx.kills = kills
    OBVIOUS
  <1> HIDE DEF tx
  <1>10. FitsClaims(tx) /\ FitsOpenings(k, tx) /\ FitsCodes(tx)
    BY <1>2, <1>4, <1>9 DEF FitsClaims, FitsOpenings, FitsCodes, Proofs, Personal
  <1>11. FitsPasswords(tx)
    BY <1>2, <1>6, <1>9, BegunCovers DEF FitsPasswords, IInv
  <1>12. FitsLinks(tx)
    BY <1>1, <1>2, <1>3, <1>5, <1>7, <1>9 DEF FitsLinks, OnMember, Guarded, Proofs
  <1> QED
    BY <1>5, <1>8, <1>10, <1>11, <1>12, RequestJoins

LEMMA FollowingPreserves ==
    ASSUME IInv, NEW k \in Desks, NEW l \in Links, ResetPassword(k, l) \/ VerifyEmail(k, l) \/ AcceptInvitation(k, l)
    PROVE  IInv'
  <1>1. CASE ResetPassword(k, l)
    <2>1. Begun(link[l].person, Orgs) \in SUBSET Sessions
      BY Shapes DEF Begun, IInv, TypeOK, Requests, Openings
    <2> QED
      BY <1>1, <2>1, SpendLinkPreserves DEF ResetPassword, PurposeOf
  <1>2. CASE VerifyEmail(k, l)
    BY <1>2, SpendLinkPreserves DEF VerifyEmail, PurposeOf
  <1>3. CASE AcceptInvitation(k, l)
    BY <1>3, SpendLinkPreserves DEF AcceptInvitation, PurposeOf
  <1> QED
    BY <1>1, <1>2, <1>3

-----------------------------------------------------------------------------
(* A code is given. *)

LEMMA ProvePreserves ==
    ASSUME IInv, NEW k \in Desks, NEW s \in Sessions, NEW n \in Steps, NEW do \in Proofs, Prove(k, s, do, n)
    PROVE  IInv'
  <1> DEFINE p == session[s].person
             o == session[s].org
             f == factor[p][o]
             about == <<p, o, "code">>
             tx == [step |-> do, about |-> about, person |-> p, org |-> o, session |-> s, factor |-> f, code |-> n]
  <1>1. ResolveSession(s) /\ f.state # "off"
    BY DEF Prove, MayAnswer, EnrollingSession, AuthenticatedSession, RequireMfa, Proofs
  <1>2. session[s] # None /\ p \in People /\ o \in Orgs /\ member[p][o] # None
    BY <1>1, Resolved DEF IInv
  <1>3. Claimed(p)
    BY <1>2 DEF IInv, ClaimsAgree
  <1>4. f \in FactorRows
    BY <1>2 DEF IInv, TypeOK
  <1>5. IF n = 0 THEN f.spare # 0 ELSE f.last < n
    BY <1>4 DEF Prove, CodeGood, NotReplayed, FactorRows, Steps
  <1>6. about \in Abouts
    BY <1>2 DEF Abouts
  <1>7. Joins(k, tx) /\ Overlap(about)
    <2>1. Overlap(about) /\ Goto(k, tx) /\ desk[k] = Idle /\ UNCHANGED <<tables, ticket>>
      BY DEF Prove
    <2> HIDE DEF tx, about
    <2> QED
      BY <2>1 DEF Goto, Joins, Idle, Overlap
  <1>8. f = factor[p][o] /\ session[s].person = p /\ session[s].org = o /\ about = <<p, o, "code">>
    OBVIOUS
  <1> HIDE DEF p, o, f, about
  <1>9. tx \in Requests
    <2>1. tx \in Answers
      BY <1>2, <1>4, <1>6 DEF Answers
    <2> QED BY <2>1 DEF Requests
  <1>10. tx.step = do /\ tx.person = p /\ tx.org = o /\ tx.session = s /\ tx.about = about /\ tx.factor = f /\ tx.code = n
    OBVIOUS
  <1> HIDE DEF tx
  <1>11. FitsClaims(tx) /\ FitsOpenings(k, tx) /\ FitsPasswords(tx)
    BY <1>2, <1>3, <1>10 DEF FitsClaims, FitsOpenings, FitsPasswords, Proofs
  <1>12. FitsLinks(tx)
    BY <1>2, <1>7, <1>8, <1>10 DEF FitsLinks, OnMember, Guarded, Spends, Proofs
  <1>13. FitsCodes(tx)
    BY <1>1, <1>2, <1>5, <1>8, <1>10 DEF FitsCodes
  <1> QED
    BY <1>7, <1>9, <1>11, <1>12, <1>13, RequestJoins

-----------------------------------------------------------------------------
(* A membership is about to be changed. *)

LEMMA ChangePreserves ==
    ASSUME IInv, NEW k \in Desks, NEW q \in People, NEW o \in Orgs, NEW do \in Roles \cup {"on", "off", "access", "delete"},
           Change(k, q, o, do), desk[k] = Idle, UNCHANGED <<tables, ticket>>, member[q][o] # None
    PROVE  IInv'
  <1> DEFINE about == <<None, o, "members">>
             kills == Begun(q, {o})
             tx == [step |-> "member", about |-> about, person |-> q, org |-> o, change |-> do, kills |-> kills]
  <1>1. about \in Abouts
    BY DEF Abouts
  <1>2. kills \in SUBSET Sessions
    BY Shapes DEF Begun, IInv, TypeOK, Requests, Openings
  <1>3. Joins(k, tx)
    <2>1. Overlap(about) /\ Goto(k, tx)
      BY DEF Change
    <2> HIDE DEF tx, about
    <2> QED
      BY <2>1 DEF Goto, Joins, Idle, Overlap
  <1> HIDE DEF about, kills
  <1>4. tx \in Requests
    <2>1. tx \in Changes
      BY <1>1, <1>2 DEF Changes
    <2> QED BY <2>1 DEF Requests
  <1>5. tx.step = "member" /\ tx.person = q /\ tx.org = o
    OBVIOUS
  <1> HIDE DEF tx
  <1>6. FitsClaims(tx) /\ FitsOpenings(k, tx) /\ FitsPasswords(tx) /\ FitsLinks(tx) /\ FitsCodes(tx)
    BY <1>5 DEF FitsClaims, FitsOpenings, FitsPasswords, FitsLinks, FitsCodes, OnMember,
       Personal, Guarded, Spends, Proofs
  <1> QED
    BY <1>3, <1>4, <1>6, RequestJoins

LEMMA ChangingPreserves ==
    ASSUME IInv, NEW k \in Desks, NEW s \in Sessions, NEW q \in People, NEW o \in Orgs,
           \/ \E do \in Offered \cup {"on", "off", "access"} : UpdateUser(k, s, q, do)
           \/ DeleteUser(k, s, q)
           \/ LeaveOrganisation(k, s)
           \/ DeleteTenantUser(k, s, q, o)
           \/ RevokeSuperuser(k, s, q, o)
    PROVE  IInv'
  <1>1. CASE \E do \in Offered \cup {"on", "off", "access"} : UpdateUser(k, s, q, do)
    <2>1. PICK do \in Offered \cup {"on", "off", "access"} : UpdateUser(k, s, q, do)
      BY <1>1
    <2>2. do \in Roles \cup {"on", "off", "access", "delete"}
      BY AccountsAssumptions
    <2>3. session[s].org \in Orgs
      BY <2>1, ActingSession DEF UpdateUser, IInv
    <2>4. Change(k, q, session[s].org, do) /\ desk[k] = Idle /\ UNCHANGED <<tables, ticket>>
          /\ member[q][session[s].org] # None
      BY <2>1 DEF UpdateUser
    <2> QED BY <2>2, <2>3, <2>4, ChangePreserves
  <1>2. CASE DeleteUser(k, s, q)
    <2>1. session[s].org \in Orgs
      BY <1>2, ActingSession DEF DeleteUser, IInv
    <2>2. Change(k, q, session[s].org, "delete") /\ desk[k] = Idle /\ UNCHANGED <<tables, ticket>>
          /\ member[q][session[s].org] # None
      BY <1>2 DEF DeleteUser
    <2> QED BY <2>1, <2>2, ChangePreserves
  <1>3. CASE LeaveOrganisation(k, s)
    <2>1. session[s].org \in Orgs /\ session[s].person \in People /\ member[session[s].person][session[s].org] # None
      BY <1>3, ActingSession DEF LeaveOrganisation, IInv
    <2>2. Change(k, session[s].person, session[s].org, "off") /\ desk[k] = Idle /\ UNCHANGED <<tables, ticket>>
      BY <1>3 DEF LeaveOrganisation
    <2> QED BY <2>1, <2>2, ChangePreserves
  <1>4. CASE DeleteTenantUser(k, s, q, o) \/ RevokeSuperuser(k, s, q, o)
    BY <1>4, ChangePreserves DEF DeleteTenantUser, RevokeSuperuser
  <1> QED
    BY <1>1, <1>2, <1>3, <1>4

-----------------------------------------------------------------------------
(* Steps that change tables and take up nothing. *)

(* The ways a step leaves the desks without taking up a request. *)
LEMMA DesksCalm ==
    ASSUME TypeOK
    PROVE  /\ desk' = desk => AllCalm
           /\ \A k \in Desks : Goto(k, Idle) => AllCalm
           /\ \A kills : desk' = RetiredDesks(kills) => AllCalm
           /\ \A k \in Desks : \A kills : desk' = [RetiredDesks(kills) EXCEPT ![k] = Idle] => AllCalm
           /\ \A k \in Desks : \A p, o : desk' = [Bereft(p, o) EXCEPT ![k] = Idle] => AllCalm
           /\ \A k \in Desks : \A kills, p : desk' = Overtaken(k, kills, p) => AllCalm
  <1>1. desk = [j \in Desks |-> desk[j]]
    BY DEF TypeOK
  <1>2. desk' = desk => AllCalm
    BY <1>1 DEF AllCalm, Calm
  <1>3. ASSUME NEW k \in Desks, Goto(k, Idle) PROVE AllCalm
    BY <1>1, <1>3 DEF AllCalm, Calm, Goto
  <1>4. ASSUME NEW kills, NEW j \in Desks
        PROVE  \/ RetiredDesks(kills)[j] = desk[j]
               \/ (desk[j].step = "open" /\ RetiredDesks(kills)[j] = [desk[j] EXCEPT !.dead = TRUE])
    BY DEF RetiredDesks
  <1>5. \A kills : RetiredDesks(kills) = [j \in Desks |-> RetiredDesks(kills)[j]]
    BY DEF RetiredDesks
  <1>6. ASSUME NEW kills, desk' = RetiredDesks(kills) PROVE AllCalm
    BY <1>4, <1>5, <1>6 DEF AllCalm, Calm
  <1>7. ASSUME NEW kills, NEW k \in Desks, desk' = [RetiredDesks(kills) EXCEPT ![k] = Idle] PROVE AllCalm
    <2>1. \A j \in Desks : desk'[j] = IF j = k THEN Idle ELSE RetiredDesks(kills)[j]
      BY <1>5, <1>7
    <2>2. desk' = [j \in Desks |-> desk'[j]]
      BY <1>5, <1>7
    <2>3. ASSUME NEW j \in Desks PROVE Calm(j)
      BY <2>1, <1>4 DEF Calm
    <2> QED BY <2>2, <2>3 DEF AllCalm
  <1>8. ASSUME NEW p, NEW o, NEW k \in Desks, desk' = [Bereft(p, o) EXCEPT ![k] = Idle] PROVE AllCalm
    BY <1>8 DEF AllCalm, Calm, Bereft
  <1>9. ASSUME NEW kills, NEW p, NEW k \in Desks, desk' = Overtaken(k, kills, p) PROVE AllCalm
    <2>1. \A j \in Desks : desk'[j] = IF j = k THEN Idle
                                      ELSE IF desk[j].step = "switch" /\ desk[j].person = p THEN [desk[j] EXCEPT !.raced = TRUE]
                                      ELSE RetiredDesks(kills)[j]
      BY <1>9 DEF Overtaken
    <2>2. desk' = [j \in Desks |-> desk'[j]]
      BY <1>9 DEF Overtaken
    <2>3. ASSUME NEW j \in Desks PROVE Calm(j)
      BY <2>1, <1>4 DEF Calm
    <2> QED BY <2>2, <2>3 DEF AllCalm
  <1> QED
    BY <1>2, <1>3, <1>6, <1>7, <1>8, <1>9

(* Revoking sessions touches nothing of them but that they are live. *)
LEMMA SessionsRetired ==
    ASSUME TypeOK, NEW kills
    PROVE  /\ Retired(kills) \in [Sessions -> SessionRows \cup {None}]
           /\ \A s \in Sessions : session'[s] = Retired(kills)[s] => KeepsCode(s)
           /\ \A s \in Sessions : /\ Retired(kills)[s] # None <=> session[s] # None
                                  /\ s \in kills /\ Retired(kills)[s] # None => ~Retired(kills)[s].live
                                  /\ s \notin kills => Retired(kills)[s] = session[s]
  <1>1. ASSUME NEW s \in Sessions
        PROVE  Retired(kills)[s] = IF s \in kills /\ session[s] # None THEN [session[s] EXCEPT !.live = FALSE] ELSE session[s]
    BY DEF Retired
  <1>2. ASSUME NEW s \in Sessions, session[s] # None
        PROVE  session[s] \in SessionRows /\ [session[s] EXCEPT !.live = FALSE] \in SessionRows
               /\ LET t == [session[s] EXCEPT !.live = FALSE]
                  IN  ~t.live /\ t.person = session[s].person /\ t.org = session[s].org /\ t.pw = session[s].pw
                      /\ t.raced = session[s].raced /\ t.code = session[s].code
    BY <1>2 DEF TypeOK, SessionRows
  <1>3. Retired(kills) \in [Sessions -> SessionRows \cup {None}]
    <2>1. \A s \in Sessions : Retired(kills)[s] \in SessionRows \cup {None}
      BY <1>1, <1>2 DEF TypeOK
    <2> QED BY <2>1 DEF Retired
  <1>4. ASSUME NEW s \in Sessions, session[s] # None, s \in kills
        PROVE  /\ Retired(kills)[s] # None /\ ~Retired(kills)[s].live
               /\ session'[s] = Retired(kills)[s] => KeepsCode(s)
    <2> DEFINE t == [session[s] EXCEPT !.live = FALSE]
    <2>1. Retired(kills)[s] = t
      BY <1>1, <1>4
    <2>2. t \in SessionRows /\ ~t.live /\ t.person = session[s].person /\ t.org = session[s].org
          /\ t.pw = session[s].pw /\ t.raced = session[s].raced /\ t.code = session[s].code
      BY <1>2, <1>4
    <2> HIDE DEF t
    <2> QED BY <1>4, <2>1, <2>2, NoneIsNothing DEF KeepsCode, Fate
  <1>5. ASSUME NEW s \in Sessions, session[s] = None \/ s \notin kills
        PROVE  Retired(kills)[s] = session[s] /\ (session'[s] = Retired(kills)[s] => KeepsCode(s))
    BY <1>1, <1>5 DEF KeepsCode, Fate
  <1> QED
    BY <1>3, <1>4, <1>5

(* Signing in through suliko.ge links one account and leaves the others. *)
LEMMA Upserted ==
    ASSUME TypeOK, NEW p \in People
    PROVE  LET a == UpsertFromSuliko(p)
           IN  /\ a \in [People -> AccountRows \cup {None}]
               /\ a[p] \in AccountRows /\ a[p].linked
               /\ \A q \in People : \/ a[q] = account[q]
                                    \/ q = p /\ a[q].linked /\ a[q].pw = 0
  <1> DEFINE a == UpsertFromSuliko(p)
  <1>1. NewAccount(0, TRUE, FALSE) \in AccountRows /\ NewAccount(0, TRUE, FALSE).linked /\ NewAccount(0, TRUE, FALSE).pw = 0
    BY DEF NewAccount, AccountRows
  <1>2. CASE account[p] # None /\ account[p].linked
    <2>1. a = account
      BY <1>2 DEF UpsertFromSuliko
    <2> QED BY <2>1, <1>2 DEF TypeOK
  <1>3. CASE ~(account[p] # None /\ account[p].linked)
    <2>1. a = [account EXCEPT ![p] = NewAccount(0, TRUE, FALSE)]
      BY <1>3 DEF UpsertFromSuliko
    <2> QED BY <2>1, <1>1 DEF TypeOK
  <1> QED
    BY <1>2, <1>3

(* Accounts that sign in on suliko.ge now, and nothing else. *)
LEMMA AccountsGoOn ==
    ASSUME TypeOK, NEW p \in People, account' = account \/ account' = UpsertFromSuliko(p)
    PROVE  /\ account' \in [People -> AccountRows \cup {None}]
           /\ ClaimsStay
           /\ \A q \in People : Claimed(q) => account'[q].pw \in {account[q].pw, 0}
           /\ \A q \in People : account[q] # None => account'[q] # None
           /\ account' = UpsertFromSuliko(p) => Claimed(p)' /\ account'[p] # None
  <1>1. CASE account' = account
    <2>1. account'[p] # None /\ account'[p].linked => Claimed(p)'
      BY DEF Claimed
    <2>2. account' = UpsertFromSuliko(p) => account'[p] \in AccountRows /\ account'[p].linked
      BY Upserted
    <2> QED BY <1>1, <2>1, <2>2, NoneIsNothing DEF ClaimsStay, Claimed, TypeOK
  <1>2. CASE account' = UpsertFromSuliko(p)
    <2>1. /\ account' \in [People -> AccountRows \cup {None}]
          /\ account'[p] \in AccountRows /\ account'[p].linked
          /\ \A q \in People : \/ account'[q] = account[q]
                               \/ q = p /\ account'[q].linked /\ account'[q].pw = 0
      BY <1>2, Upserted
    <2> QED BY <2>1, NoneIsNothing DEF ClaimsStay, Claimed
  <1> QED
    BY <1>1, <1>2

(* Links are as they were, no session is opened, nobody is removed. *)
LEMMA QuietStep ==
    ASSUME IInv, AllCalm, TypeOK', MembersAgree', ClaimsStay,
           \A p \in People : Claimed(p) => account'[p].pw \in {account[p].pw, 0},
           \A t \in ticket' : t[2] = 0 => t \in ticket \/ Claimed(t[1])',
           \A s \in Sessions : KeepsCode(s),
           \A p \in People, o \in Orgs : member[p][o] # None => member'[p][o] # None,
           \A p \in People, o \in Orgs : factor'[p][o] \in {factor[p][o], NoFactor},
           link' = link, minted <= minted', overlapped \subseteq overlapped'
    PROVE  IInv'
  <1>0. \A s \in Sessions : Fate(s)
    BY DEF KeepsCode
  <1>1. ClaimsAgree'
    BY <1>0, ClaimsCalm DEF IInv
  <1>2. OpeningsAgree'
    BY <1>0, OpeningsCalm DEF IInv
  <1>3. PasswordsAgree'
    BY <1>0, PasswordsCalm DEF IInv
  <1>4. (RowsAgree /\ AboutsAgree /\ LinksAgree)'
    BY LinksCalm DEF IInv
  <1>5. (FactorsAgree /\ OneHolder /\ CodesAgree /\ CodeUsedOnce)'
    BY CodesCalm DEF IInv, TypeOK
  <1> QED
    BY <1>1, <1>2, <1>3, <1>4, <1>5 DEF IInv

-----------------------------------------------------------------------------
(* One membership is written and the others stay. *)
LEMMA MemberWritten ==
    ASSUME TypeOK, NEW q \in People, NEW o \in Orgs, NEW row \in MemberRows, member' = [member EXCEPT ![q][o] = row]
    PROVE  /\ member' \in [People -> [Orgs -> MemberRows \cup {None}]]
           /\ member'[q][o] # None
           /\ \A p \in People, u \in Orgs : ~(p = q /\ u = o) => member'[p][u] = member[p][u]
           /\ \A p \in People, u \in Orgs : member[p][u] # None => member'[p][u] # None
  BY NoneIsNothing DEF TypeOK

(* Changing a field of a membership writes that membership. *)
LEMMA MemberChanged ==
    ASSUME TypeOK, NEW q \in People, NEW o \in Orgs, member[q][o] # None, NEW role \in Roles, NEW flag \in BOOLEAN
    PROVE  /\ [member[q][o] EXCEPT !.role = role] \in MemberRows
           /\ [member[q][o] EXCEPT !.active = flag] \in MemberRows
           /\ [member[q][o] EXCEPT !.pending = flag] \in MemberRows
           /\ [member EXCEPT ![q][o].role = role] = [member EXCEPT ![q][o] = [member[q][o] EXCEPT !.role = role]]
           /\ [member EXCEPT ![q][o].active = flag] = [member EXCEPT ![q][o] = [member[q][o] EXCEPT !.active = flag]]
           /\ [member EXCEPT ![q][o].pending = flag] = [member EXCEPT ![q][o] = [member[q][o] EXCEPT !.pending = flag]]
  <1>1. member[q][o] \in MemberRows
    BY DEF TypeOK
  <1>2. [member[q][o] EXCEPT !.role = role] \in MemberRows
    BY <1>1 DEF MemberRows
  <1>3. [member[q][o] EXCEPT !.active = flag] \in MemberRows
    BY <1>1 DEF MemberRows
  <1>4. [member[q][o] EXCEPT !.pending = flag] \in MemberRows
    BY <1>1 DEF MemberRows
  <1> QED
    BY <1>2, <1>3, <1>4 DEF TypeOK

LEMMA LoginPreserves ==
    ASSUME IInv, NEW p \in People, Login(p) \/ SsoExchange(p)
    PROVE  IInv'
  <1>1. account' = account \/ account' = UpsertFromSuliko(p)
    BY DEF Login, SsoExchange, tables
  <1>2. UNCHANGED <<member, org, session, link, factor, minted, desk, overlapped>>
    BY DEF Login, SsoExchange, tables
  <1>3. AllCalm
    BY <1>2, DesksCalm DEF IInv
  <1>4. /\ account' \in [People -> AccountRows \cup {None}]
        /\ ClaimsStay
        /\ \A q \in People : Claimed(q) => account'[q].pw \in {account[q].pw, 0}
        /\ \A q \in People : account[q] # None => account'[q] # None
    BY <1>1, AccountsGoOn DEF IInv
  <1>5. PICK pw \in Int : ticket' = ticket \cup {<<p, pw>>} /\ (pw = 0 => Claimed(p)')
    <2>1. CASE Login(p)
      BY <2>1 DEF Login, IInv, TypeOK, AccountRows
    <2>2. CASE SsoExchange(p)
      <3>1. account' = UpsertFromSuliko(p)
        BY <2>2 DEF SsoExchange
      <3>2. Claimed(p)' /\ account'[p].pw \in Int
        BY <3>1, <1>4, AccountsGoOn DEF IInv, AccountRows
      <3> QED BY <2>2, <3>2 DEF SsoExchange
    <2> QED BY <2>1, <2>2
  <1>6. TypeOK'
    BY <1>2, <1>4, <1>5 DEF IInv, TypeOK
  <1>7. MembersAgree'
    <2>1. CASE Login(p)
      BY <1>2, <2>1 DEF IInv, MembersAgree, Login, tables
    <2>2. CASE SsoExchange(p)
      BY <1>2, <1>4, <2>2 DEF IInv, MembersAgree, SsoExchange
    <2> QED BY <2>1, <2>2
  <1>8. \A t \in ticket' : t[2] = 0 => t \in ticket \/ Claimed(t[1])'
    BY <1>5
  <1>9. (\A s \in Sessions : KeepsCode(s)) /\ minted <= minted'
    BY <1>2 DEF KeepsCode, Fate, IInv, TypeOK
  <1> QED
    BY <1>2, <1>3, <1>4, <1>6, <1>7, <1>8, <1>9, QuietStep

(* Steps that leave accounts and tickets, factors and links alone. *)
LEMMA SessionsEnd ==
    ASSUME IInv, AllCalm, UNCHANGED <<account, ticket, link, minted, overlapped>>,
           session' = session \/ \E kills : session' = Retired(kills),
           member' \in [People -> [Orgs -> MemberRows \cup {None}]],
           org' \in [Orgs -> {"none", "usable", "suspended"}],
           factor' \in [People -> [Orgs -> FactorRows]],
           \A o \in Orgs : org[o] # "none" => org'[o] # "none",
           \A p \in People, o \in Orgs : member[p][o] # None <=> member'[p][o] # None,
           \A p \in People, o \in Orgs : factor'[p][o] \in {factor[p][o], NoFactor}
    PROVE  IInv'
  <1>1. session' \in [Sessions -> SessionRows \cup {None}] /\ \A s \in Sessions : KeepsCode(s)
    BY SessionsRetired DEF IInv, TypeOK, KeepsCode, Fate
  <1>2. TypeOK'
    <2>1. desk' \in [Desks -> Requests]
      BY TypeCalm DEF IInv
    <2> QED BY <1>1, <2>1 DEF IInv, TypeOK, Requests
  <1>3. MembersAgree'
    BY DEF IInv, MembersAgree
  <1>4. ClaimsStay /\ (\A p \in People : Claimed(p) => account'[p].pw \in {account[p].pw, 0}) /\ minted <= minted'
    BY DEF ClaimsStay, Claimed, IInv, TypeOK
  <1> QED
    BY <1>1, <1>2, <1>3, <1>4, QuietStep

(* The absent factor is a factor row that is off. *)
LEMMA NoFactorIsOne == NoFactor \in FactorRows /\ NoFactor.state = "off" /\ NoFactor.secret = 0 /\ NoFactor.spare = 0
  BY DEF NoFactor, FactorRows

LEMMA LogoutPreserves ==
    ASSUME IInv, NEW s \in Sessions, Logout(s)
    PROVE  IInv'
  BY DesksCalm, SessionsEnd DEF Logout, IInv, TypeOK

LEMMA RollBackPreserves ==
    ASSUME IInv, NEW k \in Desks, RollBack(k)
    PROVE  IInv'
  BY DesksCalm, SessionsEnd DEF RollBack, tables, IInv, TypeOK

LEMMA SetTenantStatusPreserves ==
    ASSUME IInv, NEW s \in Sessions, NEW o \in Orgs, SetTenantStatus(s, o)
    PROVE  IInv'
  <1>1. org' \in [Orgs -> {"none", "usable", "suspended"}] /\ \A u \in Orgs : org[u] # "none" => org'[u] # "none"
    BY DEF SetTenantStatus, IInv, TypeOK
  <1> QED
    BY <1>1, DesksCalm, SessionsEnd DEF SetTenantStatus, IInv, TypeOK

LEMMA ResetUserMfaPreserves ==
    ASSUME IInv, NEW s \in Sessions, NEW q \in People, ResetUserMfa(s, q)
    PROVE  IInv'
  <1>1. session[s].org \in Orgs
    BY ActingSession DEF ResetUserMfa, IInv
  <1>2. /\ factor' \in [People -> [Orgs -> FactorRows]]
        /\ \A p \in People, o \in Orgs : factor'[p][o] \in {factor[p][o], NoFactor}
    BY <1>1, NoFactorIsOne DEF ResetUserMfa, IInv, TypeOK
  <1>3. AllCalm
    BY DesksCalm DEF ResetUserMfa, IInv
  <1> QED
    BY <1>2, <1>3, SessionsEnd DEF ResetUserMfa, IInv, TypeOK

LEMMA CommitChangePreserves ==
    ASSUME IInv, NEW k \in Desks, CommitChange(k), desk[k].change # "delete"
    PROVE  IInv'
  <1> DEFINE q == desk[k].person
             o == desk[k].org
             change == desk[k].change
  <1>1. desk[k].step = "member" /\ desk[k] \in Changes
    BY Shapes DEF CommitChange, IInv, TypeOK, Requests
  <1>2. q \in People /\ o \in Orgs /\ member[q][o] # None /\ change \in Roles \cup {"on", "off", "access"}
    BY <1>1 DEF IInv, RowsAgree, OnMember, Changes
  <1>3. /\ member' = CASE change = "on" -> [member EXCEPT ![q][o].active = TRUE]
                       [] change = "off" -> [member EXCEPT ![q][o].active = FALSE]
                       [] change = "access" -> member
                       [] OTHER -> [member EXCEPT ![q][o].role = change]
        /\ \E kills : session' = Retired(kills) /\ desk' = [RetiredDesks(kills) EXCEPT ![k] = Idle]
        /\ UNCHANGED <<account, org, ticket, link, factor, minted, overlapped>>
    BY DEF CommitChange
  <1> HIDE DEF q, o, change
  <1>4. member' = member \/ \E row \in MemberRows : member' = [member EXCEPT ![q][o] = row]
    <2>1. change \in Roles \/ change \in {"on", "off", "access"}
      BY <1>2
    <2>2. CASE change \in {"on", "off", "access"}
      BY <1>2, <1>3, <2>2, MemberChanged DEF IInv, Roles
    <2>3. CASE change \in Roles
      <3>1. member' = [member EXCEPT ![q][o].role = change]
        BY <1>3, <2>3 DEF Roles
      <3> QED BY <1>2, <3>1, <2>3, MemberChanged DEF IInv
    <2> QED BY <2>1, <2>2, <2>3
  <1>5. /\ member' \in [People -> [Orgs -> MemberRows \cup {None}]]
        /\ \A p \in People, u \in Orgs : member[p][u] # None <=> member'[p][u] # None
    BY <1>2, <1>4, MemberWritten DEF IInv, TypeOK
  <1>6. AllCalm
    BY <1>3, DesksCalm DEF IInv
  <1> QED
    BY <1>3, <1>5, <1>6, SessionsEnd DEF IInv, TypeOK

(* A member more. *)
LEMMA NewMemberIsOne ==
    ASSUME NEW role \in Roles, NEW pending \in BOOLEAN, NEW by \in People \cup {None}
    PROVE  NewMember(role, pending, by) \in MemberRows
  BY DEF NewMember, MemberRows

LEMMA CreateTenantUserPreserves ==
    ASSUME IInv, NEW s \in Sessions, NEW q \in People, NEW o \in Orgs, NEW role \in Offered, CreateTenantUser(s, q, o, role)
    PROVE  IInv'
  <1> DEFINE row == NewMember(role, FALSE, None)
  <1>1. row \in MemberRows
    BY NewMemberIsOne, AccountsAssumptions
  <1>2. member' = [member EXCEPT ![q][o] = row] /\ org[o] # "none"
        /\ UNCHANGED <<org, ticket, session, link, factor, desk>> /\ overlapped \subseteq overlapped'
    BY DEF CreateTenantUser, Overlap
  <1> HIDE DEF row
  <1>3. minted' \in Nat /\ minted <= minted'
    <2>1. minted \in Nat /\ (minted' = minted \/ minted' = minted + 1)
      BY DEF CreateTenantUser, IInv, TypeOK
    <2> QED BY <2>1
  <1>4. /\ account' \in [People -> AccountRows \cup {None}] /\ account'[q] # None
        /\ \A p \in People : account[p] # None => account'[p] = account[p]
        /\ \A p \in People : account[p] = None /\ account'[p] # None => account'[p].pw # 0
    <2>1. CASE account[q] # None
      BY <2>1 DEF CreateTenantUser, IInv, TypeOK
    <2>2. CASE account[q] = None
      <3> DEFINE a == [NewAccount(minted', FALSE, TRUE) EXCEPT !.verified = TRUE]
      <3>1. account' = [account EXCEPT ![q] = a] /\ minted' = minted + 1
        BY <2>2 DEF CreateTenantUser
      <3>2. a \in AccountRows /\ a.pw # 0
        <4> DEFINE b == NewAccount(minted', FALSE, TRUE)
        <4>1. minted' \in Int /\ minted' # 0
          BY <3>1 DEF IInv, TypeOK
        <4>2. b \in AccountRows /\ b.pw # 0
          BY <4>1 DEF NewAccount, AccountRows
        <4>3. a = [b EXCEPT !.verified = TRUE]
          OBVIOUS
        <4> HIDE DEF a, b
        <4> QED BY <4>2, <4>3 DEF AccountRows
      <3> HIDE DEF a
      <3> QED BY <2>2, <3>1, <3>2, NoneIsNothing DEF IInv, TypeOK
    <2> QED BY <2>1, <2>2
  <1>5. /\ member' \in [People -> [Orgs -> MemberRows \cup {None}]]
        /\ \A p \in People, u \in Orgs : ~(p = q /\ u = o) => member'[p][u] = member[p][u]
        /\ \A p \in People, u \in Orgs : member[p][u] # None => member'[p][u] # None
    BY <1>1, <1>2, MemberWritten DEF IInv
  <1>6. TypeOK'
    BY <1>2, <1>3, <1>4, <1>5 DEF IInv, TypeOK
  <1>7. MembersAgree'
    BY <1>2, <1>4, <1>5 DEF IInv, MembersAgree
  <1>8. ClaimsStay /\ \A p \in People : Claimed(p) => account'[p].pw \in {account[p].pw, 0}
    BY <1>4 DEF ClaimsStay, Claimed
  <1>9. AllCalm /\ (\A t \in Sessions : KeepsCode(t))
    BY <1>2, DesksCalm DEF KeepsCode, Fate, IInv
  <1> QED
    BY <1>2, <1>3, <1>5, <1>6, <1>7, <1>8, <1>9, QuietStep

LEMMA GrantSuperuserPreserves ==
    ASSUME IInv, NEW s \in Sessions, NEW q \in People, GrantSuperuser(s, q)
    PROVE  IInv'
  <1> DEFINE o == session[s].org
             by == IF member[q][o] = None THEN None ELSE member[q][o].by
             row == NewMember("superuser", FALSE, by)
  <1>1. o \in Orgs /\ org[o] # "none"
    BY ActingSession DEF GrantSuperuser, IInv, MembersAgree
  <1>2. row \in MemberRows
    <2>1. by \in People \cup {None}
      BY <1>1 DEF IInv, TypeOK, MemberRows
    <2> HIDE DEF by
    <2> QED BY <2>1, NewMemberIsOne DEF Roles
  <1>3. /\ account' = UpsertFromSuliko(q)
        /\ (member' = member /\ member[q][o] # None) \/ member' = [member EXCEPT ![q][o] = row]
        /\ \E kills : session' = Retired(kills) /\ desk' = RetiredDesks(kills)
        /\ UNCHANGED <<org, ticket, link, factor, minted, overlapped>>
    BY DEF GrantSuperuser
  <1> HIDE DEF row
  <1>4. AllCalm
    BY <1>3, DesksCalm DEF IInv
  <1>5. session' \in [Sessions -> SessionRows \cup {None}] /\ \A t \in Sessions : KeepsCode(t)
    BY <1>3, SessionsRetired DEF IInv
  <1>6. /\ account' \in [People -> AccountRows \cup {None}]
        /\ ClaimsStay
        /\ \A p \in People : Claimed(p) => account'[p].pw \in {account[p].pw, 0}
        /\ \A p \in People : account[p] # None => account'[p] # None
        /\ account'[q] # None
    BY <1>3, AccountsGoOn DEF IInv
  <1>7. /\ member' \in [People -> [Orgs -> MemberRows \cup {None}]]
        /\ \A p \in People, u \in Orgs : ~(p = q /\ u = o) => member'[p][u] = member[p][u]
        /\ \A p \in People, u \in Orgs : member[p][u] # None => member'[p][u] # None
    <2> HIDE DEF o, by
    <2>1. TypeOK BY DEF IInv
    <2>2. CASE member' = member
      BY <2>1, <2>2 DEF TypeOK
    <2>3. CASE member' = [member EXCEPT ![q][o] = row]
      BY <2>1, <2>3, <1>1, <1>2, MemberWritten
    <2> QED BY <1>3, <2>2, <2>3
  <1>8. desk' \in [Desks -> Requests]
    BY <1>4, TypeCalm DEF IInv
  <1>9. TypeOK'
    BY <1>3, <1>5, <1>6, <1>7, <1>8 DEF IInv, TypeOK, Requests
  <1>10. MembersAgree'
    <2>1. Connected
      BY DEF GrantSuperuser
    <2>2. ASSUME NEW p \in People, NEW u \in Orgs, member'[p][u] # None PROVE account'[p] # None /\ org'[u] # "none"
      BY <1>1, <1>3, <1>6, <1>7, <2>2 DEF IInv, MembersAgree
    <2> QED BY <2>1, <2>2 DEF MembersAgree
  <1>11. minted <= minted'
    BY <1>3 DEF IInv, TypeOK
  <1> QED
    BY <1>3, <1>4, <1>5, <1>6, <1>7, <1>9, <1>10, <1>11, QuietStep

(* A session begins. *)
LEMMA StartSessionPreserves ==
    ASSUME IInv, NEW k \in Desks, StartSession(k)
    PROVE  IInv'
  <1> DEFINE req == desk[k]
             new == [person |-> req.person, org |-> req.org, pw |-> req.pw, live |-> ~req.dead, raced |-> req.raced,
                     passed |-> req.passed, code |-> None]
             gone == Retired({req.old})
  <1>1. req.step = "open" /\ req \in Openings
    BY Shapes DEF StartSession, IInv, TypeOK, Requests
  <1>2. PICK p \in People, o \in Orgs, id \in Sessions :
           /\ p = req.person /\ o = req.org /\ id = req.id
           /\ session[id] = None /\ Claimed(p)
           /\ \A j \in Desks \ {k} : desk[j].step = "open" => desk[j].id # id
    BY <1>1 DEF Openings, IInv, OpeningsAgree, ClaimsAgree, Personal
  <1>3. new \in SessionRows /\ new.code = None /\ new.live = ~req.dead /\ new.person = p /\ new.pw = req.pw /\ new.raced = req.raced
    BY <1>1, <1>2 DEF Openings, SessionRows
  <1>4. ~req.dead => /\ Current(p, req.pw, req.raced)
                     /\ \A j \in Desks : Covers(desk[j], id, p, req.raced)
    BY <1>1, <1>2 DEF IInv, PasswordsAgree
  <1>5. /\ session' = [gone EXCEPT ![id] = new]
        /\ Goto(k, Idle)
        /\ UNCHANGED <<account, ticket, link, factor, minted, overlapped>>
        /\ \/ UNCHANGED <<org, member>>
           \/ /\ org' = [org EXCEPT ![o] = "usable"]
              /\ member' = [member EXCEPT ![p][o] = NewMember("owner", FALSE, None)]
    BY <1>2 DEF StartSession
  <1>6. gone \in [Sessions -> SessionRows \cup {None}]
    BY SessionsRetired DEF IInv
  <1>7. desk'[k] = Idle /\ AllCalm
    BY <1>5, DesksCalm DEF Goto, IInv, TypeOK
  <1> HIDE DEF new, gone
  <1>8. session' \in [Sessions -> SessionRows \cup {None}] /\ session'[id] = new
    BY <1>2, <1>3, <1>5, <1>6
  <1>9. New(id) /\ \A s \in Sessions : s # id => KeepsCode(s) /\ Fate(s)
    <2>1. New(id)
      BY <1>2, <1>3, <1>8 DEF New
    <2>2. ASSUME NEW s \in Sessions, s # id PROVE KeepsCode(s)
      <3>1. session'[s] = gone[s]
        BY <1>5, <1>6, <2>2
      <3> QED BY <3>1, SessionsRetired DEF IInv, gone
    <2> QED BY <2>1, <2>2 DEF KeepsCode
  <1>10. /\ member' \in [People -> [Orgs -> MemberRows \cup {None}]]
         /\ org' \in [Orgs -> {"none", "usable", "suspended"}]
         /\ \A q \in People, u \in Orgs : member[q][u] # None => member'[q][u] # None
         /\ MembersAgree'
    <2>1. CASE UNCHANGED <<org, member>>
      BY <1>5, <2>1 DEF IInv, TypeOK, MembersAgree
    <2>2. CASE /\ org' = [org EXCEPT ![o] = "usable"]
               /\ member' = [member EXCEPT ![p][o] = NewMember("owner", FALSE, None)]
      <3> DEFINE row == NewMember("owner", FALSE, None)
      <3>1. row \in MemberRows /\ member' = [member EXCEPT ![p][o] = row]
        BY <2>2, NewMemberIsOne DEF Roles
      <3> HIDE DEF row
      <3>2. /\ member' \in [People -> [Orgs -> MemberRows \cup {None}]]
            /\ \A q \in People, u \in Orgs : ~(q = p /\ u = o) => member'[q][u] = member[q][u]
            /\ \A q \in People, u \in Orgs : member[q][u] # None => member'[q][u] # None
        BY <3>1, MemberWritten DEF IInv
      <3>3. org' \in [Orgs -> {"none", "usable", "suspended"}] /\ org'[o] = "usable" /\ \A u \in Orgs : u # o => org'[u] = org[u]
        BY <1>2, <2>2 DEF IInv, TypeOK
      <3>4. account'[p] # None
        BY <1>2, <1>5 DEF Claimed
      <3>5. MembersAgree'
        BY <1>5, <3>2, <3>3, <3>4 DEF IInv, MembersAgree
      <3> QED BY <3>2, <3>3, <3>5
    <2> QED BY <1>5, <2>1, <2>2
  <1>11. TypeOK'
    <2>1. desk' \in [Desks -> Requests]
      BY <1>7, TypeCalm DEF IInv
    <2> QED BY <1>5, <1>8, <1>10, <2>1 DEF IInv, TypeOK, Requests
  <1>12. ClaimsAgree'
    <2>1. Claimed(session[id].person)' /\ ClaimsStay
      BY <1>2, <1>3, <1>5, <1>8 DEF ClaimsStay, Claimed
    <2> QED
      BY <1>5, <1>7, <1>8, <1>9, <2>1, ClaimsCalm DEF IInv
  <1>13. OpeningsAgree'
    <2>1. ASSUME NEW j \in Desks, desk'[j].step = "open" PROVE desk'[j].id # id
      <3>1. j # k
        BY <2>1, <1>7 DEF Idle
      <3> QED BY <2>1, <3>1, <1>2, <1>7, CalmShapes DEF IInv
    <2> QED BY <1>7, <1>8, <1>9, <2>1, OpeningsCalm DEF IInv
  <1>14. PasswordsAgree'
    <2>1. \A j \in Desks : Covers(desk[j], id, p, req.raced) => Covers(desk'[j], id, p, req.raced)
      BY <1>7, CalmShapes DEF Covers, IInv
    <2>2. session'[id].live => /\ Current(session[id].person, session[id].pw, session[id].raced)'
                               /\ \A j \in Desks : Covers(desk'[j], id, session'[id].person, session'[id].raced)
      BY <1>3, <1>4, <1>5, <1>8, <2>1 DEF Current
    <2>3. \A q \in People : Claimed(q) => account'[q].pw \in {account[q].pw, 0}
      BY <1>5
    <2> QED
      BY <1>7, <1>8, <1>9, <2>2, <2>3, PasswordsCalm DEF IInv
  <1>15. (RowsAgree /\ AboutsAgree /\ LinksAgree)'
    BY <1>5, <1>7, <1>10, LinksCalm DEF IInv
  <1>16. (FactorsAgree /\ OneHolder /\ CodesAgree /\ CodeUsedOnce)'
    <2>1. minted' \in Nat /\ minted <= minted'
      BY <1>5 DEF IInv, TypeOK
    <2> QED
      BY <1>5, <1>7, <1>8, <1>9, <2>1, CodesCalm DEF IInv
  <1> QED
    BY <1>10, <1>11, <1>12, <1>13, <1>14, <1>15, <1>16 DEF IInv

-----------------------------------------------------------------------------
(* Factors. *)

LEMMA EnrolPreserves ==
    ASSUME IInv, NEW s \in Sessions, Enrol(s)
    PROVE  IInv'
  <1> DEFINE p == session[s].person
             o == session[s].org
             row == [NoFactor EXCEPT !.state = "unconfirmed", !.secret = minted']
  <1>1. p \in People /\ o \in Orgs
    BY Resolved DEF Enrol, EnrollingSession, IInv
  <1>2. factor' = [factor EXCEPT ![p][o] = row] /\ minted' = minted + 1
        /\ UNCHANGED <<account, member, org, ticket, session, link, desk, overlapped>>
    BY DEF Enrol
  <1>3. minted \in Nat /\ minted' \in Nat /\ minted' > minted /\ minted' # 0
    BY <1>2 DEF IInv, TypeOK
  <1>4. row \in FactorRows /\ row.secret = minted' /\ row.spare = 0 /\ row.state # "off"
    <2> DEFINE half == [NoFactor EXCEPT !.state = "unconfirmed"]
    <2>1. half \in FactorRows /\ half.spare = 0 /\ half.state = "unconfirmed"
      BY NoFactorIsOne DEF FactorRows
    <2>2. row = [half EXCEPT !.secret = minted']
      OBVIOUS
    <2> HIDE DEF half, row
    <2> QED BY <1>3, <2>1, <2>2 DEF FactorRows
  <1> HIDE DEF row
  <1>5. factor' \in [People -> [Orgs -> FactorRows]] /\ factor'[p][o] = row
        /\ \A q \in People, u \in Orgs : ~(q = p /\ u = o) => factor'[q][u] = factor[q][u]
    BY <1>1, <1>2, <1>4 DEF IInv, TypeOK
  <1>6. TypeOK'
    BY <1>2, <1>3, <1>5 DEF IInv, TypeOK
  <1>7. (MembersAgree /\ ClaimsAgree /\ OpeningsAgree /\ PasswordsAgree /\ RowsAgree /\ AboutsAgree /\ LinksAgree)'
    BY <1>2 DEF IInv, MembersAgree, ClaimsAgree, OpeningsAgree, PasswordsAgree, RowsAgree,
       AboutsAgree, LinksAgree,
                Claimed, Current, Key
  <1>8. FactorsAgree'
    <2>1. \A q \in People, u \in Orgs : factor'[q][u].state # "off" => factor'[q][u].secret # 0
      BY <1>1, <1>3, <1>4, <1>5 DEF IInv, FactorsAgree
    <2> QED BY <1>2, <2>1 DEF IInv, FactorsAgree
  <1>9. ASSUME NEW c \in Nat \ {0}, NEW q \in People, NEW u \in Orgs, Holds(c, q, u)'
        PROVE  Holds(c, q, u) \/ (c = minted' /\ q = p /\ u = o)
    BY <1>2, <1>4, <1>5, <1>9 DEF Holds
  <1>10. OneHolder'
    <2> SUFFICES ASSUME NEW c \in Nat \ {0}, NEW q \in People, NEW u \in Orgs, Holds(c, q, u)'
                 PROVE  /\ c <= minted'
                        /\ \A x \in People, y \in Orgs : Holds(c, x, y)' => x = q /\ y = u
      BY DEF OneHolder, Holds
    <2>1. \A x \in People, y \in Orgs : Holds(c, x, y) => c <= minted
      BY DEF IInv, OneHolder
    <2>2. CASE Holds(c, q, u)
      BY <1>3, <1>9, <2>1, <2>2 DEF IInv, OneHolder
    <2>3. CASE c = minted' /\ q = p /\ u = o
      BY <1>3, <1>9, <2>1, <2>3
    <2> QED BY <1>9, <2>2, <2>3
  <1>11. CodesAgree'
    <2>1. ASSUME NEW t \in Sessions, session[t] # None, session[t].code # None, CodeKey(t) \notin overlapped
          PROVE  IF session[t].code.at = 0 THEN FactorOf(t)'.spare # session[t].code.of
                 ELSE FactorOf(t)'.secret = session[t].code.of => session[t].code.at <= FactorOf(t)'.last
      <3> DEFINE q == session[t].person
                 u == session[t].org
                 c == session[t].code.of
      <3>1. q \in People /\ u \in Orgs /\ c \in Nat
        BY <2>1 DEF IInv, TypeOK, SessionRows, Codes
      <3>2. c # 0
        BY <2>1 DEF IInv, CodesAgree
      <3>3. c <= minted
        <4>1. Holds(c, q, u)
          BY <2>1 DEF Holds
        <4> QED BY <3>1, <3>2, <4>1 DEF IInv, OneHolder
      <3>4. FactorOf(t)' = factor'[q][u] /\ FactorOf(t) = factor[q][u]
        BY <1>2 DEF FactorOf
      <3>5. CASE q = p /\ u = o
        <4>1. FactorOf(t)' = row
          BY <3>4, <3>5, <1>5
        <4> HIDE DEF p, o
        <4> QED BY <4>1, <1>3, <1>4, <3>1, <3>2, <3>3
      <3>6. CASE ~(q = p /\ u = o)
        BY <2>1, <3>1, <3>4, <3>6, <1>5 DEF IInv, CodesAgree
      <3> QED BY <3>5, <3>6
    <2>2. ASSUME NEW k \in Desks, desk[k].step \in Proofs, desk[k].about \notin overlapped,
                 factor'[desk[k].person][desk[k].org].secret = desk[k].factor.secret
          PROVE  IF desk[k].code = 0 THEN factor'[desk[k].person][desk[k].org].spare = desk[k].factor.spare
                 ELSE factor'[desk[k].person][desk[k].org].last < desk[k].code
      <3> DEFINE q == desk[k].person
                 u == desk[k].org
                 c == desk[k].factor.secret
      <3>1. q \in People /\ u \in Orgs /\ c \in Nat /\ c # 0
        BY <2>2, Shapes DEF IInv, TypeOK, Requests, Answers, FactorRows, FactorsAgree
      <3>2. c <= minted
        <4>1. Holds(c, q, u)
          BY <2>2 DEF Holds
        <4> QED BY <3>1, <4>1 DEF IInv, OneHolder
      <3>3. ~(q = p /\ u = o)
        BY <2>2, <3>1, <3>2, <1>3, <1>4, <1>5
      <3> QED BY <2>2, <3>1, <3>3, <1>5 DEF IInv, CodesAgree
    <2> QED BY <1>2, <2>1, <2>2 DEF IInv, CodesAgree, CodeKey
  <1>12. CodeUsedOnce'
    BY <1>2 DEF IInv, CodeUsedOnce
  <1> QED
    BY <1>6, <1>7, <1>8, <1>10, <1>11, <1>12 DEF IInv

(* The answer commits: the code is spent, and no other session has it. *)
LEMMA ProvedPreserves ==
    ASSUME IInv, NEW k \in Desks, Proved(k)
    PROVE  IInv'
  <1> DEFINE tx == desk[k]
  <1>1. tx.step \in Proofs /\ tx \in Answers
    BY Shapes DEF Proved, IInv, TypeOK, Requests
  <1>2. PICK p \in People, o \in Orgs, n \in Steps, r \in Sessions, step \in Proofs, g \in FactorRows :
           p = tx.person /\ o = tx.org /\ n = tx.code /\ r = tx.session /\ step = tx.step /\ g = tx.factor
    BY <1>1 DEF Answers
  <1>3. PICK f \in FactorRows : f = factor[p][o]
    BY DEF IInv, TypeOK
  <1>4. /\ f.secret = g.secret /\ f.state # "off" /\ g.secret # 0 /\ (n = 0 => g.spare # 0)
        /\ session[r] # None /\ session[r].person = p /\ session[r].org = o
    BY <1>1, <1>2, <1>3 DEF Proved, IInv, FactorsAgree
  <1>5. PICK done \in FactorRows :
           /\ factor' = [factor EXCEPT ![p][o] = done]
           /\ \/ done = NoFactor
              \/ (done.secret = f.secret /\ done.last = (IF n = 0 THEN f.last ELSE n))
           /\ done.spare # 0 => (done.spare = minted' /\ minted' = minted + 1) \/ (done.spare = f.spare /\ n # 0)
           /\ minted' \in {minted, minted + 1}
    <2> DEFINE spent == IF n = 0 THEN [f EXCEPT !.spare = 0] ELSE [f EXCEPT !.last = n]
               after == FactorAfter(step, spent)
    <2>1. factor' = [factor EXCEPT ![p][o] = after]
          /\ minted' = IF step \in {"confirm", "recovery"} THEN minted + 1 ELSE minted
      BY <1>2, <1>3 DEF Proved
    <2>2. spent \in FactorRows /\ spent.secret = f.secret /\ spent.last = (IF n = 0 THEN f.last ELSE n)
          /\ spent.spare = (IF n = 0 THEN 0 ELSE f.spare)
      BY DEF FactorRows, Steps
    <2>3. minted \in Nat /\ f.spare \in Nat
      BY DEF IInv, TypeOK, FactorRows
    <2> HIDE DEF spent
    <2>4. CASE step = "verify"
      BY <2>1, <2>2, <2>3, <2>4 DEF FactorAfter
    <2>5. CASE step = "disable"
      BY <2>1, <2>3, <2>5, NoFactorIsOne DEF FactorAfter
    <2>6. CASE step \in {"confirm", "recovery"}
      <3> DEFINE half == [spent EXCEPT !.state = "on"]
                 whole == [half EXCEPT !.spare = minted + 1]
      <3>1. half \in FactorRows /\ half.secret = spent.secret /\ half.last = spent.last
        BY <2>2 DEF FactorRows
      <3>2. after = whole
        BY <2>6 DEF FactorAfter
      <3> HIDE DEF half, after
      <3>3. whole \in FactorRows /\ whole.secret = half.secret /\ whole.last = half.last /\ whole.spare = minted + 1
        BY <2>3, <3>1 DEF FactorRows
      <3> HIDE DEF whole
      <3>4. factor' = [factor EXCEPT ![p][o] = whole] /\ minted' = minted + 1
        BY <2>1, <2>6, <3>2
      <3>5. whole.secret = f.secret /\ whole.last = (IF n = 0 THEN f.last ELSE n)
        BY <2>2, <3>1, <3>3
      <3> QED BY <3>3, <3>4, <3>5
    <2> QED BY <2>4, <2>5, <2>6 DEF Proofs
  <1>6. PICK c \in Nat : c = IF n = 0 THEN g.spare ELSE f.secret
    BY DEF FactorRows
  <1>7. /\ desk' = [desk EXCEPT ![k] = Idle]
        /\ UNCHANGED <<account, member, org, ticket, link, overlapped>>
        /\ \/ session' = session
           \/ session' = [session EXCEPT ![r].passed = TRUE, ![r].code = [of |-> c, at |-> n]]
    BY <1>2, <1>3, <1>6 DEF Proved, Goto
  <1> HIDE DEF tx
  <1>8. /\ session' \in [Sessions -> SessionRows \cup {None}]
        /\ \A s \in Sessions : Fate(s)
        /\ \A s \in Sessions : s # r => session'[s] = session[s]
        /\ session'[r].code = session[r].code \/ session'[r].code = [of |-> c, at |-> n]
    <2>1. CASE session' = session
      BY <2>1 DEF IInv, TypeOK, Fate
    <2>2. CASE session' = [session EXCEPT ![r].passed = TRUE, ![r].code = [of |-> c, at |-> n]]
      <3> DEFINE half == [session[r] EXCEPT !.passed = TRUE]
                 whole == [half EXCEPT !.code = [of |-> c, at |-> n]]
      <3>1. session' = [session EXCEPT ![r] = whole]
        BY <2>2 DEF IInv, TypeOK
      <3>2. session[r] \in SessionRows
        BY <1>4 DEF IInv, TypeOK
      <3>3. [of |-> c, at |-> n] \in Codes
        BY DEF Codes
      <3>4. half \in SessionRows /\ half.person = session[r].person /\ half.org = session[r].org /\ half.pw = session[r].pw
            /\ half.raced = session[r].raced /\ half.live = session[r].live
        BY <3>2 DEF SessionRows
      <3> HIDE DEF half
      <3>5. whole \in SessionRows /\ whole.person = half.person /\ whole.org = half.org /\ whole.pw = half.pw
            /\ whole.raced = half.raced /\ whole.live = half.live /\ whole.code = [of |-> c, at |-> n]
        BY <3>3, <3>4 DEF SessionRows
      <3> HIDE DEF whole
      <3> QED BY <1>4, <3>1, <3>4, <3>5, NoneIsNothing DEF IInv, TypeOK, Fate
    <2> QED BY <1>7, <2>1, <2>2
  <1>9. AllCalm /\ desk'[k] = Idle /\ \A j \in Desks : j # k => desk'[j] = desk[j]
    BY <1>7, DesksCalm DEF Goto, IInv, TypeOK
  <1>10. /\ \A q \in People, u \in Orgs : ~(q = p /\ u = o) => factor'[q][u] = factor[q][u]
         /\ factor'[p][o] = done /\ factor' \in [People -> [Orgs -> FactorRows]]
         /\ minted \in Nat /\ minted' \in Nat /\ minted <= minted'
    BY <1>5 DEF IInv, TypeOK
  <1>11. TypeOK'
    <2>1. desk' \in [Desks -> Requests]
      BY <1>9, TypeCalm DEF IInv
    <2> QED BY <1>7, <1>8, <1>10, <2>1 DEF IInv, TypeOK, Requests
  <1>12. MembersAgree'
    BY <1>7 DEF IInv, MembersAgree
  <1>13. ClaimsAgree' /\ OpeningsAgree' /\ PasswordsAgree'
    <2>1. ClaimsStay /\ \A q \in People : Claimed(q) => account'[q].pw \in {account[q].pw, 0}
      BY <1>7 DEF ClaimsStay, Claimed
    <2>2. ClaimsAgree'
      BY <1>7, <1>8, <1>9, <2>1, ClaimsCalm DEF IInv
    <2>3. OpeningsAgree'
      BY <1>8, <1>9, OpeningsCalm DEF IInv
    <2>4. PasswordsAgree'
      BY <1>8, <1>9, <2>1, PasswordsCalm DEF IInv
    <2> QED BY <2>2, <2>3, <2>4
  <1>14. (RowsAgree /\ AboutsAgree /\ LinksAgree)'
    BY <1>7, <1>9, LinksCalm DEF IInv
  <1>15. ASSUME NEW j \in Desks, desk'[j].step \in Proofs
         PROVE  /\ j # k /\ desk'[j] = desk[j] /\ desk[j].person \in People /\ desk[j].org \in Orgs /\ desk[j] \in Answers
                /\ desk[j].about \notin overlapped => ~(desk[j].person = p /\ desk[j].org = o)
    <2>1. j # k /\ desk'[j] = desk[j]
      BY <1>9, <1>15 DEF Idle, Proofs
    <2>2. desk[j] \in Answers
      BY <1>15, <2>1, Shapes DEF IInv, TypeOK, Requests
    <2>3. desk[j].about = <<desk[j].person, desk[j].org, "code">> /\ desk[k].about = <<p, o, "code">>
      BY <1>1, <1>2, <1>15, <2>1 DEF IInv, AboutsAgree, tx
    <2>4. desk[j].about = desk[k].about => desk[j].about \in overlapped
      BY <1>1, <1>15, <2>1 DEF IInv, AboutsAgree, Guarded, tx
    <2> QED BY <2>1, <2>2, <2>3, <2>4 DEF Answers
  <1>16. FactorsAgree'
    <2>1. ASSUME NEW q \in People, NEW u \in Orgs, factor'[q][u].state # "off" PROVE factor'[q][u].secret # 0
      <3>1. CASE q = p /\ u = o
        BY <2>1, <3>1, <1>4, <1>5, <1>10, NoFactorIsOne
      <3>2. CASE ~(q = p /\ u = o)
        BY <2>1, <3>2, <1>10 DEF IInv, FactorsAgree
      <3> QED BY <3>1, <3>2
    <2>2. ASSUME NEW j \in Desks, desk'[j].step \in Proofs
          PROVE  /\ desk'[j].factor.secret # 0
                 /\ desk'[j].code = 0 => desk'[j].factor.spare # 0
                 /\ session'[desk'[j].session] # None
                 /\ session'[desk'[j].session].person = desk'[j].person
                 /\ session'[desk'[j].session].org = desk'[j].org
      <3>1. desk[j].session \in Sessions
        BY <2>2, <1>15 DEF Answers
      <3> QED BY <2>2, <3>1, <1>8, <1>15 DEF IInv, FactorsAgree, Fate
    <2> QED BY <2>1, <2>2 DEF FactorsAgree
  <1>17. Holds(c, p, o) /\ c # 0 /\ Holds(g.secret, p, o)
    BY <1>1, <1>2, <1>4, <1>6 DEF Holds, tx
  <1>18. ASSUME NEW d \in Nat \ {0}, NEW q \in People, NEW u \in Orgs, Holds(d, q, u)'
         PROVE  Holds(d, q, u) \/ (d = minted' /\ minted' = minted + 1 /\ q = p /\ u = o)
    <2>1. CASE d \in {factor'[q][u].secret, factor'[q][u].spare}
      <3>1. CASE q = p /\ u = o
        BY <2>1, <3>1, <1>3, <1>5, <1>10, NoFactorIsOne DEF Holds
      <3>2. CASE ~(q = p /\ u = o)
        BY <2>1, <3>2, <1>10 DEF Holds
      <3> QED BY <3>1, <3>2
    <2>2. ASSUME NEW s \in Sessions, session'[s] # None, session'[s].code # None, session'[s].person = q,
                 session'[s].org = u, session'[s].code.of = d
          PROVE  Holds(d, q, u)
      <3>1. session[s] # None /\ session[s].person = q /\ session[s].org = u
        BY <2>2, <1>8 DEF Fate
      <3>2. CASE session'[s].code = session[s].code
        BY <2>2, <3>1, <3>2 DEF Holds
      <3>3. CASE session'[s].code # session[s].code
        BY <2>2, <3>1, <3>3, <1>4, <1>8, <1>17
      <3> QED BY <3>2, <3>3
    <2>3. CASE \E j \in Desks : /\ desk'[j].step \in Proofs /\ desk'[j].person = q /\ desk'[j].org = u
                                /\ d \in {desk'[j].factor.secret, desk'[j].factor.spare}
      BY <2>3, <1>15 DEF Holds
    <2> QED BY <1>18, <2>1, <2>2, <2>3 DEF Holds
  <1>19. OneHolder'
    <2> SUFFICES ASSUME NEW d \in Nat \ {0}, NEW q \in People, NEW u \in Orgs, Holds(d, q, u)'
                 PROVE  /\ d <= minted'
                        /\ \A x \in People, y \in Orgs : Holds(d, x, y)' => x = q /\ y = u
      BY DEF OneHolder, Holds
    <2>1. \A x \in People, y \in Orgs : Holds(d, x, y) => d <= minted
      BY DEF IInv, OneHolder
    <2>2. CASE Holds(d, q, u)
      BY <1>10, <1>18, <2>1, <2>2 DEF IInv, OneHolder
    <2>3. CASE d = minted' /\ minted' = minted + 1 /\ q = p /\ u = o
      BY <1>10, <1>18, <2>1, <2>3
    <2> QED BY <1>18, <2>2, <2>3
  (* What the request knew is still so, unless another answered at once. *)
  <1>20. <<p, o, "code">> \notin overlapped => IF n = 0 THEN f.spare = g.spare ELSE f.last < n
    BY <1>1, <1>2, <1>3, <1>4 DEF IInv, AboutsAgree, CodesAgree, tx
  <1>21. ASSUME NEW s \in Sessions, session'[s] # None, session'[s].code # None
         PROVE  /\ session[s] # None /\ session[s].person \in People /\ session[s].org \in Orgs
                /\ session'[s].person = session[s].person /\ session'[s].org = session[s].org
                /\ CodeKey(s)' = CodeKey(s) /\ session'[s].code \in Codes
                /\ \/ session'[s].code = session[s].code /\ session[s].code # None
                   \/ s = r /\ session'[s].code = [of |-> c, at |-> n]
    <2>1. session[s] # None /\ session'[s].person = session[s].person /\ session'[s].org = session[s].org
      BY <1>8, <1>21 DEF Fate
    <2>2. session'[s] \in SessionRows /\ session[s] \in SessionRows
      BY <1>8, <1>21, <2>1 DEF IInv, TypeOK
    <2> QED BY <1>8, <1>21, <2>1, <2>2 DEF CodeKey, SessionRows
  (* Elsewhere a code that released a session is spent before and after. *)
  <1>22. ASSUME NEW s \in Sessions, session[s] # None, session[s].code # None, CodeKey(s) \notin overlapped,
                session[s].person = p, session[s].org = o
         PROVE  /\ session[s].code.of # 0 /\ session[s].code.of \in Nat /\ session[s].code.of <= minted
                /\ IF session[s].code.at = 0 THEN f.spare # session[s].code.of
                   ELSE f.secret = session[s].code.of => session[s].code.at <= f.last
    <2>1. session[s].code \in Codes
      BY <1>22 DEF IInv, TypeOK, SessionRows
    <2>2. session[s].code.of # 0
      BY <1>22 DEF IInv, CodesAgree
    <2>3. Holds(session[s].code.of, p, o)
      BY <1>22 DEF Holds
    <2> QED BY <1>22, <1>3, <2>1, <2>2, <2>3 DEF IInv, CodesAgree, FactorOf, OneHolder, Codes
  <1>23. CodesAgree'
    <2>1. ASSUME NEW s \in Sessions, session'[s] # None, session'[s].code # None
          PROVE  /\ session'[s].code.of # 0
                 /\ CodeKey(s)' \notin overlapped' =>
                      IF session'[s].code.at = 0 THEN FactorOf(s)'.spare # session'[s].code.of
                      ELSE FactorOf(s)'.secret = session'[s].code.of => session'[s].code.at <= FactorOf(s)'.last
      <3>1. CASE session'[s].code = session[s].code /\ session[s].code # None
        <4>1. session[s].code.of # 0
          BY <2>1, <3>1, <1>21 DEF IInv, CodesAgree
        <4>2. CASE ~(session[s].person = p /\ session[s].org = o)
          <5>1. FactorOf(s)' = FactorOf(s)
            BY <2>1, <4>2, <1>10, <1>21 DEF FactorOf
          <5> QED BY <2>1, <3>1, <4>1, <5>1, <1>7, <1>21 DEF IInv, CodesAgree
        <4>3. CASE session[s].person = p /\ session[s].org = o
          <5>1. FactorOf(s)' = done /\ CodeKey(s)' = CodeKey(s) /\ overlapped' = overlapped
            BY <2>1, <4>3, <1>7, <1>10, <1>21 DEF FactorOf
          <5>2. f.last \in Int /\ n \in Nat /\ session[s].code.at \in Nat /\ session[s].code.of \in Nat /\ minted \in Nat
            BY <2>1, <3>1, <1>10, <1>21 DEF FactorRows, Steps, Codes
          <5>3. CodeKey(s) = <<p, o, "code">>
            BY <4>3 DEF CodeKey
          <5>4. ASSUME CodeKey(s) \notin overlapped, session[s].code.at = 0 PROVE done.spare # session[s].code.of
            BY <2>1, <3>1, <4>1, <4>3, <5>2, <5>4, <1>5, <1>21, <1>22
          <5>5. ASSUME CodeKey(s) \notin overlapped, session[s].code.at # 0, done.secret = session[s].code.of
                PROVE  session[s].code.at <= done.last
            <6>1. done.secret = f.secret /\ done.last = IF n = 0 THEN f.last ELSE n
              BY <4>1, <5>5, <1>5, NoFactorIsOne
            <6>2. session[s].code.at <= f.last
              BY <2>1, <3>1, <4>3, <5>5, <6>1, <1>21, <1>22
            <6>3. n # 0 => f.last < n
              BY <5>3, <5>5, <1>20
            <6> QED BY <5>2, <6>1, <6>2, <6>3
          <5> QED BY <3>1, <4>1, <5>1, <5>4, <5>5
        <4> QED BY <4>2, <4>3
      <3>2. CASE s = r /\ session'[s].code = [of |-> c, at |-> n]
        <4>1. FactorOf(s)' = done
          BY <2>1, <3>2, <1>4, <1>10, <1>21 DEF FactorOf
        <4>2. c <= minted
          BY <1>17 DEF IInv, OneHolder
        <4>3. n = 0 => done.spare # c
          BY <4>2, <1>5, <1>10, <1>17
        <4>4. n # 0 /\ done.secret = c => done.last = n
          BY <1>5, <1>17, NoFactorIsOne
        <4>5. session'[s].code.of = c /\ session'[s].code.at = n /\ n \in Nat
          BY <3>2 DEF Steps
        <4> QED BY <4>1, <4>3, <4>4, <4>5, <1>17
      <3> QED BY <2>1, <3>1, <3>2, <1>21
    <2>2. ASSUME NEW j \in Desks, desk'[j].step \in Proofs, desk'[j].about \notin overlapped',
                 factor'[desk'[j].person][desk'[j].org].secret = desk'[j].factor.secret
          PROVE  IF desk'[j].code = 0 THEN factor'[desk'[j].person][desk'[j].org].spare = desk'[j].factor.spare
                 ELSE factor'[desk'[j].person][desk'[j].org].last < desk'[j].code
      BY <2>2, <1>7, <1>10, <1>15 DEF IInv, CodesAgree
    <2> QED BY <2>1, <2>2 DEF CodesAgree
  <1>24. CodeUsedOnce'
    <2>1. ASSUME NEW s \in Sessions, s # r, session[s] # None, session[s].code = [of |-> c, at |-> n], session[s].code # None
          PROVE  CodeKey(s) \in overlapped
      <3>1. session[s].person \in People /\ session[s].org \in Orgs
        BY <2>1 DEF IInv, TypeOK, SessionRows
      <3>2. Holds(c, session[s].person, session[s].org)
        BY <2>1 DEF Holds
      <3>3. session[s].person = p /\ session[s].org = o
        BY <3>1, <3>2, <1>17 DEF IInv, OneHolder
      <3>4. SUFFICES ASSUME CodeKey(s) \notin overlapped PROVE FALSE
        OBVIOUS
      <3>5. <<p, o, "code">> \notin overlapped
        BY <3>3, <3>4 DEF CodeKey
      <3>6. IF n = 0 THEN f.spare # c ELSE f.secret = c => n <= f.last
        BY <2>1, <3>3, <3>4, <1>22
      <3>7. f.last \in Int /\ n \in Nat
        BY DEF FactorRows, Steps
      <3> QED BY <3>5, <3>6, <3>7, <1>6, <1>20
    <2>2. ASSUME NEW s \in Sessions, NEW t \in Sessions, s # t, session'[s] # None, session'[t] # None,
                 session'[s].code # None, session'[s].code = session'[t].code
          PROVE  CodeKey(s) \in overlapped
      <3>1. session[s] # None /\ session[t] # None
        BY <2>2, <1>21
      <3>2. CASE session'[s].code = session[s].code /\ session'[t].code = session[t].code
        BY <2>2, <3>1, <3>2 DEF IInv, CodeUsedOnce, CodeKey
      <3>3. CASE s = r /\ session'[s].code = [of |-> c, at |-> n] /\ session'[t].code = session[t].code
        <4>1. CodeKey(t) \in overlapped
          BY <2>1, <2>2, <3>1, <3>3
        <4>2. Holds(c, session[t].person, session[t].org)
          BY <2>2, <3>1, <3>3 DEF Holds
        <4>3. session[t].person = p /\ session[t].org = o
          BY <2>2, <3>1, <4>2, <1>17, <1>21 DEF IInv, OneHolder
        <4> QED BY <3>3, <4>1, <4>3, <1>4 DEF CodeKey
      <3>4. CASE t = r /\ session'[t].code = [of |-> c, at |-> n] /\ session'[s].code = session[s].code
        BY <2>1, <2>2, <3>1, <3>4
      <3> QED BY <2>2, <3>2, <3>3, <3>4, <1>21
    <2>3. ASSUME NEW s \in Sessions, session'[s] # None, session'[s].code # None
          PROVE  <<session'[s].person, session'[s].org, "code">> = CodeKey(s)
      BY <2>3, <1>21 DEF CodeKey
    <2> QED BY <2>2, <2>3, <1>7 DEF CodeUsedOnce
  <1> QED
    BY <1>11, <1>12, <1>13, <1>14, <1>16, <1>19, <1>23, <1>24 DEF IInv

-----------------------------------------------------------------------------
(* Links are made and spent. *)

(* Spending a link marks it used once more and changes nothing else. *)
LEMMA LinkConsumed ==
    ASSUME TypeOK, NEW l \in Links, link[l] # None, link' = Consumed(l)
    PROVE  /\ link' \in [Links -> LinkRows \cup {None}]
           /\ \A m \in Links : m # l => link'[m] = link[m]
           /\ link'[l] # None /\ link'[l].used /\ link'[l].uses = link[l].uses + 1
           /\ link'[l].person = link[l].person /\ link'[l].org = link[l].org /\ link'[l].purpose = link[l].purpose
  <1> DEFINE half == [link[l] EXCEPT !.used = TRUE]
             whole == [half EXCEPT !.uses = half.uses + 1]
  <1>1. link[l] \in LinkRows
    BY DEF TypeOK
  <1>2. half \in LinkRows /\ half.used /\ half.uses = link[l].uses
        /\ half.person = link[l].person /\ half.org = link[l].org /\ half.purpose = link[l].purpose
    BY <1>1 DEF LinkRows
  <1>3. link' = [link EXCEPT ![l] = whole]
    BY DEF Consumed, TypeOK
  <1> HIDE DEF half
  <1>4. whole \in LinkRows /\ whole.used /\ whole.uses = link[l].uses + 1
        /\ whole.person = link[l].person /\ whole.org = link[l].org /\ whole.purpose = link[l].purpose
    BY <1>2 DEF LinkRows
  <1> HIDE DEF whole
  <1> QED
    BY <1>3, <1>4, NoneIsNothing DEF TypeOK

(* What stays of requests that write links, when rows are spent, made or kept and never lose their key. *)
LEMMA AboutsCalm ==
    ASSUME TypeOK, RowsAgree, AboutsAgree, AllCalm, overlapped \subseteq overlapped',
           \A l \in Links : link[l] # None => link'[l] # None /\ Key(l)' = Key(l),
           \A l \in Links : link'[l] # None => member'[link'[l].person][link'[l].org] # None,
           \A p \in People, o \in Orgs : member[p][o] # None => member'[p][o] # None
    PROVE  RowsAgree' /\ AboutsAgree'
  <1> USE DEF Spends, Guarded, OnMember
  <1>1. ASSUME NEW k \in Desks, OnMember(desk[k])' \/ Guarded(desk[k])'
        PROVE  /\ desk'[k] = desk[k]
               /\ desk[k].step # "open"
    BY <1>1, CalmShapes DEF Proofs
  <1>2. RowsAgree'
    <2>1. ASSUME NEW k \in Desks, OnMember(desk[k])'
          PROVE  desk'[k].org \in Orgs /\ member'[desk'[k].person][desk'[k].org] # None
      <3>1. desk'[k] = desk[k]
        BY <1>1, <2>1
      <3>2. desk[k].person \in People
        BY <2>1, <3>1, Shapes DEF TypeOK, Requests, Issues, Uses, Changes, Answers
      <3> QED BY <2>1, <3>1, <3>2 DEF RowsAgree
    <2> QED BY <2>1 DEF RowsAgree
  <1>3. AboutsAgree'
    <2> SUFFICES ASSUME NEW k \in Desks
                 PROVE  /\ Spends(desk[k])' => /\ link'[desk'[k].link] # None
                                               /\ desk'[k].about = Key(desk[k].link)'
                                               /\ desk'[k].about = <<desk'[k].person, desk'[k].org, PurposeOf(desk'[k].step)>>
                        /\ desk'[k].step \in {"address", "accept"} => desk'[k].link # 0
                        /\ desk'[k].step = "issue" => /\ desk'[k].about = <<desk'[k].person, desk'[k].org, desk'[k].purpose>>
                                                      /\ \A l \in desk'[k].spent : link'[l] # None /\ Key(l)' = desk'[k].about
                        /\ desk'[k].step \in Proofs => desk'[k].about = <<desk'[k].person, desk'[k].org, "code">>
                        /\ \A j \in Desks \ {k} :
                              Guarded(desk[k])' /\ Guarded(desk[j])' /\ desk'[k].about = desk'[j].about
                                => desk'[k].about \in overlapped'
      BY DEF AboutsAgree, PurposeOf
    <2>1. ASSUME Spends(desk[k])'
          PROVE  /\ link'[desk'[k].link] # None
                 /\ desk'[k].about = Key(desk[k].link)'
                 /\ desk'[k].about = <<desk'[k].person, desk'[k].org, PurposeOf(desk'[k].step)>>
      <3>1. desk'[k] = desk[k]
        BY <1>1, <2>1
      <3>2. desk[k].link \in Links
        BY <2>1, <3>1, Shapes DEF TypeOK, Requests, Uses
      <3>3. Key(desk[k].link)' = Key(desk[k].link)
        BY <2>1, <3>1, <3>2 DEF AboutsAgree, Key
      <3> QED BY <2>1, <3>1, <3>2, <3>3 DEF AboutsAgree
    <2>2. ASSUME desk'[k].step \in {"address", "accept"} PROVE desk'[k].link # 0
      BY <2>2, CalmShapes DEF AboutsAgree
    <2>3. ASSUME desk'[k].step = "issue"
          PROVE  /\ desk'[k].about = <<desk'[k].person, desk'[k].org, desk'[k].purpose>>
                 /\ \A l \in desk'[k].spent : link'[l] # None /\ Key(l)' = desk'[k].about
      <3>1. desk'[k] = desk[k]
        BY <1>1, <2>3
      <3>2. desk[k].spent \subseteq Links
        BY <2>3, <3>1, Shapes DEF TypeOK, Requests, Issues
      <3> QED BY <2>3, <3>1, <3>2 DEF AboutsAgree
    <2>4. ASSUME desk'[k].step \in Proofs PROVE desk'[k].about = <<desk'[k].person, desk'[k].org, "code">>
      BY <2>4, <1>1 DEF AboutsAgree
    <2>5. ASSUME NEW j \in Desks \ {k}, Guarded(desk[k])', Guarded(desk[j])', desk'[k].about = desk'[j].about
          PROVE  desk'[k].about \in overlapped'
      BY <2>5, <1>1 DEF AboutsAgree
    <2> QED BY <2>1, <2>2, <2>3, <2>4, <2>5
  <1> QED
    BY <1>2, <1>3

(* The request that spends a link keeps the links agreed. *)
LEMMA LinksSpent ==
    ASSUME TypeOK, RowsAgree, AboutsAgree, LinksAgree, AllCalm, overlapped' = overlapped,
           NEW k \in Desks, Spends(desk[k]), link' = Consumed(desk[k].link), desk'[k] = Idle,
           \A p \in People, o \in Orgs : member[p][o] # None => member'[p][o] # None
    PROVE  (RowsAgree /\ AboutsAgree /\ LinksAgree)'
  <1>1. PICK l \in Links : l = desk[k].link /\ link[l] # None /\ desk[k].about = Key(l)
    BY Shapes DEF Spends, AboutsAgree, TypeOK, Requests, Uses
  <1>2. /\ \A m \in Links : m # l => link'[m] = link[m]
        /\ link'[l] # None /\ link'[l].used /\ link'[l].uses = link[l].uses + 1
        /\ link'[l].person = link[l].person /\ link'[l].org = link[l].org /\ link'[l].purpose = link[l].purpose
    BY <1>1, LinkConsumed
  <1>3. \A m \in Links : /\ link'[m] # None <=> link[m] # None
                         /\ link[m] # None => Key(m)' = Key(m)
    BY <1>1, <1>2 DEF Key
  <1>4. \A m \in Links : link'[m] # None => member'[link'[m].person][link'[m].org] # None
    BY <1>1, <1>2 DEF RowsAgree, TypeOK, LinkRows
  <1>5. RowsAgree' /\ AboutsAgree'
    BY <1>3, <1>4, AboutsCalm
  <1>6. LinksAgree'
    <2>1. ASSUME NEW m \in Links, link'[m] # None, Key(m)' \notin overlapped'
          PROVE  /\ link'[m].uses <= 1 /\ (~link'[m].used => link'[m].uses = 0)
                 /\ \A n \in Links : link'[n] # None /\ Key(n)' = Key(m)' /\ ~link'[n].used /\ ~link'[m].used => n = m
      <3>1. Key(m)' = Key(m) /\ link[m] # None /\ Key(m) \notin overlapped
        BY <1>3, <2>1
      <3>2. CASE m = l
        <4>1. ~link[l].used
          BY <3>1, <3>2, <1>1 DEF LinksAgree, Guarded
        <4> QED BY <3>1, <3>2, <4>1, <1>2 DEF LinksAgree
      <3>3. CASE m # l
        BY <3>1, <3>3, <1>2, <1>3 DEF LinksAgree
      <3> QED BY <3>2, <3>3
    <2>2. ASSUME NEW j \in Desks, Guarded(desk[j])', desk'[j].about \notin overlapped'
          PROVE  /\ Spends(desk[j])' => ~link'[desk'[j].link].used
                 /\ desk'[j].step = "issue" =>
                      \A m \in Links : link'[m] # None /\ Key(m)' = desk'[j].about /\ ~link'[m].used => m \in desk'[j].spent
      <3>1. desk'[j] = desk[j] /\ j # k
        BY <2>2, CalmShapes DEF Guarded, Spends, Proofs, Idle
      <3>2. ASSUME Spends(desk[j]) PROVE desk[j].link # l /\ desk[j].link \in Links /\ ~link[desk[j].link].used
        <4>1. desk[j].about # desk[k].about
          BY <2>2, <3>1, <3>2 DEF AboutsAgree, Guarded
        <4>2. desk[j].link \in Links
          BY <3>2, Shapes DEF Spends, TypeOK, Requests, Uses
        <4> QED BY <2>2, <3>1, <3>2, <4>1, <4>2, <1>1 DEF AboutsAgree, LinksAgree, Guarded
      <3>3. ASSUME desk[j].step = "issue", NEW m \in Links, link'[m] # None, Key(m)' = desk[j].about, ~link'[m].used
            PROVE  m \in desk[j].spent
        <4>1. link[m] # None /\ Key(m) = desk[j].about /\ ~link[m].used
          BY <3>3, <1>2, <1>3
        <4> QED BY <2>2, <3>1, <3>3, <4>1 DEF LinksAgree, Guarded
      <3> QED BY <3>1, <3>2, <3>3, <1>2 DEF Spends
    <2> QED
      BY <2>1, <2>2 DEF LinksAgree, Guarded, Spends
  <1> QED
    BY <1>5, <1>6

(* Issuing a link fills one unused row with it. *)
LEMMA LinkIssued ==
    ASSUME TypeOK, HasLinkRoom, NEW p \in People, NEW o \in Orgs, NEW purpose \in Purposes, NEW spent,
           link' = Issued(spent, p, o, purpose)
    PROVE  \E fresh \in Links :
              /\ link' \in [Links -> LinkRows \cup {None}]
              /\ link[fresh] = None /\ link'[fresh] # None
              /\ link'[fresh].person = p /\ link'[fresh].org = o /\ link'[fresh].purpose = purpose
              /\ ~link'[fresh].used /\ link'[fresh].uses = 0
              /\ \A l \in Links : l # fresh /\ link[l] = None => link'[l] = None
              /\ \A l \in Links : link[l] # None =>
                    /\ link'[l] # None /\ Key(l)' = Key(l)
                    /\ link'[l].person = link[l].person /\ link'[l].org = link[l].org /\ link'[l].purpose = link[l].purpose
                    /\ link'[l].uses = link[l].uses
                    /\ l \in spent => link'[l].used
                    /\ l \notin spent => link'[l].used = link[l].used
  <1>1. PICK fresh \in Links : fresh = Min({l \in Links : link[l] = None}) /\ link[fresh] = None
    BY FreeLinkIsFree
  <1> DEFINE new == [person |-> p, org |-> o, purpose |-> purpose, used |-> FALSE, uses |-> 0]
  <1>2. \A l \in Links : link'[l] = IF l = fresh THEN new
                                    ELSE IF l \in spent /\ link[l] # None THEN [link[l] EXCEPT !.used = TRUE] ELSE link[l]
    BY <1>1 DEF Issued
  <1>3. link' = [l \in Links |-> link'[l]]
    BY DEF Issued
  <1>4. new \in LinkRows /\ new # None
    BY NoneIsNothing DEF LinkRows
  <1>5. ASSUME NEW l \in Links, link[l] # None
        PROVE  LET t == [link[l] EXCEPT !.used = TRUE]
               IN  /\ link[l] \in LinkRows /\ t \in LinkRows /\ t # None /\ t.used /\ t.uses = link[l].uses
                   /\ t.person = link[l].person /\ t.org = link[l].org /\ t.purpose = link[l].purpose
    BY <1>5, NoneIsNothing DEF TypeOK, LinkRows
  <1>6. link'[fresh] = new
    BY <1>2
  <1>7. new.person = p /\ new.org = o /\ new.purpose = purpose /\ ~new.used /\ new.uses = 0
    OBVIOUS
  <1> HIDE DEF new
  <1>8. ASSUME NEW l \in Links, l # fresh, link[l] = None PROVE link'[l] = None
    BY <1>2, <1>8
  <1>9. ASSUME NEW l \in Links, link[l] # None
        PROVE  /\ link'[l] # None /\ link'[l] \in LinkRows
               /\ link'[l].person = link[l].person /\ link'[l].org = link[l].org /\ link'[l].purpose = link[l].purpose
               /\ link'[l].uses = link[l].uses
               /\ l \in spent => link'[l].used
               /\ l \notin spent => link'[l].used = link[l].used
    <2>1. l # fresh
      BY <1>1, <1>9
    <2>2. CASE l \in spent
      BY <1>2, <1>5, <1>9, <2>1, <2>2
    <2>3. CASE l \notin spent
      BY <1>2, <1>5, <1>9, <2>1, <2>3
    <2> QED BY <2>2, <2>3
  <1>10. link' \in [Links -> LinkRows \cup {None}]
    <2>1. \A l \in Links : link'[l] \in LinkRows \cup {None}
      BY <1>4, <1>6, <1>8, <1>9
    <2> QED BY <1>3, <2>1
  <1>11. \A l \in Links : link[l] # None => Key(l)' = Key(l)
    BY <1>9 DEF Key
  <1> QED
    BY <1>1, <1>4, <1>6, <1>7, <1>8, <1>9, <1>10, <1>11

(* Issuing a link after the ones the request found keeps the links agreed. *)
LEMMA LinksIssued ==
    ASSUME TypeOK, RowsAgree, AboutsAgree, LinksAgree, AllCalm, overlapped \subseteq overlapped',
           HasLinkRoom, NEW p \in People, NEW o \in Orgs, NEW purpose \in Purposes, NEW spent \in SUBSET Links,
           link' = Issued(spent, p, o, purpose),
           member'[p][o] # None,
           \A q \in People, u \in Orgs : member[q][u] # None => member'[q][u] # None,
           \A l \in spent : link[l] # None /\ Key(l) = <<p, o, purpose>>,
           <<p, o, purpose>> \notin overlapped' =>
              \A l \in Links : link[l] # None /\ Key(l) = <<p, o, purpose>> /\ ~link[l].used => l \in spent,
           \A j \in Desks : Guarded(desk'[j]) /\ desk'[j].about = <<p, o, purpose>> => <<p, o, purpose>> \in overlapped'
    PROVE  (RowsAgree /\ AboutsAgree /\ LinksAgree)'
  <1> DEFINE key == <<p, o, purpose>>
  <1>1. PICK fresh \in Links :
              /\ link[fresh] = None /\ link'[fresh] # None
              /\ link'[fresh].person = p /\ link'[fresh].org = o /\ link'[fresh].purpose = purpose
              /\ ~link'[fresh].used /\ link'[fresh].uses = 0
              /\ \A l \in Links : l # fresh /\ link[l] = None => link'[l] = None
              /\ \A l \in Links : link[l] # None =>
                    /\ link'[l] # None /\ Key(l)' = Key(l)
                    /\ link'[l].person = link[l].person /\ link'[l].org = link[l].org /\ link'[l].purpose = link[l].purpose
                    /\ link'[l].uses = link[l].uses
                    /\ l \in spent => link'[l].used
                    /\ l \notin spent => link'[l].used = link[l].used
    BY LinkIssued
  <1>2. Key(fresh)' = key
    BY <1>1 DEF Key
  <1>3. \A l \in Links : link'[l] # None => member'[link'[l].person][link'[l].org] # None
    BY <1>1 DEF RowsAgree, TypeOK, LinkRows
  <1>4. RowsAgree' /\ AboutsAgree'
    BY <1>1, <1>3, AboutsCalm
  <1>5. ASSUME NEW l \in Links, link'[l] # None, l # fresh
        PROVE  link[l] # None /\ Key(l)' = Key(l) /\ link'[l].uses = link[l].uses /\ (~link'[l].used => ~link[l].used /\ l \notin spent)
               /\ (link'[l].used /\ l \notin spent => link[l].used)
    BY <1>1, <1>5
  <1> HIDE DEF key
  <1>6. LinksAgree'
    <2>1. ASSUME NEW l \in Links, link'[l] # None, Key(l)' \notin overlapped'
          PROVE  /\ link'[l].uses <= 1 /\ (~link'[l].used => link'[l].uses = 0)
                 /\ \A m \in Links : link'[m] # None /\ Key(m)' = Key(l)' /\ ~link'[m].used /\ ~link'[l].used => m = l
      <3>1. link'[l].uses <= 1 /\ (~link'[l].used => link'[l].uses = 0)
        <4>1. CASE l = fresh
          BY <4>1, <1>1
        <4>2. CASE l # fresh
          <5>1. link[l] # None /\ Key(l) \notin overlapped /\ link'[l].uses = link[l].uses /\ (~link'[l].used => ~link[l].used)
            BY <2>1, <4>2, <1>5
          <5> QED BY <5>1 DEF LinksAgree
        <4> QED BY <4>1, <4>2
      <3>2. ASSUME NEW m \in Links, link'[m] # None, Key(m)' = Key(l)', ~link'[m].used, ~link'[l].used PROVE m = l
        <4>1. CASE l = fresh /\ m # fresh
          BY <2>1, <3>2, <4>1, <1>2, <1>5 DEF key
        <4>2. CASE m = fresh /\ l # fresh
          BY <2>1, <3>2, <4>2, <1>2, <1>5 DEF key
        <4>3. CASE l # fresh /\ m # fresh
          <5>1. link[l] # None /\ link[m] # None /\ Key(m) = Key(l) /\ Key(l) \notin overlapped /\ ~link[m].used /\ ~link[l].used
            BY <2>1, <3>2, <4>3, <1>5
          <5> QED BY <5>1 DEF LinksAgree
        <4> QED BY <4>1, <4>2, <4>3
      <3> QED BY <3>1, <3>2
    <2>2. ASSUME NEW j \in Desks, Guarded(desk[j])', desk'[j].about \notin overlapped'
          PROVE  /\ Spends(desk[j])' => ~link'[desk'[j].link].used
                 /\ desk'[j].step = "issue" =>
                      \A m \in Links : link'[m] # None /\ Key(m)' = desk'[j].about /\ ~link'[m].used => m \in desk'[j].spent
      <3>1. desk'[j] = desk[j]
        BY <2>2, CalmShapes DEF Guarded, Spends, Proofs
      <3>2. Guarded(desk[j]) /\ desk[j].about # key /\ desk[j].about \notin overlapped
        BY <2>2, <3>1 DEF key, Guarded, Spends
      <3>3. ASSUME Spends(desk[j]) PROVE ~link'[desk[j].link].used
        <4>1. desk[j].link \in Links
          BY <3>3, Shapes DEF Spends, TypeOK, Requests, Uses
        <4>2. link[desk[j].link] # None /\ Key(desk[j].link) # key /\ ~link[desk[j].link].used
          BY <3>2, <3>3 DEF AboutsAgree, LinksAgree
        <4>3. desk[j].link \notin spent
          BY <4>2 DEF key
        <4> QED BY <4>1, <4>2, <4>3, <1>1
      <3>4. ASSUME desk[j].step = "issue", NEW m \in Links, link'[m] # None, Key(m)' = desk[j].about, ~link'[m].used
            PROVE  m \in desk[j].spent
        <4>1. m # fresh
          BY <3>2, <3>4, <1>2
        <4>2. link[m] # None /\ Key(m) = desk[j].about /\ ~link[m].used
          BY <3>4, <4>1, <1>5
        <4> QED BY <3>2, <3>4, <4>2 DEF LinksAgree
      <3> QED BY <3>1, <3>3, <3>4 DEF Spends
    <2> QED
      BY <2>1, <2>2 DEF LinksAgree, Guarded, Spends
  <1> QED
    BY <1>4, <1>6

(* A link is spent or made, and nobody's password changes. *)
LEMMA LinkStep ==
    ASSUME IInv, AllCalm, TypeOK', MembersAgree', ClaimsStay,
           \A p \in People : Claimed(p) => account'[p].pw \in {account[p].pw, 0},
           UNCHANGED <<ticket, session, factor>>,
           \A l \in Links : link'[l] # None /\ link'[l].purpose # "invitation" =>
              \/ link[l] # None /\ link'[l].person = link[l].person /\ link'[l].purpose = link[l].purpose
              \/ link'[l].person \in People /\ Claimed(link[l].person)',
           (RowsAgree /\ AboutsAgree /\ LinksAgree)',
           minted <= minted', overlapped \subseteq overlapped'
    PROVE  IInv'
  <1>0. \A s \in Sessions : Fate(s) /\ KeepsCode(s)
    BY DEF KeepsCode, Fate
  <1>1. ClaimsAgree'
    BY <1>0, ClaimsCalm DEF IInv
  <1>2. OpeningsAgree'
    BY <1>0, OpeningsCalm DEF IInv
  <1>3. PasswordsAgree'
    BY <1>0, PasswordsCalm DEF IInv
  <1>4. (FactorsAgree /\ OneHolder /\ CodesAgree /\ CodeUsedOnce)'
    BY <1>0, CodesCalm DEF IInv, TypeOK
  <1> QED
    BY <1>1, <1>2, <1>3, <1>4 DEF IInv

LEMMA CommitIssuePreserves ==
    ASSUME IInv, NEW k \in Desks, CommitIssue(k)
    PROVE  IInv'
  <1>1. desk[k].step = "issue" /\ desk[k] \in Issues
    BY Shapes DEF CommitIssue, IInv, TypeOK, Requests
  <1>2. PICK p \in People, o \in Orgs, purpose \in Purposes, spent \in SUBSET Links :
           /\ p = desk[k].person /\ o = desk[k].org /\ purpose = desk[k].purpose /\ spent = desk[k].spent
           /\ desk[k].about = <<p, o, purpose>> /\ member[p][o] # None
           /\ \A l \in spent : link[l] # None /\ Key(l) = <<p, o, purpose>>
           /\ purpose # "invitation" => Claimed(p)
           /\ <<p, o, purpose>> \notin overlapped =>
                 \A l \in Links : link[l] # None /\ Key(l) = <<p, o, purpose>> /\ ~link[l].used => l \in spent
    <2>1. desk[k].about = <<desk[k].person, desk[k].org, desk[k].purpose>> /\ Guarded(desk[k])
          /\ \A l \in desk[k].spent : link[l] # None /\ Key(l) = desk[k].about
      BY <1>1 DEF IInv, AboutsAgree, Guarded
    <2>2. member[desk[k].person][desk[k].org] # None
      BY <1>1 DEF IInv, RowsAgree, OnMember
    <2>3. desk[k].purpose # "invitation" => Claimed(desk[k].person)
      BY <1>1 DEF IInv, ClaimsAgree, Personal
    <2>4. desk[k].about \notin overlapped =>
             \A l \in Links : link[l] # None /\ Key(l) = desk[k].about /\ ~link[l].used => l \in desk[k].spent
      BY <1>1, <2>1 DEF IInv, LinksAgree
    <2>5. desk[k].person \in People /\ desk[k].org \in Orgs /\ desk[k].purpose \in Purposes /\ desk[k].spent \in SUBSET Links
      BY <1>1 DEF Issues
    <2> DEFINE tx == desk[k]
    <2>6. /\ tx.about = <<tx.person, tx.org, tx.purpose>> /\ member[tx.person][tx.org] # None
          /\ \A l \in tx.spent : link[l] # None /\ Key(l) = <<tx.person, tx.org, tx.purpose>>
          /\ tx.purpose # "invitation" => Claimed(tx.person)
          /\ <<tx.person, tx.org, tx.purpose>> \notin overlapped =>
                \A l \in Links : link[l] # None /\ Key(l) = <<tx.person, tx.org, tx.purpose>> /\ ~link[l].used => l \in tx.spent
      <3> HIDE DEF Key
      <3> QED BY <2>1, <2>2, <2>3, <2>4
    <2> QED BY <2>5, <2>6
  <1>3. /\ HasLinkRoom /\ link' = Issued(spent, p, o, purpose) /\ Goto(k, Idle)
        /\ UNCHANGED <<account, member, org, ticket, session, factor, minted, overlapped>>
    BY <1>2 DEF CommitIssue
  <1>4. AllCalm /\ desk'[k] = Idle /\ desk' \in [Desks -> Requests]
    BY <1>3, DesksCalm, TypeCalm DEF Goto, IInv, TypeOK
  <1>5. \A j \in Desks : Guarded(desk'[j]) /\ desk'[j].about = <<p, o, purpose>> => <<p, o, purpose>> \in overlapped'
    <2> SUFFICES ASSUME NEW j \in Desks, Guarded(desk'[j]), desk'[j].about = <<p, o, purpose>>
                 PROVE  <<p, o, purpose>> \in overlapped
      BY <1>3
    <2>1. j # k
      BY <1>4 DEF Guarded, Spends, Proofs, Idle
    <2>2. desk'[j] = desk[j]
      BY <1>4, CalmShapes DEF Guarded, Spends, Proofs, IInv
    <2> QED BY <1>1, <1>2, <2>1, <2>2 DEF IInv, AboutsAgree, Guarded
  <1>6. (RowsAgree /\ AboutsAgree /\ LinksAgree)'
    <2>1. /\ overlapped \subseteq overlapped' /\ member'[p][o] # None
          /\ \A q \in People, u \in Orgs : member[q][u] # None => member'[q][u] # None
          /\ <<p, o, purpose>> \notin overlapped' =>
                \A l \in Links : link[l] # None /\ Key(l) = <<p, o, purpose>> /\ ~link[l].used => l \in spent
      BY <1>2, <1>3
    <2>2. TypeOK /\ RowsAgree /\ AboutsAgree /\ LinksAgree
      BY DEF IInv
    <2>3. \A l \in spent : link[l] # None /\ Key(l) = <<p, o, purpose>>
      BY <1>2
    <2>4. AllCalm /\ HasLinkRoom /\ link' = Issued(spent, p, o, purpose)
      BY <1>3, <1>4
    <2> QED BY <1>5, <2>1, <2>2, <2>3, <2>4, LinksIssued
  <1>7. /\ link' \in [Links -> LinkRows \cup {None}]
        /\ \A l \in Links : link'[l] # None /\ link'[l].purpose # "invitation" =>
              \/ link[l] # None /\ link'[l].person = link[l].person /\ link'[l].purpose = link[l].purpose
              \/ link'[l].person \in People /\ Claimed(link[l].person)'
    <2>1. purpose # "invitation" => Claimed(p)'
      BY <1>2, <1>3 DEF Claimed
    <2> QED BY <1>3, <2>1, LinkIssued DEF IInv, Claimed
  <1>8. TypeOK' /\ MembersAgree'
    BY <1>3, <1>4, <1>7 DEF IInv, TypeOK, Requests, MembersAgree
  <1>9. /\ ClaimsStay /\ minted <= minted' /\ overlapped \subseteq overlapped'
        /\ \A q \in People : Claimed(q) => account'[q].pw \in {account[q].pw, 0}
    BY <1>3 DEF ClaimsStay, Claimed, IInv, TypeOK
  <1> QED
    BY <1>3, <1>4, <1>6, <1>7, <1>8, <1>9, LinkStep

LEMMA UseLinkPreserves ==
    ASSUME IInv, NEW k \in Desks, UseLink(k)
    PROVE  IInv'
  <1>1. desk[k].step \in {"address", "accept"} /\ desk[k] \in Uses /\ Spends(desk[k])
    BY Shapes DEF UseLink, IInv, TypeOK, Requests, AboutsAgree, Spends
  <1>2. PICK p \in People, o \in Orgs, l \in Links :
           p = desk[k].person /\ o = desk[k].org /\ l = desk[k].link /\ link[l] # None /\ member[p][o] # None
    BY <1>1 DEF IInv, Uses, Spends, AboutsAgree, RowsAgree, OnMember
  <1>3. /\ link' = Consumed(l) /\ Goto(k, Idle)
        /\ UNCHANGED <<org, ticket, session, factor, minted, overlapped>>
        /\ \/ account' = account /\ member' = [member EXCEPT ![p][o].pending = FALSE]
           \/ member' = member /\ account' = [account EXCEPT ![p].verified = TRUE]
    BY <1>2 DEF UseLink
  <1>4. AllCalm /\ desk'[k] = Idle /\ desk' \in [Desks -> Requests]
    BY <1>3, DesksCalm, TypeCalm DEF Goto, IInv, TypeOK
  <1>5. /\ member' \in [People -> [Orgs -> MemberRows \cup {None}]]
        /\ \A q \in People, u \in Orgs : member[q][u] # None <=> member'[q][u] # None
    <2>1. member' = member \/ \E row \in MemberRows : member' = [member EXCEPT ![p][o] = row]
      BY <1>2, <1>3, MemberChanged DEF IInv, Roles
    <2>2. CASE \E row \in MemberRows : member' = [member EXCEPT ![p][o] = row]
      <3>1. PICK row \in MemberRows : member' = [member EXCEPT ![p][o] = row]
        BY <2>2
      <3>2. TypeOK /\ member[p][o] # None
        BY <1>2 DEF IInv
      <3>3. member' \in [People -> [Orgs -> MemberRows \cup {None}]]
        BY <3>1, <3>2, MemberWritten
      <3> QED BY <3>1, <3>2, <3>3, MemberWritten
    <2> QED BY <2>1, <2>2 DEF IInv, TypeOK
  <1>6. /\ account' \in [People -> AccountRows \cup {None}]
        /\ ClaimsStay
        /\ \A q \in People : account[q] # None => account'[q] # None /\ account'[q].pw = account[q].pw
        /\ \A q \in People : account[q] = None => account'[q] = None
    <2>1. CASE account' = account
      BY <2>1 DEF ClaimsStay, Claimed, IInv, TypeOK
    <2>2. CASE account' = [account EXCEPT ![p].verified = TRUE]
      <3> DEFINE a == [account[p] EXCEPT !.verified = TRUE]
      <3>1. account[p] # None /\ account[p] \in AccountRows
        BY <1>2 DEF IInv, MembersAgree, TypeOK
      <3>2. a \in AccountRows /\ a.pw = account[p].pw /\ a.linked = account[p].linked /\ account' = [account EXCEPT ![p] = a]
        BY <2>2, <3>1 DEF AccountRows
      <3> HIDE DEF a
      <3> QED BY <3>1, <3>2, NoneIsNothing DEF ClaimsStay, Claimed, IInv, TypeOK
    <2> QED BY <1>3, <2>1, <2>2
  <1>7. (RowsAgree /\ AboutsAgree /\ LinksAgree)'
    BY <1>1, <1>2, <1>3, <1>4, <1>5, LinksSpent DEF IInv
  <1>8. /\ link' \in [Links -> LinkRows \cup {None}]
        /\ \A m \in Links : link'[m] # None =>
              link[m] # None /\ link'[m].person = link[m].person /\ link'[m].purpose = link[m].purpose
    BY <1>2, <1>3, LinkConsumed DEF IInv
  <1>9. TypeOK'
    BY <1>3, <1>4, <1>5, <1>6, <1>8 DEF IInv, TypeOK, Requests
  <1>10. MembersAgree'
    BY <1>3, <1>5, <1>6 DEF IInv, MembersAgree
  <1>11. minted <= minted' /\ \A q \in People : Claimed(q) => account'[q].pw \in {account[q].pw, 0}
    BY <1>3, <1>6 DEF Claimed, IInv, TypeOK
  <1> QED
    BY <1>3, <1>4, <1>6, <1>7, <1>8, <1>9, <1>10, <1>11, LinkStep

-----------------------------------------------------------------------------
(* A password is set. *)

(* One account is written and the others stay. *)
LEMMA AccountWritten ==
    ASSUME TypeOK, NEW p \in People, NEW row \in AccountRows, account' = [account EXCEPT ![p] = row]
    PROVE  /\ account' \in [People -> AccountRows \cup {None}]
           /\ account'[p] = row /\ account'[p] # None
           /\ \A q \in People : q # p => account'[q] = account[q]
  BY NoneIsNothing DEF TypeOK

(* The accounts once p has set a password, with link l or without one. *)
Renewed(p, pw, l) == [account EXCEPT ![p].pw = pw, ![p].must = FALSE, ![p].verified = @ \/ l # 0]

(* Setting a password writes one account. *)
LEMMA AccountPassword ==
    ASSUME TypeOK, NEW p \in People, account[p] # None, NEW pw \in Int, NEW l, account' = Renewed(p, pw, l)
    PROVE  /\ account' \in [People -> AccountRows \cup {None}]
           /\ account'[p] # None /\ account'[p].pw = pw
           /\ \A q \in People : q # p => account'[q] = account[q]
  <1> DEFINE third == [account[p] EXCEPT !.pw = pw]
             half == [third EXCEPT !.must = FALSE]
             whole == [half EXCEPT !.verified = half.verified \/ l # 0]
  <1>1. account[p] \in AccountRows
    BY DEF TypeOK
  <1>2. third \in AccountRows /\ third.pw = pw
    BY <1>1 DEF AccountRows
  <1>3. account' = [account EXCEPT ![p] = whole]
    BY DEF TypeOK, Renewed
  <1> HIDE DEF third
  <1>4. half \in AccountRows /\ half.pw = pw
    BY <1>2 DEF AccountRows
  <1> HIDE DEF half
  <1>5. whole \in AccountRows /\ whole.pw = pw
    BY <1>4 DEF AccountRows
  <1> HIDE DEF whole
  <1> QED
    BY <1>3, <1>5, AccountWritten

(* Whatever rested on the old password is revoked, or was opened while it was being changed. *)
LEMMA PasswordsSet ==
    ASSUME TypeOK, PasswordsAgree, NEW k \in Desks, NEW p \in People, NEW kills \in SUBSET Sessions,
           desk[k].step = "password", desk[k].person = p, desk[k].kills = kills,
           session' = Retired(kills), desk' = Overtaken(k, kills, p),
           \A q \in People : q # p => account'[q] = account[q]
    PROVE  PasswordsAgree'
  <1>1. AllCalm
    BY DesksCalm
  <1>2. \A j \in Desks : desk'[j].step = "password" => desk'[j] = desk[j]
    BY <1>1, CalmShapes
  <1>3. ASSUME NEW s \in Sessions, session'[s] # None, session'[s].live
        PROVE  /\ Current(session[s].person, session[s].pw, session[s].raced)'
               /\ \A j \in Desks : Covers(desk'[j], s, session'[s].person, session'[s].raced)
    <2>1. session'[s] = session[s] /\ s \notin kills
      BY <1>3, SessionsRetired
    <2>2. /\ Current(session[s].person, session[s].pw, session[s].raced)
          /\ \A j \in Desks : Covers(desk[j], s, session[s].person, session[s].raced)
      BY <1>3, <2>1 DEF PasswordsAgree
    <2>3. session[s].person = p => session[s].raced
      BY <2>1, <2>2 DEF Covers
    <2>4. session[s].person \in People
      BY <1>3, <2>1 DEF TypeOK, SessionRows
    <2> QED BY <1>2, <2>1, <2>2, <2>3, <2>4 DEF Current, Covers
  <1>4. ASSUME NEW i \in Desks, desk'[i].step = "open", ~desk'[i].dead
        PROVE  /\ Current(desk[i].person, desk[i].pw, desk[i].raced)'
               /\ \A j \in Desks : Covers(desk'[j], desk'[i].id, desk'[i].person, desk'[i].raced)
    <2>1. desk[i].step = "open" /\ desk[i] \in Openings /\ i # k
      BY <1>1, <1>4, CalmShapes, Shapes
    <2>2. desk'[i] = RetiredDesks(kills)[i]
      BY <2>1 DEF Overtaken
    <2>3. desk[i].id \notin kills /\ desk'[i] = desk[i]
      <3>1. CASE desk[i].id \in kills
        <4>1. desk'[i] = [desk[i] EXCEPT !.dead = TRUE]
          BY <2>1, <2>2, <3>1 DEF RetiredDesks
        <4> QED BY <1>4, <2>1, <4>1 DEF Openings
      <3>2. CASE desk[i].id \notin kills
        BY <2>2, <3>2 DEF RetiredDesks
      <3> QED BY <3>1, <3>2
    <2>4. /\ Current(desk[i].person, desk[i].pw, desk[i].raced)
          /\ \A j \in Desks : Covers(desk[j], desk[i].id, desk[i].person, desk[i].raced)
      BY <1>4, <2>1, <2>3 DEF PasswordsAgree
    <2>5. desk[i].person = p => desk[i].raced
      BY <2>3, <2>4 DEF Covers
    <2>6. desk[i].person \in People
      BY <2>1 DEF Openings
    <2> QED BY <1>2, <2>3, <2>4, <2>5, <2>6 DEF Current, Covers
  <1>5. ASSUME NEW i \in Desks, desk'[i].step = "switch"
        PROVE  Current(desk[i].person, desk[i].pw, desk[i].raced)'
    <2>1. desk[i].step = "switch" /\ desk[i] \in Switches /\ i # k
      BY <1>1, <1>5, CalmShapes, Shapes
    <2>2. CASE desk[i].person = p
      <3>1. desk'[i] = [desk[i] EXCEPT !.raced = TRUE]
        BY <2>1, <2>2 DEF Overtaken
      <3> QED BY <2>1, <3>1 DEF Switches, Current
    <2>3. CASE desk[i].person # p
      <3>1. desk'[i] = desk[i]
        BY <2>1, <2>3 DEF Overtaken, RetiredDesks
      <3>2. desk[i].person \in People /\ Current(desk[i].person, desk[i].pw, desk[i].raced)
        BY <2>1 DEF PasswordsAgree, Switches
      <3> QED BY <2>3, <3>1, <3>2 DEF Current
    <2> QED BY <2>2, <2>3
  <1> QED
    BY <1>3, <1>4, <1>5 DEF PasswordsAgree, Current, Covers

LEMMA SetPasswordPreserves ==
    ASSUME IInv, NEW k \in Desks, SetPassword(k)
    PROVE  IInv'
  <1>1. desk[k].step = "password" /\ desk[k] \in Uses
    BY Shapes DEF SetPassword, IInv, TypeOK, Requests
  <1>2. PICK p \in People, kills \in SUBSET Sessions, l \in Links \cup {0} :
           p = desk[k].person /\ kills = desk[k].kills /\ l = desk[k].link
    BY <1>1 DEF Uses
  <1>3. Claimed(p) /\ account[p] # None
    BY <1>1, <1>2 DEF IInv, ClaimsAgree, Personal, Claimed
  <1>4. /\ minted' = minted + 1
        /\ account' = Renewed(p, minted', l)
        /\ session' = Retired(kills) /\ desk' = Overtaken(k, kills, p)
        /\ UNCHANGED <<org, ticket, factor, overlapped>>
    BY <1>2 DEF SetPassword, Renewed
  <1>5. minted' \in Nat /\ minted' # 0 /\ minted <= minted'
    BY <1>4 DEF IInv, TypeOK
  <1>6. /\ account' \in [People -> AccountRows \cup {None}]
        /\ account'[p] # None /\ account'[p].pw = minted'
        /\ \A q \in People : q # p => account'[q] = account[q]
    <2>1. PICK pw \in Int : pw = minted'
      BY <1>5
    <2>2. TypeOK /\ account[p] # None /\ account' = Renewed(p, pw, l)
      BY <1>3, <1>4, <2>1 DEF IInv
    <2> QED BY <2>1, <2>2, AccountPassword
  <1>7. AllCalm /\ desk'[k] = Idle /\ desk' \in [Desks -> Requests]
    <2>1. desk'[k] = Idle
      BY <1>4 DEF Overtaken
    <2> QED BY <1>4, <2>1, DesksCalm, TypeCalm DEF IInv
  <1>8. /\ session' \in [Sessions -> SessionRows \cup {None}]
        /\ \A s \in Sessions : KeepsCode(s) /\ Fate(s)
    BY <1>4, SessionsRetired DEF IInv, KeepsCode
  <1>9. ClaimsStay
    BY <1>5, <1>6 DEF ClaimsStay, Claimed
  <1>10. PasswordsAgree'
    <2>1. desk[k].person = p /\ desk[k].kills = kills
      BY <1>2
    <2>2. TypeOK /\ PasswordsAgree
      BY DEF IInv
    <2> QED BY <1>1, <1>4, <1>6, <2>1, <2>2, PasswordsSet
  <1>11. /\ (RowsAgree /\ AboutsAgree /\ LinksAgree)'
         /\ link' \in [Links -> LinkRows \cup {None}]
         /\ \A m \in Links : link'[m] # None =>
               link[m] # None /\ link'[m].person = link[m].person /\ link'[m].purpose = link[m].purpose
         /\ member' \in [People -> [Orgs -> MemberRows \cup {None}]]
         /\ \A q \in People, u \in Orgs : member[q][u] # None <=> member'[q][u] # None
    <2>1. CASE l = 0
      <3>1. UNCHANGED <<member, link>>
        BY <1>2, <2>1 DEF SetPassword
      <3> QED BY <1>4, <1>7, <3>1, LinksCalm DEF IInv, TypeOK
    <2>2. CASE l # 0
      <3>1. Spends(desk[k]) /\ l \in Links /\ link[l] # None
        BY <1>1, <1>2, <2>2 DEF Spends, IInv, AboutsAgree
      <3>2. PICK o \in Orgs : o = desk[k].org /\ member[p][o] # None
        BY <1>1, <1>2, <2>2 DEF IInv, RowsAgree, OnMember
      <3>3. member' = [member EXCEPT ![p][o].pending = FALSE] /\ link' = Consumed(l)
        BY <1>2, <2>2, <3>2 DEF SetPassword
      <3>4. PICK row \in MemberRows : member' = [member EXCEPT ![p][o] = row]
        <4>1. TypeOK /\ member[p][o] # None
          BY <3>2 DEF IInv
        <4> QED BY <3>3, <4>1, MemberChanged DEF Roles
      <3>5. TypeOK /\ member[p][o] # None
        BY <3>2 DEF IInv
      <3>6. member' \in [People -> [Orgs -> MemberRows \cup {None}]]
        BY <3>4, <3>5, MemberWritten
      <3>7. \A q \in People, u \in Orgs : member[q][u] # None <=> member'[q][u] # None
        BY <3>4, <3>5, <3>6, MemberWritten
      <3>8. (RowsAgree /\ AboutsAgree /\ LinksAgree)'
        BY <1>2, <1>4, <1>7, <3>1, <3>3, <3>7, LinksSpent DEF IInv
      <3>9. /\ link' \in [Links -> LinkRows \cup {None}]
            /\ \A m \in Links : link'[m] # None =>
                  link[m] # None /\ link'[m].person = link[m].person /\ link'[m].purpose = link[m].purpose
        BY <3>1, <3>3, LinkConsumed DEF IInv
      <3> QED BY <3>6, <3>7, <3>8, <3>9
    <2> QED BY <2>1, <2>2
  <1>12. TypeOK'
    BY <1>4, <1>5, <1>6, <1>7, <1>8, <1>11 DEF IInv, TypeOK, Requests
  <1>13. MembersAgree'
    <2>1. \A q \in People : account[q] # None => account'[q] # None
      BY <1>6
    <2>2. ~Connected => \A q \in People : account'[q] # None => account'[q].pw # 0
      BY <1>5, <1>6 DEF IInv, MembersAgree
    <2>3. org' = org /\ \A q \in People, u \in Orgs : member'[q][u] # None => member[q][u] # None
      BY <1>4, <1>11
    <2> QED BY <2>1, <2>2, <2>3 DEF IInv, MembersAgree
  <1>14. ClaimsAgree'
    BY <1>4, <1>7, <1>8, <1>9, <1>11, ClaimsCalm DEF IInv
  <1>15. OpeningsAgree'
    BY <1>7, <1>8, OpeningsCalm DEF IInv
  <1>16. (FactorsAgree /\ OneHolder /\ CodesAgree /\ CodeUsedOnce)'
    BY <1>4, <1>5, <1>7, <1>8, CodesCalm DEF IInv
  <1> QED
    BY <1>10, <1>11, <1>12, <1>13, <1>14, <1>15, <1>16 DEF IInv

-----------------------------------------------------------------------------
(* A membership begins with a link of its own. *)

(* A first account is written and the others stay. *)
LEMMA AccountMade ==
    ASSUME TypeOK, NEW p \in People, account[p] = None, NEW row \in AccountRows, account' = [account EXCEPT ![p] = row]
    PROVE  /\ account' \in [People -> AccountRows \cup {None}]
           /\ account'[p] = row /\ account'[p] # None
           /\ \A q \in People : q # p => account'[q] = account[q]
           /\ \A q \in People : account[q] # None => account'[q] # None
           /\ ClaimsStay
           /\ \A q \in People : Claimed(q) => account'[q].pw \in {account[q].pw, 0}
  <1>1. /\ account' \in [People -> AccountRows \cup {None}]
        /\ account'[p] = row /\ account'[p] # None
        /\ \A q \in People : q # p => account'[q] = account[q]
    BY AccountWritten
  <1> QED
    BY <1>1 DEF ClaimsStay, Claimed

(* A new account is an account row. *)
LEMMA NewAccountIsOne ==
    ASSUME NEW pw \in Int, NEW linked \in BOOLEAN, NEW must \in BOOLEAN
    PROVE  LET a == NewAccount(pw, linked, must) IN a \in AccountRows /\ a.pw = pw /\ a.linked = linked
  BY DEF NewAccount, AccountRows

(* The first link of a new membership keeps the links agreed. *)
LEMMA FirstLink ==
    ASSUME TypeOK, RowsAgree, AboutsAgree, LinksAgree, desk' = desk, overlapped \subseteq overlapped',
           HasLinkRoom, NEW p \in People, NEW o \in Orgs, NEW purpose \in Purposes, link' = Issued({}, p, o, purpose),
           member[p][o] = None, member'[p][o] # None,
           \A q \in People, u \in Orgs : member[q][u] # None => member'[q][u] # None,
           purpose # "invitation" => Claimed(p)'
    PROVE  /\ (RowsAgree /\ AboutsAgree /\ LinksAgree)'
           /\ link' \in [Links -> LinkRows \cup {None}]
           /\ \A l \in Links : link'[l] # None /\ link'[l].purpose # "invitation" =>
                 \/ link[l] # None /\ link'[l].person = link[l].person /\ link'[l].purpose = link[l].purpose
                 \/ link'[l].person \in People /\ Claimed(link[l].person)'
  <1>1. AllCalm
    BY DesksCalm
  <1>2. ASSUME NEW j \in Desks, Guarded(desk[j]), desk[j].about = <<p, o, purpose>> PROVE FALSE
    <2>1. OnMember(desk[j])
      BY <1>2 DEF Guarded, Spends, OnMember
    <2>2. desk[j].person = p /\ desk[j].org = o
      BY <1>2 DEF AboutsAgree, Guarded
    <2> QED BY <2>1, <2>2 DEF RowsAgree
  <1>3. ASSUME NEW l \in Links, link[l] # None, Key(l) = <<p, o, purpose>> PROVE FALSE
    BY <1>3 DEF RowsAgree, Key
  <1>4. (RowsAgree /\ AboutsAgree /\ LinksAgree)'
    <2> DEFINE spent == {}
    <2>1. spent \in SUBSET Links /\ link' = Issued(spent, p, o, purpose)
      OBVIOUS
    <2>2. \A l \in spent : link[l] # None /\ Key(l) = <<p, o, purpose>>
      OBVIOUS
    <2> HIDE DEF spent
    <2>3. \A j \in Desks : Guarded(desk'[j]) /\ desk'[j].about = <<p, o, purpose>> => <<p, o, purpose>> \in overlapped'
      BY <1>2
    <2>4. \A l \in Links : link[l] # None /\ Key(l) = <<p, o, purpose>> /\ ~link[l].used => l \in spent
      BY <1>3
    <2> QED BY <1>1, <2>1, <2>2, <2>3, <2>4, LinksIssued
  <1>5. PICK fresh \in Links :
              /\ link' \in [Links -> LinkRows \cup {None}]
              /\ link[fresh] = None /\ link'[fresh] # None /\ link'[fresh].person = p /\ link'[fresh].purpose = purpose
              /\ \A l \in Links : l # fresh /\ link[l] = None => link'[l] = None
              /\ \A l \in Links : link[l] # None =>
                    link'[l].person = link[l].person /\ link'[l].purpose = link[l].purpose
    BY LinkIssued
  <1>6. ASSUME NEW l \in Links, link'[l] # None, link'[l].purpose # "invitation"
        PROVE  \/ link[l] # None /\ link'[l].person = link[l].person /\ link'[l].purpose = link[l].purpose
               \/ link'[l].person \in People /\ Claimed(link[l].person)'
    BY <1>5, <1>6 DEF Claimed
  <1> QED
    BY <1>4, <1>5, <1>6

LEMMA InviteUserPreserves ==
    ASSUME IInv, NEW s \in Sessions, NEW q \in People, NEW role \in Offered, NEW found \in BOOLEAN,
           InviteUser(s, q, role, found)
    PROVE  IInv'
  <1>1. PICK o \in Orgs : o = session[s].org /\ org[o] # "none" /\ session[s].person \in People
    BY ActingSession DEF InviteUser, IInv, MembersAgree
  <1>2. PICK purpose \in Purposes :
           /\ purpose = IF account[q] # None \/ Connected THEN "invitation" ELSE "reset"
           /\ link' = Issued({}, q, o, purpose)
    BY <1>1 DEF InviteUser, Purposes
  <1>3. PICK row \in MemberRows : member' = [member EXCEPT ![q][o] = row]
    <2>1. NewMember(role, TRUE, session[s].person) \in MemberRows
      BY <1>1, NewMemberIsOne, AccountsAssumptions
    <2> QED BY <1>1, <2>1 DEF InviteUser
  <1>4. /\ member[q][o] = None /\ HasLinkRoom
        /\ UNCHANGED <<org, ticket, session, factor, minted, desk>> /\ overlapped \subseteq overlapped'
    BY <1>1 DEF InviteUser, Overlap
  <1>5. \/ account[q] # None /\ account' = account
        \/ /\ account[q] = None
           /\ \E row2 \in AccountRows : account' = [account EXCEPT ![q] = row2] /\ (~Connected => row2.pw # 0)
    <2>1. CASE account[q] # None
      BY <2>1 DEF InviteUser
    <2>2. CASE account[q] = None /\ Connected /\ found
      <3>1. account' = [account EXCEPT ![q] = NewAccount(0, TRUE, FALSE)]
        BY <2>2 DEF InviteUser, UpsertFromSuliko
      <3>2. NewAccount(0, TRUE, FALSE) \in AccountRows
        BY DEF NewAccount, AccountRows
      <3> QED BY <2>2, <3>1, <3>2
    <2>3. CASE account[q] = None /\ ~(Connected /\ found)
      <3> DEFINE pw == IF Connected THEN 0 ELSE -1
      <3>1. account' = [account EXCEPT ![q] = NewAccount(pw, FALSE, FALSE)]
        BY <2>3 DEF InviteUser
      <3>2. pw \in Int /\ (~Connected => pw # 0)
        OBVIOUS
      <3> HIDE DEF pw
      <3> QED BY <2>3, <3>1, <3>2, NewAccountIsOne
    <2> QED BY <2>1, <2>2, <2>3
  <1>6. /\ account' \in [People -> AccountRows \cup {None}] /\ account'[q] # None
        /\ \A p \in People : account[p] # None => account'[p] # None
        /\ ClaimsStay
        /\ \A p \in People : Claimed(p) => account'[p].pw \in {account[p].pw, 0}
        /\ ~Connected => \A p \in People : account'[p] # None => account'[p].pw # 0
    <2>1. CASE account[q] # None /\ account' = account
      BY <2>1 DEF IInv, TypeOK, MembersAgree, ClaimsStay, Claimed
    <2>2. CASE account[q] = None /\ \E row2 \in AccountRows : account' = [account EXCEPT ![q] = row2] /\ (~Connected => row2.pw # 0)
      <3>1. PICK row2 \in AccountRows : account' = [account EXCEPT ![q] = row2] /\ (~Connected => row2.pw # 0)
        BY <2>2
      <3> QED BY <2>2, <3>1, AccountMade DEF IInv, MembersAgree
    <2> QED BY <1>5, <2>1, <2>2
  <1>7. /\ member' \in [People -> [Orgs -> MemberRows \cup {None}]] /\ member'[q][o] # None
        /\ \A p \in People, u \in Orgs : ~(p = q /\ u = o) => member'[p][u] = member[p][u]
        /\ \A p \in People, u \in Orgs : member[p][u] # None => member'[p][u] # None
    BY <1>3, MemberWritten DEF IInv
  <1>8. purpose # "invitation" => Claimed(q)'
    BY <1>2, <1>6 DEF Claimed
  <1>9. /\ (RowsAgree /\ AboutsAgree /\ LinksAgree)'
        /\ link' \in [Links -> LinkRows \cup {None}]
        /\ \A l \in Links : link'[l] # None /\ link'[l].purpose # "invitation" =>
              \/ link[l] # None /\ link'[l].person = link[l].person /\ link'[l].purpose = link[l].purpose
              \/ link'[l].person \in People /\ Claimed(link[l].person)'
    BY <1>2, <1>4, <1>7, <1>8, FirstLink DEF IInv
  <1>10. TypeOK'
    BY <1>4, <1>6, <1>7, <1>9 DEF IInv, TypeOK
  <1>11. MembersAgree'
    BY <1>1, <1>4, <1>6, <1>7 DEF IInv, MembersAgree
  <1>12. AllCalm /\ minted <= minted'
    BY <1>4, DesksCalm DEF IInv, TypeOK
  <1> QED
    BY <1>4, <1>6, <1>9, <1>10, <1>11, <1>12, LinkStep

LEMMA SignupPreserves ==
    ASSUME IInv, NEW p \in People, NEW o \in Orgs, Signup(p, o)
    PROVE  IInv'
  <1> DEFINE a == NewAccount(minted', FALSE, FALSE)
             row == NewMember("owner", FALSE, None)
             new == [person |-> p, org |-> o, pw |-> minted', live |-> TRUE, raced |-> FALSE,
                     passed |-> ~RequiresMfa("owner"), code |-> None]
  <1>1. PICK id \in Sessions : id = Min(FreeSessions) /\ session[id] = None /\ id \notin Opening
    BY FreeSessionIsFree DEF Signup
  <1>2. minted' \in Nat /\ minted' # 0 /\ minted <= minted'
    BY DEF Signup, IInv, TypeOK
  <1>3. /\ account[p] = None /\ org[o] = "none" /\ HasLinkRoom
        /\ account' = [account EXCEPT ![p] = a]
        /\ org' = [org EXCEPT ![o] = "usable"]
        /\ member' = [member EXCEPT ![p][o] = row]
        /\ link' = Issued({}, p, o, "verification")
        /\ session' = [session EXCEPT ![id] = new]
        /\ UNCHANGED <<ticket, factor, desk, overlapped>>
    BY <1>1 DEF Signup
  <1>4. member[p][o] = None /\ ~Claimed(p)
    BY <1>3 DEF IInv, MembersAgree, Claimed
  <1>5. a \in AccountRows /\ a.pw = minted'
    <2>1. minted' \in Int
      BY <1>2
    <2> QED BY <2>1, NewAccountIsOne
  <1>6. row \in MemberRows
    BY NewMemberIsOne DEF Roles
  <1>7. new \in SessionRows /\ new.code = None /\ new.person = p /\ new.pw = minted' /\ ~new.raced
    BY <1>2 DEF SessionRows, RequiresMfa
  <1> HIDE DEF a, row, new
  <1>8. /\ account' \in [People -> AccountRows \cup {None}]
        /\ account'[p] = a /\ account'[p] # None
        /\ \A q \in People : q # p => account'[q] = account[q]
        /\ \A q \in People : account[q] # None => account'[q] # None
        /\ ClaimsStay
        /\ \A q \in People : Claimed(q) => account'[q].pw \in {account[q].pw, 0}
    BY <1>3, <1>5, AccountMade DEF IInv
  <1>9. Claimed(p)'
    BY <1>2, <1>5, <1>8 DEF Claimed
  <1>10. /\ member' \in [People -> [Orgs -> MemberRows \cup {None}]] /\ member'[p][o] # None
         /\ \A q \in People, u \in Orgs : ~(q = p /\ u = o) => member'[q][u] = member[q][u]
         /\ \A q \in People, u \in Orgs : member[q][u] # None => member'[q][u] # None
    <2>1. TypeOK BY DEF IInv
    <2>2. member' = [member EXCEPT ![p][o] = row] BY <1>3
    <2> QED BY <2>1, <2>2, <1>6, MemberWritten
  <1>11. /\ org' \in [Orgs -> {"none", "usable", "suspended"}] /\ org'[o] # "none"
         /\ \A u \in Orgs : u # o => org'[u] = org[u]
    BY <1>3 DEF IInv, TypeOK
  <1>12. /\ session' \in [Sessions -> SessionRows \cup {None}] /\ session'[id] = new
         /\ \A s \in Sessions : s # id => session'[s] = session[s]
    BY <1>3, <1>7 DEF IInv, TypeOK
  <1>13. /\ New(id)
         /\ \A s \in Sessions : s # id => KeepsCode(s) /\ Fate(s)
    BY <1>1, <1>7, <1>12 DEF New, KeepsCode, Fate
  <1>14. /\ (RowsAgree /\ AboutsAgree /\ LinksAgree)'
         /\ link' \in [Links -> LinkRows \cup {None}]
         /\ \A l \in Links : link'[l] # None /\ link'[l].purpose # "invitation" =>
               \/ link[l] # None /\ link'[l].person = link[l].person /\ link'[l].purpose = link[l].purpose
               \/ link'[l].person \in People /\ Claimed(link[l].person)'
    <2>1. "verification" \in Purposes
      BY DEF Purposes
    <2> QED BY <1>3, <1>4, <1>9, <1>10, <2>1, FirstLink DEF IInv
  <1>15. TypeOK'
    BY <1>2, <1>3, <1>8, <1>10, <1>11, <1>12, <1>14 DEF IInv, TypeOK
  <1>16. MembersAgree'
    BY <1>2, <1>5, <1>8, <1>10, <1>11 DEF IInv, MembersAgree
  <1>17. AllCalm
    BY <1>3, DesksCalm DEF IInv
  <1>18. ClaimsAgree'
    <2>1. Claimed(session[id].person)'
      BY <1>7, <1>9, <1>12 DEF Claimed
    <2> QED BY <1>3, <1>8, <1>13, <1>14, <1>17, <2>1, ClaimsCalm DEF IInv
  <1>19. OpeningsAgree'
    <2>1. \A j \in Desks : desk'[j].step = "open" => desk'[j].id # id
      BY <1>1, <1>3 DEF Opening
    <2> QED BY <1>13, <1>17, <2>1, OpeningsCalm DEF IInv
  <1>20. PasswordsAgree'
    <2>1. Current(session[id].person, session[id].pw, session[id].raced)'
      BY <1>5, <1>7, <1>8, <1>12 DEF Current
    <2>2. \A j \in Desks : Covers(desk'[j], id, session'[id].person, session'[id].raced)
      <3>1. \A j \in Desks : ~(desk[j].step = "password" /\ desk[j].person = p)
        BY <1>4 DEF IInv, ClaimsAgree, Personal
      <3> QED BY <1>3, <1>7, <1>12, <3>1 DEF Covers
    <2> QED BY <1>8, <1>13, <1>17, <2>1, <2>2, PasswordsCalm DEF IInv
  <1>21. (FactorsAgree /\ OneHolder /\ CodesAgree /\ CodeUsedOnce)'
    BY <1>2, <1>3, <1>13, <1>17, CodesCalm DEF IInv
  <1> QED
    BY <1>14, <1>15, <1>16, <1>18, <1>19, <1>20, <1>21 DEF IInv

-----------------------------------------------------------------------------
(* A membership is deleted, and what hangs on it. *)

(* Removing a membership removes its links, and its requests are lost. *)
LEMMA LinksRemoved ==
    ASSUME TypeOK, RowsAgree, AboutsAgree, LinksAgree, overlapped' = overlapped,
           NEW k \in Desks, NEW p \in People, NEW o \in Orgs, desk' = [Bereft(p, o) EXCEPT ![k] = Idle],
           link' = LinksWithout(p, o), member' = [member EXCEPT ![p][o] = None]
    PROVE  /\ (RowsAgree /\ AboutsAgree /\ LinksAgree)'
           /\ link' \in [Links -> LinkRows \cup {None}]
           /\ \A l \in Links : link'[l] # None => link'[l] = link[l]
  <1>1. AllCalm
    BY DesksCalm
  <1>2. ASSUME NEW j \in Desks, OnMember(desk'[j]) \/ Guarded(desk'[j])
        PROVE  /\ desk'[j] = desk[j] /\ OnMember(desk[j])
               /\ desk[j].person \in People /\ desk[j].org \in Orgs
               /\ ~(desk[j].person = p /\ desk[j].org = o)
    <2>1. desk'[j] = desk[j]
      BY <1>1, <1>2, CalmShapes DEF OnMember, Guarded, Spends, Proofs
    <2>2. OnMember(desk[j])
      BY <1>2, <2>1 DEF OnMember, Guarded, Spends
    <2>3. desk[j].person \in People /\ desk[j].org \in Orgs
      BY <2>2, Shapes DEF RowsAgree, OnMember, TypeOK, Requests, Issues, Uses, Changes, Answers
    <2>4. desk[j].step \notin {"idle", "lost", "switch"}
      BY <2>2 DEF OnMember, Proofs
    <2>5. j # k
      BY <2>1, <2>4 DEF Idle, Bereft
    <2>6. desk[j].person = p /\ desk[j].org = o => desk'[j] = Lost
      BY <2>4, <2>5 DEF Bereft
    <2> QED BY <2>1, <2>2, <2>3, <2>4, <2>6 DEF Lost
  <1>3. ASSUME NEW l \in Links
        PROVE  /\ link'[l] # None => /\ link'[l] = link[l] /\ Key(l)' = Key(l)
                                     /\ ~(link[l].person = p /\ link[l].org = o)
               /\ link[l] # None /\ ~(link[l].person = p /\ link[l].org = o) => link'[l] = link[l]
    BY DEF LinksWithout, Key
  <1>4. link' \in [Links -> LinkRows \cup {None}]
    <2>1. \A l \in Links : link'[l] \in LinkRows \cup {None}
      BY <1>3 DEF TypeOK
    <2> QED BY <2>1 DEF LinksWithout
  <1>5. \A q \in People, u \in Orgs : ~(q = p /\ u = o) => member'[q][u] = member[q][u]
    BY DEF TypeOK
  <1>6. RowsAgree'
    <2>1. ASSUME NEW l \in Links, link'[l] # None PROVE member'[link'[l].person][link'[l].org] # None
      <3>1. link'[l] = link[l] /\ ~(link[l].person = p /\ link[l].org = o) /\ link[l].person \in People /\ link[l].org \in Orgs
        BY <1>3, <2>1 DEF TypeOK, LinkRows
      <3> QED BY <1>5, <2>1, <3>1 DEF RowsAgree
    <2>2. ASSUME NEW j \in Desks, OnMember(desk[j])'
          PROVE  desk'[j].org \in Orgs /\ member'[desk'[j].person][desk'[j].org] # None
      <3>1. OnMember(desk'[j])
        BY <2>2 DEF OnMember
      <3> QED BY <1>2, <1>5, <3>1 DEF RowsAgree
    <2> QED BY <2>1, <2>2 DEF RowsAgree
  <1>7. ASSUME NEW j \in Desks, Guarded(desk'[j])
        PROVE  /\ desk'[j] = desk[j] /\ Guarded(desk[j])
               /\ \A l \in Links : link[l] # None /\ Key(l) = desk[j].about => link'[l] = link[l] /\ Key(l)' = Key(l)
    <2>1. desk'[j] = desk[j] /\ ~(desk[j].person = p /\ desk[j].org = o)
      BY <1>2, <1>7
    <2>2. desk[j].about[1] = desk[j].person /\ desk[j].about[2] = desk[j].org
      BY <1>7, <2>1 DEF AboutsAgree, Guarded
    <2>3. ASSUME NEW l \in Links, link[l] # None, Key(l) = desk[j].about PROVE link'[l] = link[l] /\ Key(l)' = Key(l)
      <3>1. ~(link[l].person = p /\ link[l].org = o)
        BY <2>1, <2>2, <2>3 DEF Key
      <3> QED BY <1>3, <2>3, <3>1
    <2> QED BY <1>7, <2>1, <2>3
  <1>8. AboutsAgree'
    <2> SUFFICES ASSUME NEW j \in Desks
                 PROVE  /\ Spends(desk[j])' => /\ link'[desk'[j].link] # None
                                               /\ desk'[j].about = Key(desk[j].link)'
                                               /\ desk'[j].about = <<desk'[j].person, desk'[j].org, PurposeOf(desk'[j].step)>>
                        /\ desk'[j].step \in {"address", "accept"} => desk'[j].link # 0
                        /\ desk'[j].step = "issue" => /\ desk'[j].about = <<desk'[j].person, desk'[j].org, desk'[j].purpose>>
                                                      /\ \A l \in desk'[j].spent : link'[l] # None /\ Key(l)' = desk'[j].about
                        /\ desk'[j].step \in Proofs => desk'[j].about = <<desk'[j].person, desk'[j].org, "code">>
                        /\ \A i \in Desks \ {j} :
                              Guarded(desk[j])' /\ Guarded(desk[i])' /\ desk'[j].about = desk'[i].about
                                => desk'[j].about \in overlapped'
      BY DEF AboutsAgree, PurposeOf
    <2>1. ASSUME Spends(desk[j])'
          PROVE  /\ link'[desk'[j].link] # None
                 /\ desk'[j].about = Key(desk[j].link)'
                 /\ desk'[j].about = <<desk'[j].person, desk'[j].org, PurposeOf(desk'[j].step)>>
      <3>1. Guarded(desk'[j]) /\ Spends(desk'[j])
        BY <2>1 DEF Guarded, Spends
      <3>2. desk'[j] = desk[j]
        BY <3>1, <1>7
      <3>3. desk[j].link \in Links
        BY <3>1, <3>2, Shapes DEF Spends, TypeOK, Requests, Uses
      <3>4. link[desk[j].link] # None /\ Key(desk[j].link) = desk[j].about
            /\ desk[j].about = <<desk[j].person, desk[j].org, PurposeOf(desk[j].step)>>
        BY <3>1, <3>2 DEF AboutsAgree
      <3>5. link'[desk[j].link] = link[desk[j].link] /\ Key(desk[j].link)' = Key(desk[j].link)
        BY <3>1, <3>3, <3>4, <1>7
      <3> QED BY <3>2, <3>4, <3>5
    <2>2. ASSUME desk'[j].step \in {"address", "accept"} PROVE desk'[j].link # 0
      BY <2>2, <1>1, CalmShapes DEF AboutsAgree
    <2>3. ASSUME desk'[j].step = "issue"
          PROVE  /\ desk'[j].about = <<desk'[j].person, desk'[j].org, desk'[j].purpose>>
                 /\ \A l \in desk'[j].spent : link'[l] # None /\ Key(l)' = desk'[j].about
      <3>1. Guarded(desk'[j])
        BY <2>3 DEF Guarded
      <3>2. desk'[j] = desk[j] /\ desk[j].spent \subseteq Links
        BY <2>3, <3>1, <1>7, Shapes DEF TypeOK, Requests, Issues
      <3>3. desk[j].about = <<desk[j].person, desk[j].org, desk[j].purpose>>
            /\ \A l \in desk[j].spent : link[l] # None /\ Key(l) = desk[j].about
        BY <2>3, <3>2 DEF AboutsAgree
      <3>4. \A l \in desk[j].spent : link'[l] = link[l] /\ Key(l)' = Key(l)
        BY <3>1, <3>2, <3>3, <1>7
      <3> QED BY <3>2, <3>3, <3>4
    <2>4. ASSUME desk'[j].step \in Proofs PROVE desk'[j].about = <<desk'[j].person, desk'[j].org, "code">>
      BY <2>4, <1>7 DEF AboutsAgree, Guarded
    <2>5. ASSUME NEW i \in Desks \ {j}, Guarded(desk[j])', Guarded(desk[i])', desk'[j].about = desk'[i].about
          PROVE  desk'[j].about \in overlapped'
      <3>1. Guarded(desk'[j]) /\ Guarded(desk'[i])
        BY <2>5 DEF Guarded, Spends
      <3> QED BY <2>5, <3>1, <1>7 DEF AboutsAgree
    <2> QED BY <2>1, <2>2, <2>3, <2>4, <2>5
  <1>9. LinksAgree'
    <2>1. ASSUME NEW l \in Links, link'[l] # None, Key(l)' \notin overlapped'
          PROVE  /\ link'[l].uses <= 1 /\ (~link'[l].used => link'[l].uses = 0)
                 /\ \A m \in Links : link'[m] # None /\ Key(m)' = Key(l)' /\ ~link'[m].used /\ ~link'[l].used => m = l
      BY <1>3, <2>1 DEF LinksAgree
    <2>2. ASSUME NEW j \in Desks, Guarded(desk[j])', desk'[j].about \notin overlapped'
          PROVE  /\ Spends(desk[j])' => ~link'[desk'[j].link].used
                 /\ desk'[j].step = "issue" =>
                      \A m \in Links : link'[m] # None /\ Key(m)' = desk'[j].about /\ ~link'[m].used => m \in desk'[j].spent
      <3>1. Guarded(desk'[j])
        BY <2>2 DEF Guarded, Spends
      <3>2. desk'[j] = desk[j] /\ Guarded(desk[j]) /\ desk[j].about \notin overlapped
        BY <2>2, <3>1, <1>7
      <3>3. ASSUME Spends(desk[j]) PROVE ~link'[desk[j].link].used
        <4>1. desk[j].link \in Links
          BY <3>3, Shapes DEF Spends, TypeOK, Requests, Uses
        <4>2. link[desk[j].link] # None /\ Key(desk[j].link) = desk[j].about /\ ~link[desk[j].link].used
          BY <3>2, <3>3 DEF AboutsAgree, LinksAgree
        <4> QED BY <3>1, <4>1, <4>2, <1>7
      <3>4. ASSUME desk[j].step = "issue", NEW m \in Links, link'[m] # None, Key(m)' = desk[j].about, ~link'[m].used
            PROVE  m \in desk[j].spent
        <4>1. link[m] # None /\ Key(m) = desk[j].about /\ ~link[m].used
          BY <3>4, <1>3
        <4> QED BY <3>2, <3>4, <4>1 DEF LinksAgree
      <3> QED BY <3>2, <3>3, <3>4 DEF Spends
    <2> QED BY <2>1, <2>2 DEF LinksAgree, Guarded, Spends
  <1> QED
    BY <1>3, <1>4, <1>6, <1>8, <1>9

LEMMA RemovalPreserves ==
    ASSUME IInv, NEW k \in Desks, CommitChange(k), desk[k].change = "delete"
    PROVE  IInv'
  <1>1. desk[k].step = "member" /\ desk[k] \in Changes
    BY Shapes DEF CommitChange, IInv, TypeOK, Requests
  <1>2. PICK p \in People, o \in Orgs : p = desk[k].person /\ o = desk[k].org
    BY <1>1 DEF Changes
  <1>3. /\ member' = [member EXCEPT ![p][o] = None]
        /\ link' = LinksWithout(p, o)
        /\ factor' = [factor EXCEPT ![p][o] = NoFactor]
        /\ session' = Retired(Begun(p, {o}))
        /\ desk' = [Bereft(p, o) EXCEPT ![k] = Idle]
        /\ UNCHANGED <<account, org, ticket, minted, overlapped>>
    BY <1>2 DEF CommitChange, Removed
  <1>4. AllCalm /\ desk' \in [Desks -> Requests]
    BY <1>3, DesksCalm, TypeCalm DEF IInv
  <1>5. /\ session' \in [Sessions -> SessionRows \cup {None}]
        /\ \A s \in Sessions : KeepsCode(s) /\ Fate(s)
    BY <1>3, SessionsRetired DEF IInv, KeepsCode
  <1>6. /\ (RowsAgree /\ AboutsAgree /\ LinksAgree)'
        /\ link' \in [Links -> LinkRows \cup {None}]
        /\ \A l \in Links : link'[l] # None => link'[l] = link[l]
    BY <1>3, LinksRemoved DEF IInv
  <1>7. /\ member' \in [People -> [Orgs -> MemberRows \cup {None}]]
        /\ \A q \in People, u \in Orgs : member'[q][u] # None => member[q][u] # None
    BY <1>3 DEF IInv, TypeOK
  <1>8. /\ factor' \in [People -> [Orgs -> FactorRows]]
        /\ \A q \in People, u \in Orgs : factor'[q][u] \in {factor[q][u], NoFactor}
    BY <1>3, NoFactorIsOne DEF IInv, TypeOK
  <1>9. TypeOK'
    BY <1>3, <1>4, <1>5, <1>6, <1>7, <1>8 DEF IInv, TypeOK, Requests
  <1>10. MembersAgree'
    BY <1>3, <1>7 DEF IInv, MembersAgree
  <1>11. /\ ClaimsStay /\ minted <= minted' /\ minted' \in Nat
         /\ \A q \in People : Claimed(q) => account'[q].pw \in {account[q].pw, 0}
    BY <1>3 DEF ClaimsStay, Claimed, IInv, TypeOK
  <1>12. ClaimsAgree'
    BY <1>3, <1>4, <1>5, <1>6, <1>11, ClaimsCalm DEF IInv
  <1>13. OpeningsAgree'
    BY <1>4, <1>5, OpeningsCalm DEF IInv
  <1>14. PasswordsAgree'
    BY <1>4, <1>5, <1>11, PasswordsCalm DEF IInv
  <1>15. (FactorsAgree /\ OneHolder /\ CodesAgree /\ CodeUsedOnce)'
    BY <1>3, <1>4, <1>5, <1>8, <1>11, CodesCalm DEF IInv
  <1> QED
    BY <1>6, <1>9, <1>10, <1>12, <1>13, <1>14, <1>15 DEF IInv

-----------------------------------------------------------------------------
(* A membership is handed to another account. *)

(* p has never been anybody; q has had nothing to do with the membership. *)
Handing(p, q, o) ==
    /\ Handed(p, q, o) /\ UNCHANGED <<org, ticket, session, minted>>
    /\ p # q /\ ~Claimed(p) /\ member[p][o] # None /\ member[q][o] = None /\ Connected

(* What a request is about, and a link, follow the membership. *)
LEMMA OverlapsFollow ==
    ASSUME NEW p, NEW q, NEW o, Handed(p, q, o)
    PROVE  /\ \A about \in overlapped : Following(about, p, q, o) \in overlapped'
           /\ \A a, b, c : /\ a = p /\ b = o => Following(<<a, b, c>>, p, q, o) = <<q, o, c>>
                           /\ ~(a = p /\ b = o) => Following(<<a, b, c>>, p, q, o) = <<a, b, c>>
  BY DEF Handed, Following

(* The links of a membership follow it to the other account. *)
LEMMA LinksFollow ==
    ASSUME TypeOK, RowsAgree, NEW p \in People, NEW q \in People, NEW o \in Orgs, Handing(p, q, o)
    PROVE  /\ link' \in [Links -> LinkRows \cup {None}]
           /\ \A l \in Links : link'[l] # None <=> link[l] # None
           /\ \A l \in Links : link[l] # None =>
                 /\ Key(l)' = Following(Key(l), p, q, o)
                 /\ ~(link[l].person = q /\ link[l].org = o)
                 /\ link[l].person = p /\ link[l].org = o => link'[l].person = q /\ link'[l].org = o
                 /\ ~(link[l].person = p /\ link[l].org = o) => link'[l] = link[l]
                 /\ link'[l].purpose = link[l].purpose /\ link'[l].used = link[l].used /\ link'[l].uses = link[l].uses
  <1>1. \A l \in Links : link'[l] = IF link[l] # None /\ link[l].person = p /\ link[l].org = o
                                    THEN [link[l] EXCEPT !.person = q] ELSE link[l]
    BY DEF Handing, Handed
  <1>2. ASSUME NEW l \in Links, link[l] # None
        PROVE  LET t == [link[l] EXCEPT !.person = q]
               IN  /\ link[l] \in LinkRows /\ t \in LinkRows /\ t # None
                   /\ t.person = q /\ t.org = link[l].org /\ t.purpose = link[l].purpose /\ t.used = link[l].used /\ t.uses = link[l].uses
    BY <1>2, NoneIsNothing DEF TypeOK, LinkRows
  <1>3. \A l \in Links : link[l] # None => ~(link[l].person = q /\ link[l].org = o)
    BY DEF RowsAgree, Handing
  <1>4. ASSUME NEW l \in Links, link[l] # None, link[l].person = p, link[l].org = o
        PROVE  /\ link'[l] \in LinkRows /\ link'[l] # None
               /\ link'[l].person = q /\ link'[l].org = o /\ link'[l].purpose = link[l].purpose
               /\ link'[l].used = link[l].used /\ link'[l].uses = link[l].uses
               /\ Key(l)' = Following(Key(l), p, q, o)
    <2>1. /\ link'[l] \in LinkRows /\ link'[l] # None
          /\ link'[l].person = q /\ link'[l].org = o /\ link'[l].purpose = link[l].purpose
          /\ link'[l].used = link[l].used /\ link'[l].uses = link[l].uses
      BY <1>1, <1>2, <1>4
    <2> QED BY <1>4, <2>1, OverlapsFollow DEF Key, Handing
  <1>5. ASSUME NEW l \in Links, link[l] # None, ~(link[l].person = p /\ link[l].org = o)
        PROVE  link'[l] = link[l] /\ Key(l)' = Following(Key(l), p, q, o)
    <2>1. link'[l] = link[l]
      BY <1>1, <1>5
    <2>2. Key(l)' = Key(l)
      BY <2>1 DEF Key
    <2>3. Following(Key(l), p, q, o) = Key(l)
      BY <1>5, OverlapsFollow DEF Key, Handing
    <2> QED BY <2>1, <2>2, <2>3
  <1>6. \A l \in Links : link[l] = None => link'[l] = None
    BY <1>1
  <1>7. link' \in [Links -> LinkRows \cup {None}]
    <2>1. \A l \in Links : link'[l] \in LinkRows \cup {None}
      BY <1>2, <1>4, <1>5, <1>6
    <2>2. link' = [l \in Links |-> link'[l]]
      BY DEF Handing, Handed
    <2> QED BY <2>1, <2>2
  <1> QED
    BY <1>3, <1>4, <1>5, <1>6, <1>7

(* Nobody is signed in to p: what is under way for its membership is sent or made for it. *)
LEMMA RequestsFollow ==
    ASSUME TypeOK, ClaimsAgree, RowsAgree, AboutsAgree,
           NEW p \in People, NEW q \in People, NEW o \in Orgs, Handing(p, q, o)
    PROVE  /\ desk' \in [Desks -> Requests]
           /\ \A j \in Desks :
                 /\ desk'[j].step = desk[j].step
                 /\ Personal(desk[j]) => desk'[j] = desk[j] /\ desk[j].person # p
                 /\ OnMember(desk[j]) => ~(desk[j].person = q /\ desk[j].org = o)
                 /\ \/ desk'[j] = desk[j] /\ (OnMember(desk[j]) => ~(desk[j].person = p /\ desk[j].org = o))
                    \/ /\ desk[j].step \in {"issue", "accept", "member"} /\ desk[j].person = p /\ desk[j].org = o
                       /\ desk'[j].person = q /\ desk'[j].org = o /\ desk'[j].about = Following(desk[j].about, p, q, o)
                       /\ desk[j].step = "issue" => desk'[j].purpose = desk[j].purpose /\ desk'[j].spent = desk[j].spent
                       /\ desk[j].step = "accept" => desk'[j].link = desk[j].link
                       /\ desk[j].step = "member" => desk'[j].change = desk[j].change
  <1>1. ASSUME NEW j \in Desks PROVE desk[j] \in Requests
    BY DEF TypeOK, Requests
  <1>2. \A j \in Desks : desk'[j] = IF Writing(desk[j]) /\ desk[j].person = p /\ desk[j].org = o
                                    THEN [desk[j] EXCEPT !.person = q, !.about = Following(desk[j].about, p, q, o)] ELSE desk[j]
    BY DEF Handing, Handed
  <1>3. ASSUME NEW j \in Desks, Personal(desk[j]) PROVE desk'[j] = desk[j] /\ desk[j].person # p
    <2>1. desk[j].person # p
      BY <1>3 DEF ClaimsAgree, Handing
    <2> QED BY <1>2, <2>1
  <1>4. ASSUME NEW j \in Desks, OnMember(desk[j]) PROVE ~(desk[j].person = q /\ desk[j].org = o)
    BY <1>4 DEF RowsAgree, Handing
  <1>5. ASSUME NEW j \in Desks, Writing(desk[j]), desk[j].person = p, desk[j].org = o
        PROVE  /\ desk[j].step \in {"issue", "accept", "member"} /\ desk'[j] \in Requests /\ desk'[j].step = desk[j].step
               /\ desk'[j].person = q /\ desk'[j].org = o /\ desk'[j].about = Following(desk[j].about, p, q, o)
               /\ desk[j].step = "issue" => desk'[j].purpose = desk[j].purpose /\ desk'[j].spent = desk[j].spent
               /\ desk[j].step = "accept" => desk'[j].link = desk[j].link
               /\ desk[j].step = "member" => desk'[j].change = desk[j].change
    <2>1. ~Personal(desk[j])
      BY <1>3, <1>5
    <2>2. desk[j].step \in {"issue", "accept", "member"}
      BY <1>1, <1>5, <2>1, Shapes DEF Writing, Personal
    <2> DEFINE tx == desk[j]
               half == [tx EXCEPT !.person = q]
               about == Following(tx.about, p, q, o)
               whole == [half EXCEPT !.about = about]
    <2>3. tx.about \in Abouts /\ tx \in Issues \cup Uses \cup Changes
      BY <1>1, <2>2, Shapes DEF Issues, Uses, Changes
    <2>4. about \in Abouts
      BY <2>3 DEF Following, Abouts
    <2>5. /\ half \in Issues \cup Uses \cup Changes /\ half.step = tx.step /\ half.person = q /\ half.org = tx.org
          /\ tx.step = "issue" => half.purpose = tx.purpose /\ half.spent = tx.spent
          /\ tx.step = "accept" => half.link = tx.link
          /\ tx.step = "member" => half.change = tx.change
      BY <2>3 DEF Issues, Uses, Changes
    <2>6. desk'[j] = whole
      BY <1>2, <1>5
    <2>7. tx.step \in {"issue", "accept", "member"} /\ tx.org = o
      BY <1>5, <2>2
    <2> HIDE DEF tx, half, about
    <2>8. /\ whole \in Issues \cup Uses \cup Changes /\ whole.step = tx.step /\ whole.person = q /\ whole.org = tx.org
          /\ whole.about = about
          /\ tx.step = "issue" => whole.purpose = tx.purpose /\ whole.spent = tx.spent
          /\ tx.step = "accept" => whole.link = tx.link
          /\ tx.step = "member" => whole.change = tx.change
      BY <2>4, <2>5, <2>7 DEF Issues, Uses, Changes
    <2> HIDE DEF whole
    <2> QED BY <2>6, <2>7, <2>8 DEF tx, about, Requests
  <1>6. ASSUME NEW j \in Desks, ~(Writing(desk[j]) /\ desk[j].person = p /\ desk[j].org = o)
        PROVE  desk'[j] = desk[j] /\ (OnMember(desk[j]) => ~(desk[j].person = p /\ desk[j].org = o))
    BY <1>2, <1>6 DEF Writing, OnMember, Proofs
  <1>7. desk' \in [Desks -> Requests]
    <2>1. \A j \in Desks : desk'[j] \in Requests
      BY <1>1, <1>5, <1>6
    <2>2. desk' = [j \in Desks |-> desk'[j]]
      BY DEF Handing, Handed
    <2> QED BY <2>1, <2>2
  <1> QED
    BY <1>3, <1>4, <1>5, <1>6, <1>7

Triple(x) == x = <<x[1], x[2], x[3]>>

(* Two memberships' keys stay apart when one is handed over. *)
LEMMA KeysFollow ==
    ASSUME NEW p, NEW q, NEW o, NEW x, NEW y, Triple(x), Triple(y),
           ~(x[1] = q /\ x[2] = o), ~(y[1] = q /\ y[2] = o), Following(x, p, q, o) = Following(y, p, q, o)
    PROVE  x = y
  <1> DEFINE c == x[3]
             d == y[3]
  <1>1. Following(x, p, q, o) = IF x[1] = p /\ x[2] = o THEN <<q, o, c>> ELSE x
    BY DEF Following
  <1>2. Following(y, p, q, o) = IF y[1] = p /\ y[2] = o THEN <<q, o, d>> ELSE y
    BY DEF Following
  <1>3. x = <<x[1], x[2], c>> /\ y = <<y[1], y[2], d>>
    BY DEF Triple
  <1> HIDE DEF c, d
  <1>4. CASE x[1] = p /\ x[2] = o
    <2>1. <<q, o, c>>[1] = q /\ <<q, o, c>>[2] = o /\ <<q, o, c>>[3] = c /\ <<q, o, d>>[3] = d
      OBVIOUS
    <2>2. y[1] = p /\ y[2] = o
      BY <1>1, <1>2, <1>4, <2>1
    <2>3. c = d
      BY <1>1, <1>2, <1>4, <2>1, <2>2
    <2> QED BY <1>3, <1>4, <2>2, <2>3
  <1>5. CASE ~(x[1] = p /\ x[2] = o)
    <2>1. <<q, o, d>>[1] = q /\ <<q, o, d>>[2] = o
      OBVIOUS
    <2>2. ~(y[1] = p /\ y[2] = o)
      BY <1>1, <1>2, <1>5, <2>1
    <2> QED BY <1>1, <1>2, <1>5, <2>2
  <1> QED
    BY <1>4, <1>5

(* What a guarded request is about goes with it, and stays apart from what the others are about. *)
LEMMA GuardsFollow ==
    ASSUME TypeOK, ClaimsAgree, RowsAgree, AboutsAgree,
           NEW p \in People, NEW q \in People, NEW o \in Orgs, Handing(p, q, o), NEW j \in Desks,
           Guarded(desk'[j]) \/ OnMember(desk'[j])
    PROVE  /\ Guarded(desk'[j]) => Guarded(desk[j])
           /\ OnMember(desk'[j]) => OnMember(desk[j])
           /\ Spends(desk'[j]) => Spends(desk[j])
           /\ Guarded(desk'[j]) => desk'[j].about = Following(desk[j].about, p, q, o)
           /\ OnMember(desk[j])
           /\ desk[j].step \in Proofs => desk'[j] = desk[j]
           /\ desk[j].step = "issue" => desk'[j].purpose = desk[j].purpose /\ desk'[j].spent = desk[j].spent
           /\ Spends(desk[j]) => desk'[j].link = desk[j].link
           /\ desk'[j].org = desk[j].org
           /\ \/ desk[j].person = p /\ desk[j].org = o /\ desk'[j].person = q
              \/ ~(desk[j].person = p /\ desk[j].org = o) /\ desk'[j].person = desk[j].person
  <1>1. /\ desk'[j].step = desk[j].step
        /\ \/ desk'[j] = desk[j] /\ (OnMember(desk[j]) => ~(desk[j].person = p /\ desk[j].org = o))
           \/ /\ desk[j].step \in {"issue", "accept", "member"} /\ desk[j].person = p /\ desk[j].org = o
              /\ desk'[j].person = q /\ desk'[j].org = o /\ desk'[j].about = Following(desk[j].about, p, q, o)
              /\ desk[j].step = "issue" => desk'[j].purpose = desk[j].purpose /\ desk'[j].spent = desk[j].spent
              /\ desk[j].step = "accept" => desk'[j].link = desk[j].link
    BY RequestsFollow
  <1>2. CASE desk'[j] = desk[j] /\ (OnMember(desk[j]) => ~(desk[j].person = p /\ desk[j].org = o))
    <2>1. OnMember(desk[j])
      BY <1>2 DEF Guarded, Spends, OnMember
    <2>2. Guarded(desk[j]) => Following(desk[j].about, p, q, o) = desk[j].about
      <3> SUFFICES ASSUME Guarded(desk[j]) PROVE Following(desk[j].about, p, q, o) = desk[j].about
        OBVIOUS
      <3>1. desk[j].about[1] = desk[j].person /\ desk[j].about[2] = desk[j].org
        BY DEF AboutsAgree, Guarded
      <3> QED BY <1>2, <2>1, <3>1 DEF Following
    <2> QED BY <1>2, <2>1, <2>2
  <1>3. CASE /\ desk[j].step \in {"issue", "accept", "member"} /\ desk[j].person = p /\ desk[j].org = o
             /\ desk'[j].person = q /\ desk'[j].org = o /\ desk'[j].about = Following(desk[j].about, p, q, o)
             /\ desk[j].step = "issue" => desk'[j].purpose = desk[j].purpose /\ desk'[j].spent = desk[j].spent
             /\ desk[j].step = "accept" => desk'[j].link = desk[j].link
    BY <1>1, <1>3 DEF Guarded, Spends, OnMember, Proofs
  <1> QED
    BY <1>1, <1>2, <1>3

LEMMA LinksAndRequestsFollow ==
    ASSUME TypeOK, ClaimsAgree, RowsAgree, AboutsAgree, LinksAgree,
           NEW p \in People, NEW q \in People, NEW o \in Orgs, Handing(p, q, o)
    PROVE  (RowsAgree /\ AboutsAgree /\ LinksAgree)'
  <1>1. /\ member'[q][o] # None
        /\ \A a \in People, u \in Orgs : member[a][u] # None /\ ~(a = p /\ u = o) => member'[a][u] # None
    BY DEF Handing, Handed, TypeOK
  <1>2. \A x : x \in overlapped => Following(x, p, q, o) \in overlapped'
    BY OverlapsFollow DEF Handing
  <1>3. /\ \A l \in Links : link'[l] # None <=> link[l] # None
        /\ \A l \in Links : link[l] # None =>
              /\ Key(l)' = Following(Key(l), p, q, o)
              /\ ~(link[l].person = q /\ link[l].org = o)
              /\ link'[l].used = link[l].used /\ link'[l].uses = link[l].uses
    BY LinksFollow
  <1>4. ASSUME NEW l \in Links, NEW m \in Links, link[l] # None, link[m] # None, Key(l)' = Key(m)' PROVE Key(l) = Key(m)
    <2>1. /\ Triple(Key(l)) /\ ~(Key(l)[1] = q /\ Key(l)[2] = o)
          /\ Triple(Key(m)) /\ ~(Key(m)[1] = q /\ Key(m)[2] = o)
      BY <1>3, <1>4 DEF Key, Triple
    <2> QED BY <1>3, <1>4, <2>1, KeysFollow
  <1>5. ASSUME NEW j \in Desks, Guarded(desk[j])
        PROVE  Triple(desk[j].about) /\ ~(desk[j].about[1] = q /\ desk[j].about[2] = o)
    <2>1. OnMember(desk[j])
      BY <1>5 DEF Guarded, Spends, OnMember
    <2>2. ~(desk[j].person = q /\ desk[j].org = o)
      BY <2>1, RequestsFollow
    <2> QED BY <1>5, <2>2 DEF Guarded, AboutsAgree, Triple
  <1>6. ASSUME NEW l \in Links, NEW j \in Desks, link[l] # None, Guarded(desk'[j]), Key(l)' = desk'[j].about
        PROVE  Key(l) = desk[j].about
    <2>1. Guarded(desk[j]) /\ desk'[j].about = Following(desk[j].about, p, q, o)
      BY <1>6, GuardsFollow
    <2>2. Triple(Key(l)) /\ ~(Key(l)[1] = q /\ Key(l)[2] = o)
      BY <1>3, <1>6 DEF Key, Triple
    <2> QED BY <1>3, <1>5, <1>6, <2>1, <2>2, KeysFollow
  <1>7. ASSUME NEW i \in Desks, NEW j \in Desks, Guarded(desk'[i]), Guarded(desk'[j]), desk'[i].about = desk'[j].about
        PROVE  desk[i].about = desk[j].about
    <2>1. /\ Guarded(desk[i]) /\ desk'[i].about = Following(desk[i].about, p, q, o)
          /\ Guarded(desk[j]) /\ desk'[j].about = Following(desk[j].about, p, q, o)
      BY <1>7, GuardsFollow
    <2> QED BY <1>5, <1>7, <2>1, KeysFollow
  <1>8. RowsAgree'
    <2>1. ASSUME NEW l \in Links, link'[l] # None PROVE member'[link'[l].person][link'[l].org] # None
      <3>1. link[l] # None /\ link[l].person \in People /\ link[l].org \in Orgs
        BY <1>3, <2>1 DEF TypeOK, LinkRows
      <3>2. CASE link[l].person = p /\ link[l].org = o
        BY <1>1, <3>1, <3>2, LinksFollow
      <3>3. CASE ~(link[l].person = p /\ link[l].org = o)
        BY <1>1, <3>1, <3>3, LinksFollow DEF RowsAgree
      <3> QED BY <3>2, <3>3
    <2>2. ASSUME NEW j \in Desks, OnMember(desk[j])'
          PROVE  desk'[j].org \in Orgs /\ member'[desk'[j].person][desk'[j].org] # None
      <3>1. OnMember(desk'[j])
        BY <2>2 DEF OnMember
      <3>2. /\ OnMember(desk[j]) /\ desk'[j].org = desk[j].org
            /\ \/ desk[j].person = p /\ desk[j].org = o /\ desk'[j].person = q
               \/ ~(desk[j].person = p /\ desk[j].org = o) /\ desk'[j].person = desk[j].person
        BY <3>1, GuardsFollow
      <3>3. desk[j].person \in People /\ desk[j].org \in Orgs /\ member[desk[j].person][desk[j].org] # None
        BY <3>2, Shapes DEF RowsAgree, OnMember, TypeOK, Requests, Issues, Uses, Changes, Answers
      <3> QED BY <1>1, <3>2, <3>3
    <2> QED BY <2>1, <2>2 DEF RowsAgree
  <1>9. AboutsAgree'
    <2> SUFFICES ASSUME NEW j \in Desks
                 PROVE  /\ Spends(desk[j])' => /\ link'[desk'[j].link] # None
                                               /\ desk'[j].about = Key(desk[j].link)'
                                               /\ desk'[j].about = <<desk'[j].person, desk'[j].org, PurposeOf(desk'[j].step)>>
                        /\ desk'[j].step \in {"address", "accept"} => desk'[j].link # 0
                        /\ desk'[j].step = "issue" => /\ desk'[j].about = <<desk'[j].person, desk'[j].org, desk'[j].purpose>>
                                                      /\ \A l \in desk'[j].spent : link'[l] # None /\ Key(l)' = desk'[j].about
                        /\ desk'[j].step \in Proofs => desk'[j].about = <<desk'[j].person, desk'[j].org, "code">>
                        /\ \A i \in Desks \ {j} :
                              Guarded(desk[j])' /\ Guarded(desk[i])' /\ desk'[j].about = desk'[i].about
                                => desk'[j].about \in overlapped'
      BY DEF AboutsAgree, PurposeOf
    <2>0. desk'[j].step = desk[j].step
      BY RequestsFollow
    <2>1. ASSUME NEW x, Guarded(desk'[j]), desk[j].about = <<desk[j].person, desk[j].org, x>>
          PROVE  desk'[j].about = <<desk'[j].person, desk'[j].org, x>>
      <3>1. /\ desk'[j].about = Following(desk[j].about, p, q, o) /\ desk'[j].org = desk[j].org
            /\ \/ desk[j].person = p /\ desk[j].org = o /\ desk'[j].person = q
               \/ ~(desk[j].person = p /\ desk[j].org = o) /\ desk'[j].person = desk[j].person
        BY <2>1, GuardsFollow
      <3> QED BY <2>1, <3>1 DEF Following
    <2>2. ASSUME Spends(desk[j])'
          PROVE  /\ link'[desk'[j].link] # None
                 /\ desk'[j].about = Key(desk[j].link)'
                 /\ desk'[j].about = <<desk'[j].person, desk'[j].org, PurposeOf(desk'[j].step)>>
      <3>1. Spends(desk'[j]) /\ Guarded(desk'[j])
        BY <2>2 DEF Spends, Guarded
      <3>2. Spends(desk[j]) /\ desk'[j].link = desk[j].link /\ desk'[j].about = Following(desk[j].about, p, q, o)
        BY <3>1, GuardsFollow
      <3>3. PICK l \in Links : l = desk[j].link
        BY <3>2, Shapes DEF Spends, TypeOK, Requests, Uses
      <3>4. /\ link[l] # None /\ desk[j].about = Key(l)
            /\ desk[j].about = <<desk[j].person, desk[j].org, PurposeOf(desk[j].step)>>
        BY <3>2, <3>3 DEF AboutsAgree, Key
      <3>5. link'[l] # None /\ Key(l)' = Following(desk[j].about, p, q, o)
        BY <1>3, <3>4
      <3>6. Key(desk[j].link)' = Key(l)'
        BY <3>2, <3>3 DEF Key
      <3> QED BY <2>0, <2>1, <3>1, <3>2, <3>3, <3>4, <3>5, <3>6
    <2>3. ASSUME desk'[j].step \in {"address", "accept"} PROVE desk'[j].link # 0
      <3>1. Spends(desk[j]) /\ OnMember(desk'[j]) /\ desk[j].link # 0
        BY <2>0, <2>3 DEF AboutsAgree, Spends, OnMember
      <3> QED BY <3>1, GuardsFollow
    <2>4. ASSUME desk'[j].step = "issue"
          PROVE  /\ desk'[j].about = <<desk'[j].person, desk'[j].org, desk'[j].purpose>>
                 /\ \A l \in desk'[j].spent : link'[l] # None /\ Key(l)' = desk'[j].about
      <3>1. Guarded(desk'[j]) /\ desk[j].step = "issue"
        BY <2>0, <2>4 DEF Guarded
      <3>2. desk'[j].purpose = desk[j].purpose /\ desk'[j].spent = desk[j].spent
            /\ desk'[j].about = Following(desk[j].about, p, q, o)
        BY <3>1, GuardsFollow
      <3>3. /\ desk[j].about = <<desk[j].person, desk[j].org, desk[j].purpose>>
            /\ \A l \in desk[j].spent : link[l] # None /\ Key(l) = desk[j].about
        BY <3>1 DEF AboutsAgree
      <3>4. desk[j].spent \subseteq Links
        BY <3>1, Shapes DEF TypeOK, Requests, Issues
      <3> QED BY <1>3, <2>1, <3>1, <3>2, <3>3, <3>4
    <2>5. ASSUME desk'[j].step \in Proofs PROVE desk'[j].about = <<desk'[j].person, desk'[j].org, "code">>
      <3>1. Guarded(desk'[j]) /\ desk[j].step \in Proofs
        BY <2>0, <2>5 DEF Guarded
      <3> QED BY <2>1, <3>1 DEF AboutsAgree
    <2>6. ASSUME NEW i \in Desks \ {j}, Guarded(desk[j])', Guarded(desk[i])', desk'[j].about = desk'[i].about
          PROVE  desk'[j].about \in overlapped'
      <3>1. Guarded(desk'[j]) /\ Guarded(desk'[i])
        BY <2>6 DEF Guarded, Spends
      <3>2. Guarded(desk[j]) /\ Guarded(desk[i]) /\ desk[j].about = desk[i].about
            /\ desk'[j].about = Following(desk[j].about, p, q, o)
        BY <1>7, <2>6, <3>1, GuardsFollow
      <3>3. desk[j].about \in overlapped
        BY <3>2 DEF AboutsAgree
      <3> QED BY <1>2, <3>2, <3>3
    <2> QED BY <2>2, <2>3, <2>4, <2>5, <2>6
  <1>10. LinksAgree'
    <2>1. ASSUME NEW l \in Links, link'[l] # None, Key(l)' \notin overlapped'
          PROVE  /\ link'[l].uses <= 1 /\ (~link'[l].used => link'[l].uses = 0)
                 /\ \A m \in Links : link'[m] # None /\ Key(m)' = Key(l)' /\ ~link'[m].used /\ ~link'[l].used => m = l
      <3>1. link[l] # None /\ Key(l) \notin overlapped
        BY <1>2, <1>3, <2>1
      <3> QED BY <1>3, <1>4, <2>1, <3>1 DEF LinksAgree
    <2>2. ASSUME NEW j \in Desks, Guarded(desk[j])', desk'[j].about \notin overlapped'
          PROVE  /\ Spends(desk[j])' => ~link'[desk'[j].link].used
                 /\ desk'[j].step = "issue" =>
                      \A m \in Links : link'[m] # None /\ Key(m)' = desk'[j].about /\ ~link'[m].used => m \in desk'[j].spent
      <3>1. Guarded(desk'[j])
        BY <2>2 DEF Guarded, Spends
      <3>2. Guarded(desk[j]) /\ desk[j].about \notin overlapped
        BY <1>2, <2>2, <3>1, GuardsFollow
      <3>3. ASSUME Spends(desk'[j]) PROVE ~link'[desk'[j].link].used
        <4>1. Spends(desk[j]) /\ desk'[j].link = desk[j].link
          BY <3>1, <3>3, GuardsFollow
        <4>2. desk[j].link \in Links /\ link[desk[j].link] # None /\ ~link[desk[j].link].used
          BY <3>2, <4>1, Shapes DEF Spends, TypeOK, Requests, Uses, AboutsAgree, LinksAgree
        <4> QED BY <1>3, <4>1, <4>2
      <3>4. ASSUME desk'[j].step = "issue", NEW m \in Links, link'[m] # None, Key(m)' = desk'[j].about, ~link'[m].used
            PROVE  m \in desk'[j].spent
        <4>1. desk[j].step = "issue"
          BY <3>4, RequestsFollow
        <4>2. desk'[j].spent = desk[j].spent
          BY <3>1, <4>1, GuardsFollow
        <4>3. link[m] # None /\ ~link[m].used /\ Key(m) = desk[j].about
          BY <1>3, <1>6, <3>1, <3>4
        <4> QED BY <3>2, <4>1, <4>2, <4>3 DEF LinksAgree
      <3> QED BY <3>3, <3>4 DEF Spends
    <2> QED BY <2>1, <2>2 DEF LinksAgree, Guarded, Spends
  <1> QED
    BY <1>8, <1>9, <1>10

(* The second factor is the membership's; what sessions q had there before know nothing of it. *)
LEMMA CodesFollow ==
    ASSUME TypeOK, ClaimsAgree, RowsAgree, AboutsAgree, FactorsAgree, OneHolder, CodesAgree, CodeUsedOnce,
           NEW p \in People, NEW q \in People, NEW o \in Orgs, Handing(p, q, o)
    PROVE  /\ (FactorsAgree /\ OneHolder /\ CodesAgree /\ CodeUsedOnce)'
           /\ factor' \in [People -> [Orgs -> FactorRows]]
  <1>1. session' = session /\ minted' = minted /\ p # q
    BY DEF Handing
  <1>2. /\ factor' \in [People -> [Orgs -> FactorRows]]
        /\ factor'[q][o] = factor[p][o] /\ factor'[p][o] = NoFactor
        /\ \A a \in People, u \in Orgs : ~(a = p /\ u = o) /\ ~(a = q /\ u = o) => factor'[a][u] = factor[a][u]
    <2>1. factor' = [factor EXCEPT ![q][o] = factor[p][o], ![p][o] = NoFactor] /\ p # q
      BY DEF Handing, Handed
    <2> DEFINE first == [factor EXCEPT ![q][o] = factor[p][o]]
    <2>2. first \in [People -> [Orgs -> FactorRows]] /\ first[q][o] = factor[p][o]
          /\ \A a \in People, u \in Orgs : ~(a = q /\ u = o) => first[a][u] = factor[a][u]
      BY DEF TypeOK
    <2>3. factor' = [first EXCEPT ![p][o] = NoFactor]
      BY <2>1, <2>2
    <2> HIDE DEF first
    <2>4. factor' \in [People -> [Orgs -> FactorRows]]
      BY <2>2, <2>3, NoFactorIsOne
    <2>5. factor'[p][o] = NoFactor /\ \A a \in People, u \in Orgs : ~(a = p /\ u = o) => factor'[a][u] = first[a][u]
      BY <2>2, <2>3
    <2> QED BY <2>1, <2>2, <2>4, <2>5
  <1>3. ASSUME NEW s \in Sessions, session[s] # None
        PROVE  session[s].person \in People /\ session[s].org \in Orgs /\ session[s].person # p
               /\ (session[s].code # None => session[s].code \in Codes)
    BY <1>3 DEF ClaimsAgree, Handing, TypeOK, SessionRows
  <1>4. ASSUME NEW k \in Desks, desk'[k].step \in Proofs \/ desk[k].step \in Proofs
        PROVE  /\ desk'[k] = desk[k] /\ desk[k].step \in Proofs
               /\ desk[k].person \in People /\ desk[k].org \in Orgs /\ desk[k].person # p
               /\ ~(desk[k].person = q /\ desk[k].org = o)
    <2>1. desk[k].step \in Proofs
      BY <1>4, RequestsFollow
    <2>2. Personal(desk[k]) /\ OnMember(desk[k])
      BY <2>1 DEF Personal, OnMember
    <2>3. desk[k].person \in People /\ desk[k].org \in Orgs
      BY <2>1, Shapes DEF TypeOK, Requests, Answers
    <2> QED BY <2>1, <2>2, <2>3, RequestsFollow
  <1>5. ASSUME NEW a, NEW b, NEW c, a # p, <<a, b, c>> \in overlapped PROVE <<a, b, c>> \in overlapped'
    BY <1>5, OverlapsFollow DEF Handing
  <1>6. FactorsAgree'
    <2>1. ASSUME NEW a \in People, NEW u \in Orgs, factor'[a][u].state # "off" PROVE factor'[a][u].secret # 0
      BY <1>2, <2>1 DEF FactorsAgree, NoFactor
    <2>2. ASSUME NEW k \in Desks, desk'[k].step \in Proofs
          PROVE  /\ desk'[k].factor.secret # 0
                 /\ desk'[k].code = 0 => desk'[k].factor.spare # 0
                 /\ session'[desk'[k].session] # None
                 /\ session'[desk'[k].session].person = desk'[k].person
                 /\ session'[desk'[k].session].org = desk'[k].org
      BY <1>1, <1>4, <2>2 DEF FactorsAgree
    <2> QED BY <2>1, <2>2 DEF FactorsAgree
  <1>7. ASSUME NEW c \in Nat \ {0}, NEW a \in People, NEW u \in Orgs, Holds(c, a, u)'
        PROVE  /\ ~(a = p /\ u = o)
               /\ Holds(c, a, u) \/ (a = q /\ u = o /\ Holds(c, p, o))
    <2>1. CASE c \in {factor'[a][u].secret, factor'[a][u].spare}
      BY <1>2, <2>1 DEF Holds, NoFactor
    <2>2. CASE \E s \in Sessions : /\ session'[s] # None /\ session'[s].code # None
                                   /\ session'[s].person = a /\ session'[s].org = u /\ session'[s].code.of = c
      BY <1>1, <1>3, <2>2 DEF Holds
    <2>3. CASE \E k \in Desks : /\ desk'[k].step \in Proofs /\ desk'[k].person = a /\ desk'[k].org = u
                                /\ c \in {desk'[k].factor.secret, desk'[k].factor.spare}
      BY <1>4, <2>3 DEF Holds
    <2> QED BY <1>7, <2>1, <2>2, <2>3 DEF Holds
  <1>8. OneHolder'
    <2> SUFFICES ASSUME NEW c \in Nat \ {0}, NEW a \in People, NEW u \in Orgs, Holds(c, a, u)'
                 PROVE  /\ c <= minted'
                        /\ \A b \in People, v \in Orgs : Holds(c, b, v)' => b = a /\ v = u
      BY DEF OneHolder, Holds
    <2>1. /\ ~(a = p /\ u = o)
          /\ Holds(c, a, u) \/ (a = q /\ u = o /\ Holds(c, p, o))
      BY <1>7
    <2>2. c <= minted'
      BY <1>1, <2>1 DEF OneHolder
    <2>3. ASSUME NEW b \in People, NEW v \in Orgs, Holds(c, b, v)' PROVE b = a /\ v = u
      <3>1. /\ ~(b = p /\ v = o)
            /\ Holds(c, b, v) \/ (b = q /\ v = o /\ Holds(c, p, o))
        BY <1>7, <2>3
      <3> QED BY <2>1, <3>1 DEF OneHolder
    <2> QED BY <2>2, <2>3
  <1>9. CodesAgree'
    <2>1. ASSUME NEW s \in Sessions, session'[s] # None, session'[s].code # None
          PROVE  /\ session'[s].code.of # 0
                 /\ CodeKey(s)' \notin overlapped' =>
                      IF session'[s].code.at = 0 THEN FactorOf(s)'.spare # session'[s].code.of
                      ELSE FactorOf(s)'.secret = session'[s].code.of => session'[s].code.at <= FactorOf(s)'.last
      <3>1. PICK a \in People, u \in Orgs, code \in Codes :
                 /\ a = session[s].person /\ u = session[s].org /\ code = session[s].code
                 /\ session[s] # None /\ session[s].code # None /\ a # p
        BY <1>1, <1>3, <2>1
      <3>2. code.of # 0 /\ code.of \in Nat
        BY <3>1 DEF CodesAgree, Codes
      <3>3. <<a, u, "code">> \notin overlapped =>
               IF code.at = 0 THEN factor[a][u].spare # code.of
               ELSE factor[a][u].secret = code.of => code.at <= factor[a][u].last
        BY <3>1 DEF CodesAgree, CodeKey, FactorOf
      <3>4. CodeKey(s)' = <<a, u, "code">> /\ FactorOf(s)' = factor'[a][u] /\ session'[s].code = code
        BY <1>1, <3>1 DEF CodeKey, FactorOf
      <3>5. CASE a = q /\ u = o
        <4>1. Holds(code.of, q, o)
          BY <3>1, <3>5 DEF Holds
        <4>2. ~Holds(code.of, p, o)
          BY <1>1, <3>2, <4>1 DEF OneHolder
        <4>3. factor[p][o].secret # code.of /\ factor[p][o].spare # code.of
          BY <4>2 DEF Holds
        <4> QED BY <1>2, <3>2, <3>4, <3>5, <4>3
      <3>6. CASE ~(a = q /\ u = o)
        <4>1. factor'[a][u] = factor[a][u]
          BY <1>2, <3>1, <3>6
        <4>2. <<a, u, "code">> \notin overlapped' => <<a, u, "code">> \notin overlapped
          BY <1>5, <3>1
        <4> QED BY <3>2, <3>3, <3>4, <4>1, <4>2
      <3> QED BY <3>5, <3>6
    <2>2. ASSUME NEW k \in Desks, desk'[k].step \in Proofs, desk'[k].about \notin overlapped',
                 factor'[desk'[k].person][desk'[k].org].secret = desk'[k].factor.secret
          PROVE  IF desk'[k].code = 0 THEN factor'[desk'[k].person][desk'[k].org].spare = desk'[k].factor.spare
                 ELSE factor'[desk'[k].person][desk'[k].org].last < desk'[k].code
      <3>1. PICK a \in People, u \in Orgs :
                 /\ a = desk[k].person /\ u = desk[k].org /\ desk'[k] = desk[k] /\ desk[k].step \in Proofs
                 /\ a # p /\ ~(a = q /\ u = o)
        BY <1>4, <2>2
      <3>2. factor'[a][u] = factor[a][u]
        BY <1>2, <3>1
      <3>3. desk[k].about = <<a, u, "code">>
        BY <3>1 DEF AboutsAgree
      <3>4. desk[k].about \notin overlapped
        BY <1>5, <2>2, <3>1, <3>3
      <3> QED BY <2>2, <3>1, <3>2, <3>4 DEF CodesAgree
    <2> QED BY <2>1, <2>2 DEF CodesAgree
  <1>10. CodeUsedOnce'
    <2> SUFFICES ASSUME NEW s \in Sessions, NEW t \in Sessions,
                        s # t, session'[s] # None, session'[t] # None, session'[s].code # None, session'[s].code = session'[t].code
                 PROVE  <<session'[s].person, session'[s].org, "code">> \in overlapped'
      BY DEF CodeUsedOnce
    <2>1. <<session[s].person, session[s].org, "code">> \in overlapped /\ session[s].person # p
      BY <1>1, <1>3 DEF CodeUsedOnce
    <2> QED BY <1>1, <1>5, <2>1
  <1> QED
    BY <1>2, <1>6, <1>8, <1>9, <1>10

LEMMA HandedPreserves ==
    ASSUME IInv, NEW p \in People, NEW q \in People, NEW o \in Orgs, Handing(p, q, o)
    PROVE  IInv'
  <1>1. /\ UNCHANGED <<org, ticket, session, minted>> /\ p # q /\ ~Claimed(p) /\ Connected
        /\ member[p][o] # None /\ member[q][o] = None
        /\ account' = [UpsertFromSuliko(q) EXCEPT ![p] = IF \E u \in Orgs \ {o} : member[p][u] # None THEN @ ELSE None]
        /\ member' = [member EXCEPT ![q][o] = member[p][o], ![p][o] = None]
    BY DEF Handing, Handed
  <1> DEFINE up == UpsertFromSuliko(q)
  <1>2. /\ up \in [People -> AccountRows \cup {None}]
        /\ up[q] \in AccountRows /\ up[q].linked
        /\ \A a \in People : \/ up[a] = account[a]
                             \/ a = q /\ up[a].linked /\ up[a].pw = 0
    BY Upserted DEF IInv
  <1> HIDE DEF up
  <1>3. /\ account' \in [People -> AccountRows \cup {None}]
        /\ \A a \in People : a # p => account'[a] = up[a]
        /\ (\E u \in Orgs \ {o} : member[p][u] # None) => account'[p] = account[p]
    BY <1>1, <1>2 DEF up
  <1>4. /\ member' \in [People -> [Orgs -> MemberRows \cup {None}]]
        /\ member'[p][o] = None
        /\ \A a \in People, u \in Orgs : member'[a][u] # None =>
              (a = q /\ u = o) \/ (member[a][u] # None /\ ~(a = p /\ u = o))
    <2> DEFINE first == [member EXCEPT ![q][o] = member[p][o]]
    <2>1. first \in [People -> [Orgs -> MemberRows \cup {None}]]
          /\ \A a \in People, u \in Orgs : ~(a = q /\ u = o) => first[a][u] = member[a][u]
      BY DEF IInv, TypeOK
    <2>2. member' = [first EXCEPT ![p][o] = None]
      BY <1>1, <2>1
    <2> HIDE DEF first
    <2>3. member' \in [People -> [Orgs -> MemberRows \cup {None}]]
      BY <2>1, <2>2
    <2>4. member'[p][o] = None /\ \A a \in People, u \in Orgs : ~(a = p /\ u = o) => member'[a][u] = first[a][u]
      BY <2>1, <2>2
    <2> QED BY <1>1, <2>1, <2>3, <2>4
  <1>5. /\ \A a \in People : Claimed(a) => account'[a].pw \in {account[a].pw, 0}
        /\ ClaimsStay /\ Claimed(q)' /\ account'[q] # None
    BY <1>1, <1>2, <1>3, NoneIsNothing DEF ClaimsStay, Claimed
  <1>6. desk' \in [Desks -> Requests] /\ \A j \in Desks : Personal(desk[j]) => desk'[j] = desk[j]
    BY RequestsFollow DEF IInv
  <1>7. \A j \in Desks : desk'[j].step \in {"open", "switch", "password"} => desk'[j] = desk[j]
    BY <1>6, RequestsFollow DEF IInv, Personal
  <1>8. (RowsAgree /\ AboutsAgree /\ LinksAgree)'
    BY LinksAndRequestsFollow DEF IInv
  <1>9. (FactorsAgree /\ OneHolder /\ CodesAgree /\ CodeUsedOnce)' /\ factor' \in [People -> [Orgs -> FactorRows]]
    BY CodesFollow DEF IInv
  <1>10. TypeOK'
    <2>1. link' \in [Links -> LinkRows \cup {None}]
      BY LinksFollow DEF IInv
    <2> QED BY <1>1, <1>3, <1>4, <1>6, <1>9, <2>1 DEF IInv, TypeOK, Requests
  <1>11. MembersAgree'
    <2>1. ASSUME NEW a \in People, NEW u \in Orgs, member'[a][u] # None PROVE account'[a] # None /\ org'[u] # "none"
      <3>1. CASE a = q /\ u = o
        BY <1>1, <1>5, <3>1 DEF IInv, MembersAgree
      <3>2. CASE member[a][u] # None /\ ~(a = p /\ u = o)
        <4>1. account[a] # None /\ org[u] # "none"
          BY <3>2 DEF IInv, MembersAgree
        <4>2. CASE a = p
          BY <1>1, <1>3, <3>2, <4>1, <4>2
        <4>3. CASE a # p
          BY <1>1, <1>2, <1>3, <1>5, <4>1, <4>3
        <4> QED BY <4>2, <4>3
      <3> QED BY <1>4, <2>1, <3>1, <3>2
    <2> QED BY <1>1, <2>1 DEF MembersAgree
  <1>12. ClaimsAgree'
    <2>1. ASSUME NEW s \in Sessions, session'[s] # None PROVE Claimed(session[s].person)'
      BY <1>1, <1>5, <2>1 DEF IInv, ClaimsAgree, ClaimsStay, TypeOK, SessionRows
    <2>2. ASSUME NEW l \in Links, link'[l] # None /\ link'[l].purpose # "invitation" PROVE Claimed(link[l].person)'
      <3>1. link[l] # None /\ link[l].purpose # "invitation" /\ link[l].person \in People
        BY <2>2, LinksFollow DEF IInv, TypeOK, LinkRows
      <3>2. Claimed(link[l].person)
        BY <3>1 DEF IInv, ClaimsAgree
      <3>3. link'[l] = link[l]
        BY <1>1, <3>1, <3>2, LinksFollow DEF IInv
      <3> QED BY <1>5, <3>1, <3>2, <3>3 DEF ClaimsStay
    <2>3. ASSUME NEW t \in ticket', t[2] = 0 PROVE Claimed(t[1])'
      BY <1>1, <1>5, <2>3 DEF IInv, ClaimsAgree, ClaimsStay, TypeOK
    <2>4. ASSUME NEW k \in Desks, Personal(desk'[k]) PROVE Claimed(desk[k].person)'
      <3>1. Personal(desk[k])
        <4>1. desk'[k].step = desk[k].step /\ (desk[k].step = "issue" => desk'[k].purpose = desk[k].purpose)
          BY RequestsFollow DEF IInv
        <4> QED BY <2>4, <4>1 DEF Personal
      <3>2. desk'[k] = desk[k] /\ Claimed(desk[k].person)
        BY <1>6, <3>1 DEF IInv, ClaimsAgree
      <3>3. desk[k].person \in People
        BY <3>1, Shapes DEF Personal, IInv, TypeOK, Requests, Openings, Switches, Issues, Uses,
           Answers
      <3> QED BY <1>5, <3>2, <3>3 DEF ClaimsStay
    <2> QED BY <2>1, <2>2, <2>3, <2>4 DEF ClaimsAgree, Personal
  <1>13. OpeningsAgree'
    BY <1>1, <1>7 DEF IInv, OpeningsAgree
  <1>14. PasswordsAgree'
    <2>1. ASSUME NEW a \in People, NEW pw, NEW raced, Claimed(a), Current(a, pw, raced) PROVE Current(a, pw, raced)'
      BY <1>5, <2>1 DEF Current
    <2>2. ASSUME NEW k \in Desks, NEW s, NEW a, NEW raced, Covers(desk[k], s, a, raced) PROVE Covers(desk'[k], s, a, raced)
      BY <1>7, <2>2 DEF Covers
    <2>3. ASSUME NEW s \in Sessions, session'[s] # None, session'[s].live
          PROVE  /\ Current(session[s].person, session[s].pw, session[s].raced)'
                 /\ \A k \in Desks : Covers(desk'[k], s, session'[s].person, session'[s].raced)
      <3>1. session'[s] = session[s] /\ Claimed(session[s].person) /\ session[s].person \in People
        BY <1>1, <2>3 DEF IInv, ClaimsAgree, TypeOK, SessionRows
      <3>2. /\ Current(session[s].person, session[s].pw, session[s].raced)
            /\ \A k \in Desks : Covers(desk[k], s, session[s].person, session[s].raced)
        BY <2>3, <3>1 DEF IInv, PasswordsAgree
      <3> QED BY <2>1, <2>2, <3>1, <3>2 DEF Current
    <2>4. ASSUME NEW j \in Desks, desk'[j].step = "open", ~desk'[j].dead
          PROVE  /\ Current(desk[j].person, desk[j].pw, desk[j].raced)'
                 /\ \A k \in Desks : Covers(desk'[k], desk'[j].id, desk'[j].person, desk'[j].raced)
      <3>1. desk'[j] = desk[j] /\ Claimed(desk[j].person) /\ desk[j].person \in People
        BY <1>7, <2>4, Shapes DEF IInv, ClaimsAgree, Personal, TypeOK, Requests, Openings
      <3>2. /\ Current(desk[j].person, desk[j].pw, desk[j].raced)
            /\ \A k \in Desks : Covers(desk[k], desk[j].id, desk[j].person, desk[j].raced)
        BY <2>4, <3>1 DEF IInv, PasswordsAgree
      <3> QED BY <2>1, <2>2, <3>1, <3>2 DEF Current
    <2>5. ASSUME NEW j \in Desks, desk'[j].step = "switch"
          PROVE  Current(desk[j].person, desk[j].pw, desk[j].raced)'
      <3>1. desk'[j] = desk[j] /\ Claimed(desk[j].person) /\ desk[j].person \in People
        BY <1>7, <2>5, Shapes DEF IInv, ClaimsAgree, Personal, TypeOK, Requests, Switches
      <3>2. Current(desk[j].person, desk[j].pw, desk[j].raced)
        BY <2>5, <3>1 DEF IInv, PasswordsAgree
      <3> QED BY <2>1, <3>1, <3>2 DEF Current
    <2> QED BY <2>3, <2>4, <2>5 DEF PasswordsAgree, Current, Covers
  <1> QED
    BY <1>8, <1>9, <1>10, <1>11, <1>12, <1>13, <1>14 DEF IInv

LEMMA AttachSulikoAccountPreserves ==
    ASSUME IInv, NEW s \in Sessions, NEW p \in People, NEW q \in People, AttachSulikoAccount(s, p, q)
    PROVE  IInv'
  <1>1. session[s].org \in Orgs
    BY ActingSession DEF AttachSulikoAccount, IInv
  <1>2. CASE q = p
    <2>1. account' = UpsertFromSuliko(p) /\ UNCHANGED <<org, ticket, session, minted, member, link, factor, desk, overlapped>>
      BY <1>2 DEF AttachSulikoAccount
    <2>2. /\ account' \in [People -> AccountRows \cup {None}]
          /\ ClaimsStay
          /\ \A a \in People : Claimed(a) => account'[a].pw \in {account[a].pw, 0}
          /\ \A a \in People : account[a] # None => account'[a] # None
      BY <2>1, AccountsGoOn DEF IInv
    <2>3. TypeOK'
      BY <2>1, <2>2 DEF IInv, TypeOK
    <2>4. MembersAgree'
      BY <2>1, <2>2 DEF AttachSulikoAccount, IInv, MembersAgree
    <2>5. AllCalm /\ minted <= minted' /\ \A t \in Sessions : KeepsCode(t)
      BY <2>1, DesksCalm DEF IInv, TypeOK, KeepsCode, Fate
    <2> QED BY <2>1, <2>2, <2>3, <2>4, <2>5, QuietStep
  <1>3. CASE q # p
    <2>1. Handing(p, q, session[s].org)
      BY <1>3 DEF AttachSulikoAccount, Handing, NeedsRegistration, Claimed
    <2> QED BY <1>1, <2>1, HandedPreserves
  <1> QED
    BY <1>2, <1>3

-----------------------------------------------------------------------------
LEMMA EnrolledApart ==
    ASSUME NEW p \in People, NEW o \in Orgs, NEW i \in DOMAIN Enrolled, Enrolled[i] = <<p, o>>
    PROVE  (CHOOSE j \in DOMAIN Enrolled : Enrolled[j] = <<p, o>>) = i
  BY AccountsAssumptions

LEMMA InitEstablishes ==
    ASSUME Init
    PROVE  IInv
  <1>1. /\ \A k \in Desks : desk[k] = Idle
        /\ desk \in [Desks -> {Idle}] /\ overlapped = {} /\ ticket = {} /\ link = [l \in Links |-> None]
    BY DEF Init
  <1>2. Len(Enrolled) \in Nat /\ DOMAIN Enrolled = 1..Len(Enrolled) /\ DOMAIN SignedIn = 1..Len(SignedIn)
        /\ Len(SignedIn) \in Nat /\ Enrolled \in Seq(People \X Orgs) /\ SignedIn \in Seq(People \X Orgs)
    BY AccountsAssumptions
  <1>3. \A p \in People, o \in Orgs : Start[p][o] \in Roles \cup {None}
    BY AccountsAssumptions
  <1>4. minted = 2 * Len(Enrolled) + 1 /\ minted \in Nat
    BY <1>2 DEF Init
  <1>5. /\ account \in [People -> AccountRows \cup {None}]
        /\ \A p \in People : IF \E o \in Orgs : Start[p][o] # None THEN account[p] # None /\ account[p].pw = 1
                             ELSE account[p] = None
    <2> DEFINE a == [NewAccount(1, FALSE, FALSE) EXCEPT !.verified = TRUE]
    <2>1. a \in AccountRows /\ a.pw = 1
      <3> DEFINE half == NewAccount(1, FALSE, FALSE)
      <3>1. half \in AccountRows /\ half.pw = 1
        BY DEF NewAccount, AccountRows
      <3>2. a = [half EXCEPT !.verified = TRUE]
        OBVIOUS
      <3> HIDE DEF half, a
      <3> QED BY <3>1, <3>2 DEF AccountRows
    <2>2. account = [p \in People |-> IF \E o \in Orgs : Start[p][o] # None THEN a ELSE None]
      BY DEF Init
    <2> HIDE DEF a
    <2> QED BY <2>1, <2>2, NoneIsNothing
  <1>6. /\ member \in [People -> [Orgs -> MemberRows \cup {None}]]
        /\ \A p \in People, o \in Orgs : member[p][o] # None <=> Start[p][o] # None
    <2>1. \A p \in People, o \in Orgs : Start[p][o] # None => NewMember(Start[p][o], FALSE, None) \in MemberRows
      BY <1>3 DEF NewMember, MemberRows
    <2>2. member = [p \in People |-> [o \in Orgs |-> IF Start[p][o] = None THEN None ELSE NewMember(Start[p][o], FALSE, None)]]
      BY DEF Init
    <2> QED BY <2>1, <2>2, NoneIsNothing
  <1>7. /\ org \in [Orgs -> {"none", "usable", "suspended"}]
        /\ \A p \in People, o \in Orgs : Start[p][o] # None => org[o] # "none"
    BY DEF Init
  <1>8. /\ session \in [Sessions -> SessionRows \cup {None}]
        /\ \A s \in Sessions : session[s] # None => /\ session[s].person \in People
                                                     /\ \E o \in Orgs : Start[session[s].person][o] # None
                                                     /\ session[s].pw = 1 /\ session[s].code = None
    <2>1. ASSUME NEW s \in Sessions, ~(s > Len(SignedIn))
          PROVE  SignedIn[s][1] \in People /\ SignedIn[s][2] \in Orgs /\ Start[SignedIn[s][1]][SignedIn[s][2]] # None
      <3>1. s \in DOMAIN SignedIn
        BY <1>2, <2>1 DEF Sessions
      <3> QED BY <1>2, <3>1, AccountsAssumptions
    <2>2. ASSUME NEW s \in Sessions
          PROVE  \/ session[s] = None
                 \/ /\ session[s] \in SessionRows /\ session[s].person \in People
                    /\ \E o \in Orgs : Start[session[s].person][o] # None
                    /\ session[s].pw = 1 /\ session[s].code = None
      <3>1. CASE s > Len(SignedIn)
        BY <3>1 DEF Init
      <3>2. CASE ~(s > Len(SignedIn))
        <4> DEFINE new == [person |-> SignedIn[s][1], org |-> SignedIn[s][2], pw |-> 1, live |-> TRUE, raced |-> FALSE,
                           passed |-> TRUE, code |-> None]
        <4>1. session[s] = new
          BY <3>2 DEF Init
        <4>2. new \in SessionRows /\ new.person = SignedIn[s][1] /\ new.pw = 1 /\ new.code = None
          BY <2>1, <3>2 DEF SessionRows
        <4> HIDE DEF new
        <4> QED BY <2>1, <3>2, <4>1, <4>2
      <3> QED BY <3>1, <3>2
    <2>3. session = [s \in Sessions |-> session[s]]
      BY DEF Init
    <2> QED BY <2>2, <2>3
  <1>9. ASSUME NEW p \in People, NEW o \in Orgs
        PROVE  \/ factor[p][o] = NoFactor
               \/ \E i \in 1..Len(Enrolled) :
                     /\ Enrolled[i] = <<p, o>>
                     /\ factor[p][o] = [state |-> "on", secret |-> 2 * i, last |-> 0, spare |-> 2 * i + 1]
    <2>1. factor[p][o] = IF \E i \in DOMAIN Enrolled : Enrolled[i] = <<p, o>>
                         THEN LET i == CHOOSE j \in DOMAIN Enrolled : Enrolled[j] = <<p, o>>
                              IN  [state |-> "on", secret |-> 2 * i, last |-> 0, spare |-> 2 * i + 1]
                         ELSE NoFactor
      BY DEF Init
    <2> QED BY <1>2, <2>1, EnrolledApart
  <1>10. ASSUME NEW p \in People, NEW o \in Orgs
         PROVE  factor[p][o] \in FactorRows /\ (factor[p][o].state # "off" => factor[p][o].secret # 0)
    <2>1. \A i \in 1..Len(Enrolled) : [state |-> "on", secret |-> 2 * i, last |-> 0, spare |-> 2 * i + 1] \in FactorRows
      BY <1>2 DEF FactorRows
    <2>2. CASE factor[p][o] = NoFactor
      BY <2>2, NoFactorIsOne
    <2>3. CASE factor[p][o] # NoFactor
      <3>1. PICK i \in 1..Len(Enrolled) : factor[p][o] = [state |-> "on", secret |-> 2 * i, last |-> 0, spare |-> 2 * i + 1]
        BY <1>9, <2>3
      <3>2. factor[p][o].secret = 2 * i /\ 2 * i # 0
        BY <1>2, <3>1
      <3> QED BY <2>1, <3>1, <3>2
    <2> QED BY <2>2, <2>3
  <1>11. factor \in [People -> [Orgs -> FactorRows]]
    BY <1>10 DEF Init
  <1>12. TypeOK
    BY <1>1, <1>4, <1>5, <1>6, <1>7, <1>8, <1>11 DEF TypeOK
  <1>13. MembersAgree
    BY <1>5, <1>6, <1>7 DEF MembersAgree
  <1>14. ClaimsAgree
    BY <1>1, <1>5, <1>8 DEF ClaimsAgree, Claimed, Personal, Idle, Proofs
  <1>15. OpeningsAgree
    BY <1>1 DEF OpeningsAgree, Idle
  <1>16. PasswordsAgree
    BY <1>1, <1>5, <1>8 DEF PasswordsAgree, Current, Covers, Idle
  <1>17. RowsAgree /\ AboutsAgree /\ LinksAgree
    BY <1>1 DEF RowsAgree, AboutsAgree, LinksAgree, OnMember, Guarded, Spends, Proofs, Idle
  <1>18. FactorsAgree /\ CodesAgree /\ CodeUsedOnce
    BY <1>1, <1>8, <1>10 DEF FactorsAgree, CodesAgree, CodeUsedOnce, Proofs, Idle
  <1>19. OneHolder
    <2>1. ASSUME NEW c \in Nat \ {0}, NEW p \in People, NEW o \in Orgs, Holds(c, p, o)
          PROVE  \E i \in 1..Len(Enrolled) : Enrolled[i] = <<p, o>> /\ c \in {2 * i, 2 * i + 1}
      <3>1. c \in {factor[p][o].secret, factor[p][o].spare}
        BY <1>1, <1>8, <2>1 DEF Holds, Proofs, Idle
      <3>2. factor[p][o] # NoFactor
        BY <3>1, NoFactorIsOne
      <3>3. PICK i \in 1..Len(Enrolled) :
                 /\ Enrolled[i] = <<p, o>>
                 /\ factor[p][o] = [state |-> "on", secret |-> 2 * i, last |-> 0, spare |-> 2 * i + 1]
        BY <1>9, <3>2
      <3> QED BY <3>1, <3>3
    <2> SUFFICES ASSUME NEW c \in Nat \ {0}, NEW p \in People, NEW o \in Orgs, Holds(c, p, o)
                 PROVE  /\ c <= minted
                        /\ \A q \in People, u \in Orgs : Holds(c, q, u) => q = p /\ u = o
      BY DEF OneHolder
    <2>2. PICK i \in 1..Len(Enrolled) : Enrolled[i] = <<p, o>> /\ c \in {2 * i, 2 * i + 1}
      BY <2>1
    <2>3. c <= minted
      BY <1>2, <1>4, <2>2
    <2>4. ASSUME NEW q \in People, NEW u \in Orgs, Holds(c, q, u) PROVE q = p /\ u = o
      <3>1. PICK j \in 1..Len(Enrolled) : Enrolled[j] = <<q, u>> /\ c \in {2 * j, 2 * j + 1}
        BY <2>1, <2>4
      <3>2. j = i
        BY <1>2, <2>2, <3>1
      <3> QED BY <2>2, <3>1, <3>2
    <2> QED BY <2>3, <2>4
  <1> QED
    BY <1>12, <1>13, <1>14, <1>15, <1>16, <1>17, <1>18, <1>19 DEF IInv

LEMMA StutterPreserves ==
    ASSUME IInv, vars' = vars
    PROVE  IInv'
  BY DesksCalm, SessionsEnd DEF vars, IInv, TypeOK

LEMMA EnteringPreserves ==
    ASSUME IInv, Entering
    PROVE  IInv'
  BY LoginPreserves, SignupPreserves, LoginSelectPreserves, SwitchOrganisationPreserves,
     ResendVerificationEmailPreserves,
     ChangePasswordPreserves, SwitchOpensPreserves, LogoutPreserves, ForgotPasswordPreserves, FollowingPreserves
  DEF Entering

LEMMA FinishingPreserves ==
    ASSUME IInv, Finishing
    PROVE  IInv'
  BY StartSessionPreserves, RollBackPreserves, CommitIssuePreserves, SetPasswordPreserves,
     UseLinkPreserves, ProvedPreserves,
     CommitChangePreserves, RemovalPreserves
  DEF Finishing

LEMMA ProvingPreserves ==
    ASSUME IInv, Proving
    PROVE  IInv'
  BY EnrolPreserves, ProvePreserves DEF Proving, Held

LEMMA ManagingPreserves ==
    ASSUME IInv, Managing
    PROVE  IInv'
  <1>1. PICK s \in Sessions, q \in People :
           \/ \E role \in Offered, found \in BOOLEAN : InviteUser(s, q, role, found)
           \/ \E p \in People : AttachSulikoAccount(s, q, p)
           \/ ResetUserMfa(s, q)
           \/ \E k \in Desks : ResendInvitation(k, s, q)
           \/ \E k \in Desks : DeleteUser(k, s, q) \/ \E do \in Offered \cup {"on", "off", "access"} : UpdateUser(k, s, q, do)
    BY DEF Managing, Held
  <1>2. CASE \E k \in Desks : DeleteUser(k, s, q) \/ \E do \in Offered \cup {"on", "off", "access"} : UpdateUser(k, s, q, do)
    <2>1. session[s].org \in Orgs
      BY <1>2, ActingSession DEF DeleteUser, UpdateUser, IInv
    <2> QED BY <1>2, <2>1, ChangingPreserves
  <1> QED
    BY <1>1, <1>2, InviteUserPreserves, AttachSulikoAccountPreserves, ResetUserMfaPreserves,
       ResendInvitationPreserves

LEMMA LeavingPreserves ==
    ASSUME IInv, Leaving
    PROVE  IInv'
  <1>1. PICK k \in Desks, s \in Sessions : LeaveOrganisation(k, s)
    BY DEF Leaving, Held
  <1>2. session[s].org \in Orgs /\ session[s].person \in People
    BY <1>1, ActingSession DEF LeaveOrganisation, IInv
  <1> QED
    BY <1>1, <1>2, ChangingPreserves

LEMMA OperatingPreserves ==
    ASSUME IInv, Operating
    PROVE  IInv'
  <1>1. PICK s \in Sessions :
           \/ \E o \in Orgs : SetTenantStatus(s, o)
           \/ \E q \in People : GrantSuperuser(s, q)
           \/ \E q \in People, o \in Orgs :
                 \/ \E role \in Offered : CreateTenantUser(s, q, o, role)
                 \/ \E k \in Desks : DeleteTenantUser(k, s, q, o) \/ RevokeSuperuser(k, s, q, o)
    BY DEF Operating, Held
  <1> QED
    BY <1>1, SetTenantStatusPreserves, GrantSuperuserPreserves, CreateTenantUserPreserves,
       ChangingPreserves

LEMMA NextPreserves ==
    ASSUME IInv, [Next]_vars
    PROVE  IInv'
  BY StutterPreserves, EnteringPreserves, FinishingPreserves, ProvingPreserves,
     ManagingPreserves, LeavingPreserves,
     OperatingPreserves
  DEF Next

(***************************************************************************)
(* What every reachable state of the account system satisfies: rows, the   *)
(* requests under way and what those have read agree.                      *)
(***************************************************************************)
THEOREM Invariance == Spec => []IInv
  BY InitEstablishes, NextPreserves, PTL DEF Spec

(***************************************************************************)
(* After a password was changed or reset nothing that rests on the old one *)
(* opens anything, however many requests were under way: the revocation    *)
(* reaches every session that had begun, and the rest took the new one.    *)
(***************************************************************************)
THEOREM OldPasswordOpensNothingHolds == Spec => []OldPasswordOpensNothing
  <1>1. IInv => OldPasswordOpensNothing
    BY DEF IInv, PasswordsAgree, Current, OldPasswordOpensNothing, ResolveSession
  <1> QED
    BY <1>1, Invariance, PTL

LEMMA AtMostOne ==
    ASSUME NEW S, \A x, y \in S : x = y
    PROVE  Cardinality(S) <= 1
  <1>1. CASE S = {}
    BY <1>1, FS_EmptySet
  <1>2. CASE S # {}
    <2>1. PICK x \in S : S = {x}
      BY <1>2
    <2> QED
      BY <2>1, FS_Singleton
  <1> QED
    BY <1>1, <1>2

(***************************************************************************)
(* A mailed link is good once and the newest replaces the rest, for any    *)
(* number of links and requests, unless two about it ran at once.          *)
(***************************************************************************)
THEOREM LinkSpentOnceHolds == Spec => []LinkSpentOnce
  <1>1. IInv => LinkSpentOnce
    <2> SUFFICES ASSUME IInv, NEW l \in Links, link[l] # None, Key(l) \notin overlapped
                 PROVE  link[l].uses <= 1 /\ Cardinality(Outstanding(link[l].person, link[l].org, link[l].purpose)) <= 1
      BY DEF LinkSpentOnce, Key
    <2> DEFINE open == Outstanding(link[l].person, link[l].org, link[l].purpose)
    <2>1. \A m \in open : m \in Links /\ link[m] # None /\ ~link[m].used /\ Key(m) = Key(l)
      BY DEF Outstanding, Key
    <2>2. \A m, n \in open : m = n
      BY <2>1 DEF IInv, LinksAgree
    <2>3. Cardinality(open) <= 1
      <3> HIDE DEF open
      <3> QED BY <2>2, AtMostOne
    <2> QED
      BY <2>3 DEF IInv, LinksAgree
  <1> QED
    BY <1>1, Invariance, PTL

(***************************************************************************)
(* One code, of the authenticator or of the recovery list, releases one    *)
(* session, unless two were answered at once.                              *)
(***************************************************************************)
THEOREM CodeUsedOnceHolds == Spec => []CodeUsedOnce
  BY Invariance, PTL DEF IInv

-----------------------------------------------------------------------------
(* That somebody runs an organisation. *)

Active(p, o) == member[p][o] # None /\ member[p][o].active
Platform(p, o) == member[p][o] # None /\ member[p][o].role = "superuser"

(* Without q somebody runs o, or q leaves and nobody else is in it. *)
Spared(q, o, change) ==
    OwnsIt(q, o) => \/ \E p \in People \ {q} : OwnsIt(p, o) \/ Platform(p, o)
                    \/ change = "off" /\ \A p \in People \ {q} : ~Active(p, o)

(* A change under way that takes an owner away found that it may, and still does, unless another was under way. *)
ChangeFits(k) ==
    /\ desk[k].about = <<None, desk[k].org, "members">>
    /\ desk[k].about \notin overlapped =>
          /\ \A j \in Desks \ {k} : desk[j].step = "member" => desk[j].org # desk[k].org
          /\ desk[k].change \notin {"on", "access", "owner"} => Spared(desk[k].person, desk[k].org, desk[k].change)

ChangesAgree == \A k \in Desks : desk[k].step = "member" => ChangeFits(k)

(* What SomeoneRunsIt asks of a step. *)
RunsStill(o) ==
    (\E p \in People : OwnsIt(p, o)) /\ (\E p \in People : member'[p][o] # None /\ member'[p][o].active)
      => \/ <<None, o, "members">> \in overlapped'
         \/ \E p \in People : OwnsIt(p, o)' \/ (member'[p][o] # None /\ member'[p][o].role = "superuser")

StillRuns == \A o \in Orgs : RunsStill(o)

Steady(o) ==
    \A p \in People : /\ member'[p][o] = None <=> member[p][o] = None
                      /\ member[p][o] # None => /\ member'[p][o].role = member[p][o].role
                                                /\ member'[p][o].active = member[p][o].active

(* Nobody takes up a change of a member. *)
NoNewChange == \A j \in Desks : desk'[j].step = "member" => desk'[j] = desk[j]

(* Nobody is changing o, or whoever is was told that there is another. *)
Unwatched(o) == <<None, o, "members">> \in overlapped' \/ \A k \in Desks : desk'[k].step = "member" => desk'[k].org # o

SparesStay(o) == \A q \in People : \A change : Spared(q, o, change) => Spared(q, o, change)'

OwnersStay(o) == \A p \in People : OwnsIt(p, o) => OwnsIt(p, o)'

(* The requests that change members are of their type. *)
LEMMA ChangeShape ==
    ASSUME TypeOK, NEW k \in Desks, desk[k].step = "member"
    PROVE  desk[k] \in Changes /\ desk[k].org \in Orgs /\ desk[k].person \in People
  <1>1. desk[k] \in Changes
    BY Shapes DEF TypeOK, Requests
  <1> QED
    BY <1>1 DEF Changes

(* Where nobody's role or access changes, what was spared still is. *)
LEMMA SparedSteady ==
    ASSUME NEW q \in People, NEW o \in Orgs, NEW change, Steady(o), Spared(q, o, change)
    PROVE  Spared(q, o, change)'
  <1>1. \A p \in People : /\ OwnsIt(p, o)' <=> OwnsIt(p, o)
                          /\ Platform(p, o)' <=> Platform(p, o)
                          /\ Active(p, o)' <=> Active(p, o)
    BY DEF Steady, OwnsIt, Platform, Active
  <1> QED
    BY <1>1 DEF Spared

LEMMA OwnersRun ==
    ASSUME NEW o, Steady(o) \/ OwnersStay(o)
    PROVE  RunsStill(o)
  <1>1. OwnersStay(o)
    BY DEF OwnersStay, Steady, OwnsIt
  <1> QED
    BY <1>1 DEF OwnersStay, RunsStill

(* A step that takes up no change of a member, and writes members only where no change is relied on. *)
LEMMA ChangesStay ==
    ASSUME TypeOK, ChangesAgree, NoNewChange, overlapped \subseteq overlapped',
           \A o \in Orgs : Steady(o) \/ SparesStay(o) \/ Unwatched(o)
    PROVE  ChangesAgree'
  <1>1. ASSUME NEW k \in Desks, desk'[k].step = "member" PROVE ChangeFits(k)'
    <2>1. PICK tx : tx = desk[k]
      OBVIOUS
    <2>2. desk'[k] = tx /\ tx.step = "member" /\ tx.org \in Orgs /\ tx.person \in People
      BY <1>1, <2>1, ChangeShape DEF NoNewChange
    <2>3. /\ tx.about = <<None, tx.org, "members">>
          /\ tx.about \notin overlapped =>
                /\ \A j \in Desks \ {k} : desk[j].step = "member" => desk[j].org # tx.org
                /\ tx.change \notin {"on", "access", "owner"} => Spared(tx.person, tx.org, tx.change)
      BY <2>1, <2>2 DEF ChangesAgree, ChangeFits
    <2>4. ASSUME tx.about \notin overlapped'
          PROVE  /\ \A j \in Desks \ {k} : desk'[j].step = "member" => desk'[j].org # tx.org
                 /\ tx.change \notin {"on", "access", "owner"} => Spared(tx.person, tx.org, tx.change)'
      <3>1. tx.about \notin overlapped /\ (Steady(tx.org) \/ SparesStay(tx.org))
        BY <2>2, <2>3, <2>4 DEF Unwatched
      <3>2. \A j \in Desks \ {k} : desk'[j].step = "member" => desk'[j].org # tx.org
        BY <2>3, <3>1 DEF NoNewChange
      <3>3. tx.change \notin {"on", "access", "owner"} => Spared(tx.person, tx.org, tx.change)'
        BY <2>2, <2>3, <3>1, SparedSteady DEF SparesStay
      <3> QED BY <3>2, <3>3
    <2> QED BY <2>2, <2>3, <2>4 DEF ChangeFits, Spared, OwnsIt, Platform, Active
  <1> QED
    BY <1>1 DEF ChangesAgree

(* A step that takes nobody away and takes up no change of a member. *)
LEMMA ChangesQuiet ==
    ASSUME TypeOK, ChangesAgree, NoNewChange, overlapped \subseteq overlapped',
           \A o \in Orgs : Steady(o) \/ (Unwatched(o) /\ OwnersStay(o))
    PROVE  ChangesAgree' /\ StillRuns
  BY ChangesStay, OwnersRun DEF StillRuns

(* The usual way to be steady: memberships are not written. *)
LEMMA MembersUntouched ==
    ASSUME IInv, ChangesAgree, NoNewChange, overlapped \subseteq overlapped', member' = member
    PROVE  ChangesAgree' /\ StillRuns
  <1>1. \A o \in Orgs : Steady(o)
    BY DEF Steady
  <1> QED
    BY <1>1, ChangesQuiet DEF IInv

(* The ways a step leaves the desks. *)
LEMMA NoNewChangeCalm ==
    ASSUME TypeOK, AllCalm
    PROVE  NoNewChange
  BY CalmShapes DEF NoNewChange

LEMMA NoNewChangeJoin ==
    ASSUME TypeOK, NEW k \in Desks, NEW tx, Goto(k, tx), tx.step # "member"
    PROVE  NoNewChange
  BY DEF NoNewChange, Goto, TypeOK

LEMMA OverlapGrows ==
    ASSUME NEW what, Overlap(what)
    PROVE  overlapped \subseteq overlapped'
  BY DEF Overlap

(* Requests that end in a session, a link or a code. *)
LEMMA OpenRuns ==
    ASSUME IInv, ChangesAgree, NEW k \in Desks, NEW p, NEW o, NEW pw, NEW old, NEW raced, NEW founding,
           Open(k, p, o, pw, old, raced, founding), UNCHANGED <<tables, overlapped>>
    PROVE  ChangesAgree' /\ StillRuns
  <1>1. NoNewChange
    BY NoNewChangeJoin DEF Open, IInv
  <1> QED
    BY <1>1, MembersUntouched DEF tables

LEMMA IssueRuns ==
    ASSUME IInv, ChangesAgree, NEW k \in Desks, NEW p, NEW o, NEW purpose, Issue(k, p, o, purpose), UNCHANGED tables
    PROVE  ChangesAgree' /\ StillRuns
  <1>1. NoNewChange
    BY NoNewChangeJoin DEF Issue, IInv
  <1>2. overlapped \subseteq overlapped'
    BY OverlapGrows DEF Issue
  <1> QED
    BY <1>1, <1>2, MembersUntouched DEF tables

(* A membership more: of an organisation nobody is changing, or everybody who is will be told. *)
LEMMA OneMore ==
    ASSUME IInv, ChangesAgree, NoNewChange, overlapped \subseteq overlapped',
           NEW p \in People, NEW o \in Orgs, NEW row \in MemberRows, member' = [member EXCEPT ![p][o] = row],
           member[p][o] = None,
           <<None, o, "members">> \in overlapped' \/ \A k \in Desks : desk'[k].step = "member" => desk'[k].org # o
    PROVE  ChangesAgree' /\ StillRuns
  <1>1. \A q \in People, u \in Orgs : ~(q = p /\ u = o) => member'[q][u] = member[q][u]
    BY MemberWritten DEF IInv
  <1>2. Unwatched(o) /\ OwnersStay(o)
    BY <1>1 DEF Unwatched, OwnersStay, OwnsIt
  <1>3. \A u \in Orgs : u # o => Steady(u)
    BY <1>1 DEF Steady
  <1> QED
    BY <1>2, <1>3, ChangesQuiet DEF IInv

(* The first member of an organisation that is founded: nobody could be changing it. *)
LEMMA FirstComes ==
    ASSUME IInv, ChangesAgree, NoNewChange, overlapped \subseteq overlapped',
           NEW p \in People, NEW o \in Orgs, NEW row \in MemberRows, member' = [member EXCEPT ![p][o] = row],
           org[o] = "none"
    PROVE  ChangesAgree' /\ StillRuns
  <1>1. \A q \in People : member[q][o] = None
    BY DEF IInv, MembersAgree
  <1>2. ASSUME NEW k \in Desks, desk'[k].step = "member" PROVE desk'[k].org # o
    <2>1. desk[k].step = "member" /\ desk'[k].org = desk[k].org
      BY <1>2 DEF NoNewChange
    <2>2. desk[k].person \in People /\ member[desk[k].person][desk[k].org] # None
      BY <2>1, ChangeShape DEF IInv, RowsAgree, OnMember
    <2> QED BY <1>1, <2>1, <2>2
  <1> QED
    BY <1>1, <1>2, OneMore

LEMMA EnteringRuns ==
    ASSUME IInv, ChangesAgree, Entering
    PROVE  ChangesAgree' /\ StillRuns
  <1>1. ASSUME NEW p \in People, Login(p) \/ SsoExchange(p) PROVE ChangesAgree' /\ StillRuns
    <2>1. desk' = desk /\ member' = member /\ overlapped' = overlapped
      BY <1>1 DEF Login, SsoExchange, tables
    <2> QED BY <2>1, MembersUntouched DEF NoNewChange
  <1>2. ASSUME NEW p \in People, NEW o \in Orgs, Signup(p, o) PROVE ChangesAgree' /\ StillRuns
    <2> DEFINE row == NewMember("owner", FALSE, None)
    <2>1. desk' = desk /\ overlapped' = overlapped /\ org[o] = "none" /\ member' = [member EXCEPT ![p][o] = row]
      BY <1>2 DEF Signup
    <2>2. row \in MemberRows
      BY NewMemberIsOne DEF Roles
    <2> HIDE DEF row
    <2>3. NoNewChange
      BY <2>1 DEF NoNewChange
    <2> QED BY <2>1, <2>2, <2>3, FirstComes
  <1>3. ASSUME NEW k \in Desks, NEW o \in Orgs,
               \/ \E t \in ticket : LoginSelect(k, t, o) \/ LoginCreateBureau(k, t, o)
               \/ SwitchOpens(k, o) \/ CreateOrganisation(k, o)
        PROVE  ChangesAgree' /\ StillRuns
    BY <1>3, OpenRuns DEF LoginSelect, LoginCreateBureau, SwitchOpens, CreateOrganisation
  <1>4. ASSUME NEW k \in Desks, NEW s \in Sessions, SwitchOrganisation(k, s) \/ ChangePassword(k, s)
        PROVE  ChangesAgree' /\ StillRuns
    <2>1. NoNewChange
      BY <1>4, NoNewChangeJoin DEF SwitchOrganisation, ChangePassword, IInv
    <2>2. member' = member /\ overlapped' = overlapped
      BY <1>4 DEF SwitchOrganisation, ChangePassword, tables
    <2> QED BY <2>1, <2>2, MembersUntouched
  <1>5. ASSUME NEW k \in Desks, NEW s \in Sessions, ResendVerificationEmail(k, s) PROVE ChangesAgree' /\ StillRuns
    BY <1>5, IssueRuns DEF ResendVerificationEmail
  <1>6. ASSUME NEW s \in Sessions, Logout(s) PROVE ChangesAgree' /\ StillRuns
    <2>1. desk' = desk /\ member' = member /\ overlapped' = overlapped
      BY <1>6 DEF Logout
    <2> QED BY <2>1, MembersUntouched DEF NoNewChange
  <1>7. ASSUME NEW k \in Desks, NEW p \in People, NEW o \in Orgs, ForgotPassword(k, p, o) PROVE ChangesAgree' /\ StillRuns
    BY <1>7, IssueRuns DEF ForgotPassword
  <1>8. ASSUME NEW k \in Desks, NEW l \in Links, ResetPassword(k, l) \/ VerifyEmail(k, l) \/ AcceptInvitation(k, l)
        PROVE  ChangesAgree' /\ StillRuns
    <2>1. PICK do, kills : SpendLink(k, l, do, kills) /\ do \in {"password", "address", "accept"}
      BY <1>8 DEF ResetPassword, VerifyEmail, AcceptInvitation
    <2>2. NoNewChange
      BY <2>1, NoNewChangeJoin DEF SpendLink, IInv
    <2>3. member' = member /\ overlapped \subseteq overlapped'
      BY <1>8, <2>1, OverlapGrows DEF ResetPassword, VerifyEmail, AcceptInvitation, SpendLink, tables
    <2> QED BY <2>2, <2>3, MembersUntouched
  <1> QED
    BY <1>1, <1>2, <1>3, <1>4, <1>5, <1>6, <1>7, <1>8 DEF Entering

(* Accepting or resetting takes away that an invitation is pending, and changes nobody's role or access. *)
LEMMA PendingSteady ==
    ASSUME TypeOK, NEW q \in People, NEW o \in Orgs, member[q][o] # None, member' = [member EXCEPT ![q][o].pending = FALSE]
    PROVE  \A u \in Orgs : Steady(u)
  <1> DEFINE row == [member[q][o] EXCEPT !.pending = FALSE]
  <1>1. /\ row \in MemberRows /\ member' = [member EXCEPT ![q][o] = row]
        /\ row.role = member[q][o].role /\ row.active = member[q][o].active
    <2>1. member[q][o] \in MemberRows
      BY DEF TypeOK
    <2>2. row.role = member[q][o].role /\ row.active = member[q][o].active
      BY <2>1 DEF MemberRows
    <2> QED BY <2>2, MemberChanged DEF Roles
  <1> HIDE DEF row
  <1>2. member'[q][o] = row
    BY <1>1 DEF TypeOK
  <1>3. \A p \in People, u \in Orgs : ~(p = q /\ u = o) => member'[p][u] = member[p][u]
    BY <1>1, MemberWritten
  <1> SUFFICES ASSUME NEW u \in Orgs, NEW p \in People
               PROVE  /\ member'[p][u] = None <=> member[p][u] = None
                      /\ member[p][u] # None => /\ member'[p][u].role = member[p][u].role
                                                /\ member'[p][u].active = member[p][u].active
    BY DEF Steady
  <1>4. CASE p = q /\ u = o
    BY <1>1, <1>2, <1>4, NoneIsNothing
  <1> QED
    BY <1>3, <1>4

LEMMA ResolvedRuns ==
    ASSUME IInv, ChangesAgree, NEW k \in Desks,
           StartSession(k) \/ RollBack(k) \/ CommitIssue(k) \/ SetPassword(k) \/ UseLink(k) \/ Proved(k)
    PROVE  ChangesAgree' /\ StillRuns
  <1>1. overlapped' = overlapped
    BY DEF StartSession, RollBack, CommitIssue, SetPassword, UseLink, Proved
  <1>2. NoNewChange
    <2>1. Goto(k, Idle) \/ \E kills, p : desk' = Overtaken(k, kills, p)
      BY DEF StartSession, RollBack, CommitIssue, SetPassword, UseLink, Proved
    <2> QED BY <2>1, DesksCalm, NoNewChangeCalm DEF IInv
  <1>3. CASE member' = member
    BY <1>1, <1>2, <1>3, MembersUntouched
  <1>4. CASE StartSession(k) /\ member' # member
    <2> DEFINE row == NewMember("owner", FALSE, None)
    <2>1. desk[k].step = "open" /\ org[desk[k].org] = "none" /\ member' = [member EXCEPT ![desk[k].person][desk[k].org] = row]
      BY <1>4 DEF StartSession
    <2>2. PICK p \in People, o \in Orgs : p = desk[k].person /\ o = desk[k].org
      BY <2>1, Shapes DEF IInv, TypeOK, Requests, Openings
    <2>3. row \in MemberRows
      BY NewMemberIsOne DEF Roles
    <2> HIDE DEF row
    <2> QED BY <1>1, <1>2, <2>1, <2>2, <2>3, FirstComes
  <1>5. CASE (SetPassword(k) \/ UseLink(k)) /\ member' # member
    <2>1. desk[k].step \in {"password", "accept"} /\ member' = [member EXCEPT ![desk[k].person][desk[k].org].pending = FALSE]
          /\ (desk[k].step = "password" => desk[k].link # 0)
      BY <1>5 DEF SetPassword, UseLink
    <2>2. PICK p, o : p = desk[k].person /\ o = desk[k].org
      OBVIOUS
    <2>3. p \in People /\ o \in Orgs /\ member[p][o] # None
      BY <2>1, <2>2, Shapes DEF IInv, RowsAgree, OnMember, TypeOK, Requests, Uses
    <2>4. \A u \in Orgs : Steady(u)
      BY <2>1, <2>2, <2>3, PendingSteady DEF IInv
    <2> QED BY <1>1, <1>2, <2>4, ChangesQuiet DEF IInv
  <1>6. RollBack(k) \/ CommitIssue(k) \/ Proved(k) => member' = member
    BY DEF RollBack, CommitIssue, Proved, tables
  <1> QED
    BY <1>3, <1>4, <1>5, <1>6

(* The commit of a change: what it was checked for still holds, or another was under way. *)
LEMMA CommitRuns ==
    ASSUME IInv, ChangesAgree, NEW k \in Desks, CommitChange(k)
    PROVE  ChangesAgree' /\ StillRuns
  <1>1. desk[k].step = "member" /\ desk[k] \in Changes
    BY Shapes DEF CommitChange, IInv, TypeOK, Requests
  <1>0. PICK q, o, change : q = desk[k].person /\ o = desk[k].org /\ change = desk[k].change
    OBVIOUS
  <1>2. /\ q \in People /\ o \in Orgs /\ member[q][o] # None
        /\ change \in Roles \cup {"on", "off", "access", "delete"}
    BY <1>0, <1>1 DEF IInv, RowsAgree, OnMember, Changes
  <1>3. /\ <<None, o, "members">> \notin overlapped =>
              /\ \A j \in Desks \ {k} : desk[j].step = "member" => desk[j].org # o
              /\ change \notin {"on", "access", "owner"} => Spared(q, o, change)
    BY <1>0, <1>1 DEF ChangesAgree, ChangeFits
  <1>4. /\ member' = CASE change = "delete" -> [member EXCEPT ![q][o] = None]
                       [] change = "on" -> [member EXCEPT ![q][o].active = TRUE]
                       [] change = "off" -> [member EXCEPT ![q][o].active = FALSE]
                       [] change = "access" -> member
                       [] OTHER -> [member EXCEPT ![q][o].role = change]
        /\ overlapped' = overlapped
        /\ \/ \E kills : desk' = [RetiredDesks(kills) EXCEPT ![k] = Idle]
           \/ desk' = [Bereft(q, o) EXCEPT ![k] = Idle]
    BY <1>0 DEF CommitChange, Removed
  <1>5. NoNewChange
    BY <1>4, DesksCalm, NoNewChangeCalm DEF IInv
  <1>6. desk'[k] = Idle
    BY <1>4 DEF RetiredDesks, Bereft
  <1>7. Unwatched(o)
    BY <1>3, <1>4, <1>5, <1>6 DEF Unwatched, NoNewChange, Idle
  <1>8. /\ \A p \in People, u \in Orgs : ~(p = q /\ u = o) => member'[p][u] = member[p][u]
        /\ change = "delete" => member'[q][o] = None
        /\ change = "off" => ~member'[q][o].active
        /\ change \in {"on", "access", "owner"} /\ OwnsIt(q, o) => OwnsIt(q, o)'
    <2>1. member \in [People -> [Orgs -> MemberRows \cup {None}]] /\ member[q][o] \in MemberRows
      BY <1>2 DEF IInv, TypeOK
    <2>2. CASE change = "delete"
      BY <1>2, <1>4, <2>1, <2>2
    <2>3. CASE change = "on"
      <3> DEFINE row == [member[q][o] EXCEPT !.active = TRUE]
      <3>1. member' = [member EXCEPT ![q][o] = row] /\ row \in MemberRows
        BY <1>2, <1>4, <2>3, MemberChanged DEF IInv, Roles
      <3>2. row.active /\ row.role = member[q][o].role
        BY <2>1 DEF MemberRows
      <3> HIDE DEF row
      <3> QED BY <1>2, <2>1, <2>3, <3>1, <3>2, NoneIsNothing DEF OwnsIt
    <2>4. CASE change = "off"
      BY <1>2, <1>4, <2>1, <2>4 DEF MemberRows
    <2>5. CASE change = "access"
      <3>1. member' = member
        BY <1>4, <2>5
      <3> QED BY <2>5, <3>1 DEF OwnsIt
    <2>6. CASE change \in Roles
      <3>1. member' = [member EXCEPT ![q][o].role = change]
        BY <1>4, <2>6 DEF Roles
      <3> DEFINE row == [member[q][o] EXCEPT !.role = change]
      <3>2. member' = [member EXCEPT ![q][o] = row] /\ row \in MemberRows
        BY <1>2, <2>6, <3>1, MemberChanged DEF IInv
      <3>3. row.active = member[q][o].active /\ row.role = change
        BY <2>1 DEF MemberRows
      <3>4. change \notin {"delete", "off", "on", "access"}
        BY <2>6 DEF Roles
      <3> HIDE DEF row
      <3> QED BY <1>2, <2>1, <3>2, <3>3, <3>4, NoneIsNothing DEF OwnsIt
    <2> QED BY <1>2, <2>2, <2>3, <2>4, <2>5, <2>6
  <1>9. RunsStill(o)
    <2> SUFFICES ASSUME <<None, o, "members">> \notin overlapped, NEW a \in People, OwnsIt(a, o),
                        NEW b \in People, member'[b][o] # None, member'[b][o].active
                 PROVE  \E p \in People : OwnsIt(p, o)' \/ (member'[p][o] # None /\ member'[p][o].role = "superuser")
      BY <1>4 DEF RunsStill
    <2>1. CASE change \in {"on", "access", "owner"} \/ a # q
      <3>1. CASE a # q
        BY <1>2, <1>8, <3>1 DEF OwnsIt
      <3>2. CASE a = q
        BY <1>8, <2>1, <3>2
      <3> QED BY <3>1, <3>2
    <2>2. CASE change \notin {"on", "access", "owner"} /\ a = q
      <3>1. CASE \E p \in People \ {q} : OwnsIt(p, o) \/ Platform(p, o)
        <4>1. PICK p \in People \ {q} : OwnsIt(p, o) \/ Platform(p, o)
          BY <3>1
        <4>2. member'[p][o] = member[p][o]
          BY <1>2, <1>8, <4>1
        <4>3. OwnsIt(p, o)' \/ (member'[p][o] # None /\ member'[p][o].role = "superuser")
          BY <4>1, <4>2 DEF OwnsIt, Platform
        <4> QED BY <4>3
      <3>2. CASE change = "off" /\ \A p \in People \ {q} : ~Active(p, o)
        BY <1>2, <1>8, <3>2 DEF Active
      <3> QED BY <1>3, <2>2, <3>1, <3>2 DEF Spared
    <2> QED BY <2>1, <2>2
  <1>10. \A u \in Orgs : u # o => Steady(u)
    BY <1>8 DEF Steady
  <1> QED
    BY <1>4, <1>5, <1>7, <1>9, <1>10, ChangesStay, OwnersRun DEF StillRuns, IInv

LEMMA ProvingRuns ==
    ASSUME IInv, ChangesAgree, Proving
    PROVE  ChangesAgree' /\ StillRuns
  <1>1. ASSUME NEW s \in Sessions, Enrol(s) PROVE ChangesAgree' /\ StillRuns
    <2>1. desk' = desk /\ member' = member /\ overlapped' = overlapped
      BY <1>1 DEF Enrol
    <2> QED BY <2>1, MembersUntouched DEF NoNewChange
  <1>2. ASSUME NEW k \in Desks, NEW s \in Sessions, NEW n \in Steps, NEW do \in Proofs, Prove(k, s, do, n)
        PROVE  ChangesAgree' /\ StillRuns
    <2>1. NoNewChange
      BY <1>2, NoNewChangeJoin DEF Prove, IInv, Proofs
    <2>2. member' = member /\ overlapped \subseteq overlapped'
      BY <1>2, OverlapGrows DEF Prove, tables
    <2> QED BY <2>1, <2>2, MembersUntouched
  <1> QED
    BY <1>1, <1>2 DEF Proving, Held

(* Whoever is changing a member of o while another is about to is told. *)
LEMMA TellsAll ==
    ASSUME IInv, ChangesAgree, NEW o \in Orgs, Overlap(<<None, o, "members">>)
    PROVE  /\ overlapped \subseteq overlapped'
           /\ <<None, o, "members">> \in overlapped' \/ \A k \in Desks : desk[k].step = "member" => desk[k].org # o
  <1>1. ASSUME NEW k \in Desks, desk[k].step = "member", desk[k].org = o PROVE <<None, o, "members">> \in overlapped'
    <2>1. desk[k].about = <<None, o, "members">> /\ desk[k] \notin {Idle, Lost}
      BY <1>1 DEF ChangesAgree, ChangeFits, Idle, Lost
    <2> QED BY <2>1 DEF Overlap
  <1> QED
    BY <1>1, OverlapGrows

(* A change that was found to leave somebody is taken up. *)
LEMMA ChangeRuns ==
    ASSUME IInv, ChangesAgree, NEW k \in Desks, NEW q \in People, NEW o \in Orgs, NEW do, Change(k, q, o, do),
           UNCHANGED tables, do \notin {"on", "access", "owner"} => Spared(q, o, do)
    PROVE  ChangesAgree' /\ StillRuns
  <1> DEFINE tx == [step |-> "member", about |-> <<None, o, "members">>, person |-> q, org |-> o, change |-> do,
                    kills |-> Begun(q, {o})]
  <1>1. desk' = [desk EXCEPT ![k] = tx] /\ member' = member
    BY DEF Change, Goto, tables
  <1>2. tx.step = "member" /\ tx.about = <<None, o, "members">> /\ tx.person = q /\ tx.org = o /\ tx.change = do
    OBVIOUS
  <1> HIDE DEF tx
  <1>3. /\ overlapped \subseteq overlapped'
        /\ <<None, o, "members">> \in overlapped' \/ \A j \in Desks : desk[j].step = "member" => desk[j].org # o
    BY TellsAll DEF Change
  <1>4. desk'[k] = tx /\ \A j \in Desks : j # k => desk'[j] = desk[j]
    BY <1>1 DEF IInv, TypeOK
  <1>5. ChangeFits(k)'
    BY <1>1, <1>2, <1>3, <1>4 DEF ChangeFits, Spared, OwnsIt, Platform, Active
  <1>6. ASSUME NEW j \in Desks \ {k}, desk'[j].step = "member" PROVE ChangeFits(j)'
    <2>1. ChangeFits(j) /\ desk'[j] = desk[j]
      BY <1>4, <1>6 DEF ChangesAgree
    <2> QED BY <1>1, <1>2, <1>3, <1>4, <1>6, <2>1 DEF ChangeFits, Spared, OwnsIt, Platform, Active
  <1>7. \A u \in Orgs : Steady(u)
    BY <1>1 DEF Steady
  <1> QED
    BY <1>5, <1>6, <1>7, OwnersRun DEF ChangesAgree, StillRuns

LEMMA MoreThanOne ==
    ASSUME NEW q, NEW o, NotLastOwner(q, o)
    PROVE  \E p \in People \ {q} : OwnsIt(p, o)
  <1> DEFINE S == {p \in People : OwnsIt(p, o)}
  <1>1. Cardinality(S) > 1
    BY DEF NotLastOwner
  <1>2. CASE S \subseteq {q}
    <2>1. S = {} \/ S = {q}
      BY <1>2
    <2> HIDE DEF S
    <2>2. CASE S = {}
      BY <1>1, <2>2, FS_EmptySet
    <2>3. CASE S = {q}
      <3>1. Cardinality({q}) = 1
        BY FS_Singleton
      <3> QED BY <1>1, <2>3, <3>1
    <2> QED BY <2>1, <2>2, <2>3
  <1> QED
    BY <1>2

(* What each form checks before it takes an owner away. *)
LEMMA TakingRuns ==
    ASSUME IInv, ChangesAgree, NEW k \in Desks, NEW s \in Sessions, NEW q \in People, NEW o \in Orgs,
           \/ \E do \in Offered \cup {"on", "off", "access"} : UpdateUser(k, s, q, do)
           \/ DeleteUser(k, s, q)
           \/ LeaveOrganisation(k, s)
           \/ DeleteTenantUser(k, s, q, o)
           \/ RevokeSuperuser(k, s, q, o)
    PROVE  ChangesAgree' /\ StillRuns
  <1>1. ASSUME NEW do \in Offered \cup {"on", "off", "access"}, UpdateUser(k, s, q, do) PROVE ChangesAgree' /\ StillRuns
    <2>1. session[s].org \in Orgs
      BY <1>1, ActingSession DEF UpdateUser, IInv
    <2>2. do \notin {"on", "access", "owner"} /\ OwnsIt(q, session[s].org) => NotLastOwner(q, session[s].org)
      BY <1>1, AccountsAssumptions DEF UpdateUser, OwnsIt
    <2>3. do \notin {"on", "access", "owner"} => Spared(q, session[s].org, do)
      BY <2>2, MoreThanOne DEF Spared
    <2> QED BY <1>1, <2>1, <2>3, ChangeRuns DEF UpdateUser
  <1>2. ASSUME DeleteUser(k, s, q) PROVE ChangesAgree' /\ StillRuns
    <2>1. session[s].org \in Orgs
      BY <1>2, ActingSession DEF DeleteUser, IInv
    <2>2. Spared(q, session[s].org, "delete")
      BY <1>2, MoreThanOne DEF DeleteUser, OwnsIt, Spared
    <2> QED BY <1>2, <2>1, <2>2, ChangeRuns DEF DeleteUser
  <1>3. ASSUME LeaveOrganisation(k, s) PROVE ChangesAgree' /\ StillRuns
    <2>1. session[s].org \in Orgs /\ session[s].person \in People
      BY <1>3, ActingSession DEF LeaveOrganisation, IInv
    <2>2. PICK p, u : p = session[s].person /\ u = session[s].org
      OBVIOUS
    <2>3. ~WouldStrand(p, u)
      BY <1>3, <2>2 DEF LeaveOrganisation
    <2>4. Spared(p, u, "off")
      <3>1. CASE Others(p, u, Roles) # {}
        <4>1. OwnsIt(p, u) => Others(p, u, {"owner"}) # {}
          BY <2>3, <3>1 DEF WouldStrand, OwnsIt
        <4> QED BY <4>1 DEF Spared, Others, OwnsIt
      <3>2. CASE Others(p, u, Roles) = {}
        <4>1. \A a \in People \ {p} : ~Active(a, u)
          BY <2>1, <2>2, <3>2 DEF Others, Active, IInv, TypeOK, MemberRows
        <4> QED BY <4>1 DEF Spared
      <3> QED BY <3>1, <3>2
    <2> QED BY <1>3, <2>1, <2>2, <2>4, ChangeRuns DEF LeaveOrganisation
  <1>4. ASSUME DeleteTenantUser(k, s, q, o) PROVE ChangesAgree' /\ StillRuns
    <2>1. OwnsIt(q, o) => Others(q, o, {"owner"}) # {}
      BY <1>4 DEF DeleteTenantUser, OwnsIt
    <2>2. Spared(q, o, "delete")
      BY <2>1 DEF Spared, Others, OwnsIt
    <2> QED BY <1>4, <2>2, ChangeRuns DEF DeleteTenantUser
  <1>5. ASSUME RevokeSuperuser(k, s, q, o) PROVE ChangesAgree' /\ StillRuns
    <2>1. Spared(q, o, "delete")
      BY <1>5 DEF RevokeSuperuser, OwnsIt, Spared
    <2> QED BY <1>5, <2>1, ChangeRuns DEF RevokeSuperuser
  <1> QED
    BY <1>1, <1>2, <1>3, <1>4, <1>5

(* The membership of p is q's: whoever it runs o for, it still does. *)
LEMMA HandedRuns ==
    ASSUME IInv, ChangesAgree, NEW p \in People, NEW q \in People, NEW o \in Orgs, Handing(p, q, o)
    PROVE  ChangesAgree' /\ StillRuns
  <1>1. /\ p # q /\ member[p][o] # None /\ member[q][o] = None
        /\ member' = [member EXCEPT ![q][o] = member[p][o], ![p][o] = None]
    BY DEF Handing, Handed
  <1>2. /\ member'[q][o] = member[p][o] /\ member'[p][o] = None
        /\ \A a \in People, u \in Orgs : ~(u = o /\ a \in {p, q}) => member'[a][u] = member[a][u]
    <2> DEFINE first == [member EXCEPT ![q][o] = member[p][o]]
    <2>1. first \in [People -> [Orgs -> MemberRows \cup {None}]] /\ first[q][o] = member[p][o]
          /\ \A a \in People, u \in Orgs : ~(a = q /\ u = o) => first[a][u] = member[a][u]
      BY DEF IInv, TypeOK
    <2>2. member' = [first EXCEPT ![p][o] = None]
      BY <1>1, <2>1
    <2> HIDE DEF first
    <2>3. member'[p][o] = None /\ \A a \in People, u \in Orgs : ~(a = p /\ u = o) => member'[a][u] = first[a][u]
      BY <2>1, <2>2
    <2>4. member'[q][o] = member[p][o]
      BY <1>1, <2>1, <2>3
    <2>5. ASSUME NEW a \in People, NEW u \in Orgs, ~(u = o /\ a \in {p, q})
          PROVE  member'[a][u] = member[a][u]
      <3>1. ~(a = q /\ u = o) /\ ~(a = p /\ u = o)
        BY <2>5
      <3> QED BY <3>1, <2>1, <2>3
    <2> QED BY <2>3, <2>4, <2>5
  <1>3. ASSUME NEW a \in People
        PROVE  /\ OwnsIt(a, o)' <=> (a = q /\ OwnsIt(p, o)) \/ (a # p /\ OwnsIt(a, o))
               /\ Platform(a, o)' <=> (a = q /\ Platform(p, o)) \/ (a # p /\ Platform(a, o))
               /\ Active(a, o)' <=> (a = q /\ Active(p, o)) \/ (a # p /\ Active(a, o))
    BY <1>1, <1>2 DEF OwnsIt, Platform, Active
  <1>4. \A u \in Orgs : u # o => Steady(u)
    BY <1>2 DEF Steady
  <1>5. ASSUME NEW change, Spared(p, o, change) PROVE Spared(q, o, change)'
    BY <1>1, <1>3, <1>5 DEF Spared, OwnsIt, Platform, Active
  <1>6. ASSUME NEW change, NEW a \in People, a # p, a # q, Spared(a, o, change) PROVE Spared(a, o, change)'
    <2>1. ASSUME NEW b \in People \ {a}, OwnsIt(b, o) \/ Platform(b, o)
          PROVE  \E c \in People \ {a} : OwnsIt(c, o)' \/ Platform(c, o)'
      BY <1>3, <1>6, <2>1
    <2>2. (\A b \in People \ {a} : ~Active(b, o)) => \A b \in People \ {a} : ~Active(b, o)'
      BY <1>3, <1>6
    <2>3. OwnsIt(a, o)' <=> OwnsIt(a, o)
      BY <1>3, <1>6
    <2>4. OwnsIt(a, o) => \/ \E c \in People \ {a} : OwnsIt(c, o)' \/ Platform(c, o)'
                          \/ change = "off" /\ \A b \in People \ {a} : ~Active(b, o)'
      BY <1>6, <2>1, <2>2 DEF Spared
    <2> QED BY <2>3, <2>4 DEF Spared
  <1>7. RunsStill(o)
    <2> SUFFICES ASSUME NEW a \in People, OwnsIt(a, o) PROVE \E b \in People : OwnsIt(b, o)'
      BY DEF RunsStill
    <2> QED BY <1>3
  <1>8. ASSUME NEW u \in Orgs PROVE <<None, u, "members">> \in overlapped => <<None, u, "members">> \in overlapped'
    <2>1. Following(<<None, u, "members">>, p, q, o) = <<None, u, "members">>
      BY NoneIsNothing DEF Following
    <2> QED BY <2>1 DEF Handing, Handed
  <1>9. ASSUME NEW k \in Desks, desk'[k].step = "member"
        PROVE  /\ desk[k].step = "member" /\ desk'[k].org = desk[k].org /\ desk'[k].change = desk[k].change
               /\ desk'[k].about = desk[k].about
               /\ desk[k].org = o /\ desk[k].person = p => desk'[k].person = q
               /\ ~(desk[k].org = o /\ desk[k].person = p) => desk'[k].person = desk[k].person
               /\ ~(desk[k].org = o /\ desk[k].person = q)
    <2>1. desk[k].step = "member"
      BY <1>9, RequestsFollow DEF IInv
    <2>2. desk[k].about = <<None, desk[k].org, "members">>
      BY <2>1 DEF ChangesAgree, ChangeFits
    <2>3. Following(desk[k].about, p, q, o) = desk[k].about
      BY <2>2, NoneIsNothing DEF Following
    <2> QED BY <2>1, <2>3, RequestsFollow DEF IInv, OnMember
  <1>10. ASSUME NEW k \in Desks, desk'[k].step = "member" PROVE ChangeFits(k)'
    <2>1. PICK a, u, change, about : a = desk[k].person /\ u = desk[k].org /\ change = desk[k].change /\ about = desk[k].about
      OBVIOUS
    <2>2. a \in People /\ u \in Orgs /\ desk[k].step = "member"
      BY <1>9, <1>10, <2>1, ChangeShape DEF IInv
    <2>3. /\ about = <<None, u, "members">>
          /\ about \notin overlapped =>
               /\ \A j \in Desks \ {k} : desk[j].step = "member" => desk[j].org # u
               /\ change \notin {"on", "access", "owner"} => Spared(a, u, change)
      BY <2>1, <2>2 DEF ChangesAgree, ChangeFits
    <2>4. PICK b : b = desk'[k].person
      OBVIOUS
    <2>5. desk'[k].org = u /\ desk'[k].change = change /\ desk'[k].about = about
          /\ (b = IF u = o /\ a = p THEN q ELSE a) /\ ~(u = o /\ a = q)
      BY <1>9, <1>10, <2>1, <2>4
    <2>6. about \notin overlapped' => about \notin overlapped
      BY <1>8, <2>2, <2>3
    <2>7. about \notin overlapped' => \A j \in Desks \ {k} : desk'[j].step = "member" => desk'[j].org # u
      BY <1>9, <2>3, <2>6
    <2>8. Spared(a, u, change) => Spared(b, u, change)'
      <3>1. CASE u = o
        BY <1>5, <1>6, <2>2, <2>5, <3>1
      <3>2. CASE u # o
        BY <1>4, <2>2, <2>5, <3>2, SparedSteady
      <3> QED BY <3>1, <3>2
    <2> QED BY <2>3, <2>4, <2>5, <2>6, <2>7, <2>8 DEF ChangeFits, Spared, OwnsIt, Platform, Active
  <1> QED
    BY <1>4, <1>7, <1>10, OwnersRun DEF ChangesAgree, StillRuns

LEMMA ManagingRuns ==
    ASSUME IInv, ChangesAgree, Managing
    PROVE  ChangesAgree' /\ StillRuns
  <1>1. PICK s \in Sessions, q \in People :
           \/ \E role \in Offered, found \in BOOLEAN : InviteUser(s, q, role, found)
           \/ \E p \in People : AttachSulikoAccount(s, q, p)
           \/ ResetUserMfa(s, q)
           \/ \E k \in Desks : ResendInvitation(k, s, q)
           \/ \E k \in Desks : DeleteUser(k, s, q) \/ \E do \in Offered \cup {"on", "off", "access"} : UpdateUser(k, s, q, do)
    BY DEF Managing, Held
  <1>2. ASSUME NEW role \in Offered, NEW found \in BOOLEAN, InviteUser(s, q, role, found) PROVE ChangesAgree' /\ StillRuns
    <2> DEFINE row == NewMember(role, TRUE, session[s].person)
    <2>1. PICK o \in Orgs : o = session[s].org
      BY <1>2, ActingSession DEF InviteUser, IInv
    <2>2. /\ member' = [member EXCEPT ![q][o] = row] /\ member[q][o] = None /\ desk' = desk
          /\ Overlap(<<None, o, "members">>)
      BY <1>2, <2>1 DEF InviteUser
    <2>3. row \in MemberRows
      <3>1. session[s].person \in People
        BY <1>2, ActingSession DEF InviteUser, IInv
      <3> QED BY <3>1, NewMemberIsOne, AccountsAssumptions
    <2> HIDE DEF row
    <2>4. NoNewChange
      BY <2>2 DEF NoNewChange
    <2>5. /\ overlapped \subseteq overlapped'
          /\ <<None, o, "members">> \in overlapped' \/ \A k \in Desks : desk'[k].step = "member" => desk'[k].org # o
      BY <2>2, TellsAll
    <2> QED BY <2>2, <2>3, <2>4, <2>5, OneMore
  <1>3. ASSUME NEW p \in People, AttachSulikoAccount(s, q, p) PROVE ChangesAgree' /\ StillRuns
    <2>1. session[s].org \in Orgs
      BY <1>3, ActingSession DEF AttachSulikoAccount, IInv
    <2>2. CASE p = q
      <3>1. desk' = desk /\ member' = member /\ overlapped' = overlapped
        BY <1>3, <2>2 DEF AttachSulikoAccount
      <3> QED BY <3>1, MembersUntouched DEF NoNewChange
    <2>3. CASE p # q
      <3>1. Handing(q, p, session[s].org)
        BY <1>3, <2>3 DEF AttachSulikoAccount, Handing, NeedsRegistration, Claimed
      <3> QED BY <2>1, <3>1, HandedRuns
    <2> QED BY <2>2, <2>3
  <1>4. ASSUME ResetUserMfa(s, q) PROVE ChangesAgree' /\ StillRuns
    <2>1. NoNewChange
      BY <1>4, DesksCalm, NoNewChangeCalm DEF ResetUserMfa, IInv
    <2>2. member' = member /\ overlapped' = overlapped
      BY <1>4 DEF ResetUserMfa
    <2> QED BY <2>1, <2>2, MembersUntouched
  <1>5. ASSUME NEW k \in Desks, ResendInvitation(k, s, q) PROVE ChangesAgree' /\ StillRuns
    BY <1>5, IssueRuns DEF ResendInvitation
  <1>6. CASE \E k \in Desks : DeleteUser(k, s, q) \/ \E do \in Offered \cup {"on", "off", "access"} : UpdateUser(k, s, q, do)
    <2>1. session[s].org \in Orgs
      BY <1>6, ActingSession DEF DeleteUser, UpdateUser, IInv
    <2> QED BY <1>6, <2>1, TakingRuns
  <1> QED
    BY <1>1, <1>2, <1>3, <1>4, <1>5, <1>6

(* Whoever is made a superuser of the platform's organisation runs it from then on. *)
LEMMA GrantRuns ==
    ASSUME IInv, ChangesAgree, NEW s \in Sessions, NEW q \in People, GrantSuperuser(s, q)
    PROVE  ChangesAgree' /\ StillRuns
  <1>1. PICK o \in Orgs : o = session[s].org
    BY ActingSession DEF GrantSuperuser, IInv
  <1>2. overlapped' = overlapped /\ \E kills : desk' = RetiredDesks(kills)
    BY DEF GrantSuperuser
  <1>3. NoNewChange
    BY <1>2, DesksCalm, NoNewChangeCalm DEF IInv
  <1>4. CASE member' = member
    BY <1>2, <1>3, <1>4, MembersUntouched
  <1>5. CASE member' # member
    <2> DEFINE row == NewMember("superuser", FALSE, IF member[q][o] = None THEN None ELSE member[q][o].by)
    <2>1. member' = [member EXCEPT ![q][o] = row]
      BY <1>1, <1>5 DEF GrantSuperuser
    <2>2. row.role = "superuser" /\ row \in MemberRows
      <3>1. (IF member[q][o] = None THEN None ELSE member[q][o].by) \in People \cup {None}
        BY DEF IInv, TypeOK, MemberRows
      <3>2. row.role = "superuser"
        BY DEF NewMember
      <3> QED BY <3>1, <3>2, NewMemberIsOne DEF Roles
    <2> HIDE DEF row
    <2>3. member'[q][o] = row /\ row # None
      BY <2>1, <2>2, NoneIsNothing DEF IInv, TypeOK
    <2>4. \A p \in People, u \in Orgs : ~(p = q /\ u = o) => member'[p][u] = member[p][u]
      BY <2>1, <2>2, MemberWritten DEF IInv
    <2>5. Platform(q, o)' /\ ~OwnsIt(q, o)'
      BY <2>2, <2>3 DEF Platform, OwnsIt
    <2>6. SparesStay(o)
      BY <2>5 DEF SparesStay, Spared
    <2>7. RunsStill(o)
      BY <2>5 DEF RunsStill, Platform
    <2>8. \A u \in Orgs : u # o => Steady(u)
      BY <2>4 DEF Steady
    <2> QED BY <1>2, <1>3, <2>6, <2>7, <2>8, ChangesStay, OwnersRun DEF StillRuns, IInv
  <1> QED
    BY <1>4, <1>5

LEMMA OperatingRuns ==
    ASSUME IInv, ChangesAgree, Operating
    PROVE  ChangesAgree' /\ StillRuns
  <1>1. PICK s \in Sessions :
           \/ \E o \in Orgs : SetTenantStatus(s, o)
           \/ \E q \in People : GrantSuperuser(s, q)
           \/ \E q \in People, o \in Orgs :
                 \/ \E role \in Offered : CreateTenantUser(s, q, o, role)
                 \/ \E k \in Desks : DeleteTenantUser(k, s, q, o) \/ RevokeSuperuser(k, s, q, o)
    BY DEF Operating, Held
  <1>2. ASSUME NEW o \in Orgs, SetTenantStatus(s, o) PROVE ChangesAgree' /\ StillRuns
    <2>1. desk' = desk /\ member' = member /\ overlapped' = overlapped
      BY <1>2 DEF SetTenantStatus
    <2> QED BY <2>1, MembersUntouched DEF NoNewChange
  <1>3. ASSUME NEW q \in People, NEW o \in Orgs, NEW role \in Offered, CreateTenantUser(s, q, o, role)
        PROVE  ChangesAgree' /\ StillRuns
    <2> DEFINE row == NewMember(role, FALSE, None)
    <2>1. /\ member' = [member EXCEPT ![q][o] = row] /\ member[q][o] = None /\ desk' = desk
          /\ Overlap(<<None, o, "members">>)
      BY <1>3 DEF CreateTenantUser
    <2>2. row \in MemberRows
      BY NewMemberIsOne, AccountsAssumptions
    <2> HIDE DEF row
    <2>3. NoNewChange
      BY <2>1 DEF NoNewChange
    <2>4. /\ overlapped \subseteq overlapped'
          /\ <<None, o, "members">> \in overlapped' \/ \A k \in Desks : desk'[k].step = "member" => desk'[k].org # o
      BY <2>1, TellsAll
    <2> QED BY <2>1, <2>2, <2>3, <2>4, OneMore
  <1> QED
    BY <1>1, <1>2, <1>3, GrantRuns, TakingRuns

LEMMA NextRuns ==
    ASSUME IInv, ChangesAgree, [Next]_vars
    PROVE  ChangesAgree' /\ StillRuns
  <1>1. CASE vars' = vars
    BY <1>1, MembersUntouched DEF vars, NoNewChange
  <1>2. CASE Finishing
    BY <1>2, ResolvedRuns, CommitRuns DEF Finishing
  <1>3. CASE Leaving
    <2>1. PICK k \in Desks, s \in Sessions : LeaveOrganisation(k, s)
      BY <1>3 DEF Leaving, Held
    <2>2. session[s].person \in People /\ session[s].org \in Orgs
      BY <2>1, ActingSession DEF LeaveOrganisation, IInv
    <2> QED BY <2>1, <2>2, TakingRuns
  <1> QED
    BY <1>1, <1>2, <1>3, EnteringRuns, ProvingRuns, ManagingRuns, OperatingRuns DEF Next

(***************************************************************************)
(* No step takes the last active owner from an organisation other people   *)
(* still use, for any number of owners, forms and requests under way: of   *)
(* two changes at once the later is marked, and a change alone finds at    *)
(* its commit what it found at its check.                                  *)
(***************************************************************************)
THEOREM SomeoneRunsItHolds == Spec => SomeoneRunsIt
  <1>1. Init => ChangesAgree
    <2> SUFFICES ASSUME Init, NEW k \in Desks, desk[k].step = "member" PROVE FALSE
      BY DEF ChangesAgree
    <2> QED BY DEF Init, Idle
  <1>2. IInv /\ ChangesAgree /\ [Next]_vars => ChangesAgree'
    BY NextRuns
  <1>3. IInv /\ ChangesAgree /\ [Next]_vars =>
          [\A o \in Orgs :
            (\E p \in People : OwnsIt(p, o)) /\ (\E p \in People : member'[p][o] # None /\ member'[p][o].active)
              => \/ <<None, o, "members">> \in overlapped'
                 \/ \E p \in People : OwnsIt(p, o)' \/ (member'[p][o] # None /\ member'[p][o].role = "superuser")]_vars
    BY NextRuns DEF StillRuns, RunsStill
  <1> QED
    BY <1>1, <1>2, <1>3, Invariance, PTL DEF Spec, SomeoneRunsIt
=============================================================================
