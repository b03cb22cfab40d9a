------------------------------ MODULE FeedProofs ------------------------------
(***************************************************************************)
(* What holds of an organisation's access, bills and bell for any number   *)
(* of people, accounts, months, notes and requests under way.              *)
(*                                                                         *)
(* A request commits on what it read.  `Relies` says what that was and     *)
(* that it still is, unless two requests about the same person or month    *)
(* ran at once; `Apart`, that two such are known.                          *)
(***************************************************************************)
EXTENDS Feed, FiniteSetTheorems, SequenceTheorems, WellFoundedInduction, TLAPS

-----------------------------------------------------------------------------
(* The tables and the requests. *)

Counts   == [counted : Nat, cancelled : Nat]
Invoices == [tier : TIERS, included : Nat \ {0}, counted : Nat, fee : Nat \ {0},
             status : STATUSES, sent : BOOLEAN, paid : BOOLEAN]
Notices  == [kind : {"order_created", "payment", "mention", "comment"}, about : Nat, read : BOOLEAN]

Changes == [step : {"invite", "update"}, about : People, person : People, held : SUBSET Permission,
            role : Role, changed : BOOLEAN, override : OverrideShape \cup {None}]
Rooms   == [step : {"order"}, about : {"room"} \X Accounts, account : Accounts]
Waivers == [step : {"free"}, about : {"month"} \X Months, account : Accounts, month : Months, free : BOOLEAN]
Bundles == [step : {"prepare"}, about : {"month"} \X Months, month : Months,
            made : UNION {[S -> Invoices] : S \in SUBSET Accounts}]

Requests == Changes \cup Rooms \cup Waivers \cup Bundles

PeopleTyped ==
    /\ plan \in [Accounts -> {"freelancer", "bureau"}]
    /\ role \in [People -> Role \cup {None}]
    /\ active \in [People -> BOOLEAN]
    /\ override \in [People -> OverrideShape]

BillsTyped ==
    /\ package \in [AUDIENCES -> [TIERS -> PackageShape]]
    /\ tier \in [Accounts -> TIERS]
    /\ month \in [Accounts -> Months]
    /\ orders \in [Accounts -> [Months -> Counts]]
    /\ free \in [Accounts -> SUBSET Months]
    /\ invoice \in [Accounts -> [Months -> Invoices \cup {None}]]

BellTyped ==
    /\ comment \in [Comments -> NoteShape \cup {None}]
    /\ feed \in [People -> Seq(Notices)]

Typed == PeopleTyped /\ BillsTyped /\ BellTyped /\ desk \in [Desks -> Requests \cup {Idle}]

-----------------------------------------------------------------------------
(* A note is about in a bell at most once, and never in its author's or before it is there. *)
Bells ==
    \A u \in People, c \in Comments :
        LET rings(i) == i \in DOMAIN feed[u] /\ feed[u][i].about = c
        IN  /\ \A i, j \in DOMAIN feed[u] : rings(i) /\ rings(j) => i = j
            /\ (\E i \in DOMAIN feed[u] : rings(i)) => comment[c] # None /\ comment[c].author # u

(* What its person may do once a request is committed. *)
After(tx) == EffectivePermissions(tx.role, plan[Home], IF tx.override = None THEN override[tx.person] ELSE tx.override)

(* It gives only what its editor holds, and takes only that, or with the role. *)
Fair(tx) ==
    /\ role[tx.person] # None
    /\ After(tx) \ Eff(tx.person) \subseteq tx.held
    /\ ~tx.changed => tx.role = role[tx.person] /\ Eff(tx.person) \ After(tx) \subseteq tx.held

Relies(tx) ==
    /\ tx.step \in {"invite", "update"} => tx.about = tx.person
    /\ tx.step = "invite" => tx.changed /\ tx.override # None /\ After(tx) \subseteq tx.held
    /\ tx.step = "update" => tx.person \in overlapped \/ Fair(tx)
    /\ tx.step = "free" => /\ tx.about = <<"month", tx.month>>
                           /\ tx.free => tx.about \in overlapped \/ invoice[tx.account][tx.month] = None
    /\ tx.step = "prepare" => /\ tx.about = <<"month", tx.month>>
                              /\ \A a \in DOMAIN tx.made : /\ tx.month < month[a]
                                                           /\ tx.about \in overlapped \/ tx.month \notin free[a]

Apart ==
    \A j, k \in Desks :
        j # k /\ desk[j] # Idle /\ desk[k] # Idle /\ desk[j].about = desk[k].about => desk[k].about \in overlapped

IInv ==
    /\ Typed /\ plan[Home] = "bureau"
    /\ BillsWhatIsDue /\ Bells /\ Apart
    /\ \A k \in Desks : desk[k] # Idle => Relies(desk[k])

-----------------------------------------------------------------------------
(* Permissions. *)

LEMMA RolePermissions ==
    ASSUME NEW r \in Role
    PROVE  PermissionsForRole(r) \subseteq Permission
  BY DEF PermissionsForRole, Permission

(* On the bureau plan: what the role and the overrides give, and inviting with managing. *)
LEMMA OnBureau ==
    ASSUME NEW r \in Role, NEW o \in OverrideShape
    PROVE  LET granted == (PermissionsForRole(r) \cup o.give) \ o.take
               all     == EffectivePermissions(r, "bureau", o)
           IN  /\ all = granted \cup (IF "users.manage" \in granted THEN {"users.invite"} ELSE {})
               /\ all \subseteq Permission
               /\ "users.manage" \in all => "users.invite" \in all
  <1> DEFINE granted == (PermissionsForRole(r) \cup o.give) \ o.take
             implied == IF "users.manage" \in granted THEN {"users.invite"} ELSE {}
  <1>1. granted \subseteq Permission
    BY RolePermissions DEF OverrideShape
  <1>2. "users.invite" \in Permission /\ "users.manage" \in Permission
    BY DEF Permission
  <1>3. PermissionsForPlan("bureau") = Permission
    BY DEF PermissionsForPlan
  <1>4. EffectivePermissions(r, "bureau", o) = (granted \cup implied) \cap Permission
    BY <1>3 DEF EffectivePermissions
  <1>5. implied \subseteq Permission /\ "users.manage" \notin implied
    BY <1>2
  <1> HIDE DEF granted
  <1>6. (granted \cup implied) \cap Permission = granted \cup implied
    BY <1>1, <1>5
  <1> QED
    BY <1>1, <1>4, <1>5, <1>6 DEF granted

(* What is stored for a set of boxes gives back these boxes. *)
LEMMA BoxesComeBack ==
    ASSUME NEW r \in Role, NEW S \in SUBSET Permission
    PROVE  /\ WrittenOverrides(r, "bureau", S) \in OverrideShape
           /\ EffectivePermissions(r, "bureau", WrittenOverrides(r, "bureau", S))
                = S \cup (IF "users.manage" \in S THEN {"users.invite"} ELSE {})
  <1> DEFINE P == PermissionsForRole(r)
  <1>1. P \subseteq Permission /\ PermissionsForPlan("bureau") = Permission
    BY RolePermissions DEF PermissionsForPlan
  <1>2. PICK w : w = [give |-> S \ P, take |-> P \ S]
    OBVIOUS
  <1>3. WrittenOverrides(r, "bureau", S) = w
    <2>1. P \cap Permission = P
      BY <1>1
    <2> QED BY <1>1, <1>2, <2>1 DEF WrittenOverrides
  <1>4. w \in OverrideShape /\ w.give = S \ P /\ w.take = P \ S
    BY <1>1, <1>2 DEF OverrideShape
  <1>5. (P \cup w.give) \ w.take = S
    BY <1>4
  <1> QED
    BY <1>3, <1>4, <1>5, OnBureau

LEMMA MayIs ==
    ASSUME Typed, plan[Home] = "bureau", NEW e \in People
    PROVE  /\ May(e) \subseteq Permission /\ Eff(e) \subseteq Permission
           /\ "users.manage" \in May(e) => "users.invite" \in May(e)
  <1>1. role[e] \in Role \cup {None} /\ override[e] \in OverrideShape
    BY DEF Typed, PeopleTyped
  <1>2. CASE role[e] = None
    BY <1>2 DEF May, Eff
  <1>3. CASE role[e] # None
    <2>1. role[e] \in Role
      BY <1>1, <1>3
    <2> QED BY <1>1, <2>1, OnBureau DEF May, Eff
  <1> QED
    BY <1>2, <1>3

-----------------------------------------------------------------------------
(* What the steps of others leave of what a request relies on. *)

(* One that is about something else, or is known to be about the same, still relies on it. *)
LEMMA RelyStays ==
    ASSUME NEW tx, tx \in Requests, Relies(tx), NEW B, tx.about \in B => tx.about \in overlapped',
           overlapped \subseteq overlapped', plan'[Home] = plan[Home],
           \A p \in People : p \in B \/ (role'[p] = role[p] /\ override'[p] = override[p]),
           \A a \in Accounts, m \in Months :
               \/ <<"month", m>> \in B
               \/ (invoice[a][m] = None => invoice'[a][m] = None) /\ (m \in free'[a] => m \in free[a]),
           \A a \in Accounts : month[a] \in Int /\ month'[a] \in Int /\ month[a] <= month'[a],
           tx.step = "invite" => tx.override # None
    PROVE  Relies(tx)'
  <1>1. CASE tx \in Changes
    <2>1. tx.person \in People /\ tx.about = tx.person /\ tx.step \in {"invite", "update"}
      BY <1>1 DEF Changes, Relies
    <2>2. tx.step = "invite" => After(tx)' = After(tx)
      BY DEF After
    <2>3. CASE tx.person \in B
      BY <2>1, <2>2, <2>3 DEF Relies
    <2>4. CASE tx.person \notin B
      <3>1. role'[tx.person] = role[tx.person] /\ override'[tx.person] = override[tx.person]
        BY <2>1, <2>4
      <3>2. After(tx)' = After(tx) /\ Eff(tx.person)' = Eff(tx.person)
        BY <3>1 DEF After, Eff
      <3>3. Fair(tx) => Fair(tx)'
        BY <3>1, <3>2 DEF Fair
      <3> QED BY <2>1, <3>2, <3>3 DEF Relies
    <2> QED BY <2>3, <2>4
  <1>2. CASE tx \in Rooms
    BY <1>2 DEF Rooms, Relies
  <1>3. CASE tx \in Waivers
    <2>1. tx.step = "free" /\ tx.account \in Accounts /\ tx.month \in Months /\ tx.about = <<"month", tx.month>>
      BY <1>3 DEF Waivers, Relies
    <2>2. tx.free => tx.about \in overlapped \/ invoice[tx.account][tx.month] = None
      BY <2>1 DEF Relies
    <2>3. tx.free => tx.about \in overlapped' \/ invoice'[tx.account][tx.month] = None
      <3>1. PICK a \in Accounts, m \in Months : a = tx.account /\ m = tx.month
        BY <2>1
      <3>2. tx.about \in B \/ (invoice[a][m] = None => invoice'[a][m] = None)
        BY <2>1, <3>1
      <3> QED BY <2>2, <3>1, <3>2
    <2> QED BY <2>1, <2>3 DEF Relies
  <1>4. CASE tx \in Bundles
    <2>1. tx.step = "prepare" /\ tx.month \in Months /\ tx.about = <<"month", tx.month>> /\ DOMAIN tx.made \subseteq Accounts
      BY <1>4 DEF Bundles, Relies
    <2>2. ASSUME NEW a \in DOMAIN tx.made
          PROVE  tx.month < month'[a] /\ (tx.about \in overlapped' \/ tx.month \notin free'[a])
      <3>1. a \in Accounts /\ tx.month < month[a] /\ (tx.about \in overlapped \/ tx.month \notin free[a])
        BY <2>1, <2>2 DEF Relies
      <3>2. PICK m \in Months : m = tx.month
        BY <2>1
      <3>3. tx.about \in B \/ (m \in free'[a] => m \in free[a])
        BY <2>1, <3>1, <3>2
      <3>4. m < month'[a]
        BY <3>1, <3>2 DEF Months
      <3> QED BY <3>1, <3>2, <3>3, <3>4
    <2> QED BY <2>1, <2>2 DEF Relies
  <1> QED
    BY <1>1, <1>2, <1>3, <1>4 DEF Requests

LEMMA StepNames ==
    ASSUME NEW tx \in Requests
    PROVE  /\ tx # Idle
           /\ tx.step \in {"invite", "update"} => tx \in Changes
           /\ tx.step = "order" => tx \in Rooms
           /\ tx.step = "free" => tx \in Waivers
           /\ tx.step = "prepare" => tx \in Bundles
  BY DEF Requests, Changes, Rooms, Waivers, Bundles, Idle

LEMMA IdleStep == Idle.step = "idle" /\ Idle \notin Requests
  BY StepNames DEF Idle

LEMMA BeginKeeps ==
    ASSUME IInv, NEW k \in Desks, NEW tx \in Requests, Relies(tx), Overlap(tx.about),
           desk' = [desk EXCEPT ![k] = tx], UNCHANGED <<accessVars, billingVars, feedVars>>
    PROVE  IInv'
  <1>1. /\ plan' = plan /\ role' = role /\ active' = active /\ override' = override
        /\ package' = package /\ tier' = tier /\ month' = month /\ orders' = orders /\ free' = free
        /\ invoice' = invoice /\ comment' = comment /\ feed' = feed
    BY DEF accessVars, billingVars, feedVars
  <1>2. /\ desk' \in [Desks -> Requests \cup {Idle}] /\ desk'[k] = tx
        /\ \A j \in Desks \ {k} : desk'[j] = desk[j]
    BY DEF IInv, Typed
  <1>3. /\ overlapped \subseteq overlapped'
        /\ \A j \in Desks : desk[j] # Idle /\ desk[j].about = tx.about => tx.about \in overlapped'
    BY DEF Overlap
  <1>4. Typed' /\ plan'[Home] = "bureau"
    BY <1>1, <1>2 DEF IInv, Typed, PeopleTyped, BillsTyped, BellTyped
  <1>5. BillsWhatIsDue'
    BY <1>1, <1>3 DEF IInv, BillsWhatIsDue
  <1>6. Bells'
    BY <1>1 DEF IInv, Bells
  <1>7. Apart'
    BY <1>2, <1>3 DEF IInv, Apart
  <1>8. \A a \in Accounts : month[a] \in Int /\ month'[a] \in Int /\ month[a] <= month'[a]
    BY <1>1 DEF IInv, Typed, BillsTyped, Months
  <1>9. ASSUME NEW u, u \in Requests, Relies(u) PROVE Relies(u)'
    <2>1. u.step = "invite" => u.override # None
      BY <1>9 DEF Relies
    <2> QED BY <1>1, <1>3, <1>8, <1>9, <2>1, RelyStays
  <1>10. ASSUME NEW j \in Desks, desk'[j] # Idle PROVE Relies(desk[j])'
    <2>1. PICK u : u = desk'[j]
      OBVIOUS
    <2>2. u \in Requests /\ Relies(u)
      BY <1>2, <1>10, <2>1 DEF IInv
    <2> QED BY <1>9, <2>1, <2>2 DEF Relies, After, Fair, Eff
  <1> QED
    BY <1>4, <1>5, <1>6, <1>7, <1>10 DEF IInv

(* A request that ends, or a step of no request (B is empty): it changes only what it is about. *)
LEMMA StepKeeps ==
    ASSUME IInv, NEW B, overlapped' = overlapped, desk' \in [Desks -> Requests \cup {Idle}],
           \A j \in Desks : \/ desk'[j] = Idle
                            \/ desk'[j] = desk[j] /\ (desk[j] # Idle /\ desk[j].about \in B => desk[j].about \in overlapped),
           PeopleTyped', BillsTyped', BellTyped', BillsWhatIsDue', Bells', plan'[Home] = plan[Home],
           \A p \in People : p \in B \/ (role'[p] = role[p] /\ override'[p] = override[p]),
           \A a \in Accounts, m \in Months :
               \/ <<"month", m>> \in B
               \/ (invoice[a][m] = None => invoice'[a][m] = None) /\ (m \in free'[a] => m \in free[a]),
           \A a \in Accounts : month[a] <= month'[a]
    PROVE  IInv'
  <1>1. Typed' /\ plan'[Home] = "bureau"
    BY DEF IInv, Typed
  <1>2. Apart'
    BY DEF IInv, Apart
  <1>3. \A a \in Accounts : month[a] \in Int /\ month'[a] \in Int
    BY DEF IInv, Typed, BillsTyped, Months
  <1>4. ASSUME NEW j \in Desks, desk'[j] # Idle PROVE Relies(desk[j])'
    <2>1. PICK u : u = desk[j]
      OBVIOUS
    <2>2. desk'[j] = u /\ u \in Requests /\ Relies(u) /\ (u.about \in B => u.about \in overlapped)
      BY <1>4, <2>1 DEF IInv, Typed
    <2>3. u.step = "invite" => u.override # None
      BY <2>2 DEF Relies
    <2>4. Relies(u)'
      BY <1>3, <2>2, <2>3, RelyStays
    <2> QED BY <2>2, <2>4 DEF Relies, After, Fair, Eff
  <1> QED
    BY <1>1, <1>2, <1>4 DEF IInv

(* Those that are about what desk k is about are known. *)
LEMMA OthersKnown ==
    ASSUME IInv, NEW k \in Desks, NEW tx \in Requests, desk[k] = tx, desk' = [desk EXCEPT ![k] = Idle]
    PROVE  /\ desk' \in [Desks -> Requests \cup {Idle}] /\ desk'[k] = Idle
           /\ \A j \in Desks : \/ desk'[j] = Idle
                               \/ /\ desk'[j] = desk[j]
                                  /\ desk[j] # Idle /\ desk[j].about \in {tx.about} => desk[j].about \in overlapped
  <1>1. desk' \in [Desks -> Requests \cup {Idle}] /\ desk'[k] = Idle /\ \A j \in Desks \ {k} : desk'[j] = desk[j]
    BY DEF IInv, Typed
  <1>2. tx # Idle
    BY StepNames
  <1> QED
    BY <1>1, <1>2 DEF IInv, Apart

LEMMA DesksSame ==
    ASSUME IInv, desk' = desk
    PROVE  /\ desk' \in [Desks -> Requests \cup {Idle}]
           /\ \A j \in Desks : \/ desk'[j] = Idle
                               \/ /\ desk'[j] = desk[j]
                                  /\ desk[j] # Idle /\ desk[j].about \in {} => desk[j].about \in overlapped
  BY DEF IInv, Typed

-----------------------------------------------------------------------------
(* Access. *)

LEMMA InviteUserKeeps ==
    ASSUME IInv, NEW k \in Desks, NEW e \in People, NEW q \in People, NEW r \in Offered, NEW boxes \in Forms \cup {None},
           InviteUser(k, e, q, r, boxes), UNCHANGED <<billingVars, feedVars>>
    PROVE  IInv'
  <1>1. PICK requested : requested = IF boxes = None THEN PermissionsForRole(r) \cap PermissionsForPlan(plan[Home]) ELSE boxes
    OBVIOUS
  <1>2. r \in Role /\ plan[Home] = "bureau" /\ Typed
    BY AccessAssumptions DEF IInv
  <1>3. requested \in SUBSET Permission
    <2>1. PermissionsForRole(r) \subseteq Permission
      BY <1>2, RolePermissions
    <2> QED BY <1>1, <2>1, AccessAssumptions
  <1>4. PICK w : w = WrittenOverrides(r, "bureau", requested)
    OBVIOUS
  <1>5. w \in OverrideShape /\ w # None
        /\ EffectivePermissions(r, "bureau", w) = requested \cup (IF "users.manage" \in requested THEN {"users.invite"} ELSE {})
    BY <1>2, <1>3, <1>4, BoxesComeBack, AccessAssumptions
  <1>6. requested \subseteq May(e) /\ May(e) \subseteq Permission /\ ("users.manage" \in May(e) => "users.invite" \in May(e))
    BY <1>1, <1>2, MayIs DEF InviteUser
  <1>7. PICK tx : tx = [step |-> "invite", about |-> q, person |-> q, held |-> May(e), role |-> r, changed |-> TRUE,
                        override |-> w]
    OBVIOUS
  <1>8. tx \in Requests
    BY <1>2, <1>5, <1>6, <1>7 DEF Requests, Changes
  <1>9. Relies(tx)
    <2>1. After(tx) = EffectivePermissions(r, "bureau", w)
      BY <1>2, <1>5, <1>7 DEF After
    <2> QED BY <1>5, <1>6, <1>7, <2>1 DEF Relies
  <1>10. Overlap(tx.about) /\ desk' = [desk EXCEPT ![k] = tx] /\ UNCHANGED accessVars
    BY <1>1, <1>2, <1>4, <1>7 DEF InviteUser, Goto
  <1> QED
    BY <1>8, <1>9, <1>10, BeginKeeps

LEMMA UpdateUserKeeps ==
    ASSUME IInv, NEW k \in Desks, NEW e \in People, NEW q \in People, NEW r \in Offered, NEW boxes \in Forms \cup {None},
           UpdateUser(k, e, q, r, boxes), UNCHANGED <<billingVars, feedVars>>
    PROVE  IInv'
  <1>1. PICK held, current : held = May(e) /\ current = Eff(q)
    OBVIOUS
  <1>2. r \in Role /\ plan[Home] = "bureau" /\ Typed /\ role[q] # None /\ role[q] \in Role /\ override[q] \in OverrideShape
    BY AccessAssumptions DEF IInv, UpdateUser, Typed, PeopleTyped
  <1>3. held \subseteq Permission /\ current \subseteq Permission /\ "users.manage" \in held /\ "users.invite" \in held
    BY <1>1, <1>2, MayIs DEF UpdateUser
  <1>4. PICK w : w = IF boxes = None THEN None ELSE WrittenOverrides(r, "bureau", Settled(boxes, held, current))
    OBVIOUS
  <1>5. PICK tx : tx = [step |-> "update", about |-> q, person |-> q, held |-> held, role |-> r, changed |-> r # role[q],
                        override |-> w]
    OBVIOUS
  <1>6. /\ r # role[q] /\ boxes = None => (EffectivePermissions(r, "bureau", override[q]) \ current) \subseteq held
        /\ r # role[q] \/ boxes # None
        /\ boxes # None => (boxes \ current) \subseteq held
    BY <1>1, <1>2 DEF UpdateUser
  <1>7. CASE boxes = None
    <2>1. w = None /\ tx \in Requests
      BY <1>2, <1>3, <1>4, <1>5, <1>7 DEF Requests, Changes
    <2>2. After(tx) = EffectivePermissions(r, "bureau", override[q])
      BY <1>2, <1>5, <2>1 DEF After
    <2>3. Relies(tx)
      BY <1>1, <1>2, <1>5, <1>6, <1>7, <2>2 DEF Relies, Fair
    <2>4. Overlap(tx.about) /\ desk' = [desk EXCEPT ![k] = tx] /\ UNCHANGED accessVars
      BY <1>1, <1>2, <1>4, <1>5 DEF UpdateUser, Goto
    <2> QED BY <2>1, <2>3, <2>4, BeginKeeps
  <1>8. CASE boxes # None
    <2>1. PICK S : S = Settled(boxes, held, current)
      OBVIOUS
    <2>2. S \in SUBSET Permission /\ S \ current \subseteq held /\ current \ S \subseteq held
      BY <1>3, <1>6, <1>8, <2>1 DEF Settled
    <2>3. w \in OverrideShape /\ w # None
          /\ EffectivePermissions(r, "bureau", w) = S \cup (IF "users.manage" \in S THEN {"users.invite"} ELSE {})
      BY <1>2, <1>4, <1>8, <2>1, <2>2, BoxesComeBack, AccessAssumptions
    <2>4. tx \in Requests
      BY <1>2, <1>3, <1>5, <2>3 DEF Requests, Changes
    <2>5. After(tx) = S \cup (IF "users.manage" \in S THEN {"users.invite"} ELSE {})
      BY <1>2, <1>5, <2>3 DEF After
    <2>6. Relies(tx)
      BY <1>1, <1>2, <1>3, <1>5, <2>2, <2>5 DEF Relies, Fair
    <2>7. Overlap(tx.about) /\ desk' = [desk EXCEPT ![k] = tx] /\ UNCHANGED accessVars
      BY <1>1, <1>2, <1>4, <1>5 DEF UpdateUser, Goto
    <2> QED BY <2>4, <2>6, <2>7, BeginKeeps
  <1> QED
    BY <1>7, <1>8

LEMMA CommitAccessKeeps ==
    ASSUME IInv, NEW k \in Desks, CommitAccess(k), UNCHANGED <<billingVars, feedVars>>
    PROVE  IInv'
  <1>1. PICK tx \in Changes : tx = desk[k]
    BY StepNames, IdleStep DEF CommitAccess, IInv, Typed
  <1>2. PICK q \in People : q = tx.person /\ q = tx.about
    BY <1>1, StepNames DEF Changes, IInv, Relies, Requests
  <1>3. /\ role' = (IF tx.changed THEN [role EXCEPT ![q] = tx.role] ELSE role)
        /\ override' = IF tx.override = None THEN override ELSE [override EXCEPT ![q] = tx.override]
        /\ desk' = [desk EXCEPT ![k] = Idle] /\ plan' = plan /\ active' = active /\ overlapped' = overlapped
    BY <1>1, <1>2 DEF CommitAccess, Goto
  <1>4. /\ package' = package /\ tier' = tier /\ month' = month /\ orders' = orders /\ free' = free
        /\ invoice' = invoice /\ comment' = comment /\ feed' = feed
    BY DEF billingVars, feedVars
  <1>5. PeopleTyped' /\ \A p \in People : p \in {q} \/ (role'[p] = role[p] /\ override'[p] = override[p])
    <2>1. tx.role \in Role /\ tx.override \in OverrideShape \cup {None}
      BY DEF Changes
    <2> QED BY <1>3, <2>1 DEF IInv, Typed, PeopleTyped
  <1>6. BillsTyped' /\ BellTyped' /\ BillsWhatIsDue' /\ Bells'
    BY <1>3, <1>4 DEF IInv, Typed, BillsTyped, BellTyped, BillsWhatIsDue, Bells
  <1>7. \A a \in Accounts : month[a] <= month'[a]
    BY <1>4 DEF IInv, Typed, BillsTyped, Months
  <1>8. tx \in Requests
    BY DEF Requests
  <1>9. /\ desk' \in [Desks -> Requests \cup {Idle}]
        /\ \A j \in Desks : \/ desk'[j] = Idle
                            \/ /\ desk'[j] = desk[j]
                               /\ desk[j] # Idle /\ desk[j].about \in {q} => desk[j].about \in overlapped
    BY <1>1, <1>2, <1>3, <1>8, OthersKnown
  <1> QED
    BY <1>3, <1>4, <1>5, <1>6, <1>7, <1>9, StepKeeps

(* A request that is rolled back leaves the tables. *)
LEMMA RollBackKeeps ==
    ASSUME IInv, NEW k \in Desks, desk[k] # Idle, desk' = [desk EXCEPT ![k] = Idle], overlapped' = overlapped,
           UNCHANGED <<accessVars, billingVars, feedVars>>
    PROVE  IInv'
  <1>1. /\ plan' = plan /\ role' = role /\ active' = active /\ override' = override
        /\ package' = package /\ tier' = tier /\ month' = month /\ orders' = orders /\ free' = free
        /\ invoice' = invoice /\ comment' = comment /\ feed' = feed
    BY DEF accessVars, billingVars, feedVars
  <1>2. PICK tx \in Requests : tx = desk[k]
    BY DEF IInv, Typed
  <1>3. /\ desk' \in [Desks -> Requests \cup {Idle}]
        /\ \A j \in Desks : \/ desk'[j] = Idle
                            \/ /\ desk'[j] = desk[j]
                               /\ desk[j] # Idle /\ desk[j].about \in {tx.about} => desk[j].about \in overlapped
    BY <1>2, OthersKnown
  <1>4. PeopleTyped' /\ BillsTyped' /\ BellTyped' /\ BillsWhatIsDue' /\ Bells'
    BY <1>1 DEF IInv, Typed, PeopleTyped, BillsTyped, BellTyped, BillsWhatIsDue, Bells
  <1>5. \A a \in Accounts : month[a] <= month'[a]
    BY <1>1 DEF IInv, Typed, BillsTyped, Months
  <1> QED
    BY <1>1, <1>3, <1>4, <1>5, StepKeeps

LEMMA SetActiveKeeps ==
    ASSUME IInv, NEW e \in People, NEW q \in People, SetActive(e, q), UNCHANGED <<billingVars, feedVars>>
    PROVE  IInv'
  <1>1. /\ plan' = plan /\ role' = role /\ override' = override /\ desk' = desk /\ overlapped' = overlapped
        /\ package' = package /\ tier' = tier /\ month' = month /\ orders' = orders /\ free' = free
        /\ invoice' = invoice /\ comment' = comment /\ feed' = feed /\ active' = [active EXCEPT ![q] = ~@]
    BY DEF SetActive, billingVars, feedVars
  <1>2. active' \in [People -> BOOLEAN]
    BY <1>1 DEF IInv, Typed, PeopleTyped
  <1>3. PeopleTyped' /\ BillsTyped' /\ BellTyped' /\ BillsWhatIsDue' /\ Bells'
    BY <1>1, <1>2 DEF IInv, Typed, PeopleTyped, BillsTyped, BellTyped, BillsWhatIsDue, Bells
  <1>4. \A a \in Accounts : month[a] <= month'[a]
    BY <1>1 DEF IInv, Typed, BillsTyped, Months
  <1> QED
    BY <1>1, <1>3, <1>4, DesksSame, StepKeeps

LEMMA ChoosePlanKeeps ==
    ASSUME IInv, NEW a \in Accounts, ChoosePlan(a), UNCHANGED <<billingVars, feedVars>>
    PROVE  IInv'
  <1>1. /\ plan' = [plan EXCEPT ![a] = "bureau"] /\ role' = role /\ override' = override /\ active' = active
        /\ desk' = desk /\ overlapped' = overlapped
        /\ package' = package /\ tier' = tier /\ month' = month /\ orders' = orders /\ free' = free
        /\ invoice' = invoice /\ comment' = comment /\ feed' = feed
    BY DEF ChoosePlan, billingVars, feedVars
  <1>2. plan' \in [Accounts -> {"freelancer", "bureau"}] /\ plan'[Home] = plan[Home]
    BY <1>1, AccessAssumptions DEF IInv, Typed, PeopleTyped
  <1>3. PeopleTyped' /\ BillsTyped' /\ BellTyped' /\ BillsWhatIsDue' /\ Bells'
    BY <1>1, <1>2 DEF IInv, Typed, PeopleTyped, BillsTyped, BellTyped, BillsWhatIsDue, Bells
  <1>4. \A b \in Accounts : month[b] <= month'[b]
    BY <1>1 DEF IInv, Typed, BillsTyped, Months
  <1> QED
    BY <1>1, <1>2, <1>3, <1>4, DesksSame, StepKeeps

-----------------------------------------------------------------------------
(* Bills. *)

(* A month that begins, an order that counts or not, a package: no bill is touched, and no request relies on it. *)
LEMMA BillsStay ==
    ASSUME IInv, BillsTyped', invoice' = invoice, free' = free, \A a \in Accounts : month[a] <= month'[a],
           UNCHANGED <<accessVars, feedVars>>, desk' = desk, overlapped' = overlapped
    PROVE  IInv'
  <1>1. /\ plan' = plan /\ role' = role /\ override' = override /\ active' = active
        /\ comment' = comment /\ feed' = feed
    BY DEF accessVars, feedVars
  <1>2. PeopleTyped' /\ BellTyped' /\ Bells'
    BY <1>1 DEF IInv, Typed, PeopleTyped, BellTyped, Bells
  <1>3. BillsWhatIsDue'
    <2>1. \A a \in Accounts : month[a] \in Int /\ month'[a] \in Int
      BY DEF IInv, Typed, BillsTyped, Months
    <2>2. \A m \in Months : m \in Int
      BY DEF Months
    <2> QED BY <2>1, <2>2 DEF IInv, BillsWhatIsDue
  <1> QED
    BY <1>1, <1>2, <1>3, DesksSame, StepKeeps

LEMMA MonthTurnsKeeps ==
    ASSUME IInv, NEW a \in Accounts, MonthTurns(a), UNCHANGED feedVars
    PROVE  IInv'
  <1>1. /\ month[a] < MaxMonth /\ month' = [month EXCEPT ![a] = @ + 1]
        /\ package' = package /\ tier' = tier /\ orders' = orders /\ free' = free /\ invoice' = invoice
        /\ desk' = desk /\ overlapped' = overlapped
    BY DEF MonthTurns
  <1>2. month \in [Accounts -> Months] /\ MaxMonth \in Nat
    BY BillingAssumptions DEF IInv, Typed, BillsTyped
  <1>3. month' \in [Accounts -> Months]
    BY <1>1, <1>2 DEF Months
  <1>4. \A b \in Accounts : month[b] <= month'[b]
    BY <1>1, <1>2 DEF Months
  <1>5. BillsTyped'
    BY <1>1, <1>3 DEF IInv, Typed, BillsTyped
  <1> QED
    BY <1>1, <1>4, <1>5, BillsStay DEF MonthTurns

(* Orders that stop counting, or count again. *)
LEMMA RecountKeeps ==
    ASSUME IInv, NEW a \in Accounts, NEW m \in Months, CancelOrder(a, m) \/ TakeUpOrder(a, m), UNCHANGED feedVars
    PROVE  IInv'
  <1>1. orders \in [Accounts -> [Months -> Counts]]
    BY DEF IInv, Typed, BillsTyped
  <1>2. PICK now \in Counts : now = orders[a][m]
    BY <1>1
  <1>3. PICK row \in Counts : orders' = [orders EXCEPT ![a][m] = row]
    <2>1. CASE CancelOrder(a, m)
      <3>1. PICK row : row = [counted |-> now.counted - 1, cancelled |-> now.cancelled + 1]
        OBVIOUS
      <3>2. row \in Counts
        BY <1>2, <2>1, <3>1 DEF CancelOrder, Counts
      <3> QED BY <1>2, <2>1, <3>1, <3>2 DEF CancelOrder
    <2>2. CASE TakeUpOrder(a, m)
      <3>1. PICK row : row = [counted |-> now.counted + 1, cancelled |-> now.cancelled - 1]
        OBVIOUS
      <3>2. row \in Counts
        BY <1>2, <2>2, <3>1 DEF TakeUpOrder, Counts
      <3> QED BY <1>2, <2>2, <3>1, <3>2 DEF TakeUpOrder
    <2> QED BY <2>1, <2>2
  <1>4. /\ package' = package /\ tier' = tier /\ month' = month /\ free' = free /\ invoice' = invoice
        /\ desk' = desk /\ overlapped' = overlapped /\ UNCHANGED accessVars
    BY DEF CancelOrder, TakeUpOrder
  <1>5. orders' \in [Accounts -> [Months -> Counts]]
    BY <1>1, <1>3
  <1>6. BillsTyped' /\ \A b \in Accounts : month[b] <= month'[b]
    BY <1>4, <1>5 DEF IInv, Typed, BillsTyped, Months
  <1> QED
    BY <1>4, <1>6, BillsStay

LEMMA PackageKeeps ==
    ASSUME IInv, \/ \E e \in People, t \in TIERS : Upgrade(e, t)
                 \/ \E a \in Accounts, t \in TIERS : SetTenantPackage(a, t)
                 \/ \E u \in AUDIENCES, t \in TIERS, terms \in Edits : EditPackage(u, t, terms),
           UNCHANGED feedVars
    PROVE  IInv'
  <1>1. /\ month' = month /\ free' = free /\ invoice' = invoice /\ orders' = orders
        /\ desk' = desk /\ overlapped' = overlapped /\ UNCHANGED accessVars
    BY DEF Upgrade, SetTenantPackage, EditPackage
  <1>2. tier' \in [Accounts -> TIERS] /\ package' \in [AUDIENCES -> [TIERS -> PackageShape]]
    <2>1. tier \in [Accounts -> TIERS] /\ package \in [AUDIENCES -> [TIERS -> PackageShape]]
      BY DEF IInv, Typed, BillsTyped
    <2>2. \/ tier' = tier /\ package' = package
          \/ package' = package /\ \E a \in Accounts, t \in TIERS : tier' = [tier EXCEPT ![a] = t]
          \/ tier' = tier /\ \E u \in AUDIENCES, t \in TIERS, terms \in Edits : package' = [package EXCEPT ![u][t] = terms]
      BY AccessAssumptions DEF Upgrade, SetTenantPackage, EditPackage
    <2>3. Edits \subseteq PackageShape
      BY BillingAssumptions
    <2> QED BY <2>1, <2>2, <2>3
  <1>3. BillsTyped' /\ \A b \in Accounts : month[b] <= month'[b]
    BY <1>1, <1>2 DEF IInv, Typed, BillsTyped, Months
  <1> QED
    BY <1>1, <1>3, BillsStay

LEMMA CreateOrderKeeps ==
    ASSUME IInv, NEW k \in Desks, NEW a \in Accounts, CreateOrder(k, a), UNCHANGED feedVars
    PROVE  IInv'
  <1>1. PICK tx : tx = [step |-> "order", about |-> <<"room", a>>, account |-> a]
    OBVIOUS
  <1>2. tx \in Requests /\ Relies(tx)
    BY <1>1 DEF Requests, Rooms, Relies
  <1> QED
    BY <1>1, <1>2, BeginKeeps DEF CreateOrder, Goto

LEMMA SetFreeMonthKeeps ==
    ASSUME IInv, NEW k \in Desks, NEW a \in Accounts, NEW m \in Months, SetFreeMonth(k, a, m), UNCHANGED feedVars
    PROVE  IInv'
  <1>1. PICK tx : tx = [step |-> "free", about |-> <<"month", m>>, account |-> a, month |-> m, free |-> m \notin free[a]]
    OBVIOUS
  <1>2. tx \in Requests
    BY <1>1 DEF Requests, Waivers
  <1>3. Relies(tx)
    BY <1>1 DEF Relies, SetFreeMonth
  <1> QED
    BY <1>1, <1>2, <1>3, BeginKeeps DEF SetFreeMonth, Goto

LEMMA PrepareInvoicesKeeps ==
    ASSUME IInv, NEW k \in Desks, NEW m \in Months, PrepareInvoices(k, m), UNCHANGED feedVars
    PROVE  IInv'
  <1> DEFINE owing == {b \in Accounts : Due(b, m)}
             bill(a) == [tier |-> tier[a], included |-> PackageOf(a).included, counted |-> orders[a][m].counted,
                         fee |-> PackageOf(a).price, status |-> "open", sent |-> FALSE, paid |-> FALSE]
  <1>1. PICK made : made = [a \in owing |-> bill(a)]
    OBVIOUS
  <1>2. ASSUME NEW a \in owing PROVE bill(a) \in Invoices /\ m < month[a] /\ m \notin free[a]
    <2>1. a \in Accounts /\ m < month[a] /\ m \notin free[a] /\ PackageOf(a).price \notin {None, 0}
      BY DEF Due, Ended
    <2>2. AudienceOf(a) \in AUDIENCES
      BY DEF AudienceOf, AUDIENCES
    <2>3. PICK p \in PackageShape : p = PackageOf(a)
      BY <2>1, <2>2 DEF PackageOf, IInv, Typed, BillsTyped
    <2>4. p.included \in Nat \ {0} /\ p.price \in Nat \ {0}
      BY <2>1, <2>3 DEF PackageShape
    <2>5. tier[a] \in TIERS /\ orders[a][m].counted \in Nat
      BY <2>1 DEF IInv, Typed, BillsTyped, Counts
    <2> QED BY <2>1, <2>3, <2>4, <2>5 DEF Invoices, STATUSES
  <1> HIDE DEF bill
  <1>3. made \in [owing -> Invoices] /\ DOMAIN made = owing /\ owing \in SUBSET Accounts
    BY <1>1, <1>2
  <1> HIDE DEF owing
  <1>4. PICK tx : tx = [step |-> "prepare", about |-> <<"month", m>>, month |-> m, made |-> made]
    OBVIOUS
  <1>5. tx \in Requests
    BY <1>3, <1>4 DEF Requests, Bundles
  <1>6. Relies(tx)
    BY <1>2, <1>3, <1>4 DEF Relies
  <1>7. Overlap(tx.about) /\ desk' = [desk EXCEPT ![k] = tx] /\ UNCHANGED <<accessVars, billingVars>>
    BY <1>1, <1>4 DEF PrepareInvoices, Goto, owing, bill
  <1> QED
    BY <1>5, <1>6, <1>7, BeginKeeps

LEMMA CommitFreeMonthKeeps ==
    ASSUME IInv, NEW k \in Desks, CommitFreeMonth(k), UNCHANGED feedVars
    PROVE  IInv'
  <1>1. PICK tx \in Waivers : tx = desk[k]
    BY StepNames, IdleStep DEF CommitFreeMonth, IInv, Typed
  <1>2. tx \in Requests /\ tx.step = "free" /\ Relies(tx)
    BY <1>1, StepNames DEF Requests, Waivers, IInv
  <1>3. PICK a \in Accounts, m \in Months : a = tx.account /\ m = tx.month
    BY DEF Waivers
  <1>4. tx.about = <<"month", m>> /\ (tx.free => tx.about \in overlapped \/ invoice[a][m] = None)
    BY <1>2, <1>3 DEF Relies
  <1>5. /\ free' = [free EXCEPT ![a] = IF tx.free THEN @ \cup {m} ELSE @ \ {m}]
        /\ desk' = [desk EXCEPT ![k] = Idle] /\ overlapped' = overlapped
        /\ plan' = plan /\ role' = role /\ override' = override /\ active' = active
        /\ package' = package /\ tier' = tier /\ month' = month /\ orders' = orders /\ invoice' = invoice
        /\ comment' = comment /\ feed' = feed
    BY <1>1, <1>3 DEF CommitFreeMonth, Goto, accessVars, feedVars
  <1>6. free \in [Accounts -> SUBSET Months]
    BY DEF IInv, Typed, BillsTyped
  <1>7. /\ free' \in [Accounts -> SUBSET Months]
        /\ \A b \in Accounts, n \in Months : n \in free'[b] /\ n \notin free[b] => b = a /\ n = m /\ tx.free
    BY <1>5, <1>6
  <1>8. PeopleTyped' /\ BillsTyped' /\ BellTyped' /\ Bells'
    BY <1>5, <1>7 DEF IInv, Typed, PeopleTyped, BillsTyped, BellTyped, Bells
  <1>9. BillsWhatIsDue'
    BY <1>4, <1>5, <1>7 DEF IInv, BillsWhatIsDue
  <1>10. \A b \in Accounts, n \in Months :
            \/ <<"month", n>> \in {tx.about}
            \/ (invoice[b][n] = None => invoice'[b][n] = None) /\ (n \in free'[b] => n \in free[b])
    BY <1>4, <1>5, <1>7
  <1>11. \A b \in Accounts : month[b] <= month'[b]
    BY <1>5 DEF IInv, Typed, BillsTyped, Months
  <1>12. /\ desk' \in [Desks -> Requests \cup {Idle}]
         /\ \A j \in Desks : \/ desk'[j] = Idle
                             \/ /\ desk'[j] = desk[j]
                                /\ desk[j] # Idle /\ desk[j].about \in {tx.about} => desk[j].about \in overlapped
    BY <1>1, <1>2, <1>5, OthersKnown
  <1>13. PICK B : B = {tx.about}
    OBVIOUS
  <1>14. \A p \in People : p \in B \/ (role'[p] = role[p] /\ override'[p] = override[p])
    BY <1>5
  <1> QED
    BY <1>5, <1>8, <1>9, <1>10, <1>11, <1>12, <1>13, <1>14, StepKeeps

LEMMA CommitInvoicesKeeps ==
    ASSUME IInv, NEW k \in Desks, CommitInvoices(k), UNCHANGED feedVars
    PROVE  IInv'
  <1>1. PICK tx \in Bundles : tx = desk[k]
    BY StepNames, IdleStep DEF CommitInvoices, IInv, Typed
  <1>2. tx \in Requests /\ tx.step = "prepare" /\ Relies(tx)
    BY <1>1, StepNames DEF Requests, Bundles, IInv
  <1>3. PICK m, made : m \in Months /\ m = tx.month /\ made = tx.made
    BY DEF Bundles
  <1>4. DOMAIN made \subseteq Accounts /\ \A a \in DOMAIN made : made[a] \in Invoices
    BY <1>3 DEF Bundles
  <1>5. tx.about = <<"month", m>>
        /\ \A a \in DOMAIN made : m < month[a] /\ (tx.about \in overlapped \/ m \notin free[a])
    BY <1>2, <1>3 DEF Relies
  <1>6. /\ invoice' = [a \in Accounts |-> IF a \in DOMAIN made THEN [invoice[a] EXCEPT ![m] = made[a]] ELSE invoice[a]]
        /\ desk' = [desk EXCEPT ![k] = Idle] /\ overlapped' = overlapped
        /\ plan' = plan /\ role' = role /\ override' = override /\ active' = active
        /\ package' = package /\ tier' = tier /\ month' = month /\ orders' = orders /\ free' = free
        /\ comment' = comment /\ feed' = feed
    BY <1>1, <1>3 DEF CommitInvoices, Goto, accessVars, feedVars
  <1>7. invoice \in [Accounts -> [Months -> Invoices \cup {None}]]
    BY DEF IInv, Typed, BillsTyped
  <1>8. ASSUME NEW a \in Accounts, NEW n \in Months
        PROVE  invoice'[a][n] = IF a \in DOMAIN made /\ n = m THEN made[a] ELSE invoice[a][n]
    BY <1>6, <1>7
  <1>9. invoice' \in [Accounts -> [Months -> Invoices \cup {None}]]
    <2>1. \A a \in Accounts : invoice'[a] = IF a \in DOMAIN made THEN [invoice[a] EXCEPT ![m] = made[a]] ELSE invoice[a]
      BY <1>6
    <2>2. \A a \in Accounts : invoice'[a] \in [Months -> Invoices \cup {None}]
      BY <1>4, <1>7, <2>1
    <2> QED BY <1>6, <2>2
  <1>10. PeopleTyped' /\ BillsTyped' /\ BellTyped' /\ Bells'
    BY <1>6, <1>9 DEF IInv, Typed, PeopleTyped, BillsTyped, BellTyped, Bells
  <1>11. BillsWhatIsDue'
    <2> SUFFICES ASSUME NEW a \in Accounts, NEW n \in Months, invoice'[a][n] # None
                 PROVE  n < month[a] /\ invoice'[a][n].fee > 0 /\ (n \in free[a] => <<"month", n>> \in overlapped)
      BY <1>6 DEF BillsWhatIsDue
    <2>1. CASE a \in DOMAIN made /\ n = m
      BY <1>4, <1>5, <1>8, <2>1 DEF Invoices
    <2>2. CASE ~(a \in DOMAIN made /\ n = m)
      BY <1>8, <2>2 DEF IInv, BillsWhatIsDue
    <2> QED BY <2>1, <2>2
  <1>12. PICK B : B = {tx.about}
    OBVIOUS
  <1>13. \A b \in Accounts, n \in Months :
            \/ <<"month", n>> \in B
            \/ (invoice[b][n] = None => invoice'[b][n] = None) /\ (n \in free'[b] => n \in free[b])
    BY <1>5, <1>6, <1>8, <1>12
  <1>14. \A b \in Accounts : month[b] <= month'[b]
    BY <1>6 DEF IInv, Typed, BillsTyped, Months
  <1>15. /\ desk' \in [Desks -> Requests \cup {Idle}]
         /\ \A j \in Desks : \/ desk'[j] = Idle
                             \/ /\ desk'[j] = desk[j]
                                /\ desk[j] # Idle /\ desk[j].about \in B => desk[j].about \in overlapped
    BY <1>1, <1>2, <1>6, <1>12, OthersKnown
  <1>16. \A p \in People : p \in B \/ (role'[p] = role[p] /\ override'[p] = override[p])
    BY <1>6
  <1>17. overlapped' = overlapped /\ plan'[Home] = plan[Home]
    BY <1>6
  <1> QED
    BY <1>10, <1>11, <1>13, <1>14, <1>15, <1>16, <1>17, StepKeeps

LEMMA SetInvoiceStatusKeeps ==
    ASSUME IInv, NEW a \in Accounts, NEW m \in Months, NEW s \in STATUSES, SetInvoiceStatus(a, m, s), UNCHANGED feedVars
    PROVE  IInv'
  <1>1. invoice \in [Accounts -> [Months -> Invoices \cup {None}]]
    BY DEF IInv, Typed, BillsTyped
  <1>2. PICK row \in Invoices : row = invoice[a][m] /\ row # None
    BY <1>1 DEF SetInvoiceStatus
  <1>3. PICK new : new = [row EXCEPT !.status = s, !.sent = s \in {"sent", "paid"} \/ (@ /\ s # "open"), !.paid = s = "paid"]
    OBVIOUS
  <1>4. new \in Invoices /\ new.fee = row.fee
    BY <1>3 DEF Invoices
  <1>5. /\ invoice' = [invoice EXCEPT ![a][m] = new]
        /\ desk' = desk /\ overlapped' = overlapped
        /\ plan' = plan /\ role' = role /\ override' = override /\ active' = active
        /\ package' = package /\ tier' = tier /\ month' = month /\ orders' = orders /\ free' = free
        /\ comment' = comment /\ feed' = feed
    BY <1>1, <1>2, <1>3 DEF SetInvoiceStatus, accessVars, feedVars
  <1>6. /\ invoice' \in [Accounts -> [Months -> Invoices \cup {None}]] /\ invoice'[a][m] = new
        /\ \A b \in Accounts, n \in Months : ~(b = a /\ n = m) => invoice'[b][n] = invoice[b][n]
    BY <1>1, <1>4, <1>5
  <1>7. PeopleTyped' /\ BillsTyped' /\ BellTyped' /\ Bells'
    BY <1>5, <1>6 DEF IInv, Typed, PeopleTyped, BillsTyped, BellTyped, Bells
  <1>8. BillsWhatIsDue'
    BY <1>2, <1>4, <1>5, <1>6 DEF IInv, BillsWhatIsDue
  <1>9. \A b \in Accounts, n \in Months : (invoice[b][n] = None => invoice'[b][n] = None) /\ (n \in free'[b] => n \in free[b])
    BY <1>2, <1>5, <1>6
  <1>10. \A b \in Accounts : month[b] <= month'[b]
    BY <1>5 DEF IInv, Typed, BillsTyped, Months
  <1> QED
    BY <1>5, <1>7, <1>8, <1>9, <1>10, DesksSame, StepKeeps

-----------------------------------------------------------------------------
(* The bell. *)

LEMMA Appended ==
    ASSUME NEW s \in Seq(Notices), NEW x \in Notices
    PROVE  /\ Append(s, x) \in Seq(Notices) /\ Len(s) \in Nat
           /\ DOMAIN s = 1..Len(s) /\ DOMAIN Append(s, x) = 1..Len(s) + 1
           /\ Append(s, x)[Len(s) + 1] = x
           /\ \A i \in DOMAIN s : Append(s, x)[i] = s[i]
  OBVIOUS

(* Each bell gets at most one notice, about no note or about one that was not there. *)
LEMMA RungOnce ==
    ASSUME IInv, feed' = [u \in People |-> feed'[u]],
           \A u \in People : \/ feed'[u] = feed[u]
                             \/ \E x \in Notices :
                                  /\ feed'[u] = Append(feed[u], x)
                                  /\ x.about \in Comments => /\ comment[x.about] = None /\ comment'[x.about] # None
                                                             /\ comment'[x.about].author # u,
           \A c \in Comments : comment[c] # None => comment'[c] # None /\ comment'[c].author = comment[c].author
    PROVE  feed' \in [People -> Seq(Notices)] /\ Bells'
  <1>1. \A u \in People : feed[u] \in Seq(Notices)
    BY DEF IInv, Typed, BellTyped
  <1>2. feed' \in [People -> Seq(Notices)]
    <2>1. \A u \in People : feed'[u] \in Seq(Notices)
      BY <1>1, Appended
    <2> QED BY <2>1
  <1>3. ASSUME NEW u \in People, NEW c \in Comments
        PROVE  /\ \A i, j \in DOMAIN feed'[u] : feed'[u][i].about = c /\ feed'[u][j].about = c => i = j
               /\ (\E i \in DOMAIN feed'[u] : feed'[u][i].about = c) => comment'[c] # None /\ comment'[c].author # u
    <2>1. /\ \A i, j \in DOMAIN feed[u] : feed[u][i].about = c /\ feed[u][j].about = c => i = j
          /\ (\E i \in DOMAIN feed[u] : feed[u][i].about = c) => comment[c] # None /\ comment[c].author # u
      BY DEF IInv, Bells
    <2>2. CASE feed'[u] = feed[u]
      BY <2>1, <2>2
    <2>3. ASSUME NEW x \in Notices, feed'[u] = Append(feed[u], x),
                 x.about \in Comments => /\ comment[x.about] = None /\ comment'[x.about] # None
                                         /\ comment'[x.about].author # u
          PROVE  /\ \A i, j \in DOMAIN feed'[u] : feed'[u][i].about = c /\ feed'[u][j].about = c => i = j
                 /\ (\E i \in DOMAIN feed'[u] : feed'[u][i].about = c) => comment'[c] # None /\ comment'[c].author # u
      <3>1. PICK s, t, n : s = feed[u] /\ t = feed'[u] /\ n = Len(s)
        OBVIOUS
      <3>2. /\ n \in Nat /\ DOMAIN s = 1..n /\ DOMAIN t = 1..n + 1 /\ t[n + 1] = x
            /\ \A i \in DOMAIN s : t[i] = s[i]
        BY <1>1, <2>3, <3>1, Appended
      <3>3. \A i \in DOMAIN t : i \in DOMAIN s \/ i = n + 1
        BY <3>2
      <3>4. CASE x.about = c
        <4>1. comment[c] = None /\ comment'[c] # None /\ comment'[c].author # u
          BY <2>3, <3>4
        <4>2. \A i \in DOMAIN s : t[i].about # c
          BY <2>1, <3>1, <3>2, <4>1
        <4> QED BY <3>1, <3>3, <4>1, <4>2
      <3>5. CASE x.about # c
        <4>1. \A i \in DOMAIN t : t[i].about = c => i \in DOMAIN s /\ s[i].about = c
          BY <3>2, <3>3, <3>5
        <4> QED BY <2>1, <3>1, <4>1
      <3> QED BY <3>4, <3>5
    <2> QED BY <2>2, <2>3
  <1> QED
    BY <1>2, <1>3 DEF Bells

(* A step that changes bells and notes only. *)
LEMMA BellKeeps ==
    ASSUME IInv, BellTyped', Bells', UNCHANGED <<accessVars, billingVars, desk, overlapped>>
    PROVE  IInv'
  <1>1. /\ plan' = plan /\ role' = role /\ active' = active /\ override' = override
        /\ package' = package /\ tier' = tier /\ month' = month /\ orders' = orders /\ free' = free
        /\ invoice' = invoice /\ desk' = desk /\ overlapped' = overlapped
    BY DEF accessVars, billingVars
  <1>2. PeopleTyped' /\ BillsTyped' /\ BillsWhatIsDue'
    BY <1>1 DEF IInv, Typed, PeopleTyped, BillsTyped, BillsWhatIsDue
  <1>3. \A a \in Accounts : month[a] <= month'[a]
    BY <1>1 DEF IInv, Typed, BillsTyped, Months
  <1> QED
    BY <1>1, <1>2, <1>3, DesksSame, StepKeeps

LEMMA NotifyRings ==
    ASSUME IInv, NEW users, NEW actor, NEW kind \in {"order_created", "payment"},
           feed' = Notify(users, actor, kind, 0), comment' = comment
    PROVE  BellTyped' /\ Bells'
  <1>1. NoticeOf(kind, 0) \in Notices /\ NoticeOf(kind, 0).about \notin Comments
    BY DEF NoticeOf, Notices, Comments
  <1>2. feed' = [u \in People |-> feed'[u]]
        /\ \A u \in People : feed'[u] = feed[u] \/ feed'[u] = Append(feed[u], NoticeOf(kind, 0))
    BY DEF Notify
  <1>3. feed' \in [People -> Seq(Notices)] /\ Bells'
    BY <1>1, <1>2, RungOnce
  <1> QED
    BY <1>3 DEF BellTyped, IInv, Typed

LEMMA OrderNewsKeeps ==
    ASSUME IInv, NEW k \in Desks, NEW e, OrderNews(k, e)
    PROVE  IInv'
  <1>1. PICK tx \in Rooms : tx = desk[k]
    BY StepNames, IdleStep DEF OrderNews, InsertOrder, IInv, Typed
  <1>2. PICK a \in Accounts : a = tx.account
    BY DEF Rooms
  <1>3. /\ orders' = [orders EXCEPT ![a][month[a]].counted = @ + 1]
        /\ desk' = [desk EXCEPT ![k] = Idle] /\ overlapped' = overlapped
        /\ plan' = plan /\ role' = role /\ override' = override /\ active' = active
        /\ package' = package /\ tier' = tier /\ month' = month /\ free' = free /\ invoice' = invoice
        /\ comment' = comment /\ (feed' = feed \/ feed' = Notify(ActiveUsers, e, "order_created", 0))
    BY <1>1, <1>2 DEF OrderNews, InsertOrder, Goto, accessVars
  <1>4. BellTyped' /\ Bells'
    <2>1. CASE feed' = feed
      BY <1>3, <2>1 DEF IInv, Typed, BellTyped, Bells
    <2>2. CASE feed' = Notify(ActiveUsers, e, "order_created", 0)
      BY <1>3, <2>2, NotifyRings
    <2> QED BY <1>3, <2>1, <2>2
  <1>5. orders' \in [Accounts -> [Months -> Counts]]
    <2>1. orders \in [Accounts -> [Months -> Counts]] /\ month[a] \in Months
      BY DEF IInv, Typed, BillsTyped
    <2>2. PICK row \in Counts : row = orders[a][month[a]]
      BY <2>1
    <2>3. PICK new : new = [row EXCEPT !.counted = @ + 1]
      OBVIOUS
    <2>4. new \in Counts
      BY <2>3 DEF Counts
    <2>5. orders' = [orders EXCEPT ![a][month[a]] = new]
      BY <1>3, <2>2, <2>3
    <2> QED BY <2>1, <2>4, <2>5
  <1>6. PeopleTyped' /\ BillsTyped' /\ BillsWhatIsDue'
    BY <1>3, <1>5 DEF IInv, Typed, PeopleTyped, BillsTyped, BillsWhatIsDue
  <1>7. \A b \in Accounts : month[b] <= month'[b]
    BY <1>3 DEF IInv, Typed, BillsTyped, Months
  <1>8. tx \in Requests
    BY DEF Requests
  <1>9. PICK B : B = {tx.about}
    OBVIOUS
  <1>10. /\ desk' \in [Desks -> Requests \cup {Idle}]
         /\ \A j \in Desks : \/ desk'[j] = Idle
                             \/ /\ desk'[j] = desk[j]
                                /\ desk[j] # Idle /\ desk[j].about \in B => desk[j].about \in overlapped
    BY <1>1, <1>3, <1>8, <1>9, OthersKnown
  <1>11. /\ \A p \in People : p \in B \/ (role'[p] = role[p] /\ override'[p] = override[p])
         /\ \A b \in Accounts, m \in Months :
              \/ <<"month", m>> \in B
              \/ (invoice[b][m] = None => invoice'[b][m] = None) /\ (m \in free'[b] => m \in free[b])
         /\ overlapped' = overlapped /\ plan'[Home] = plan[Home]
    BY <1>3
  <1> QED
    BY <1>4, <1>6, <1>7, <1>10, <1>11, StepKeeps

LEMMA RecordPaymentKeeps ==
    ASSUME IInv, NEW e \in People, RecordPayment(e)
    PROVE  IInv'
  <1>1. BellTyped' /\ Bells'
    BY NotifyRings DEF RecordPayment
  <1> QED
    BY <1>1, BellKeeps DEF RecordPayment

(* The first free id is one. *)
LEMMA FirstFree ==
    ASSUME NEW S \in SUBSET Comments, S # {}
    PROVE  Min(S) \in S
  <1>1. S \subseteq Nat
    BY DEF Comments
  <1>2. PICK x \in S : \A y \in S : ~(<<y, x>> \in OpToRel(<, Nat))
    BY <1>1, NatLessThanWellFounded, WFMin
  <1>3. ASSUME NEW y \in S, y < x
        PROVE  FALSE
    <2>1. PICK pair : pair = <<y, x>>
      OBVIOUS
    <2>2. pair \in Nat \X Nat /\ pair[1] = y /\ pair[2] = x
      BY <1>1, <2>1
    <2>3. pair \in OpToRel(<, Nat)
      BY <1>3, <2>2 DEF OpToRel
    <2> QED BY <1>2, <2>1, <2>3
  <1>4. \A y \in S : x <= y
    <2>1. x \in Nat /\ \A y \in S : y \in Nat /\ ~(y < x)
      BY <1>1, <1>3
    <2> QED BY <2>1
  <1> QED
    BY <1>4 DEF Min

(* Marking notices leaves a bell of notices. *)
LEMMA MappedSeq ==
    ASSUME NEW S, NEW n \in Nat, NEW f \in [1..n -> S]
    PROVE  f \in Seq(S) /\ DOMAIN f = 1..n
  OBVIOUS

LEMMA CreateCommentKeeps ==
    ASSUME IInv, NEW e \in People, NEW names \in SUBSET People, CreateComment(e, names)
    PROVE  IInv'
  <1>1. PICK c : c = Min({d \in Comments : comment[d] = None})
    OBVIOUS
  <1>2. c \in Comments /\ comment[c] = None
    BY <1>1, FirstFree DEF CreateComment
  <1>3. PICK note : note = [author |-> e, pinned |-> FALSE, deleted |-> FALSE]
    OBVIOUS
  <1>4. note \in NoteShape /\ note # None /\ note.author = e
    <2>1. note \in NoteShape /\ note.author = e
      BY <1>3 DEF NoteShape
    <2> QED BY <2>1, FeedAssumptions
  <1>5. PICK mentions, rest : mentions = Mentioned(names, e) /\ rest = Rest(names, e)
    OBVIOUS
  <1>6. e \notin mentions /\ e \notin rest /\ mentions \cap rest = {}
    BY <1>5 DEF Mentioned, Rest
  <1>7. PICK x, y : x = NoticeOf("mention", c) /\ y = NoticeOf("comment", c)
    OBVIOUS
  <1>8. x \in Notices /\ y \in Notices /\ x.about = c /\ y.about = c
    BY <1>2, <1>7 DEF NoticeOf, Notices, Comments
  <1>9. /\ comment' = [comment EXCEPT ![c] = note]
        /\ feed' = [u \in People |-> feed[u] \o (IF u \in mentions THEN <<x>> ELSE <<>>)
                                            \o (IF u \in rest THEN <<y>> ELSE <<>>)]
    BY <1>1, <1>3, <1>5, <1>7 DEF CreateComment
  <1>10. comment' \in [Comments -> NoteShape \cup {None}] /\ comment'[c] = note
         /\ \A d \in Comments \ {c} : comment'[d] = comment[d]
    BY <1>2, <1>4, <1>9 DEF IInv, Typed, BellTyped
  <1>11. ASSUME NEW s \in Seq(Notices), NEW z \in Notices
         PROVE  /\ s \o <<z>> = Append(s, z) /\ s \o <<>> = s
                /\ Append(s, z) \in Seq(Notices)
    OBVIOUS
  <1>12. ASSUME NEW u \in People
         PROVE  \/ feed'[u] = feed[u]
                \/ u # e /\ (feed'[u] = Append(feed[u], x) \/ feed'[u] = Append(feed[u], y))
    <2>1. feed[u] \in Seq(Notices)
      BY DEF IInv, Typed, BellTyped
    <2>2. feed'[u] = feed[u] \o (IF u \in mentions THEN <<x>> ELSE <<>>) \o (IF u \in rest THEN <<y>> ELSE <<>>)
      BY <1>9
    <2>3. CASE u \in mentions
      BY <1>6, <1>8, <1>11, <2>1, <2>2, <2>3
    <2>4. CASE u \notin mentions /\ u \in rest
      BY <1>6, <1>8, <1>11, <2>1, <2>2, <2>4
    <2>5. CASE u \notin mentions /\ u \notin rest
      BY <1>11, <2>1, <2>2, <2>5
    <2> QED BY <2>3, <2>4, <2>5
  <1>13. feed' = [u \in People |-> feed'[u]]
    BY <1>9
  <1>14. feed' \in [People -> Seq(Notices)] /\ Bells'
    <2>1. ASSUME NEW u \in People
          PROVE  \/ feed'[u] = feed[u]
                 \/ \E z \in Notices :
                      /\ feed'[u] = Append(feed[u], z)
                      /\ z.about \in Comments => /\ comment[z.about] = None /\ comment'[z.about] # None
                                                 /\ comment'[z.about].author # u
      BY <1>2, <1>4, <1>8, <1>10, <1>12
    <2>2. \A d \in Comments : comment[d] # None => comment'[d] # None /\ comment'[d].author = comment[d].author
      BY <1>2, <1>10
    <2> QED BY <1>13, <2>1, <2>2, RungOnce
  <1>15. BellTyped'
    BY <1>10, <1>14 DEF BellTyped
  <1> QED
    BY <1>14, <1>15, BellKeeps DEF CreateComment

LEMMA EditCommentKeeps ==
    ASSUME IInv, NEW e \in People, NEW c \in Comments, PinComment(e, c) \/ DeleteComment(e, c)
    PROVE  IInv'
  <1>1. PICK note \in NoteShape : note = comment[c]
    BY DEF PinComment, DeleteComment, IInv, Typed, BellTyped
  <1>2. PICK new \in NoteShape : new.author = note.author /\ comment' = [comment EXCEPT ![c] = new]
    <2>1. CASE PinComment(e, c)
      <3>1. PICK new : new = [note EXCEPT !.pinned = ~@]
        OBVIOUS
      <3>2. new \in NoteShape /\ new.author = note.author
        BY <3>1 DEF NoteShape
      <3> QED BY <1>1, <2>1, <3>1, <3>2 DEF PinComment
    <2>2. CASE DeleteComment(e, c)
      <3>1. PICK new : new = [note EXCEPT !.deleted = TRUE]
        OBVIOUS
      <3>2. new \in NoteShape /\ new.author = note.author
        BY <3>1 DEF NoteShape
      <3> QED BY <1>1, <2>2, <3>1, <3>2 DEF DeleteComment
    <2> QED BY <2>1, <2>2
  <1>3. comment' \in [Comments -> NoteShape \cup {None}] /\ comment'[c] = new /\ new # None
        /\ \A d \in Comments \ {c} : comment'[d] = comment[d]
    BY <1>2, FeedAssumptions DEF IInv, Typed, BellTyped
  <1>4. feed' = feed /\ feed \in [People -> Seq(Notices)] /\ UNCHANGED <<accessVars, billingVars, desk, overlapped>>
    BY DEF PinComment, DeleteComment, IInv, Typed, BellTyped
  <1>5. feed' \in [People -> Seq(Notices)] /\ Bells'
    BY <1>1, <1>2, <1>3, <1>4, RungOnce
  <1>6. BellTyped'
    BY <1>3, <1>5 DEF BellTyped
  <1> QED
    BY <1>4, <1>5, <1>6, BellKeeps

LEMMA MarkKeeps ==
    ASSUME IInv, NEW e \in People, MarkAllRead(e) \/ \E i \in DOMAIN feed[e] : MarkRead(e, i)
    PROVE  IInv'
  <1>1. feed \in [People -> Seq(Notices)]
    BY DEF IInv, Typed, BellTyped
  <1>2. PICK s \in Seq(Notices) : s = feed[e]
    BY <1>1
  <1>3. PICK t : /\ feed' = [feed EXCEPT ![e] = t] /\ t \in Seq(Notices)
                 /\ DOMAIN t = DOMAIN s /\ \A i \in DOMAIN s : t[i].about = s[i].about
    <2>1. \A n \in Notices : [n EXCEPT !.read = TRUE] \in Notices /\ [n EXCEPT !.read = TRUE].about = n.about
      BY DEF Notices
    <2>2. CASE MarkAllRead(e)
      <3>1. PICK t : t = [i \in DOMAIN s |-> [s[i] EXCEPT !.read = TRUE]]
        OBVIOUS
      <3>2. \A i \in DOMAIN s : s[i] \in Notices
        OBVIOUS
      <3>3. t \in Seq(Notices) /\ DOMAIN t = DOMAIN s /\ \A i \in DOMAIN s : t[i].about = s[i].about
        <4>1. PICK n \in Nat : n = Len(s) /\ DOMAIN s = 1..n
          OBVIOUS
        <4>2. ASSUME NEW i \in 1..n
              PROVE  t[i] \in Notices /\ t[i].about = s[i].about
          <5>1. PICK x \in Notices : x = s[i]
            BY <3>2, <4>1
          <5>2. t[i] = [x EXCEPT !.read = TRUE]
            BY <3>1, <4>1, <5>1
          <5> QED BY <2>1, <5>1, <5>2
        <4>3. t = [i \in 1..n |-> t[i]]
          BY <3>1, <4>1
        <4>4. t \in [1..n -> Notices]
          BY <4>2, <4>3
        <4> QED BY <4>1, <4>2, <4>4, MappedSeq
      <3> QED BY <1>2, <2>2, <3>1, <3>3 DEF MarkAllRead
    <2>3. CASE \E i \in DOMAIN feed[e] : MarkRead(e, i)
      <3>1. PICK i \in DOMAIN s : MarkRead(e, i)
        BY <1>2, <2>3
      <3>2. PICK n \in Notices : n = [s[i] EXCEPT !.read = TRUE] /\ n.about = s[i].about
        <4>1. PICK x \in Notices : x = s[i]
          BY <3>1
        <4> QED BY <2>1, <4>1
      <3>3. PICK t : t = [s EXCEPT ![i] = n]
        OBVIOUS
      <3>4. t \in Seq(Notices) /\ DOMAIN t = DOMAIN s /\ \A j \in DOMAIN s : t[j].about = s[j].about
        BY <3>2, <3>3
      <3> QED BY <1>1, <1>2, <3>1, <3>2, <3>3, <3>4 DEF MarkRead
    <2> QED BY <2>2, <2>3
  <1>4. comment' = comment /\ UNCHANGED <<accessVars, billingVars, desk, overlapped>>
    BY DEF MarkAllRead, MarkRead
  <1>5. feed' \in [People -> Seq(Notices)]
        /\ \A u \in People : DOMAIN feed'[u] = DOMAIN feed[u] /\ \A i \in DOMAIN feed[u] : feed'[u][i].about = feed[u][i].about
    BY <1>1, <1>2, <1>3
  <1>6. BellTyped' /\ Bells'
    <2>1. ASSUME NEW u \in People, NEW c \in Comments
          PROVE  /\ \A i, j \in DOMAIN feed'[u] : feed'[u][i].about = c /\ feed'[u][j].about = c => i = j
                 /\ (\E i \in DOMAIN feed'[u] : feed'[u][i].about = c) => comment'[c] # None /\ comment'[c].author # u
      <3>1. /\ \A i, j \in DOMAIN feed[u] : feed[u][i].about = c /\ feed[u][j].about = c => i = j
            /\ (\E i \in DOMAIN feed[u] : feed[u][i].about = c) => comment[c] # None /\ comment[c].author # u
        BY DEF IInv, Bells
      <3>2. DOMAIN feed'[u] = DOMAIN feed[u] /\ \A i \in DOMAIN feed[u] : feed'[u][i].about = feed[u][i].about
        BY <1>5
      <3> QED BY <1>4, <3>1, <3>2
    <2>2. Bells'
      BY <2>1 DEF Bells
    <2> QED BY <1>4, <1>5, <2>2 DEF IInv, Typed, BellTyped
  <1> QED
    BY <1>4, <1>6, BellKeeps

-----------------------------------------------------------------------------
(* The initial states and every step. *)

LEMMA InitEstablishes == Init => IInv
  <1> SUFFICES ASSUME Init PROVE IInv
    OBVIOUS
  <1>1. PeopleTyped
    <2>1. [u \in People |-> [NoOverride EXCEPT !.take = Withheld[u]]] \in [People -> OverrideShape]
      BY AccessAssumptions DEF NoOverride, OverrideShape
    <2> QED BY <2>1, AccessAssumptions DEF Init, PeopleTyped
  <1>2. BillsTyped
    BY BillingAssumptions DEF Init, BillsTyped, Months, TIERS, Counts
  <1>3. BellTyped
    BY DEF Init, BellTyped
  <1>4. \A k \in Desks : desk[k] = Idle
    BY DEF Init
  <1>5. desk \in [Desks -> Requests \cup {Idle}]
    BY DEF Init
  <1>6. plan[Home] = "bureau"
    BY AccessAssumptions DEF Init
  <1>7. BillsWhatIsDue
    BY DEF Init, BillsWhatIsDue
  <1>8. Bells
    <2>1. \A u \in People : DOMAIN feed[u] = {}
      BY DEF Init
    <2> QED BY <2>1 DEF Bells
  <1>9. Apart
    BY <1>4 DEF Apart
  <1> QED
    BY <1>1, <1>2, <1>3, <1>4, <1>5, <1>6, <1>7, <1>8, <1>9 DEF IInv, Typed

LEMMA StutterKeeps == IInv /\ UNCHANGED vars => IInv'
  <1> SUFFICES ASSUME IInv, UNCHANGED vars PROVE IInv'
    OBVIOUS
  <1>1. UNCHANGED <<accessVars, billingVars, desk, overlapped>> /\ comment' = comment /\ feed' = feed
    BY DEF vars, feedVars
  <1>2. BellTyped' /\ Bells'
    BY <1>1 DEF IInv, Typed, BellTyped, Bells
  <1> QED
    BY <1>1, <1>2, BellKeeps

LEMMA ManagingKeeps == IInv /\ Managing => IInv'
  <1> SUFFICES ASSUME IInv, Managing PROVE IInv'
    OBVIOUS
  <1>1. UNCHANGED <<billingVars, feedVars>> /\ ActiveUsers \subseteq People
    BY DEF Managing, ActiveUsers
  <1>2. ASSUME NEW k \in Desks, NEW e \in People, NEW q \in People, NEW r \in Offered, NEW boxes \in Forms \cup {None},
               InviteUser(k, e, q, r, boxes) \/ UpdateUser(k, e, q, r, boxes)
        PROVE  IInv'
    BY <1>1, <1>2, InviteUserKeeps, UpdateUserKeeps
  <1>3. ASSUME NEW e \in People, NEW q \in People, SetActive(e, q)
        PROVE  IInv'
    BY <1>1, <1>3, SetActiveKeeps
  <1>4. ASSUME NEW a \in Accounts, ChoosePlan(a)
        PROVE  IInv'
    BY <1>1, <1>4, ChoosePlanKeeps
  <1>5. ASSUME NEW k \in Desks, CommitAccess(k)
        PROVE  IInv'
    BY <1>1, <1>5, CommitAccessKeeps
  <1>6. ASSUME NEW k \in Desks, AccessRollBack(k)
        PROVE  IInv'
    <2>1. desk[k] # Idle
      BY <1>6, IdleStep DEF AccessRollBack
    <2> QED BY <1>1, <1>6, <2>1, RollBackKeeps DEF AccessRollBack, Goto
  <1> QED
    BY <1>1, <1>2, <1>3, <1>4, <1>5, <1>6 DEF Managing

LEMMA PayingKeeps == IInv /\ Paying => IInv'
  <1> SUFFICES ASSUME IInv, Paying PROVE IInv'
    OBVIOUS
  <1>1. UNCHANGED feedVars /\ ActiveUsers \subseteq People
    BY DEF Paying, ActiveUsers
  <1>2. ASSUME \/ \E e \in People, t \in TIERS : Upgrade(e, t)
               \/ \E a \in Accounts, t \in TIERS : SetTenantPackage(a, t)
               \/ \E u \in AUDIENCES, t \in TIERS, terms \in Edits : EditPackage(u, t, terms)
        PROVE  IInv'
    BY <1>1, <1>2, PackageKeeps
  <1>3. ASSUME NEW a \in Accounts, NEW m \in Months, CancelOrder(a, m) \/ TakeUpOrder(a, m)
        PROVE  IInv'
    BY <1>1, <1>3, RecountKeeps
  <1>4. ASSUME NEW k \in Desks, NEW a \in Accounts, NEW m \in Months, SetFreeMonth(k, a, m)
        PROVE  IInv'
    BY <1>1, <1>4, SetFreeMonthKeeps
  <1>5. ASSUME NEW a \in Accounts, NEW m \in Months, NEW s \in STATUSES, SetInvoiceStatus(a, m, s)
        PROVE  IInv'
    BY <1>1, <1>5, SetInvoiceStatusKeeps
  <1>6. ASSUME NEW k \in Desks, NEW a \in Accounts, CreateOrder(k, a)
        PROVE  IInv'
    BY <1>1, <1>6, CreateOrderKeeps
  <1>7. ASSUME NEW k \in Desks, NEW m \in Months, PrepareInvoices(k, m)
        PROVE  IInv'
    BY <1>1, <1>7, PrepareInvoicesKeeps
  <1>8. ASSUME NEW a \in Accounts, MonthTurns(a)
        PROVE  IInv'
    BY <1>1, <1>8, MonthTurnsKeeps
  <1>9. ASSUME NEW k \in Desks, CommitFreeMonth(k) \/ CommitInvoices(k)
        PROVE  IInv'
    BY <1>1, <1>9, CommitFreeMonthKeeps, CommitInvoicesKeeps
  <1>10. ASSUME NEW k \in Desks, BillingRollBack(k)
         PROVE  IInv'
    <2>1. desk[k] # Idle
      BY <1>10, IdleStep DEF BillingRollBack
    <2> QED BY <1>1, <1>10, <2>1, RollBackKeeps DEF BillingRollBack, Goto
  <1> QED
    BY <1>1, <1>2, <1>3, <1>4, <1>5, <1>6, <1>7, <1>8, <1>9, <1>10 DEF Paying

LEMMA TellingKeeps == IInv /\ Telling => IInv'
  <1> SUFFICES ASSUME IInv, Telling PROVE IInv'
    OBVIOUS
  <1>1. ActiveUsers \subseteq People
    BY DEF ActiveUsers
  <1>2. ASSUME NEW k \in Desks, NEW e \in ActiveUsers \cup {None}, OrderNews(k, e)
        PROVE  IInv'
    BY <1>2, OrderNewsKeeps
  <1>3. ASSUME NEW e \in People, NEW names \in SUBSET People, CreateComment(e, names)
        PROVE  IInv'
    BY <1>3, CreateCommentKeeps
  <1>4. ASSUME NEW e \in People, NEW c \in Comments, PinComment(e, c) \/ DeleteComment(e, c)
        PROVE  IInv'
    BY <1>4, EditCommentKeeps
  <1>5. ASSUME NEW e \in People, RecordPayment(e) \/ MarkAllRead(e) \/ \E i \in DOMAIN feed[e] : MarkRead(e, i)
        PROVE  IInv'
    BY <1>5, RecordPaymentKeeps, MarkKeeps
  <1> QED
    BY <1>1, <1>2, <1>3, <1>4, <1>5 DEF Telling

-----------------------------------------------------------------------------
(* Who gives what to whom. *)

(* A request that is committed gives what its editor held, and takes that, or with the role. *)
LEMMA CommitIsFair ==
    ASSUME IInv, NEW k \in Desks, CommitAccess(k), NEW q \in People, (Eff(q)' \ Eff(q)) \cup (Eff(q) \ Eff(q)') # {}
    PROVE  /\ desk[k].step \in {"invite", "update"} /\ desk[k].person = q /\ desk'[k] = Idle
           /\ \/ q \in overlapped
              \/ /\ Eff(q)' \ Eff(q) \subseteq desk[k].held
                 /\ desk[k].changed \/ Eff(q) \ Eff(q)' \subseteq desk[k].held
  <1>1. PICK tx \in Changes : tx = desk[k]
    BY StepNames, IdleStep DEF CommitAccess, IInv, Typed
  <1>2. tx.step \in {"invite", "update"} /\ desk'[k] = Idle /\ Relies(tx)
    <2>1. desk[k] # Idle
      BY IdleStep DEF CommitAccess
    <2> QED BY <1>1, <2>1 DEF CommitAccess, Goto, IInv, Typed
  <1>3. tx.person \in People /\ tx.role \in Role /\ tx.override \in OverrideShape \cup {None}
    BY <1>1 DEF Changes
  <1>4. /\ role' = IF tx.changed THEN [role EXCEPT ![tx.person] = tx.role] ELSE role
        /\ override' = IF tx.override = None THEN override ELSE [override EXCEPT ![tx.person] = tx.override]
        /\ plan' = plan /\ (tx.step = "invite" <=> role[tx.person] = None)
    BY <1>1 DEF CommitAccess
  <1>5. role \in [People -> Role \cup {None}] /\ override \in [People -> OverrideShape]
    BY DEF IInv, Typed, PeopleTyped
  <1>6. \A p \in People \ {tx.person} : role'[p] = role[p] /\ override'[p] = override[p]
    BY <1>4, <1>5
  <1>7. tx.person = q
    BY <1>4, <1>6 DEF Eff
  <1>8. /\ role'[q] = IF tx.changed THEN tx.role ELSE role[q]
        /\ override'[q] = IF tx.override = None THEN override[q] ELSE tx.override
    BY <1>4, <1>5, <1>7
  <1>9. ASSUME ~tx.changed => tx.role = role[q]
        PROVE  Eff(q)' = IF role'[q] = None THEN {} ELSE After(tx)
    BY <1>4, <1>7, <1>8, <1>9 DEF Eff, After
  <1>10. CASE tx.step = "invite"
    <2>1. tx.changed /\ After(tx) \subseteq tx.held /\ Eff(q) = {}
      BY <1>2, <1>4, <1>7, <1>10 DEF Relies, Eff
    <2> QED BY <1>1, <1>2, <1>7, <1>9, <2>1
  <1>11. CASE tx.step = "update"
    <2>1. CASE q \in overlapped
      BY <1>1, <1>2, <1>7, <2>1
    <2>2. CASE q \notin overlapped
      <3>1. /\ role[q] # None /\ After(tx) \ Eff(q) \subseteq tx.held
            /\ ~tx.changed => tx.role = role[q] /\ Eff(q) \ After(tx) \subseteq tx.held
        BY <1>2, <1>7, <1>11, <2>2 DEF Relies, Fair
      <3>2. CASE tx.changed
        BY <1>1, <1>2, <1>7, <1>9, <3>1, <3>2
      <3>3. CASE ~tx.changed
        <4>1. Eff(q)' = After(tx)
          BY <1>8, <1>9, <3>1, <3>3
        <4> QED BY <1>1, <1>2, <1>7, <3>1, <4>1
      <3> QED BY <3>2, <3>3
    <2> QED BY <2>1, <2>2
  <1> QED
    BY <1>2, <1>10, <1>11

(* Nothing else changes what anyone may do, but a plan that is chosen. *)
LEMMA OnlyCommitsGive ==
    ASSUME IInv, [Next]_vars
    PROVE  \/ plan' # plan
           \/ role' = role /\ override' = override /\ plan' = plan
           \/ \E k \in Desks : CommitAccess(k)
  <1>1. ASSUME NEW a \in Accounts, ChoosePlan(a)
        PROVE  plan' # plan
    BY <1>1 DEF ChoosePlan, IInv, Typed, PeopleTyped
  <1>2. CASE Managing
    <2>1. ASSUME NEW k \in Desks, NEW e \in ActiveUsers, NEW q \in People, NEW r \in Offered, NEW boxes \in Forms \cup {None},
                 InviteUser(k, e, q, r, boxes) \/ UpdateUser(k, e, q, r, boxes)
          PROVE  role' = role /\ override' = override /\ plan' = plan
      BY <2>1 DEF InviteUser, UpdateUser, accessVars
    <2>2. ASSUME NEW e \in People, NEW q \in People, SetActive(e, q)
          PROVE  role' = role /\ override' = override /\ plan' = plan
      BY <2>2 DEF SetActive
    <2>3. ASSUME NEW k \in Desks, AccessRollBack(k)
          PROVE  role' = role /\ override' = override /\ plan' = plan
      BY <2>3 DEF AccessRollBack, accessVars
    <2> QED BY <1>1, <1>2, <2>1, <2>2, <2>3 DEF Managing
  <1>3. CASE Paying
    <2>1. ASSUME NEW k, NEW a, NEW m,
                 \/ SetFreeMonth(k, a, m) \/ CreateOrder(k, a) \/ PrepareInvoices(k, m)
                 \/ CommitFreeMonth(k) \/ CommitInvoices(k) \/ BillingRollBack(k)
          PROVE  UNCHANGED accessVars
      BY <2>1 DEF SetFreeMonth, CreateOrder, PrepareInvoices, CommitFreeMonth, CommitInvoices, BillingRollBack
    <2>2. ASSUME NEW e, NEW a, NEW m, NEW t, NEW terms, NEW status,
                 \/ SetTenantPackage(a, t) \/ CancelOrder(a, m) \/ TakeUpOrder(a, m) \/ SetInvoiceStatus(a, m, status)
                 \/ Upgrade(e, t) \/ EditPackage(a, t, terms) \/ MonthTurns(a)
          PROVE  UNCHANGED accessVars
      BY <2>2 DEF SetTenantPackage, CancelOrder, TakeUpOrder, SetInvoiceStatus, Upgrade, EditPackage, MonthTurns
    <2>3. UNCHANGED accessVars
      BY <1>3, <2>1, <2>2 DEF Paying
    <2> QED BY <2>3 DEF accessVars
  <1>4. CASE Telling
    BY <1>4 DEF Telling, OrderNews, InsertOrder, RecordPayment, MarkAllRead, CreateComment, PinComment, DeleteComment,
                MarkRead, accessVars
  <1>5. CASE UNCHANGED vars
    BY <1>5 DEF vars, accessVars
  <1> QED
    BY <1>2, <1>3, <1>4, <1>5 DEF Next

-----------------------------------------------------------------------------
(***************************************************************************)
(* The inductive invariant: the tables are well formed, a request under    *)
(* way relies on what is still so unless two were about the same, and a    *)
(* note is at most once in a bell.                                         *)
(***************************************************************************)
THEOREM Invariance == Spec => []IInv
  <1>1. IInv /\ [Next]_vars => IInv'
    BY ManagingKeeps, PayingKeeps, TellingKeeps, StutterKeeps DEF Next
  <1> QED
    BY <1>1, InitEstablishes, PTL DEF Spec

(***************************************************************************)
(* An account is asked to pay for a month that is over where it is, for a  *)
(* listed fee, and for none that was made free for it, for any number of   *)
(* accounts, months and requests at once.                                  *)
(***************************************************************************)
THEOREM BillsWhatIsDueHolds == Spec => []BillsWhatIsDue
  BY Invariance, PTL DEF IInv

LEMMA AtMostOne ==
    ASSUME NEW S, \A x, y \in S : x = y
    PROVE  Cardinality(S) <= 1
  <1>1. CASE S = {}
    BY <1>1, FS_EmptySet
  <1>2. CASE S # {}
    <2>1. PICK x \in S : S = {x}
      BY <1>2
    <2> QED
      BY <2>1, FS_Singleton
  <1> QED
    BY <1>1, <1>2

(***************************************************************************)
(* A note rings nobody's bell twice and never its author's, for any number *)
(* of people and notes and however long the bell is.                       *)
(***************************************************************************)
THEOREM ToldOnceHolds == Spec => []ToldOnce
  <1>1. IInv => ToldOnce
    <2> SUFFICES ASSUME IInv, NEW u \in People, NEW c \in Comments
                 PROVE  LET about == {i \in DOMAIN feed[u] : feed[u][i].about = c}
                        IN  Cardinality(about) <= 1 /\ (u = comment[c].author => about = {})
      BY DEF ToldOnce
    <2>1. PICK about : about = {i \in DOMAIN feed[u] : feed[u][i].about = c}
      OBVIOUS
    <2>2. (\A i, j \in about : i = j) /\ (u = comment[c].author => about = {})
      BY <2>1 DEF IInv, Bells
    <2>3. Cardinality(about) <= 1
      BY <2>2, AtMostOne
    <2> QED
      BY <2>1, <2>2, <2>3
  <1> QED
    BY <1>1, Invariance, PTL

(***************************************************************************)
(* Nobody gains a permission but through the request of someone who held   *)
(* it, nor loses one through a form its editor could not see it on, unless *)
(* two requests about that person ran at once: for any roster, any boxes   *)
(* and any number of requests.                                             *)
(***************************************************************************)
THEOREM NobodyGivesBeyondTheirOwnHolds == Spec => NobodyGivesBeyondTheirOwn
  <1>1. ASSUME IInv, [Next]_vars, plan' = plan, NEW q \in People, (Eff(q)' \ Eff(q)) \cup (Eff(q) \ Eff(q)') # {}
        PROVE  \E k \in Desks :
                  /\ desk[k].step \in {"invite", "update"} /\ desk[k].person = q /\ desk'[k] = Idle
                  /\ \/ q \in overlapped
                     \/ /\ Eff(q)' \ Eff(q) \subseteq desk[k].held
                        /\ desk[k].changed \/ Eff(q) \ Eff(q)' \subseteq desk[k].held
    <2>1. CASE role' = role /\ override' = override /\ plan' = plan
      BY <1>1, <2>1 DEF Eff
    <2>2. CASE \E k \in Desks : CommitAccess(k)
      BY <1>1, <2>2, CommitIsFair
    <2> QED BY <1>1, <2>1, <2>2, OnlyCommitsGive
  <1>2. ASSUME IInv, [Next]_vars
        PROVE  [plan' = plan => \A q \in People :
                  LET gained == Eff(q)' \ Eff(q)
                      lost == Eff(q) \ Eff(q)'
                  IN  gained \cup lost # {} =>
                        \E k \in Desks :
                            /\ desk[k].step \in {"invite", "update"} /\ desk[k].person = q /\ desk'[k] = Idle
                            /\ \/ q \in overlapped
                               \/ gained \subseteq desk[k].held /\ (desk[k].changed \/ lost \subseteq desk[k].held)]_vars
    BY <1>1, <1>2
  <1> QED
    BY <1>2, Invariance, PTL DEF Spec, NobodyGivesBeyondTheirOwn
===============================================================================
