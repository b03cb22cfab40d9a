-------------------------------- MODULE Access --------------------------------
(***************************************************************************)
(* What each member of an organisation may do: the bundle of their role,   *)
(* what was ticked or unticked for them alone (stored as the difference    *)
(* from the bundle), and what the organisation's plan includes.            *)
(*                                                                         *)
(* A request is answered with the permissions its session was resolved     *)
(* with, and with the overrides it read; both may be old when it commits.  *)
(***************************************************************************)
EXTENDS Integers, Sequences, FiniteSets

CONSTANTS
    Home,       \* the organisation whose people are looked at
    Accounts,   \* every organisation and personal workspace
    Personal,   \* those that are a person's own
    People,
    Roster,     \* the role everyone starts with, or None
    Withheld,   \* what an owner has unticked for them
    Offered,    \* the roles a form may name
    Forms,      \* the sets of boxes a form may come back with
    Desks,      \* requests that may be under way at once
    Budget,     \* how often each kind of thing is done, and all of them together
    None

Permission == {"orders.read", "orders.delete", "finance.read", "finance.record_payment",
               "users.invite", "users.manage", "tenant.billing"}

Role == {"staff", "manager", "admin", "owner"}

Rank(r) == CASE r = "staff" -> 1 [] r = "manager" -> 2 [] r = "admin" -> 3 [] r = "owner" -> 4

(* What is ticked or unticked for one person, against their role. *)
OverrideShape == [give : SUBSET Permission, take : SUBSET Permission]

ASSUME AccessAssumptions ==
    /\ Home \in Accounts \ Personal /\ Personal \subseteq Accounts
    /\ Roster \in [People -> Role \cup {None}] /\ Withheld \in [People -> SUBSET Permission]
    /\ Offered \subseteq Role /\ Forms \subseteq SUBSET Permission
    /\ None \notin OverrideShape

VARIABLES
    plan,        \* plan[a]: "freelancer" (also while none is chosen) or "bureau"
    role,        \* users.role of the home organisation's members, None for anyone else
    active,      \* users.is_active
    override,    \* user_permission_overrides: [give, take]
    desk,        \* desk[k]: the request under way
    overlapped,  \* history: what two requests at once were about
    left         \* what may still be done

accessVars == <<plan, role, active, override>>

Idle == [step |-> "idle"]

Goto(k, where) == desk' = [desk EXCEPT ![k] = where]

Spend(what) == left[what] > 0 /\ left.all > 0 /\ left' = [left EXCEPT ![what] = @ - 1, !.all = @ - 1]

Overlap(what) ==
    overlapped' = IF \E k \in Desks : desk[k] # Idle /\ desk[k].about = what THEN overlapped \cup {what} ELSE overlapped

-----------------------------------------------------------------------------
PermissionsForRole(r) ==
    {"orders.read"}
        \cup (IF Rank(r) >= 2 THEN {"orders.delete", "finance.read", "finance.record_payment", "users.invite"} ELSE {})
        \cup (IF Rank(r) >= 3 THEN {"users.manage"} ELSE {})
        \cup (IF Rank(r) >= 4 THEN {"tenant.billing"} ELSE {})

PermissionsForPlan(p) == IF p = "bureau" THEN Permission ELSE Permission \ {"users.invite", "users.manage"}

NoOverride == [give |-> {}, take |-> {}]

(* Role, then overrides, then plan; managing people includes inviting them. *)
EffectivePermissions(r, p, o) ==
    LET granted == (PermissionsForRole(r) \cup o.give) \ o.take
        implied == IF "users.manage" \in granted THEN {"users.invite"} ELSE {}
    IN  (granted \cup implied) \cap PermissionsForPlan(p)

May(u) == IF role[u] = None \/ ~active[u] THEN {} ELSE EffectivePermissions(role[u], plan[Home], override[u])

Eff(u) == IF role[u] = None THEN {} ELSE EffectivePermissions(role[u], plan[Home], override[u])

(* What is stored for a set of boxes: its difference from the role's bundle. *)
WrittenOverrides(r, p, requested) ==
    LET fromRole == PermissionsForRole(r) \cap PermissionsForPlan(p)
    IN  [give |-> requested \ fromRole, take |-> fromRole \ requested]

Assignable(e, r) == Rank(r) <= Rank(role[e])

MayActOn(e, q) == Rank(role[q]) < Rank(role[e]) \/ (role[q] = "owner" /\ role[e] = "owner")

(* A box the plan does not offer refuses the whole form. *)
RequestedPermissions(boxes) == boxes \subseteq PermissionsForPlan(plan[Home])

AsSent(requested, held, current) == requested   \* a plausible bug: the boxes the editor could not see count as unticked

(* What the editor does not hold can be neither given nor taken away. *)
Settled(requested, held, current) == (requested \cap held) \cup (current \ held)

-----------------------------------------------------------------------------
(* boxes: the boxes ticked, or None when the form leaves access alone. *)
InviteUser(k, e, q, r, boxes) ==
    LET requested == IF boxes = None THEN PermissionsForRole(r) \cap PermissionsForPlan(plan[Home]) ELSE boxes
    IN  /\ desk[k] = Idle /\ "users.invite" \in May(e) /\ role[q] = None
        /\ Assignable(e, r) /\ RequestedPermissions(requested)
        /\ requested \subseteq May(e)
        /\ Spend("access")
        /\ Overlap(q)
        /\ Goto(k, [step |-> "invite", about |-> q, person |-> q, held |-> May(e), role |-> r, changed |-> TRUE,
                    override |-> WrittenOverrides(r, plan[Home], requested)])
        /\ UNCHANGED accessVars

UpdateUser(k, e, q, r, boxes) ==
    LET held == May(e)
        current == Eff(q)
        moved == EffectivePermissions(r, plan[Home], override[q])
    IN  /\ desk[k] = Idle /\ "users.manage" \in held
        /\ e # q /\ role[q] # None /\ MayActOn(e, q)
        /\ r # role[q] \/ boxes # None
        /\ r # role[q] => Assignable(e, r) /\ (boxes = None => (moved \ current) \subseteq held)
        /\ boxes # None => /\ Assignable(e, r)
                           /\ RequestedPermissions(boxes)
                           /\ (boxes \ current) \subseteq held
        /\ Spend("access")
        /\ Overlap(q)
        /\ Goto(k, [step |-> "update", about |-> q, person |-> q, held |-> held, role |-> r, changed |-> r # role[q],
                    override |-> IF boxes = None THEN None
                                 ELSE WrittenOverrides(r, plan[Home], Settled(boxes, held, current))])
        /\ UNCHANGED accessVars

(* Only what changed is written; of two invitations the second breaks a uniqueness rule. *)
CommitAccess(k) ==
    LET tx == desk[k]
        q == tx.person
    IN  /\ tx.step \in {"invite", "update"}
        /\ tx.step = "invite" <=> role[q] = None
        /\ role' = IF tx.changed THEN [role EXCEPT ![q] = tx.role] ELSE role
        /\ override' = IF tx.override = None THEN override ELSE [override EXCEPT ![q] = tx.override]
        /\ Goto(k, Idle)
        /\ UNCHANGED <<plan, active, overlapped, left>>

AccessRollBack(k) ==
    /\ desk[k].step = "invite" /\ role[desk[k].person] # None
    /\ Goto(k, Idle)
    /\ UNCHANGED <<accessVars, overlapped, left>>

(* Away for a while, or back: what they may do is kept with the row. *)
SetActive(e, q) ==
    /\ "users.manage" \in May(e) /\ e # q /\ role[q] # None /\ MayActOn(e, q)
    /\ role[q] = "owner" /\ active[q] => Cardinality({u \in People : role[u] = "owner" /\ active[u]}) > 1
    /\ Spend("access")
    /\ active' = [active EXCEPT ![q] = ~@]
    /\ UNCHANGED <<plan, role, override, desk, overlapped>>

(* A bureau stays a bureau, a personal workspace a freelancer. *)
ChoosePlan(a) ==
    /\ a \notin Personal /\ plan[a] = "freelancer"
    /\ Spend("access")
    /\ plan' = [plan EXCEPT ![a] = "bureau"]
    /\ UNCHANGED <<role, active, override, desk, overlapped>>
===============================================================================
