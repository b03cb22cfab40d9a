------------------------------- MODULE Billing -------------------------------
(***************************************************************************)
(* Packages, months and invoices: what an account may order in its own     *)
(* calendar month, and what it is asked to pay for a month that has ended. *)
(* An order is a unit of the month's count; a fee of None is one agreed    *)
(* with the account.                                                       *)
(***************************************************************************)
EXTENDS Access, FiniteSetsExt

CONSTANTS
    MaxMonth,
    Listed,     \* the packages at first: audience, then tier, to [included, price]
    Edits       \* what a superuser may change a package to

Months == 1..MaxMonth
TIERS == 1..3
AUDIENCES == {"bureau", "freelancer"}
STATUSES == {"open", "sent", "paid", "waived"}

(* A price of 0 is free, one of None is agreed with each account. *)
PackageShape == [included : Nat \ {0}, price : Nat \cup {None}]

ASSUME BillingAssumptions ==
    /\ MaxMonth \in Nat \ {0}
    /\ Listed \in [AUDIENCES -> [TIERS -> PackageShape]] /\ Edits \subseteq PackageShape

VARIABLES
    package,   \* billing_packages
    tier,      \* tenants.package_tier
    month,     \* month[a]: the calendar month where the account is
    orders,    \* orders[a][m]: the orders of the month that count, and those that were cancelled
    free,      \* billing_free_months
    invoice    \* billing_invoices

billingVars == <<package, tier, month, orders, free, invoice>>

-----------------------------------------------------------------------------
AudienceOf(a) == IF a \in Personal \/ plan[a] = "freelancer" THEN "freelancer" ELSE "bureau"

PackageOf(a) == package[AudienceOf(a)][tier[a]]

(* The quote of a month: every included order used means no more of them. *)
Blocked(a) == orders[a][month[a]].counted >= PackageOf(a).included

(* It is midnight of the first somewhere: time zones are less than a month apart. *)
MonthTurns(a) ==
    /\ month[a] < MaxMonth /\ \A b \in Accounts : month[b] >= month[a]
    /\ month' = [month EXCEPT ![a] = @ + 1]
    /\ UNCHANGED <<package, tier, orders, free, invoice, accessVars, desk, overlapped, left>>

CreateOrder(k, a) ==
    /\ desk[k] = Idle /\ ~Blocked(a)
    /\ Spend("order")
    /\ Overlap(<<"room", a>>)
    /\ Goto(k, [step |-> "order", about |-> <<"room", a>>, account |-> a])
    /\ UNCHANGED <<billingVars, accessVars>>

(* The row is dated by the database; whoever works there is told. *)
InsertOrder(k) ==
    LET a == desk[k].account
    IN  /\ desk[k].step = "order"
        /\ orders' = [orders EXCEPT ![a][month[a]].counted = @ + 1]
        /\ Goto(k, Idle)
        /\ UNCHANGED <<package, tier, month, free, invoice, accessVars, overlapped, left>>

(* A cancelled or rejected order stops counting, and counts again when it is taken up. *)
CancelOrder(a, m) ==
    /\ orders[a][m].counted > 0
    /\ Spend("order")
    /\ orders' = [orders EXCEPT ![a][m] = [counted |-> @.counted - 1, cancelled |-> @.cancelled + 1]]
    /\ UNCHANGED <<package, tier, month, free, invoice, accessVars, desk, overlapped>>

TakeUpOrder(a, m) ==
    /\ orders[a][m].cancelled > 0
    /\ Spend("order")
    /\ orders' = [orders EXCEPT ![a][m] = [counted |-> @.counted + 1, cancelled |-> @.cancelled - 1]]
    /\ UNCHANGED <<package, tier, month, free, invoice, accessVars, desk, overlapped>>

-----------------------------------------------------------------------------
(* Who may order more: an owner moves up, to a listed price. *)
Upgrade(e, t) ==
    /\ "tenant.billing" \in May(e)
    /\ t > tier[Home] /\ package[AudienceOf(Home)][t].price # None
    /\ Spend("bill")
    /\ tier' = [tier EXCEPT ![Home] = t]
    /\ UNCHANGED <<package, month, orders, free, invoice, accessVars, desk, overlapped>>

SetTenantPackage(a, t) ==
    /\ t # tier[a]
    /\ Spend("bill")
    /\ tier' = [tier EXCEPT ![a] = t]
    /\ UNCHANGED <<package, month, orders, free, invoice, accessVars, desk, overlapped>>

EditPackage(u, t, terms) ==
    /\ terms # package[u][t]
    /\ Spend("bill")
    /\ package' = [package EXCEPT ![u][t] = terms]
    /\ UNCHANGED <<tier, month, orders, free, invoice, accessVars, desk, overlapped>>

-----------------------------------------------------------------------------
(* A month is made free, or not any more: refused while there is an invoice for it. *)
SetFreeMonth(k, a, m) ==
    /\ desk[k] = Idle
    /\ m \in free[a] \/ invoice[a][m] = None
    /\ Spend("bill")
    /\ Overlap(<<"month", m>>)
    /\ Goto(k, [step |-> "free", about |-> <<"month", m>>, account |-> a, month |-> m, free |-> m \notin free[a]])
    /\ UNCHANGED <<billingVars, accessVars>>

CommitFreeMonth(k) ==
    LET tx == desk[k]
    IN  /\ tx.step = "free"
        /\ free' = [free EXCEPT ![tx.account] = IF tx.free THEN @ \cup {tx.month} ELSE @ \ {tx.month}]
        /\ tx.free => tx.month \notin free[tx.account]
        /\ Goto(k, Idle)
        /\ UNCHANGED <<package, tier, month, orders, invoice, accessVars, overlapped, left>>

AnyMonth(a, m) == TRUE   \* a plausible bug: a month is billed before it is over

Ended(a, m) == m < month[a]

Due(a, m) == invoice[a][m] = None /\ Ended(a, m) /\ m \notin free[a] /\ PackageOf(a).price \notin {None, 0}

(* The invoice of every account for a month, as the tables are now. *)
PrepareInvoices(k, m) ==
    /\ desk[k] = Idle
    /\ Spend("bill")
    /\ Overlap(<<"month", m>>)
    /\ Goto(k, [step |-> "prepare", about |-> <<"month", m>>, month |-> m,
                made |-> [a \in {b \in Accounts : Due(b, m)} |->
                            [tier |-> tier[a], included |-> PackageOf(a).included, counted |-> orders[a][m].counted,
                             fee |-> PackageOf(a).price, status |-> "open", sent |-> FALSE, paid |-> FALSE]]])
    /\ UNCHANGED <<billingVars, accessVars>>

(* All of them or none: an invoice made meanwhile for one account breaks a uniqueness rule. *)
CommitInvoices(k) ==
    LET tx == desk[k]
    IN  /\ tx.step = "prepare"
        /\ \A a \in DOMAIN tx.made : invoice[a][tx.month] = None
        /\ invoice' = [a \in Accounts |-> IF a \in DOMAIN tx.made THEN [invoice[a] EXCEPT ![tx.month] = tx.made[a]]
                                          ELSE invoice[a]]
        /\ Goto(k, Idle)
        /\ UNCHANGED <<package, tier, month, orders, free, accessVars, overlapped, left>>

BillingRollBack(k) ==
    LET tx == desk[k]
    IN  /\ \/ tx.step = "prepare" /\ \E a \in DOMAIN tx.made : invoice[a][tx.month] # None
           \/ tx.step = "free" /\ tx.free /\ tx.month \in free[tx.account]
        /\ Goto(k, Idle)
        /\ UNCHANGED <<billingVars, accessVars, overlapped, left>>

SetInvoiceStatus(a, m, status) ==
    /\ invoice[a][m] # None
    /\ Spend("bill")
    /\ invoice' = [invoice EXCEPT ![a][m].status = status,
                     ![a][m].sent = status \in {"sent", "paid"} \/ (@ /\ status # "open"),
                     ![a][m].paid = status = "paid"]
    /\ UNCHANGED <<package, tier, month, orders, free, accessVars, desk, overlapped>>
===============================================================================
