-------------------------------- MODULE Bureau --------------------------------
(***************************************************************************)
(* The tables of one bureau that orders and money share, and the figures   *)
(* read off them.  Nothing here is a stored balance: what an order was     *)
(* paid, what it owes and what a translator is still due are computed from *)
(* the ledgers each time they are read.                                    *)
(*                                                                         *)
(* A request reads and decides in one action and writes in a later one, so *)
(* any two requests interleave as READ COMMITTED lets them; what a request *)
(* read and will write lies on its clerk's desk in between.                *)
(***************************************************************************)
EXTENDS Pricing, FiniteSets, Sequences

CONSTANTS
    Clerks,       \* requests that can be in flight at the same time
    Clients, Translators,
    OwnRate,      \* a translator's own rate per page in tetri, 0: none
    Lines,        \* the lines an order can have, as the engine sees them
    Settings,     \* the price settings the bureau goes through
    TypedPrice,   \* the price staff type in by hand
    DeliveryFee,
    Included,     \* orders of a month the package covers
    DocumentLimit, \* MAX_DOCUMENTS
    MaxOrders, MaxDocs,   \* bounds: rows ever made
    Forms,        \* payment and payout forms; each has its idempotency key
    Form,         \* what is filled in on each
    Expenses,     \* expense rows that can be made
    Budget,       \* bound: requests of each kind, and of any kind
    None

Orders == 1..MaxOrders
Docs   == 1..MaxDocs

Urgencies == {"standard", "express"}
Ledgers   == {"client", "translator", "notary"}
Kinds     == {"create", "edit", "status", "remove", "pay", "undo", "expense", "settings", "any"}

AllocatedBy(k) == SumFunction(Form[k].alloc)

ASSUME BureauAssumptions ==
    /\ MaxOrders \in Nat /\ MaxDocs \in Nat /\ Included \in Nat
    /\ DocumentLimit \in Nat \ {0}
    /\ TypedPrice \in Nat /\ DeliveryFee \in Nat
    /\ OwnRate \in [Translators -> Nat]
    /\ Lines \subseteq LineShape
    /\ Settings \in Seq(SettingShape) /\ Settings # <<>>
    /\ IsFiniteSet(Forms) /\ IsFiniteSet(Clients) /\ IsFiniteSet(Translators)
    /\ \A k \in Forms :
        /\ Form[k].ledger \in Ledgers /\ Form[k].amount \in Nat
        /\ Form[k].ledger = "client" => Form[k].who \in Clients
        /\ Form[k].ledger = "translator" => Form[k].who \in Translators
        /\ DOMAIN Form[k].alloc \subseteq (IF Form[k].ledger = "notary" THEN Docs ELSE Orders)
        /\ Form[k].alloc \in [DOMAIN Form[k].alloc -> Nat \ {0}]
        /\ AllocatedBy(k) <= Form[k].amount
        /\ Form[k].via \in Forms \cup {None}
        /\ Form[k].via # None => Form[k].ledger = "notary" /\ Form[Form[k].via].ledger = "translator"
    /\ None \notin Clients \cup Translators \cup Forms
    /\ Forms \cap Orders = {}
    /\ Budget \in [Kinds -> Nat]

VARIABLES
    order,     \* order[o]: its row, NoOrder when there is none
    doc,       \* doc[d]: its row, NoDoc when there is none
    status,    \* status[o]: the latest event, as <<when, value>>
    rows,      \* rows[k]: ledger rows that carry form k's key
    fronted,   \* notary rows that still name the payout they were paid through
    expense,   \* expense[e]: the order it is charged to, 0 when there is no row
    setting,   \* which of Settings holds now
    desk,      \* desk[c]: the request clerk c has read for and not yet written
    made,      \* [order, doc]: ids given out so far
    clock,     \* orders the status events
    mixed,     \* history: orders and forms that two requests in flight at once touched
    left       \* left[k]: requests of kind k that may still be made

tableVars == <<order, doc, status, rows, fronted, expense, setting>>
vars      == <<tableVars, desk, made, clock, mixed, left>>

NoOrder == [number |-> 0]
NoDoc   == [order |-> 0]
Idle    == [op |-> "idle"]

-----------------------------------------------------------------------------
(* Orders, their lines and their status. *)

Exists(o) == order[o] # NoOrder
DocsOf(o) == {d \in Docs : doc[d].order = o}

StatusNow(o) == status[o][2]

ExcludedFromAggregates == {"cancelled", "rejected"}
LiveOrders == {o \in Orders : Exists(o) /\ StatusNow(o) \notin ExcludedFromAggregates}

DocumentsTotal(o) == SumFunction([d \in DocsOf(o) |-> doc[d].price])

(* The figure of a line the engine computes at this urgency, now. *)
Computed(line, urgency) == PriceDocument(line, Settings[setting], urgency)

(* The translator's own rate per page, where they have one and the line is written. *)
TranslatorDefaultCost(t, line, otherwise) ==
    IF t = None \/ line.kind = "oral" THEN otherwise
    ELSE IF OwnRate[t] = 0 THEN otherwise ELSE OwnRate[t] * line.units

-----------------------------------------------------------------------------
(* The ledgers. *)

FormsOf(ledger) == {k \in Forms : Form[k].ledger = ledger}

Share(k, x) == rows[k] * Form[k].alloc[x]

FormsFor(ledger, x) == {k \in FormsOf(ledger) : x \in DOMAIN Form[k].alloc}

Allocated(ledger, x) == SumFunction([k \in FormsFor(ledger, x) |-> Share(k, x)])

Paid(o) == Allocated("client", o)

Billed(o) == DocumentsTotal(o) + order[o].delivery

PerOrderOwed(o) == Billed(o) - Paid(o)

(* What a translator is still due for one order; payouts of other people do not count. *)
TheirDocs(t, o) == {d \in DocsOf(o) : doc[d].by = t}

TheirCost(t, o) == SumFunction([d \in TheirDocs(t, o) |-> doc[d].cost])

TheirForms(t, o) == {k \in FormsFor("translator", o) : Form[k].who = t}

TheirPaid(t, o) == SumFunction([k \in TheirForms(t, o) |-> Share(k, o)])

(* Money recorded against an order, of any ledger: rows are counted, not sums. *)
Recorded(ledger, x) == \E k \in FormsOf(ledger) : rows[k] > 0 /\ x \in DOMAIN Form[k].alloc

HasClientPayments(o)     == Recorded("client", o)
HasTranslatorPayouts(o)  == Recorded("translator", o)
HasNotaryPayments(d)     == Recorded("notary", d)
HasExpenses(o)           == \E e \in Expenses : expense[e] = o

-----------------------------------------------------------------------------
(* Requests. *)

Spend(k) ==
    /\ left[k] > 0 /\ left["any"] > 0
    /\ left' = [left EXCEPT ![k] = @ - 1, !["any"] = @ - 1]

Take(c, request) == desk[c] = Idle /\ desk' = [desk EXCEPT ![c] = request]

(* What a request in flight reads or writes. *)
Touches(request) ==
    CASE request.op \in {"edit", "status", "remove"} -> {request.order}
      [] request.op \in {"pay", "undo"} ->
            {request.form} \cup ({Form[request.form].via} \ {None})
            \cup (IF Form[request.form].ledger = "notary"
                  THEN {doc[d].order : d \in DOMAIN Form[request.form].alloc}
                  ELSE DOMAIN Form[request.form].alloc)
      [] request.op = "expense" -> {request.order}
      [] OTHER -> {}

(* The request is over; what others in flight touch too has been mixed. *)
Leave(c) ==
    /\ desk' = [desk EXCEPT ![c] = Idle]
    /\ mixed' = mixed \cup UNION {Touches(desk[c]) \cap Touches(desk[b]) : b \in Clerks \ {c}}

(* A database constraint or a row that is gone refuses it: everything is rolled back. *)
Refused(c) == Leave(c) /\ UNCHANGED <<tableVars, made, clock, left>>
=============================================================================
