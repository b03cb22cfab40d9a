------------------------------ MODULE Finances ------------------------------
(***************************************************************************)
(* The money screen: payments of clients, payouts to translators and       *)
(* notaries, expenses, and the balances computed from them.  A request     *)
(* checks its allocations against what it reads and inserts in a later     *)
(* step; no row is locked in between, only the unique index on the         *)
(* idempotency key and the foreign keys are left to refuse it.             *)
(***************************************************************************)
EXTENDS Orders

-----------------------------------------------------------------------------
(* What a form may be filled in with. *)

OwnOrders(k) ==   \* a plausible bug: what the order still owes is not compared
    \A o \in DOMAIN Form[k].alloc : o \in LiveOrders /\ order[o].client = Form[k].who

(* An order of this client that counts and owes at least this much. *)
CheckClientAllocations(k) ==
    \A o \in DOMAIN Form[k].alloc :
        /\ o \in LiveOrders
        /\ order[o].client = Form[k].who
        /\ Form[k].alloc[o] <= PerOrderOwed(o)

(* An order this translator worked on, not beyond their cost of it. *)
CheckTranslatorAllocations(k) ==
    \A o \in DOMAIN Form[k].alloc :
        /\ Exists(o)
        /\ TheirCost(Form[k].who, o) > 0
        /\ Form[k].alloc[o] <= TheirCost(Form[k].who, o) - TheirPaid(Form[k].who, o)

CheckNotaryAllocations(k) ==
    \A d \in DOMAIN Form[k].alloc :
        /\ doc[d] # NoDoc
        /\ doc[d].line.notarised
        /\ Form[k].alloc[d] <= doc[d].fee - Allocated("notary", d)

ViaFound(k) == Form[k].via # None => rows[Form[k].via] > 0

Checked(k) ==
    CASE Form[k].ledger = "client"     -> CheckClientAllocations(k)
      [] Form[k].ledger = "translator" -> CheckTranslatorAllocations(k)
      [] Form[k].ledger = "notary"     -> ViaFound(k) /\ CheckNotaryAllocations(k)

-----------------------------------------------------------------------------
(* Recording money.  A retry finds the row and is answered with it, so only *)
(* a form with no row yet gets as far as the checks.                        *)

RecordPayment(c, k) ==
    /\ Spend("pay")
    /\ rows[k] = 0
    /\ Checked(k)
    /\ Take(c, [op |-> "pay", form |-> k])
    /\ UNCHANGED <<tableVars, made, clock, mixed>>

InsertAlways(k) == rows[k] + 1   \* a plausible bug: no unique index behind the lookup

(* The unique index: a request that lost the race answers with the other's row. *)
InsertOnce(k) == IF rows[k] > 0 THEN rows[k] ELSE 1

(* The foreign keys of the row and of its allocations. *)
ReferencesHold(k) ==
    /\ ViaFound(k)
    /\ \A x \in DOMAIN Form[k].alloc :
        IF Form[k].ledger = "notary" THEN doc[x] # NoDoc ELSE Exists(x)

InsertPayment(c) ==
    /\ desk[c].op = "pay"
    /\ LET k == desk[c].form
       IN  IF rows[k] = 0 /\ ~ReferencesHold(k)
           THEN Refused(c)
           ELSE /\ rows' = [rows EXCEPT ![k] = InsertOnce(k)]
                /\ fronted' = IF rows[k] = 0 /\ Form[k].via # None
                              THEN fronted \cup {k} ELSE fronted
                /\ Leave(c)
                /\ UNCHANGED <<order, doc, status, expense, setting, made, clock, left>>

NeverPaidThrough(k) == FALSE   \* a plausible bug: the link is left to the foreign key

(* Undoing it: a payout that a notary payment went through stays. *)
PaidThrough(k) == \E n \in fronted : Form[n].via = k /\ rows[n] > 0

DeletePayment(c, k) ==
    /\ Spend("undo")
    /\ rows[k] > 0
    /\ ~PaidThrough(k)
    /\ Take(c, [op |-> "undo", form |-> k])
    /\ UNCHANGED <<tableVars, made, clock, mixed>>

(* Allocations go with the row; a notary payment through it is unlinked. *)
RemovePayment(c) ==
    /\ desk[c].op = "undo"
    /\ LET k == desk[c].form
       IN  /\ rows' = [rows EXCEPT ![k] = 0]
           /\ fronted' = {n \in fronted : n # k /\ Form[n].via # k}
    /\ Leave(c)
    /\ UNCHANGED <<order, doc, status, expense, setting, made, clock, left>>

-----------------------------------------------------------------------------
(* Expenses charged to an order. *)

CreateExpense(c, e, o) ==
    /\ Spend("expense")
    /\ Exists(o) /\ expense[e] = 0
    /\ \A b \in Clerks : desk[b].op = "expense" => desk[b].row # e   \* each request its own row
    /\ Take(c, [op |-> "expense", row |-> e, order |-> o, keep |-> TRUE])
    /\ UNCHANGED <<tableVars, made, clock, mixed>>

DeleteExpense(c, e) ==
    /\ Spend("expense")
    /\ expense[e] # 0
    /\ Take(c, [op |-> "expense", row |-> e, order |-> expense[e], keep |-> FALSE])
    /\ UNCHANGED <<tableVars, made, clock, mixed>>

WriteExpense(c) ==
    /\ desk[c].op = "expense"
    /\ LET r == desk[c]
       IN  IF r.keep /\ ~Exists(r.order)
           THEN Refused(c)
           ELSE /\ expense' = [expense EXCEPT ![r.row] = IF r.keep THEN r.order ELSE 0]
                /\ Leave(c)
                /\ UNCHANGED <<order, doc, status, rows, fronted, setting, made, clock, left>>

-----------------------------------------------------------------------------
(* The overview cards, and the lists under them. *)

Amount(k) == rows[k] * Form[k].amount

Moved(forms) == SumFunction([k \in forms |-> Amount(k)])

Unpaid(orders) == {o \in orders \cap LiveOrders : PerOrderOwed(o) > 0}

Outstanding(orders) == SumFunction([o \in Unpaid(orders) |-> PerOrderOwed(o)])

Receivables == Outstanding(Orders)

(* One line of the receivables list, and the whole position of one client. *)
ClientOutstanding(cl) == Outstanding({o \in LiveOrders : order[o].client = cl})

FormsWith(ledger, person) == {k \in FormsOf(ledger) : Form[k].who = person}

ClientCredit(cl) ==
    SumFunction([k \in FormsWith("client", cl) |-> Amount(k) - rows[k] * AllocatedBy(k)])

(* Earned on orders that count; paid without the part that repaid a notary fee. *)
TranslatorEarned(t) ==
    SumFunction([d \in {x \in Docs : doc[x].order \in LiveOrders /\ doc[x].by = t} |-> doc[d].cost])

FrontedBy(t) == {n \in fronted : Form[Form[n].via].who = t}

PaidToTranslator(t) == Moved(FormsWith("translator", t)) - Moved(FrontedBy(t))

TranslatorOutstanding(t) == TranslatorEarned(t) - PaidToTranslator(t)

PaidToNotaries == Moved(FormsOf("notary"))

AllNotaryPayouts == Moved(FormsOf("notary"))   \* a plausible bug: fronted fees counted again

(* The cash flow of the period: notaries only where the bureau paid them itself. *)
TranslatorPayouts == Moved(FormsOf("translator"))
NotaryPayouts == Moved(FormsOf("notary") \ fronted)
PaymentsReceived == Moved(FormsOf("client"))

-----------------------------------------------------------------------------
FinanceStep ==
    \/ \E c \in Clerks, k \in Forms : RecordPayment(c, k) \/ DeletePayment(c, k)
    \/ \E c \in Clerks : InsertPayment(c) \/ RemovePayment(c) \/ WriteExpense(c)
    \/ \E c \in Clerks, e \in Expenses, o \in Orders : CreateExpense(c, e, o)
    \/ \E c \in Clerks, e \in Expenses : DeleteExpense(c, e)

Init ==
    /\ order = [o \in Orders |-> NoOrder]
    /\ doc = [d \in Docs |-> NoDoc]
    /\ status = [o \in Orders |-> <<0, "none">>]
    /\ rows = [k \in Forms |-> 0]
    /\ fronted = {}
    /\ expense = [e \in Expenses |-> 0]
    /\ setting = 1
    /\ desk = [c \in Clerks |-> Idle]
    /\ made = [order |-> 0, doc |-> 0]
    /\ clock = 0
    /\ mixed = {}
    /\ left = Budget

Next == OrderStep \/ FinanceStep

Spec == Init /\ [][Next]_vars

-----------------------------------------------------------------------------
(***************************************************************************)
(* TypeOK: every row on the tables is complete, every status is one an     *)
(* order can have, and a ledger row count is a count.                      *)
(***************************************************************************)
TypeOK ==
    /\ \A o \in Orders : Exists(o) =>
        /\ order[o].client \in Clients /\ order[o].urgency \in Urgencies
        /\ order[o].delivery \in Nat /\ order[o].number \in Nat \ {0}
        /\ StatusNow(o) \in SelectableStatuses \cup ExcludedFromAggregates
    /\ \A d \in Docs : doc[d] # NoDoc =>
        /\ Exists(doc[d].order)
        /\ doc[d].line \in Lines /\ doc[d].by \in Translators \cup {None}
        /\ doc[d].price \in Nat /\ doc[d].cost \in Nat /\ doc[d].fee \in Nat
    /\ rows \in [Forms -> Nat]
    /\ fronted \subseteq FormsOf("notary")
    /\ expense \in [Expenses -> Orders \cup {0}]
    /\ setting \in DOMAIN Settings

(***************************************************************************)
(* Numbers: the number an order request has drawn is still free when it    *)
(* commits, whatever the other requests and imports do in between, so the  *)
(* unique constraint on the number never refuses a customer's order.       *)
(***************************************************************************)
DrawnNumberIsFree ==
    \A c \in Clerks : desk[c].op = "numbered" =>
        /\ ~NumberTaken(desk[c].number)
        /\ \A b \in Clerks \ {c} :
            desk[b].op = "numbered" => desk[b].number # desk[c].number

(***************************************************************************)
(* A form that is sent twice, at once or one after the other, leaves one   *)
(* ledger row, and every row and allocation is about something that still  *)
(* exists: neither an order nor a document goes away under its money.      *)
(***************************************************************************)
OneRowPerForm ==
    \A k \in Forms :
        /\ rows[k] <= 1
        /\ rows[k] = 1 => \A x \in DOMAIN Form[k].alloc :
            IF Form[k].ledger = "notary" THEN doc[x] # NoDoc ELSE Exists(x)

(***************************************************************************)
(* "A payment belongs to the client who made it and must never end up      *)
(* settling someone else's order": a client's row is allocated only to     *)
(* that client's orders, unless a payment and a change of client of that   *)
(* order were in flight at the same time.                                  *)
(***************************************************************************)
MoneyStaysWithItsClient ==
    \A k \in FormsOf("client") : rows[k] > 0 =>
        \A o \in DOMAIN Form[k].alloc \ mixed : order[o].client = Form[k].who

(***************************************************************************)
(* Recording a payment never takes an order beyond what it bills and a     *)
(* payout never takes a translator beyond their cost of it, for an order   *)
(* that no two requests in flight shared.                                  *)
(***************************************************************************)
PaymentNeverOverpays ==
    [][\A o \in Orders :
         /\ Paid(o)' > Paid(o) /\ o \notin mixed' => Paid(o)' <= Billed(o)'
         /\ \A t \in Translators :
              TheirPaid(t, o)' > TheirPaid(t, o) /\ o \notin mixed' => TheirPaid(t, o)' <= TheirCost(t, o)']_vars

(***************************************************************************)
(* A price the engine set under the settings that still hold is the        *)
(* engine's price at the urgency the order has now, through header edits,  *)
(* line edits, additions and both in one save.                             *)
(***************************************************************************)
PriceFollowsUrgency ==
    \A d \in Docs :
        (doc[d] # NoDoc /\ doc[d].order \notin mixed) =>
            (doc[d].at = setting =>
                doc[d].price = Computed(doc[d].line, order[doc[d].order].urgency).price)

(***************************************************************************)
(* An expense disappears only by its own deletion, and a notary payment    *)
(* stops naming the payout it went through only by its own deletion:       *)
(* neither by deleting the order nor by deleting the payout, unless the    *)
(* two requests overlapped.                                                *)
(***************************************************************************)
NothingIsLostOnTheSide ==
    [][/\ \A e \in Expenses : expense[e] # 0 /\ expense'[e] = 0 =>
            \/ \E c \in Clerks : desk[c].op = "expense" /\ desk[c].row = e /\ desk'[c] = Idle
            \/ expense[e] \in mixed'
       /\ \A n \in fronted \ fronted' : rows'[n] = 0 \/ Form[n].via \in mixed']_vars

(***************************************************************************)
(* "The card and the table under it cannot disagree": the receivables card *)
(* is the sum of the clients' lines, and what went out to translators and  *)
(* notaries is counted once, a fronted fee in the payout that repaid it.   *)
(***************************************************************************)
CardsAgree ==
    /\ Receivables = SumFunction([cl \in Clients |-> ClientOutstanding(cl)])
    /\ TranslatorPayouts + NotaryPayouts = SumFunction([t \in Translators |-> PaidToTranslator(t)]) + PaidToNotaries
    /\ PaymentsReceived = SumFunction([cl \in Clients |-> ClientCredit(cl)])
                          + SumFunction([o \in {x \in Orders : Exists(x)} |-> Paid(o)])
=============================================================================
