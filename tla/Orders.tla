-------------------------------- MODULE Orders --------------------------------
(***************************************************************************)
(* The requests of the order screens: creating an order, editing its       *)
(* header and its lines one at a time or all together, moving its status,  *)
(* deleting it, and the price settings changing beside them.               *)
(*                                                                         *)
(* An edit works on what it read (a view of the order), and the ORM writes *)
(* the columns that differ from it: `base` and `new` on the desk.          *)
(***************************************************************************)
EXTENDS Bureau

CONSTANT NewOrders,  \* orders that are asked for: client, urgency, courier, items
         Headers,    \* header changes that are asked for
         Changes,    \* changes of a document that are asked for
         Items,      \* documents that are added, at creation or later
         Keep        \* a field the request does not send

ItemShape   == [line : Lines, by : Translators \cup {None}, price : Nat \cup {None}]
HeaderShape == [client : Clients \cup {Keep}, urgency : Urgencies \cup {Keep},
                courier : BOOLEAN \cup {Keep}, delivery : Nat \cup {Keep}]
ChangeShape == [line : Lines \cup {Keep}, by : Translators \cup {None, Keep}, price : Nat \cup {Keep}]

ASSUME OrdersAssumptions ==
    /\ Items \subseteq ItemShape
    /\ NewOrders \subseteq [client : Clients, urgency : Urgencies, courier : BOOLEAN, items : Seq(ItemShape)]
    /\ Headers \subseteq HeaderShape
    /\ Changes \subseteq ChangeShape

-----------------------------------------------------------------------------
(* Numbers, 1, 2, 3 within the bureau. *)

HighestNumber == Max({0} \cup {order[o].number : o \in Orders})

NextNumberOfTable == HighestNumber + 1

NumberTaken(n) == \E o \in Orders : order[o].number = n

NoLock == TRUE   \* a plausible bug: the maximum is read without the lock

(* pg_advisory_xact_lock: held from the draw until the transaction ends. *)
NumberLockFree == \A c \in Clerks : desk[c].op # "numbered"

-----------------------------------------------------------------------------
(* Creating an order. *)

(* A priced row; a typed price wins, the own rate of a translator is the default cost. *)
DocumentRow(o, item, urgency) ==
    LET figures == Computed(item.line, urgency)
        typed   == item.price # None
    IN  [order |-> o, line |-> item.line, by |-> item.by,
         price |-> IF typed THEN item.price ELSE figures.price,
         cost  |-> TranslatorDefaultCost(item.by, item.line, figures.cost),
         fee   |-> figures.fee,
         at    |-> IF typed THEN 0 ELSE setting]

ItemAllowed(item) == RequireRate(item.line, Settings[setting], item.price # None)

(* This month's orders that count; imported ones do not. *)
CountedOrders == Cardinality({o \in LiveOrders : ~order[o].imported})

CreateOrder(c, client, urgency, courier, items) ==
    /\ Spend("create")
    /\ CountedOrders < Included
    /\ Len(items) \in 1..DocumentLimit
    /\ \A i \in DOMAIN items : ItemAllowed(items[i])
    /\ Take(c, [op |-> "create", client |-> client, urgency |-> urgency, courier |-> courier,
                lines |-> [i \in DOMAIN items |-> DocumentRow(0, items[i], urgency)]])
    /\ UNCHANGED <<tableVars, made, clock, mixed>>

(* The flush that inserts the row waits for the lock and draws the number. *)
DrawNumber(c) ==
    /\ desk[c].op = "create"
    /\ NumberLockFree
    /\ desk' = [desk EXCEPT ![c] = [op |-> "numbered", request |-> desk[c],
                                    number |-> NextNumberOfTable]]
    /\ UNCHANGED <<tableVars, made, clock, mixed, left>>

NewDocs(o, lines) ==
    [d \in Docs |-> IF d \in made.doc + 1..made.doc + Len(lines)
                    THEN [lines[d - made.doc] EXCEPT !.order = o] ELSE doc[d]]

CommitOrder(c) ==
    /\ desk[c].op = "numbered"
    /\ LET r == desk[c].request
           o == made.order + 1
       IN  /\ made.order < MaxOrders /\ made.doc + Len(r.lines) <= MaxDocs
           /\ ~NumberTaken(desk[c].number)
           /\ order' = [order EXCEPT ![o] =
                [number |-> desk[c].number, client |-> r.client, urgency |-> r.urgency,
                 courier |-> r.courier, imported |-> FALSE,
                 delivery |-> IF r.courier THEN DeliveryFee ELSE 0]]
           /\ doc' = NewDocs(o, r.lines)
           /\ status' = [status EXCEPT ![o] = <<clock + 1, "new">>]
           /\ clock' = clock + 1
           /\ made' = [order |-> o, doc |-> made.doc + Len(r.lines)]
    /\ Leave(c)
    /\ UNCHANGED <<rows, fronted, expense, setting, left>>

(* The unique constraint on the number, or a bound of the model, ends it. *)
CreateFails(c) ==
    /\ desk[c].op = "numbered"
    /\ \/ NumberTaken(desk[c].number)
       \/ made.order = MaxOrders
       \/ made.doc + Len(desk[c].request.lines) > MaxDocs
    /\ Refused(c)

(* A row of the spreadsheet import: a finished or cancelled order with its price. *)
ImportOrder(client, value) ==
    /\ Spend("create")
    /\ NumberLockFree
    /\ made.order < MaxOrders /\ made.doc < MaxDocs
    /\ LET o == made.order + 1
       IN  /\ order' = [order EXCEPT ![o] =
                [number |-> NextNumberOfTable, client |-> client, urgency |-> "standard",
                 courier |-> FALSE, imported |-> TRUE, delivery |-> 0]]
           /\ \E line \in Lines :
                doc' = [doc EXCEPT ![made.doc + 1] =
                    [order |-> o, line |-> line, by |-> None, price |-> TypedPrice,
                     cost |-> 0, fee |-> 0, at |-> 0]]
           /\ status' = [status EXCEPT ![o] = <<clock + 1, value>>]
           /\ clock' = clock + 1
           /\ made' = [order |-> o, doc |-> made.doc + 1]
    /\ UNCHANGED <<rows, fronted, expense, setting, desk, mixed>>

-----------------------------------------------------------------------------
(* Editing. *)

View(o) == [client |-> order[o].client, urgency |-> order[o].urgency,
            courier |-> order[o].courier, delivery |-> order[o].delivery,
            docs |-> [d \in DocsOf(o) |-> doc[d]]]

Sent(value, before) == IF value = Keep THEN before ELSE value

PriceLeft(row, was, now) == row   \* a plausible bug: the lines keep the old urgency's price

(* A figure still equal to the engine's at the old urgency follows the new one. *)
RepriceForUrgency(row, was, now) ==
    [row EXCEPT !.price = IF @ = was.price THEN now.price ELSE @,
                !.at    = IF row.price = was.price THEN setting ELSE @,
                !.cost  = IF @ = was.cost THEN now.cost ELSE @,
                !.fee   = IF @ = was.fee THEN now.fee ELSE @]

UpdateOrder(v, h) ==
    LET urgency == Sent(h.urgency, v.urgency)
        courier == Sent(h.courier, v.courier)
    IN  [client   |-> Sent(h.client, v.client),
         urgency  |-> urgency,
         courier  |-> courier,
         delivery |-> CASE h.delivery # Keep -> h.delivery
                        [] h.delivery = Keep /\ courier # v.courier ->
                              IF courier THEN DeliveryFee ELSE 0
                        [] OTHER -> v.delivery,
         docs     |-> IF urgency = v.urgency THEN v.docs
                      ELSE [d \in DOMAIN v.docs |->
                              RepriceForUrgency(v.docs[d], Computed(v.docs[d].line, v.urgency),
                                                Computed(v.docs[d].line, urgency))]]

AnyClient(o, h) == TRUE   \* a plausible bug: an order moves with its payments

(* An order with a payment does not move to another client. *)
HeaderAllowed(o, h) == h.client \in {Keep, order[o].client} \/ ~HasClientPayments(o)

(* What is translated changed: priced again, except a figure sent with it. *)
UpdateOrderDocument(row, ch, urgency) ==
    LET line       == Sent(ch.line, row.line)
        by         == Sent(ch.by, row.by)
        structural == ch.line # Keep
        figures    == Computed(line, urgency)
        otherwise  == IF structural THEN figures.cost ELSE row.cost
        takesRate  == structural \/ ch.by \notin {Keep, None}
    IN  [order |-> row.order, line |-> line, by |-> by,
         price |-> CASE ch.price # Keep -> ch.price
                     [] ch.price = Keep /\ structural -> figures.price
                     [] OTHER -> row.price,
         cost  |-> IF takesRate THEN TranslatorDefaultCost(by, line, otherwise) ELSE row.cost,
         fee   |-> IF ~line.notarised THEN 0 ELSE IF structural THEN figures.fee ELSE row.fee,
         at    |-> CASE ch.price # Keep -> 0
                     [] ch.price = Keep /\ structural -> setting
                     [] OTHER -> row.at]

ChangeAllowed(ch) ==
    ch.line # Keep => RequireRate(ch.line, Settings[setting], ch.price # Keep)

(* An order keeps a document, and a document with a notary payment stays. *)
RemovalAllowed(v, adds, gone) ==
    /\ gone \subseteq DOMAIN v.docs
    /\ gone # {} => Cardinality(DOMAIN v.docs) + Len(adds) > Cardinality(gone)
    /\ \A d \in gone : ~HasNotaryPayments(d)

NoHeader == [client |-> Keep, urgency |-> Keep, courier |-> Keep, delivery |-> Keep]

(***************************************************************************)
(* save_order: header, then additions, changes and removals, each as its   *)
(* own endpoint would do it.  The endpoints for one change are this with   *)
(* everything else left out.                                               *)
(***************************************************************************)
SaveOrder(c, o, h, adds, changes, gone) ==
    LET v == View(o)
        w == UpdateOrder(v, h)
    IN  /\ Exists(o)
        /\ HeaderAllowed(o, h)
        /\ \A i \in DOMAIN adds : ItemAllowed(adds[i])
        /\ adds # <<>> => Cardinality(DOMAIN v.docs) + Len(adds) <= DocumentLimit
        /\ DOMAIN changes \subseteq DOMAIN v.docs \ gone
        /\ \A d \in DOMAIN changes : ChangeAllowed(changes[d])
        /\ RemovalAllowed(v, adds, gone)
        /\ Take(c, [op |-> "edit", order |-> o, base |-> v,
                    new |-> [w EXCEPT !.docs = [d \in DOMAIN v.docs |->
                                IF d \in DOMAIN changes
                                THEN UpdateOrderDocument(w.docs[d], changes[d], w.urgency)
                                ELSE w.docs[d]]],
                    adds |-> [i \in DOMAIN adds |-> DocumentRow(o, adds[i], w.urgency)],
                    gone |-> gone])
        /\ UNCHANGED <<tableVars, made, clock, mixed>>

NoChange == [d \in {} |-> Keep]

(* The five ways the screens call it. *)
EditOrder(c, o) ==
    /\ Spend("edit")
    /\ \/ \E h \in Headers : SaveOrder(c, o, h, <<>>, NoChange, {})
       \/ \E item \in Items : SaveOrder(c, o, NoHeader, <<item>>, NoChange, {})
       \/ \E d \in DocsOf(o), ch \in Changes : SaveOrder(c, o, NoHeader, <<>>, [x \in {d} |-> ch], {})
       \/ \E d \in DocsOf(o) : SaveOrder(c, o, NoHeader, <<>>, NoChange, {d})
       \/ \E h \in Headers, item \in Items, d \in DocsOf(o) :
            SaveOrder(c, o, h, <<item>>, NoChange, {d})

(* Each column the request changed is written; the others stay what they are now. *)
Written(now, base, new) == [f \in DOMAIN now |-> IF f \in DOMAIN new /\ new[f] # base[f]
                                                 THEN new[f] ELSE now[f]]

ChangedDocs(r) == {d \in DOMAIN r.new.docs \ r.gone : r.new.docs[d] # r.base.docs[d]}

EditHolds(r) ==
    /\ Exists(r.order)
    /\ \A d \in ChangedDocs(r) : doc[d].order = r.order
    /\ \A d \in r.gone : ~HasNotaryPayments(d)    \* RESTRICT
    /\ made.doc + Len(r.adds) <= MaxDocs

WriteEdit(c) ==
    /\ desk[c].op = "edit"
    /\ LET r == desk[c]
           added == NewDocs(r.order, r.adds)
       IN  IF EditHolds(r)
           THEN /\ order' = [order EXCEPT ![r.order] = Written(@, r.base, r.new)]
                /\ doc' = [d \in Docs |->
                     IF d \in r.gone THEN NoDoc
                     ELSE IF d \in ChangedDocs(r)
                          THEN Written(doc[d], r.base.docs[d], r.new.docs[d]) ELSE added[d]]
                /\ made' = [made EXCEPT !.doc = @ + Len(r.adds)]
                /\ Leave(c)
                /\ UNCHANGED <<status, rows, fronted, expense, setting, clock, left>>
           ELSE Refused(c)

-----------------------------------------------------------------------------
(* Status, deletion, settings. *)

SelectableStatuses == {"new", "completed"}   \* of the built-in ones; "cancelled" is not offered

ChangeStatus(c, o, value) ==
    /\ Spend("status")
    /\ Exists(o)
    /\ Take(c, [op |-> "status", order |-> o, event |-> <<clock + 1, value>>])
    /\ clock' = clock + 1
    /\ UNCHANGED <<tableVars, made, mixed>>

(* The history is append-only; the latest event by its time is the status. *)
WriteStatus(c) ==
    /\ desk[c].op = "status"
    /\ LET r == desk[c]
       IN  IF Exists(r.order)
           THEN /\ status' = [status EXCEPT ![r.order] = IF @[1] < r.event[1] THEN r.event ELSE @]
                /\ Leave(c)
                /\ UNCHANGED <<order, doc, rows, fronted, expense, setting, made, clock, left>>
           ELSE Refused(c)

ExpensesForgotten(o) ==   \* a plausible bug: expenses left to the cascade
    \/ HasClientPayments(o) \/ HasTranslatorPayouts(o)
    \/ \E d \in DocsOf(o) : HasNotaryPayments(d)

HasMoney(o) ==
    \/ HasClientPayments(o) \/ HasTranslatorPayouts(o) \/ HasExpenses(o)
    \/ \E d \in DocsOf(o) : HasNotaryPayments(d)

DeleteOrder(c, o) ==
    /\ Spend("remove")
    /\ Exists(o)
    /\ ~HasMoney(o)
    /\ Take(c, [op |-> "remove", order |-> o])
    /\ UNCHANGED <<tableVars, made, clock, mixed>>

(* Payments are RESTRICT; documents, events and expenses cascade. *)
RemoveOrder(c) ==
    /\ desk[c].op = "remove"
    /\ LET o == desk[c].order
       IN  IF \/ HasClientPayments(o) \/ HasTranslatorPayouts(o)
              \/ \E d \in DocsOf(o) : HasNotaryPayments(d)
           THEN Refused(c)
           ELSE /\ order' = [order EXCEPT ![o] = NoOrder]
                /\ doc' = [d \in Docs |-> IF doc[d].order = o THEN NoDoc ELSE doc[d]]
                /\ status' = [status EXCEPT ![o] = <<0, "none">>]
                /\ expense' = [e \in Expenses |-> IF expense[e] = o THEN 0 ELSE expense[e]]
                /\ Leave(c)
                /\ UNCHANGED <<rows, fronted, setting, made, clock, left>>

(* Rates and multipliers are changed; what was charged stays. *)
ChangeSettings ==
    /\ Spend("settings")
    /\ setting < Len(Settings)
    /\ setting' = setting + 1
    /\ UNCHANGED <<order, doc, status, rows, fronted, expense, desk, made, clock, mixed>>

OrderStep ==
    \/ \E c \in Clerks, n \in NewOrders : CreateOrder(c, n.client, n.urgency, n.courier, n.items)
    \/ \E c \in Clerks : DrawNumber(c) \/ CommitOrder(c) \/ CreateFails(c)
    \/ \E client \in Clients, value \in {"completed", "cancelled"} : ImportOrder(client, value)
    \/ \E c \in Clerks, o \in Orders : EditOrder(c, o)
    \/ \E c \in Clerks : WriteEdit(c)
    \/ \E c \in Clerks, o \in Orders, value \in SelectableStatuses : ChangeStatus(c, o, value)
    \/ \E c \in Clerks : WriteStatus(c)
    \/ \E c \in Clerks, o \in Orders : DeleteOrder(c, o)
    \/ \E c \in Clerks : RemoveOrder(c)
    \/ ChangeSettings
=============================================================================
