------------------------------- MODULE Imports -------------------------------
(***************************************************************************)
(* Importing a bureau's spreadsheets, and undoing the last import.         *)
(*                                                                         *)
(* A file is a sequence of sheets; a sheet holds clients, translators,     *)
(* notaries or orders.  Every row is judged against what the bureau has    *)
(* and the rows accepted before it; the good ones are saved.  A record the *)
(* file creates is a negative ref, -1, -2, ... until it is saved.          *)
(*                                                                         *)
(* The notary of an order row is treated exactly as its translator is, so  *)
(* a row names only a translator.                                          *)
(***************************************************************************)
EXTENDS Integers, FiniteSets, FiniteSetsExt, Sequences

CONSTANTS
    Workbooks, Workbook,  \* Workbook[f]: its sheets, [kind, rows]
    First,                \* the people the bureau starts with
    Importers,            \* requests that can be in flight at the same time
    MaxPeople, MaxOrders, MaxBatches, MaxStaff,   \* bounds
    Heading,              \* a row that is no record
    Absent                \* nothing in a cell, or no kind

People == 1..MaxPeople
OrderIds == 1..MaxOrders

Kinds == {"clients", "translators", "notaries"}

(* A cell can be empty, a name the bureau keeps cannot. *)
Texts      == STRING \cup {Absent}
Rows       == [name : Texts, phone : Texts]
OrderRows  == [what : STRING, client : Rows, by : Rows]
PersonRows == [kind : Kinds, name : STRING, phone : Texts, active : BOOLEAN]

(* Two people who are not one person twice. *)
Apart(p, q) ==
    (p.kind = q.kind /\ p.active /\ q.active) =>
        /\ p.phone = Absent \/ p.phone # q.phone
        /\ p.kind = "clients" \/ p.name # q.name

ASSUME ImportAssumptions ==
    /\ MaxPeople \in Nat /\ MaxOrders \in Nat
    /\ Absent \notin STRING \cup Kinds \cup {"orders"}
    /\ First \in Seq(PersonRows) /\ Len(First) <= MaxPeople
    /\ \A p, q \in DOMAIN First : p # q => Apart(First[p], First[q])
    /\ \A f \in Workbooks : Workbook[f] \in Seq([kind : Kinds, rows : Seq(Rows \cup {Heading})]
                                    \cup [kind : {"orders"}, rows : Seq(OrderRows \cup {Heading})]
                                    \cup [kind : {Absent}, rows : Seq({Heading})])
    /\ \A f \in Workbooks : Len(Workbook[f]) = 1 => Workbook[f][1].kind # Absent

VARIABLES
    person,     \* person[p]: a directory row, Nobody when there is none
    order,      \* order[o]: client, what it is about, translator, the batch it came with
    attached,   \* <<o, what>>: staff put this on order o
    batches,    \* the imports so far: file, people, orders, undone
    desk,       \* desk[c]: what clerk c's request has decided and not yet written
    made,       \* ids given out: people, orders
    overlapped, \* history: two requests, or a request and staff, met
    staff       \* staff steps left

importVars == <<person, order, attached, batches, desk, made, overlapped, staff>>

Nobody  == [kind |-> "none"]
NoOrder == [client |-> 0]
Idle    == [op |-> "idle"]

(* What can hang from an order: payments and payouts keep its row, files, comments and expenses go with it. *)
Attachments == {"money", "paper", "expense"}
Restricting == {"money"}

-----------------------------------------------------------------------------
(* Matching.  A list of people is searched front to back: the first wins. *)

FirstOf(list, hits) ==
    IF hits = {} THEN 0 ELSE list[Min(hits)].ref

ByPhone(list, phone) == IF phone = Absent THEN 0 ELSE FirstOf(list, {i \in DOMAIN list : list[i].phone = phone})

ByName(list, name) == IF name = Absent THEN 0 ELSE FirstOf(list, {i \in DOMAIN list : list[i].name = name})

Or(a, b) == IF a # 0 THEN a ELSE b

(* Seen.match_ref: phone, then name where names count. *)
MatchRef(list, row, byName) ==
    Or(ByPhone(list, row.phone), IF byName THEN ByName(list, row.name) ELSE 0)

(* An order's translator: the name first, the phone when it is spelled differently. *)
FindPerson(list, row) == Or(ByName(list, row.name), ByPhone(list, row.phone))

(* In the order of their ids; a place that is nobody's has nothing to match. *)
Listed(people) ==
    [p \in People |-> IF p \in people THEN [ref |-> p, name |-> person[p].name, phone |-> person[p].phone]
                      ELSE [ref |-> 0, name |-> Absent, phone |-> Absent]]

-----------------------------------------------------------------------------
(* A workbook of several sheets goes through the combined import. *)
Combined(f) == Len(Workbook[f]) > 1

(***************************************************************************)
(* Judging a file.  The judgement so far: who is seen of each kind, the    *)
(* translators an order row can name, the orders known, and what will be   *)
(* saved.                                                                  *)
(***************************************************************************)
OrderKey(client, what) == <<client, what>>

Blank(kinds, combined) ==
    [seen   |-> [k \in Kinds |-> Listed({p \in People : person[p].kind = k})],
     named  |-> Listed({p \in People : person[p].kind = "translators" /\ person[p].active}),
     known  |-> {OrderKey(order[o].client, order[o].what) : o \in {x \in OrderIds : order[x] # NoOrder}},
     create |-> combined /\ "translators" \notin kinds,
     refs   |-> combined,
     people |-> <<>>, orders |-> <<>>]

NextRef(j) == -(Len(j.people) + 1)

AddPerson(j, kind, row) ==
    [j EXCEPT !.people = Append(@, [kind |-> kind, name |-> row.name, phone |-> row.phone, active |-> TRUE])]

(* A row that names nobody is an error; one that matches is a duplicate; the rest are new. *)
JudgePerson(j, kind, row, byName, seenName) ==
    LET hit == MatchRef(j.seen[kind], row, byName)
    IN  IF row.name = Absent \/ hit # 0 THEN j
        ELSE [AddPerson(j, kind, row) EXCEPT
                !.seen[kind] = Append(@, [ref |-> NextRef(j), phone |-> row.phone, name |-> seenName])]

(* Two clients may share a name, so a name does not match one. *)
JudgeClient(j, row) == JudgePerson(j, "clients", row, FALSE, IF j.refs THEN row.name ELSE Absent)

JudgeNotary(j, row) == JudgePerson(j, "notaries", row, TRUE, row.name)

(* In a workbook the orders can name the translator: under a duplicate's spelling too. *)
JudgeTranslator(j, row) ==
    LET hit    == MatchRef(j.seen["translators"], row, TRUE)
        judged == JudgePerson(j, "translators", row, TRUE, row.name)
    IN  IF row.name = Absent \/ ~j.refs THEN judged
        ELSE [judged EXCEPT !.named = Append(@, [ref |-> Or(hit, NextRef(j)), name |-> row.name,
                                                phone |-> IF hit = 0 THEN row.phone ELSE Absent])]

NeverKnown(j, key) == FALSE   \* a plausible bug: the same order is not recognised

OrderKnown(j, key) == key \in j.known

(* From here the row is real: it is known to the rows after it. *)
AcceptOrder(j, new) ==
    [j EXCEPT !.known = @ \cup {OrderKey(new.client, new.what)}, !.orders = Append(@, new)]

JudgeOrder(j, row) ==
    LET hit    == MatchRef(j.seen["clients"], row.client, TRUE)
        client == Or(hit, NextRef(j))
        with   == IF hit # 0 THEN j
                  ELSE [AddPerson(j, "clients", row.client) EXCEPT
                          !.seen["clients"] = Append(@, [ref |-> client, name |-> row.client.name,
                                                         phone |-> row.client.phone])]
        found  == FindPerson(j.named, row.by)
        makes  == row.by.name # Absent /\ found = 0 /\ j.create
        by     == IF makes THEN NextRef(with) ELSE found
        full   == IF ~makes THEN with
                  ELSE [AddPerson(with, "translators", row.by) EXCEPT
                          !.named = Append(@, [ref |-> by, name |-> row.by.name, phone |-> row.by.phone])]
    IN  IF hit = 0 /\ row.client.name = Absent THEN j   \* an error
        ELSE IF OrderKnown(j, OrderKey(client, row.what)) THEN j
        ELSE AcceptOrder(full, [client |-> client, what |-> row.what, by |-> by])

JudgeRow(j, kind, row) ==
    CASE kind = "orders"      -> JudgeOrder(j, row)
      [] kind = "clients"     -> JudgeClient(j, row)
      [] kind = "translators" -> JudgeTranslator(j, row)
      [] kind = "notaries"    -> JudgeNotary(j, row)

(* A row of totals, or a heading, is set aside. *)
JudgeSheet(j, sheet) ==
    LET judged[n \in 0..Len(sheet.rows)] ==
            IF n = 0 THEN j
            ELSE IF sheet.rows[n] = Heading THEN judged[n - 1]
            ELSE JudgeRow(judged[n - 1], sheet.kind, sheet.rows[n])
    IN  judged[Len(sheet.rows)]

(* The sheets that count: recognised as one of the kinds, and not left out by the clerk. *)
PlanSheets(f, skip) == {i \in DOMAIN Workbook[f] \ skip : Workbook[f][i].kind # Absent}

JudgeKind(j, kind, f, chosen) ==
    LET judged[i \in 0..Len(Workbook[f])] ==
            IF i = 0 THEN j
            ELSE IF i \in chosen /\ Workbook[f][i].kind = kind THEN JudgeSheet(judged[i - 1], Workbook[f][i])
            ELSE judged[i - 1]
    IN  judged[Len(Workbook[f])]

(* Notaries, translators, clients, then orders; several sheets are one combined import. *)
JudgeWorkbook(f, chosen) ==
    LET none        == Blank({Workbook[f][i].kind : i \in chosen}, Combined(f))
        notaries    == JudgeKind(none, "notaries", f, chosen)
        translators == JudgeKind(notaries, "translators", f, chosen)
        clients     == JudgeKind(translators, "clients", f, chosen)
    IN  JudgeKind(clients, "orders", f, chosen)

-----------------------------------------------------------------------------
(* Requests. *)

InFlight(c) == \E b \in Importers \ {c} : desk[b] # Idle

(* A sheet with a header and no records under it refuses the file. *)
Begin(c, f, chosen) ==
    LET j == JudgeWorkbook(f, chosen)
    IN  /\ desk[c] = Idle
        /\ chosen # {} /\ \A i \in chosen : \E n \in DOMAIN Workbook[f][i].rows : Workbook[f][i].rows[n] # Heading
        /\ Len(j.people) + Len(j.orders) > 0
        /\ desk' = [desk EXCEPT ![c] = [op |-> "save", file |-> f, people |-> j.people, orders |-> j.orders]]
        /\ overlapped' = (overlapped \/ InFlight(c))
        /\ UNCHANGED <<person, order, attached, batches, made, staff>>

Commit(c, f) == ~Combined(f) /\ Begin(c, f, DOMAIN Workbook[f])

CommitCombined(c, f, skip) == Combined(f) /\ Begin(c, f, PlanSheets(f, skip))

(* The sheets a clerk can leave out. *)
Skips(f) == SUBSET {i \in DOMAIN Workbook[f] : Workbook[f][i].kind # Absent}

Resolved(ref) == IF ref < 0 THEN made.people - ref ELSE ref

(* Everything a row refers to must still be there (foreign keys). *)
RefsHold(r) ==
    /\ made.people + Len(r.people) <= MaxPeople /\ made.orders + Len(r.orders) <= MaxOrders
    /\ \A i \in DOMAIN r.orders :
        /\ r.orders[i].client > 0 => person[r.orders[i].client] # Nobody
        /\ r.orders[i].by > 0 => person[r.orders[i].by] # Nobody

Save(c) ==
    /\ desk[c].op = "save"
    /\ LET r         == desk[c]
           newPeople == made.people + 1 .. made.people + Len(r.people)
           newOrders == made.orders + 1 .. made.orders + Len(r.orders)
       IN  IF RefsHold(r) /\ Len(batches) < MaxBatches
           THEN /\ person' = [p \in People |-> IF p \in newPeople THEN r.people[p - made.people] ELSE person[p]]
                /\ order' = [o \in OrderIds |->
                     IF o \in newOrders
                     THEN LET row == r.orders[o - made.orders]
                          IN  [client |-> Resolved(row.client), what |-> row.what,
                               by |-> Resolved(row.by), batch |-> Len(batches) + 1]
                     ELSE order[o]]
                /\ batches' = Append(batches, [file |-> r.file, people |-> newPeople,
                                               orders |-> newOrders, undone |-> FALSE])
                /\ made' = [people |-> made.people + Len(r.people), orders |-> made.orders + Len(r.orders)]
           ELSE UNCHANGED <<person, order, batches, made>>
    /\ desk' = [desk EXCEPT ![c] = Idle]
    /\ overlapped' = (overlapped \/ InFlight(c))
    /\ UNCHANGED <<attached, staff>>

-----------------------------------------------------------------------------
(* Undo. *)

Standing(o) == order[o] # NoOrder

OrdersUndoable(b) ==
    \A o \in batches[b].orders : \A w \in Attachments \ {"expense"} : <<o, w>> \notin attached

(* A file of orders, alone or among others: the clients it made are kept if used. *)
KeepsClients(b) == Combined(batches[b].file) \/ Workbook[batches[b].file][1].kind = "orders"

NotUsed(b, p) == FALSE   \* a plausible bug: only the batch's own orders are looked at

UsedElsewhere(b, p) ==
    \E o \in OrderIds \ batches[b].orders : Standing(o) /\ p \in {order[o].client, order[o].by}

PeopleUndoable(b) ==
    \A p \in batches[b].people :
        \/ ~UsedElsewhere(b, p)
        \/ person[p].kind = "clients" /\ KeepsClients(b)

Latest == {b \in DOMAIN batches : ~batches[b].undone}

Undo(c, b) ==
    /\ desk[c] = Idle
    /\ b \in Latest /\ \A a \in Latest : a <= b
    /\ OrdersUndoable(b) /\ PeopleUndoable(b)
    /\ desk' = [desk EXCEPT ![c] = [op |-> "undo", batch |-> b]]
    /\ overlapped' = (overlapped \/ InFlight(c))
    /\ UNCHANGED <<person, order, attached, batches, made, staff>>

(***************************************************************************)
(* The orders go with what hangs from them, then the people.  Money and a  *)
(* client's orders are RESTRICT; a translator is unset where they worked.  *)
(***************************************************************************)
EraseImport(c) ==
    /\ desk[c].op = "undo"
    /\ LET b     == desk[c].batch
           gone  == batches[b].orders
           kept  == {p \in batches[b].people :
                       person[p].kind = "clients" /\ UsedElsewhere(b, p) /\ KeepsClients(b)}
           away  == batches[b].people \ kept
       IN  IF \/ \E o \in gone, w \in Restricting : <<o, w>> \in attached
              \/ \E p \in away : person[p].kind = "clients" /\ UsedElsewhere(b, p)
           THEN UNCHANGED <<person, order, attached, batches>>
           ELSE /\ order' = [o \in OrderIds |->
                     IF o \in gone THEN NoOrder
                     ELSE IF Standing(o) /\ order[o].by \in away THEN [order[o] EXCEPT !.by = 0] ELSE order[o]]
                /\ person' = [p \in People |-> IF p \in away THEN Nobody ELSE person[p]]
                /\ attached' = {a \in attached : a[1] \notin gone}
                /\ batches' = [batches EXCEPT ![b].undone = TRUE]
    /\ desk' = [desk EXCEPT ![c] = Idle]
    /\ overlapped' = (overlapped \/ InFlight(c))
    /\ UNCHANGED <<made, staff>>

-----------------------------------------------------------------------------
(* Staff work meanwhile. *)

StaffStep ==
    /\ staff > 0 /\ staff' = staff - 1
    /\ overlapped' = (overlapped \/ \E c \in Importers : desk[c] # Idle)
    /\ UNCHANGED <<batches, desk>>

Attach(o, what) ==
    /\ StaffStep
    /\ Standing(o)
    /\ attached' = attached \cup {<<o, what>>}
    /\ UNCHANGED <<person, order, made>>

Assign(o, t) ==
    /\ StaffStep
    /\ Standing(o) /\ person[t].kind = "translators"
    /\ order' = [order EXCEPT ![o].by = t]
    /\ UNCHANGED <<person, attached, made>>

OrderFor(client) ==
    /\ StaffStep
    /\ person[client].kind = "clients" /\ made.orders < MaxOrders
    /\ order' = [order EXCEPT ![made.orders + 1] =
                   [client |-> client, what |-> "by hand", by |-> 0, batch |-> 0]]
    /\ made' = [made EXCEPT !.orders = @ + 1]
    /\ UNCHANGED <<person, attached>>

Deactivate(t) ==
    /\ StaffStep
    /\ person[t].kind = "translators"
    /\ person' = [person EXCEPT ![t].active = FALSE]
    /\ UNCHANGED <<order, attached, made>>

ImportInit ==
    /\ person = [p \in People |-> IF p <= Len(First) THEN First[p] ELSE Nobody]
    /\ order = [o \in OrderIds |-> NoOrder]
    /\ attached = {}
    /\ batches = <<>>
    /\ desk = [c \in Importers |-> Idle]
    /\ made = [people |-> Len(First), orders |-> 0]
    /\ overlapped = FALSE
    /\ staff = MaxStaff

ImportNext ==
    \/ \E c \in Importers, f \in Workbooks : Commit(c, f)
    \/ \E c \in Importers, f \in Workbooks : \E skip \in Skips(f) : CommitCombined(c, f, skip)
    \/ \E c \in Importers : Save(c) \/ EraseImport(c)
    \/ \E c \in Importers, b \in DOMAIN batches : Undo(c, b)
    \/ \E o \in OrderIds, w \in Attachments : Attach(o, w)
    \/ \E o \in OrderIds, t \in People : Assign(o, t)
    \/ \E p \in People : OrderFor(p) \/ Deactivate(p)

ImportSpec == ImportInit /\ [][ImportNext]_importVars

-----------------------------------------------------------------------------
(***************************************************************************)
(* However often a file, or files that name the same people, are imported, *)
(* alone or combined: no two active people of a kind have one phone, no    *)
(* two active translators or notaries have one name, and no order of a     *)
(* client is there twice, as long as no two requests overlapped.           *)
(***************************************************************************)
NothingTwice ==
    ~overlapped =>
        /\ \A p, q \in People : 
              (/\ p # q /\ person[p] # Nobody /\ person[q] # Nobody
               /\ person[p].kind = person[q].kind /\ person[p].active /\ person[q].active) =>
                /\ person[p].phone = Absent \/ person[p].phone # person[q].phone
                /\ person[p].kind = "clients" \/ person[p].name # person[q].name
        /\ \A o, x \in OrderIds : (o # x /\ Standing(o) /\ Standing(x)) =>
            \/ order[o].batch = 0
            \/ order[x].batch = 0
            \/ OrderKey(order[o].client, order[o].what) # OrderKey(order[x].client, order[x].what)

(***************************************************************************)
(* "Undo deletes what the last import created, and only while none of it   *)
(* is in use": unless it overlapped with other work, an undo leaves every  *)
(* other order as it was, its client and its translator included, and      *)
(* takes no payment, payout, file or comment with it.  (An expense it does *)
(* take: it is not among the things the undo looks at.)                    *)
(***************************************************************************)
UndoSparesOthers ==
    [][\A b \in DOMAIN batches :
         (batches'[b].undone /\ ~batches[b].undone /\ ~overlapped') =>
            /\ \A o \in OrderIds \ batches[b].orders : order'[o] = order[o]
            /\ \A o \in OrderIds : order'[o] # NoOrder => person'[order'[o].client] # Nobody
            /\ \A a \in attached \ attached' : a[2] = "expense"]_importVars
=============================================================================
