------------------------------ MODULE LegacySync ------------------------------
(***************************************************************************)
(* Bringing a bureau over from the old system: one full import of a dump,  *)
(* then syncs, each of which applies what differs between two dumps while  *)
(* both systems are in use.                                                *)
(*                                                                         *)
(* The old system is only seen through its dumps.  A run of the command is *)
(* one transaction, so it is one step here; a dry run changes nothing.     *)
(***************************************************************************)
EXTENDS Integers, Sequences, SequencesExt, FiniteSetsExt

CONSTANTS
    Old,                 \* ids of orders in the old system
    Clients, ClientOf,   \* whose order it is
    Contact,             \* the clients with an e-mail or personal number
    Translators, By,     \* who translates it
    Recorded,            \* the orders whose creation is in their history
    Statuses, Initial,
    Amounts,             \* what a row of money may say: its date and its sum, in one number
    Entries,             \* the rows of money staff of the old system may enter
    MaxTime, MaxDumps, MaxRows, MaxStaff, MaxOld, MaxRuns,   \* bounds
    NoOrder

RowIds == 1..MaxRows
Kinds  == {"client", "translator", "notary", "expense"}

(***************************************************************************)
(* A row of money in the old system.  The number is for telling rows apart *)
(* here; a dump shows it, as the row's id, only if the row has a button to *)
(* delete it by.  A row of nothing is never copied, so Amounts leaves it   *)
(* out.                                                                    *)
(***************************************************************************)
Payments == [n : RowIds, button : BOOLEAN, kind : Kinds, amount : Amounts]
Contents == [button : BOOLEAN, kind : Kinds, amount : Amounts]

(* An order as a dump tells it, and as Office keeps it. *)
OldOrders    == [status : Statuses, date : Nat, pays : SUBSET Payments,
                 history : Seq([status : Statuses, at : Nat])]
Events       == [status : Statuses, at : Nat, how : {"imported", "stamped", "staff"}]
OfficeOrders == [events : Seq(Events), docs : {1, 2}, books : [RowIds -> Nat]]

ASSUME LegacyAssumptions ==
    /\ Old \subseteq Nat /\ Old # {}
    /\ ClientOf \in [Old -> Clients] /\ By \in [Old -> Translators]
    /\ Contact \subseteq Clients /\ Recorded \subseteq Old /\ Initial \in Statuses
    /\ Amounts \subseteq Nat \ {0} /\ Entries \subseteq Contents
    /\ {MaxTime, MaxDumps, MaxRows, MaxStaff, MaxOld, MaxRuns} \subseteq Nat
    /\ NoOrder \notin OldOrders /\ NoOrder \notin OfficeOrders

VARIABLES
    old,      \* the old system: its orders, its translators, its expenses
    clock,    \* minutes, as the old system's timestamps count them
    dumps,    \* the dumps taken so far
    office,   \* orders that came over, clients (rows an import made, and who staff registered), expenses
    loaded,   \* the dump loaded last, 0 before the first
    brought,  \* history: the dumps loaded so far
    rows,     \* rows of money entered in the old system
    proper,   \* history: every sync was against the dump loaded before, no old row was edited
    failed,   \* history: a sync against the dump loaded before ended in an unhandled error
    left      \* steps left: of the old system, of Office staff, of the command

syncVars == <<old, clock, dumps, office, loaded, brought, rows, proper, failed, left>>

-----------------------------------------------------------------------------
(* The old system. *)

OldStep ==
    /\ left.old > 0 /\ left' = [left EXCEPT !.old = @ - 1]
    /\ UNCHANGED <<dumps, office, loaded, brought, failed>>

OldOrder(i, when) ==
    [status |-> Initial, date |-> when, pays |-> {},
     history |-> IF i \in Recorded THEN <<[status |-> Initial, at |-> when]>> ELSE <<>>]

OldCreates(i) ==
    /\ old.orders[i] = NoOrder
    /\ old' = [old EXCEPT !.orders[i] = OldOrder(i, clock), !.hired = @ \cup {By[i]}]
    /\ UNCHANGED <<clock, rows, proper>> /\ OldStep

OldSetsStatus(i, s) ==
    /\ old.orders[i] # NoOrder /\ old.orders[i].status # s
    /\ old' = [old EXCEPT !.orders[i].status = s,
                          !.orders[i].history = Append(@, [status |-> s, at |-> clock])]
    /\ UNCHANGED <<clock, rows, proper>> /\ OldStep

NewRow(e) == [n |-> rows + 1, button |-> e.button, kind |-> e.kind, amount |-> e.amount]

OldPays(i, e) ==
    /\ old.orders[i] # NoOrder /\ rows < MaxRows
    /\ e.kind # "expense"
    /\ rows' = rows + 1
    /\ old' = [old EXCEPT !.orders[i].pays = @ \cup {NewRow(e)}]
    /\ UNCHANGED <<clock, proper>> /\ OldStep

OldEditsPayment(i, row, amount) ==
    /\ row.amount # amount
    /\ old' = [old EXCEPT !.orders[i].pays = (@ \ {row}) \cup {[row EXCEPT !.amount = amount]}]
    /\ proper' = FALSE
    /\ UNCHANGED <<clock, rows>> /\ OldStep

(* The list of expenses has no buttons. *)
OldSpends(e) ==
    /\ rows < MaxRows
    /\ e.kind = "expense" /\ ~e.button
    /\ rows' = rows + 1
    /\ old' = [old EXCEPT !.expenses = @ \cup {NewRow(e)}]
    /\ UNCHANGED <<clock, proper>> /\ OldStep

Tick ==
    /\ clock < MaxTime /\ clock' = clock + 1
    /\ UNCHANGED <<old, dumps, office, loaded, brought, rows, proper, failed, left>>

TakeDump ==
    /\ Len(dumps) < MaxDumps /\ old \notin ToSet(dumps)
    /\ dumps' = Append(dumps, old)
    /\ UNCHANGED <<old, clock, office, loaded, brought, rows, proper, failed, left>>

-----------------------------------------------------------------------------
(* What a dump holds that the one before did not. *)

Orders(d)     == {i \in Old : d.orders[i] # NoOrder}
DumpClients(d) == {ClientOf[i] : i \in Orders(d)}
LegacyOrders  == {i \in Old : office.orders[i] # NoOrder}

(* By what two rows are one: all that a dump says of them.  Payments to the bureau, to
   translators and to notaries are lists of their own, and so are the expenses. *)
Identity(r) == IF r.button THEN r ELSE [r EXCEPT !.n = 0]

AllRows(new, before) == new   \* a plausible bug: every row counts as new

(* The rows unlike any of the dump before.  Of rows that are alike, all count as new or none does. *)
Added(new, before) == {r \in new : Identity(r) \notin {Identity(q) : q \in before}}

(* The events that are none of these, in their order. *)
AddedEvents(history, before) ==
    LET kept[n \in 0..Len(history)] ==
            IF n = 0 THEN <<>>
            ELSE IF history[n] \in before THEN kept[n - 1] ELSE Append(kept[n - 1], history[n])
    IN  kept[Len(history)]

(* An order's changes: history rows by status and time, payments by identity. *)
Delta(raw, before) ==
    [history |-> AddedEvents(raw.history, ToSet(before.history)),
     pays    |-> Added(raw.pays, before.pays),
     status  |-> raw.status,
     was     |-> before.status]

HasNews(delta) == delta.history # <<>> \/ delta.pays # {} \/ delta.status # delta.was

NewOrders(d) == Orders(d) \ LegacyOrders

(* An order that is here and was not in the earlier dump is left out. *)
Changed(d, p) == {i \in Orders(d) \cap LegacyOrders \cap Orders(p) : HasNews(Delta(d.orders[i], p.orders[i]))}

-----------------------------------------------------------------------------
(* People. *)

(***************************************************************************)
(* The client rows a run needs and cannot find.  A full import looks for   *)
(* an e-mail or personal number; a sync also knows a client by an order of *)
(* theirs that is here, and by name.                                       *)
(***************************************************************************)
InOffice(c) == office.imported[c] > 0 \/ c \in office.registered

Known(c, sync) ==
    \/ InOffice(c) /\ (sync \/ c \in Contact)
    \/ sync /\ \E i \in LegacyOrders : ClientOf[i] = c

(* Each wanted client that is not known gets a row. *)
WithClients(wanted, sync) ==
    [c \in Clients |-> office.imported[c] + IF c \in wanted /\ ~Known(c, sync) THEN 1 ELSE 0]

(* The translators a sync looks up: new ones, and those on new orders. *)
TranslatorsWanted(d, p) == (d.hired \ p.hired) \cup {By[i] : i \in NewOrders(d)}

(* Each one the dump lists is matched to a row or gets one. *)
TranslatorsCovered(d, p) == d.hired \cap TranslatorsWanted(d, p)

-----------------------------------------------------------------------------
(* Status history. *)

Latest(events) ==
    LET newest == {k \in DOMAIN events : \A j \in DOMAIN events : events[j].at <= events[k].at}
    IN  events[Max(newest)].status

Event(e, how) == [status |-> e.status, at |-> e.at, how |-> how]

(* The current status, stamped with the moment of the import, where the history ends otherwise. *)
Stamp(status, last) ==
    IF status = last THEN <<>> ELSE <<[status |-> status, at |-> clock, how |-> "stamped"]>>

Imported(history) == [k \in DOMAIN history |-> Event(history[k], "imported")]

FirstEvents(raw) ==
    LET told == IF raw.history = <<>> THEN <<[status |-> Initial, at |-> raw.date]>> ELSE raw.history
    IN  Imported(told) \o Stamp(raw.status, Last(told).status)

AppliesAnyway(events, delta) == Latest(events) = delta.status   \* a plausible bug: compared with the new status

(* A status Office has changed since is not the one the old system changed. *)
Untouched(events, delta) == Latest(events) = delta.was

MoreEvents(events, delta) ==
    IF \/ delta.history = <<>> /\ delta.status = delta.was
       \/ ~Untouched(events, delta)
    THEN <<>>
    ELSE LET last == IF delta.history = <<>> THEN Latest(events) ELSE Last(delta.history).status
         IN  Imported(delta.history) \o Stamp(delta.status, last)

-----------------------------------------------------------------------------
(* Money. *)

(* The rows are paired with Office's documents only while there are as many. *)
Paired(i) == office.orders[i].docs = 1

(***************************************************************************)
(* A translator's payment goes to the one it names if the run looked them  *)
(* up, or else to the only translator on the order's documents, who must   *)
(* be looked up too.                                                       *)
(***************************************************************************)
Refused(i, pays, covered) ==
    /\ \E r \in pays : r.kind = "translator"
    /\ By[i] \notin covered /\ Paired(i)

Placed(i, pays, covered) ==
    {r \in pays : CASE r.kind = "client"     -> TRUE
                    [] r.kind = "translator" -> By[i] \in covered
                    [] r.kind = "notary"     -> Paired(i)}

(* What these rows come to under a number, which is that of at most one. *)
AmountOf(pays, n) ==
    IF \E r \in pays : r.n = n THEN (CHOOSE r \in pays : r.n = n).amount ELSE 0

Booked(book, pays) == [n \in RowIds |-> book[n] + AmountOf(pays, n)]

NoBooks == [n \in RowIds |-> 0]

-----------------------------------------------------------------------------
(* The command, given the newest dump, and for a sync any dump as the earlier one. *)

NewOrder(raw) == [events |-> FirstEvents(raw), docs |-> 1, books |-> Booked(NoBooks, raw.pays)]

Updated(i, delta, covered) ==
    [office.orders[i] EXCEPT !.events = @ \o MoreEvents(@, delta),
                             !.books = Booked(@, Placed(i, delta.pays, covered))]

News(d, p) == [i \in Changed(d, p) |-> Delta(d.orders[i], p.orders[i])]

(* The orders after a sync. *)
UpToDate(d, p) ==
    LET news    == News(d, p)
        covered == TranslatorsCovered(d, p)
    IN  [i \in Old |-> CASE i \in NewOrders(d) -> NewOrder(d.orders[i])
                        [] i \in DOMAIN news  -> Updated(i, news[i], covered)
                        [] OTHER              -> office.orders[i]]

Breaks(d, p) ==
    LET news    == News(d, p)
        covered == TranslatorsCovered(d, p)
    IN  \E i \in DOMAIN news : Refused(i, news[i].pays, covered)

Run == left.runs > 0 /\ left' = [left EXCEPT !.runs = @ - 1]

FullImport(keepNumbers) ==
    LET k == Len(dumps)
        d == dumps[k]
    IN  /\ dumps # <<>>
        /\ LegacyOrders = {}
        /\ keepNumbers => \A c \in Clients : ~InOffice(c)
        /\ office' = [office EXCEPT
                         !.orders   = [i \in Old |-> IF i \in Orders(d) THEN NewOrder(d.orders[i]) ELSE NoOrder],
                         !.imported = WithClients(DumpClients(d), FALSE),
                         !.spent    = Booked(@, d.expenses)]
        /\ loaded' = k /\ brought' = brought \cup {k}
        /\ proper' = (proper /\ loaded = 0)
        /\ Run
        /\ UNCHANGED <<old, clock, dumps, rows, failed>>

Sync(since) ==
    LET k      == Len(dumps)
        d      == dumps[k]
        p      == dumps[since]
        wanted == (DumpClients(d) \ DumpClients(p)) \cup {ClientOf[i] : i \in NewOrders(d) \cup Changed(d, p)}
    IN  /\ LegacyOrders # {}
        /\ failed' = (failed \/ (Breaks(d, p) /\ since = loaded))
        /\ IF Breaks(d, p)
           THEN UNCHANGED <<office, loaded, brought, proper>>
           ELSE /\ office' = [office EXCEPT !.orders   = UpToDate(d, p),
                                            !.imported = WithClients(wanted, TRUE),
                                            !.spent    = Booked(@, Added(d.expenses, p.expenses))]
                /\ loaded' = k /\ brought' = brought \cup {k}
                /\ proper' = (proper /\ since = loaded)
        /\ Run
        /\ UNCHANGED <<old, clock, dumps, rows>>

-----------------------------------------------------------------------------
(* Office staff, meanwhile. *)

StaffStep ==
    /\ left.staff > 0 /\ left' = [left EXCEPT !.staff = @ - 1]
    /\ UNCHANGED <<old, clock, dumps, loaded, brought, rows, proper, failed>>

SetStatus(i, s) ==
    /\ i \in LegacyOrders /\ StaffStep
    /\ office' = [office EXCEPT !.orders[i].events = Append(@, [status |-> s, at |-> clock, how |-> "staff"])]

AddDocument(i) ==
    /\ i \in LegacyOrders /\ StaffStep
    /\ office' = [office EXCEPT !.orders[i].docs = 2]

RegisterClient(c) ==
    /\ StaffStep
    /\ office' = [office EXCEPT !.registered = @ \cup {c}]

-----------------------------------------------------------------------------
SyncInit ==
    /\ old = [orders |-> [i \in Old |-> IF i = Min(Old) THEN OldOrder(i, 0) ELSE NoOrder],   \* the bureau has been using it
              hired |-> {By[Min(Old)]}, expenses |-> {}]
    /\ clock = 0 /\ dumps = <<>>
    /\ office = [orders |-> [i \in Old |-> NoOrder], imported |-> [c \in Clients |-> 0], registered |-> {},
                 spent |-> NoBooks]
    /\ loaded = 0 /\ brought = {} /\ rows = 0 /\ proper = TRUE /\ failed = FALSE
    /\ left = [old |-> MaxOld, staff |-> MaxStaff, runs |-> MaxRuns]

SyncNext ==
    \/ \E i \in Old : OldCreates(i)
    \/ \E i \in Old, s \in Statuses : OldSetsStatus(i, s) \/ SetStatus(i, s)
    \/ \E i \in Old, e \in Entries : OldPays(i, e)
    \/ \E i \in Orders(old), amount \in Amounts : \E row \in old.orders[i].pays : OldEditsPayment(i, row, amount)
    \/ \E e \in Entries : OldSpends(e)
    \/ Tick \/ TakeDump
    \/ \E keep \in BOOLEAN : FullImport(keep)
    \/ \E since \in DOMAIN dumps : Sync(since)
    \/ \E i \in Old : AddDocument(i)
    \/ \E c \in Clients : RegisterClient(c)

SyncSpec == SyncInit /\ [][SyncNext]_syncVars

-----------------------------------------------------------------------------
(* The payments of an order in a dump. *)
Listed(d, i) == IF i \in Orders(d) THEN d.orders[i].pays ELSE {}

(* A dump brought over before had a row like this one, and did not have this one. *)
TakenForOld(r, listings) ==
    \E before \in listings : r \notin before /\ \E q \in before : Identity(q) = Identity(r)

(***************************************************************************)
(* "Money is copied": when every sync is made against the dump loaded      *)
(* before and no old payment was edited, each payment and each expense of  *)
(* the dump loaded last is in Office once, with its amount, and no old     *)
(* client has two rows of the import's making.  None is there twice.  One  *)
(* may be missing for two reasons only: a payment to a translator or a     *)
(* notary, where staff changed the order's documents, which the sync warns *)
(* of; and a row without an id that was entered after a row just like it   *)
(* had come over, which the sync takes for that one.                       *)
(***************************************************************************)
MoneyCopiedOnce ==
    (proper /\ loaded > 0) =>
        /\ \A i \in Orders(dumps[loaded]) : \A r \in dumps[loaded].orders[i].pays :
            \/ office.orders[i].books[r.n] = r.amount
            \/ /\ office.orders[i].books[r.n] = 0
               /\ \/ r.kind # "client" /\ ~Paired(i)
                  \/ TakenForOld(r, {Listed(dumps[k], i) : k \in brought})
        /\ \A r \in dumps[loaded].expenses :
            \/ office.spent[r.n] = r.amount
            \/ office.spent[r.n] = 0 /\ TakenForOld(r, {dumps[k].expenses : k \in brought})
        /\ \A c \in Clients : office.imported[c] <= 1

(***************************************************************************)
(* Sync "brings an earlier import up to date": with syncs made that way,   *)
(* an order whose status nobody set in Office shows the status of the dump *)
(* loaded last.  Left out: orders with a status stamped at import time.    *)
(* The stamp is later than a change the old system made between that dump  *)
(* and the import, so it hides the change when the next dump brings it.    *)
(***************************************************************************)
StatusFollows ==
    proper => \A i \in LegacyOrders :
        LET events == office.orders[i].events
        IN  (\A k \in DOMAIN events : events[k].how = "imported") =>
              Latest(events) = dumps[loaded].orders[i].status

(***************************************************************************)
(* Sync "brings an earlier import up to date from a newer dump: it adds    *)
(* what is new and appends what changed since the dump that was loaded     *)
(* before": it does not end in an error half way.                          *)
(***************************************************************************)
SyncGoesThrough == ~failed

(***************************************************************************)
(* "It adds what is new": no row of the dump loaded last is missing from   *)
(* the order's books or the expenses.  (It does not hold: a second row     *)
(* just like one that came over before is taken for that one.)             *)
(***************************************************************************)
EveryRowComesOver ==
    (proper /\ loaded > 0) =>
        /\ \A i \in Orders(dumps[loaded]) : \A r \in dumps[loaded].orders[i].pays :
            r.kind = "client" => office.orders[i].books[r.n] # 0
        /\ \A r \in dumps[loaded].expenses : office.spent[r.n] # 0
=============================================================================
