------------------------------ MODULE MCOffice ------------------------------
(***************************************************************************)
(* The office for TLC: two requests in flight, up to two orders, and the   *)
(* forms that make them meet: two payments of one client, a payout and a   *)
(* notary fee paid through it.                                             *)
(***************************************************************************)
EXTENDS Finances, TLC

CONSTANTS pay1, pay2, payout, notary

MCNotarised == [kind |-> "written", units |-> 3, characters |-> 9, multiplier |-> 15,
                notarised |-> TRUE, certified |-> TRUE]
MCOral      == [kind |-> "oral", units |-> 30, characters |-> 0, multiplier |-> 10,
                notarised |-> FALSE, certified |-> FALSE]

MCLines == {MCNotarised, MCOral}

MCSetting(perPage) ==
    [perPage |-> perPage, perMinute |-> 200, perStandardPage |-> 6, share |-> 50,
     multiplier |-> [standard |-> 10, express |-> 15]]

MCSettings == <<MCSetting(1500), MCSetting(0)>>

MCOwnRates == [t \in Translators |-> 700]

MCTranslated  == [line |-> MCNotarised, by |-> "tina", price |-> None]
MCInterpreted == [line |-> MCOral, by |-> None, price |-> None]
MCItems == {MCInterpreted}

MCNewOrders ==
    {[client |-> "keti", urgency |-> "standard", courier |-> FALSE, items |-> <<MCTranslated>>],
     [client |-> "gio", urgency |-> "express", courier |-> TRUE, items |-> <<MCInterpreted, MCTranslated>>]}

MCChanges ==
    {[line |-> MCOral, by |-> Keep, price |-> Keep], [line |-> MCNotarised, by |-> Keep, price |-> TypedPrice],
     [line |-> Keep, by |-> None, price |-> Keep]}

MCHeaders ==
    {[client |-> CHOOSE c \in Clients : \A k \in FormsOf("client") : Form[k].who # c,
      urgency |-> Keep, courier |-> Keep, delivery |-> Keep],
     [client |-> Keep, urgency |-> "express", courier |-> TRUE, delivery |-> Keep]}

(* The notarised line costs the client 5999, and the translator's own rate makes 2100. *)
MCForm ==
    pay1   :> [ledger |-> "client", who |-> "keti", amount |-> 5999, alloc |-> 1 :> 5999, via |-> None] @@
    pay2   :> [ledger |-> "client", who |-> "keti", amount |-> 900, alloc |-> 1 :> 500, via |-> None] @@
    payout :> [ledger |-> "translator", who |-> "tina", amount |-> 3000, alloc |-> 1 :> 2000, via |-> None] @@
    notary :> [ledger |-> "notary", who |-> None, amount |-> 900, alloc |-> 1 :> 900, via |-> payout]

MCBudget == [create |-> 2, edit |-> 2, status |-> 1, remove |-> 1, pay |-> 3, undo |-> 1,
             expense |-> 2, settings |-> 1, any |-> 4]

MCSymmetry == Permutations(Clerks)
=============================================================================
