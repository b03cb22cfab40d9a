------------------------------ MODULE MCImports ------------------------------
(* Four small files for TLC: people alone, orders alone, and two workbooks. *)
EXTENDS Imports, TLC

MCPerson(name, phone) == [name |-> name, phone |-> phone]

MCFirst == <<[kind |-> "translators", name |-> "tina", phone |-> "51", active |-> TRUE],
             [kind |-> "clients", name |-> "keti", phone |-> Absent, active |-> TRUE]>>

MCOrder(what, client, by) == [what |-> what, client |-> client, by |-> by]

MCFile ==
    [people |-> <<[kind |-> "clients", rows |-> <<MCPerson("keti", "71"), MCPerson("gio", "71")>>]>>,
     jobs   |-> <<[kind |-> "orders", rows |->
                    <<MCOrder("deed", MCPerson("gio", "71"), MCPerson("tina", Absent)),
                      MCOrder("deed", MCPerson("keti", "71"), MCPerson("nana", Absent))>>]>>,
     staff  |-> <<[kind |-> "translators", rows |-> <<MCPerson("nana", "52"), MCPerson("tina t.", "51")>>],
                  [kind |-> "orders", rows |-> <<MCOrder("will", MCPerson("keti", Absent), MCPerson("tina t.", Absent))>>]>>,
     book   |-> <<[kind |-> "orders", rows |-> <<MCOrder("deed", MCPerson("gio", "71"), MCPerson("nana", "52"))>>],
                  [kind |-> "clients", rows |-> <<MCPerson("gio", "71"), MCPerson(Absent, "72"), Heading>>],
                  [kind |-> Absent, rows |-> <<Heading>>]>>]

MCSymmetry == Permutations(Importers)
=============================================================================
