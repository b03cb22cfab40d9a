---------------------------- MODULE MCLegacySync ----------------------------
(* Two orders of two clients, one with contact details, and one translator. *)
EXTENDS LegacySync

MCClientOf == <<"keti", "gio">>
MCBy       == <<"tina", "tina">>

(* A client's payment and an expense that a dump shows no id of, and a translator's payment and a
   notary's, one of them with its id. *)
MCEntries ==
    {[button |-> b, kind |-> k, amount |-> 1] : <<b, k>> \in
        {<<FALSE, "client">>, <<TRUE, "translator">>, <<FALSE, "notary">>, <<FALSE, "expense">>}}
=============================================================================
