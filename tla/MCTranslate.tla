------------------------------ MODULE MCTranslate ------------------------------
(* One source file, a translator on the portal and two of the bureau's staff. *)
EXTENDS Translate, TLC

CONSTANTS tina, keti, gio

Symmetry == Permutations({keti, gio})
================================================================================
