----------------------------- MODULE MC_PowerTab -----------------------------
(***************************************************************************)
(* Two requests: the second may come while the shim of the first still     *)
(* runs (its wait failed) or while the machine has yet to go down.         *)
(***************************************************************************)
EXTENDS PowerTab

OneWrong == {"wrong"}
=============================================================================
