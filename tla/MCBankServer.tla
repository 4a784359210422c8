----------------------------- MODULE MCBankServer -----------------------------
(***************************************************************************)
(* Small instances of BankServer for TLC.                                  *)
(***************************************************************************)
EXTENDS BankServer, TLC

\* Nothing tells two customers apart.
Symmetry == Permutations(Customers)
===============================================================================
