----------------------------- MODULE MCInvokeBidi -----------------------------
(***************************************************************************)
(* Small instances of InvokeBidi for TLC: see the configurations.          *)
(***************************************************************************)
EXTENDS InvokeBidi

===============================================================================
