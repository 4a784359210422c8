----------------------------- MODULE MCInvokeCalls -----------------------------
(***************************************************************************)
(* Small instances of InvokeCalls for TLC: see the configurations.         *)
(***************************************************************************)
EXTENDS InvokeCalls

===============================================================================
