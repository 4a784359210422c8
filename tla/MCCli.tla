--------------------------------- MODULE MCCli ---------------------------------
(***************************************************************************)
(* Small instances of Cli for TLC: every combination of its flags.         *)
(***************************************************************************)
EXTENDS Cli

MCStatuses == {"OK", "Failed", "Canceled"}
===============================================================================
