-------------------------- MODULE MCComponentTests --------------------------
(***************************************************************************)
(* An instance of ComponentTests for TLC: one test of each kind.  The last *)
(* two wait for the same event, so one that comes late reaches the next.   *)
(***************************************************************************)
EXTENDS ComponentTests

MCTests == <<"settings", "history", "receive", "callback">>
=============================================================================
