---------------------------- MODULE MCAppSession ----------------------------
(***************************************************************************)
(* An instance of AppSession for TLC: ids of three bits.                   *)
(***************************************************************************)
EXTENDS AppSession

\* Below 0, in the range of an int, and an id that no int holds.
MCTyped == { -1, 2, 5 }
=============================================================================
