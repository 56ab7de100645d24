------------------------------- MODULE MCApp -------------------------------
(***************************************************************************)
(* The two threads for TLC: two devices, so that a selection can overtake  *)
(* another, and one client.                                                *)
(***************************************************************************)
EXTENDS App

CONSTANTS d1, d2, c1

MCDevice == {d1, d2}
MCClientId == {c1}
=============================================================================
