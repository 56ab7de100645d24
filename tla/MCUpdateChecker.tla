-------------------------- MODULE MCUpdateChecker --------------------------
(***************************************************************************)
(* Versions that differ in their first, third or fourth number, in having  *)
(* a fourth or in their suffix, with numbers that are too large.           *)
(***************************************************************************)
EXTENDS UpdateChecker

CONSTANTS k1, k2

MCCheck == {k1, k2}
Numbers ==
  {<<0, 0, 0>>, <<0, 0, 1>>, <<0, 0, 2>>, <<1, 0, 0>>,
   <<0, 0, 0, 0>>, <<0, 0, 0, 1>>, <<0, 0, 0, 2>>, <<1, 0, 0, 0>>}
MCRelease == [parts : Numbers, suffix : BOOLEAN] \cup {Unparsable}
=============================================================================
