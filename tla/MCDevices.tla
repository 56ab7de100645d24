----------------------------- MODULE MCDevices -----------------------------
(***************************************************************************)
(* Two playback devices, so that a default can pass from one to the other  *)
(* and keys can shift, and one recording device.                           *)
(***************************************************************************)
EXTENDS Devices

CONSTANTS p1, p2, r1

MCPlayback == {p1, p2}
MCRecording == {r1}
Symmetry == Permutations(MCPlayback)
=============================================================================
