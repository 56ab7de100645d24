----------------------------- MODULE MCCapture -----------------------------
(***************************************************************************)
(* Two pipes, one after the other, with packets that are smaller and       *)
(* larger than a frame, and an odd buffer duration, of which the timer's   *)
(* period is less than a half.                                             *)
(***************************************************************************)
EXTENDS Capture

CONSTANTS none, opus

MCCompression == {none, opus}
MCPacketSize == {1, 3}
=============================================================================
