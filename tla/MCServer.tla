------------------------------ MODULE MCServer ------------------------------
(***************************************************************************)
(* The server with two clients for TLC.  A tick is half a second, so that  *)
(* contacts fall between two maintenance runs; the timeout is shortened    *)
(* and is neither a multiple of the period nor shorter than it.            *)
(***************************************************************************)
EXTENDS Server

CONSTANTS a1, a2, none, opus

MCAddress == {a1, a2}
MCCompression == {none, opus}
MCListener == {"app", "server", "pipe"}
=============================================================================
