----------------------------- MODULE MCReceive -----------------------------
(***************************************************************************)
(* The server of one client, byte for byte.  The datagrams are requests of *)
(* each kind, what is left of them when they are cut off, and some that    *)
(* are not requests; the longest fills the shortened buffer.               *)
(***************************************************************************)
EXTENDS Receive

CONSTANT a1

MCAddress == {a1}
MCListener == {"app", "server"}

Requests ==
  {CreatePacket(Connect, <<1, 2, 3, 0>>), CreatePacket(SetFormat, <<4, 5, 5>>)}
Others ==
  {CreatePacket(Connect, <<1, 2, 3, 6>>), CreatePacket(ClientKeepAlive, <<>>),
   CreatePacket(KeystrokeCategory, <<65, 5>>), CreateDisconnectPacket,
   CreatePacket(KeystrokeCategory, <<65, 0>>)}
MCDatagram == Others \cup UNION {{d, SubSeq(d, 1, Len(d) - 1)} : d \in Requests}
MCSequenceNumber == {2147483647}
MCAudioData == <<250, 251>>
=============================================================================
