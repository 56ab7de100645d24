------------------------------ MODULE Packets ------------------------------
(***************************************************************************)
(* The protocol's datagrams (network/NetUtil.cpp, network/NetDefines.h),   *)
(* byte for byte: what the server writes and what it reads.                *)
(*                                                                         *)
(* A packet to be read is a span: the receive buffer, and how many of its  *)
(* bytes belong to the datagram.  The bounds of a span are only asserted,  *)
(* so a read beyond them is a read of whatever the buffer still holds.     *)
(* An optional is the set of its value, or the empty set.                  *)
(***************************************************************************)
EXTENDS Integers, Sequences

Byte == 0..255
Span == [data : Seq(Byte), size : Nat]

\* Offsets count from 0.
ReadUInt8(p, offset) == p.data[offset + 1]
ReadUInt16B(p, offset) == ReadUInt8(p, offset) * 256 + ReadUInt8(p, offset + 1)
ReadUInt32B(p, offset) ==
  ReadUInt8(p, offset) * 16777216 + ReadUInt8(p, offset + 1) * 65536
    + ReadUInt8(p, offset + 2) * 256 + ReadUInt8(p, offset + 3)

\* An integer is cast to the width of the field it is written to.
WriteUInt8(n) == <<n % 256>>
WriteUInt16B(n) == <<(n \div 256) % 256, n % 256>>
WriteUInt32B(n) ==
  <<(n \div 16777216) % 256, (n \div 65536) % 256, (n \div 256) % 256, n % 256>>

-----------------------------------------------------------------------------
ProtocolSignature == 42353      \* 0xA571
ProtocolVersion == 1

Error == 0
Connect == 1
Disconnect == 2
SetFormat == 3
KeystrokeCategory == 16
AudioDataUncompressed == 32
AudioDataOpus == 33
ClientKeepAlive == 48
ServerKeepAlive == 49
Ack == 240

HeaderSize == 5
DataOffset == HeaderSize
KeystrokeSize == 2
ConnectDataSize == 4
SetFormatDataSize == 3

-----------------------------------------------------------------------------
\* (A slip: a header with the size of the data alone.)
PacketSizedByData(category, data) ==
  WriteUInt16B(ProtocolSignature) \o WriteUInt8(category)
    \o WriteUInt16B(Len(data)) \o data

\* writeHeader and the data behind it.
CreatePacket(category, data) ==
  WriteUInt16B(ProtocolSignature) \o WriteUInt8(category)
    \o WriteUInt16B(HeaderSize + Len(data)) \o data

CreateAudioPacket(category, sequenceNumber, audioData) ==
  CreatePacket(category, WriteUInt32B(sequenceNumber) \o audioData)
CreateKeepAlivePacket == CreatePacket(ServerKeepAlive, <<>>)
CreateDisconnectPacket == CreatePacket(Disconnect, <<>>)

\* The request's id and four bytes of custom data.
CreateAckConnectPacket(requestId) ==
  CreatePacket(Ack, WriteUInt16B(requestId) \o <<ProtocolVersion, 0, 0, 0>>)
CreateAckSetFormatPacket(requestId) ==
  CreatePacket(Ack, WriteUInt16B(requestId) \o <<0, 0, 0, 0>>)

-----------------------------------------------------------------------------
GetPacketCategory(p) ==
  IF p.size >= HeaderSize /\ ReadUInt16B(p, 0) = ProtocolSignature
  THEN ReadUInt8(p, 2)
  ELSE Error

GetKeystroke(p) ==
  IF p.size < DataOffset + KeystrokeSize THEN {}
  ELSE {[key |-> ReadUInt8(p, DataOffset), mods |-> ReadUInt8(p, DataOffset + 1)]}

\* The client's protocol version is read too, and not used.
GetConnectData(p) ==
  IF p.size < DataOffset + ConnectDataSize THEN {}
  ELSE {[requestId |-> ReadUInt16B(p, DataOffset + 1),
         compression |-> ReadUInt8(p, DataOffset + 3)]}

GetSetFormatData(p) ==
  IF p.size < DataOffset + SetFormatDataSize THEN {}
  ELSE {[requestId |-> ReadUInt16B(p, DataOffset),
         compression |-> ReadUInt8(p, DataOffset + 2)]}

AudioCompression ==
  {"none", "kbps_64", "kbps_128", "kbps_192", "kbps_256", "kbps_320"}
CompressionFromNetworkValue(n) ==
  CASE n = 0 -> {"none"}
    [] n = 1 -> {"kbps_64"}
    [] n = 2 -> {"kbps_128"}
    [] n = 3 -> {"kbps_192"}
    [] n = 4 -> {"kbps_256"}
    [] n = 5 -> {"kbps_320"}
    [] OTHER -> {}
=============================================================================
