------------------------------ MODULE Receive ------------------------------
(***************************************************************************)
(* The server with its datagrams as bytes: Server::receive reads each one  *)
(* into the same buffer, looks at as many bytes as came, and calls the     *)
(* handlers of Server.tla, and what is sent is composed byte for byte.     *)
(* Server.tla takes packets as parsed, and is what this module implements. *)
(*                                                                         *)
(* The datagrams of the clients are a constant, the complete and the       *)
(* incomplete ones.  An error of the socket is Server!ReceiveFails.        *)
(***************************************************************************)
EXTENDS Server, Packets, Keystroke

CONSTANTS
  InputPacketSize,      \* inputPacketSize, at least the longest request
  Datagram,             \* what may arrive
  SequenceNumber,       \* the numbers the capture gives to audio packets
  AudioData             \* the audio of a packet

ASSUME InputPacketSizeAssumption ==
  InputPacketSize \in Nat /\ InputPacketSize >= HeaderSize + ConnectDataSize
ASSUME DatagramAssumption ==
  \A d \in Datagram : d \in Seq(Byte) /\ Len(d) <= InputPacketSize
ASSUME SequenceNumberAssumption ==
  \A n \in SequenceNumber : n \in Nat /\ n \div 65536 < 65536
\* (A frame of 10 ms, far below what the length in a header can say.)
ASSUME AudioDataAssumption ==
  AudioData \in Seq(Byte) /\ HeaderSize + 4 + Len(AudioData) < 65536
ASSUME CompressionAssumption == Compression = AudioCompression

VARIABLES
  datagram,       \* the receive buffer, which outlives each datagram in it
  nBytes,         \* how many of its bytes are the last datagram's
  sender,         \* where that came from, NoClient before the first
  wire            \* history: the bytes of the last packet sent

receiver == <<datagram, nBytes, sender>>
allVars == <<vars, keys, receiver, wire>>

ReceiveInit ==
  /\ ServerInit
  /\ KeystrokeInit
  /\ datagram = [i \in 1..InputPacketSize |-> 0]
  /\ nBytes = 0
  /\ sender = NoClient
  /\ wire = <<>>

-----------------------------------------------------------------------------
\* The handlers, which return early when an optional they need is empty.
Ignore == UNCHANGED <<vars, keys, wire>>

\* (A slip: the client is registered, and gets no answer.)
OnConnectSilently(a, p) ==
  \/ \E data \in GetConnectData(p) :
       \E c \in CompressionFromNetworkValue(data.compression) :
         /\ Add(a, c) /\ OnClientsUpdate
         /\ UNCHANGED <<timer, sending, status, unheard, sent, keys, wire>>
  \/ /\ \A data \in GetConnectData(p) :
          CompressionFromNetworkValue(data.compression) = {}
     /\ Ignore

OnConnect(a, p) ==
  \/ \E data \in GetConnectData(p) :
       \E c \in CompressionFromNetworkValue(data.compression) :
         /\ ProcessConnect(a, c)
         /\ wire' = CreateAckConnectPacket(data.requestId)
         /\ UNCHANGED keys
  \/ /\ \A data \in GetConnectData(p) :
          CompressionFromNetworkValue(data.compression) = {}
     /\ Ignore

OnSetFormat(a, p) ==
  \/ \E data \in GetSetFormatData(p) :
       \E c \in CompressionFromNetworkValue(data.compression) :
         /\ ProcessSetFormat(a, c)
         /\ wire' = CreateAckSetFormatPacket(data.requestId)
         /\ UNCHANGED keys
  \/ /\ \A data \in GetSetFormatData(p) :
          CompressionFromNetworkValue(data.compression) = {}
     /\ Ignore

\* processKeystroke; the callback shows it in the window (see App.tla).
OnKeystroke(p) ==
  \/ \E keystroke \in GetKeystroke(p) :
       /\ Emulate(keystroke.key, keystroke.mods)
       /\ UNCHANGED <<vars, wire>>
  \/ GetKeystroke(p) = {} /\ Ignore

\* The switch over the category.
Dispatch(a, p) ==
  LET category == GetPacketCategory(p)
  IN  \/ category = Connect /\ OnConnect(a, p)
      \/ category = Disconnect /\ ProcessDisconnect(a) /\ UNCHANGED <<keys, wire>>
      \/ category = SetFormat /\ OnSetFormat(a, p)
      \/ category = KeystrokeCategory /\ OnKeystroke(p)
      \/ category = ClientKeepAlive /\ ProcessKeepAlive(a) /\ UNCHANGED <<keys, wire>>
      \/ /\ category \notin {Connect, Disconnect, SetFormat, KeystrokeCategory,
                             ClientKeepAlive}
         /\ Ignore

\* async_receive_from fills the first bytes of the buffer.
Fill(d) == [i \in 1..InputPacketSize |-> IF i <= Len(d) THEN d[i] ELSE datagram[i]]

\* (A slip: the handlers get the whole buffer.)
ReceiveBuffer(a, d) ==
  /\ status = "running"
  /\ datagram' = Fill(d) /\ nBytes' = Len(d) /\ sender' = a
  /\ Dispatch(a, [data |-> datagram', size |-> InputPacketSize])

\* One round of receive.
Receive(a, d) ==
  /\ status = "running"
  /\ datagram' = Fill(d) /\ nBytes' = Len(d) /\ sender' = a
  /\ Dispatch(a, [data |-> datagram', size |-> nBytes'])

-----------------------------------------------------------------------------
\* sendAudio's category.
AudioCategory(c) == IF c = "none" THEN AudioDataUncompressed ELSE AudioDataOpus

Transmit ==
  \/ \E c \in Compression, n \in SequenceNumber :
       SendAudio(c) /\ wire' = CreateAudioPacket(AudioCategory(c), n, AudioData)
  \/ Maintain /\ wire' = CreateKeepAlivePacket
  \/ (Shutdown \/ ShutdownFails) /\ wire' = CreateDisconnectPacket

ReceiveNext ==
  \/ \E a \in Address, d \in Datagram : Receive(a, d)
  \/ Transmit /\ UNCHANGED <<keys, receiver>>
  \/ BackgroundNext /\ UNCHANGED <<keys, receiver, wire>>

ReceiveSpec == ReceiveInit /\ [][ReceiveNext]_allVars

-----------------------------------------------------------------------------
\* The bytes at an offset of the last datagram, as the protocol has them.
Says(offset, bytes) ==
  /\ offset + Len(bytes) <= nBytes
  /\ \A i \in 1..Len(bytes) : datagram[offset + i] = bytes[i]

AsksToConnect(value) == Says(0, <<165, 113, 1>>) /\ Says(8, <<value>>)
AsksForFormat(value) == Says(0, <<165, 113, 3>>) /\ Says(7, <<value>>)

\* Only a request that is whole within its own datagram is acted upon,
\* whatever longer datagrams have left in the buffer behind it: a client's
\* format changes, and an acknowledgement goes out, only in answer to a
\* datagram from that address, for that format and with that request's id.
OnlyWholeRequests ==
  [][/\ \A a \in Address :
          FormatOf(a)' \notin {FormatOf(a), NoClient} =>
            /\ sender' = a
            /\ \E v \in 0..5 :
                 /\ FormatOf(a)' \in CompressionFromNetworkValue(v)
                 /\ \/ AsksToConnect(v)'
                    \/ AsksForFormat(v)' /\ FormatOf(a) # NoClient
     /\ sent'.packet = "Ack" /\ <<sent', wire'>> # <<sent, wire>> =>
          /\ sent'.to = {sender'}
          /\ \E v \in 0..5 :
               \/ AsksToConnect(v)' /\ Says(6, SubSeq(wire, 6, 7))'
               \/ AsksForFormat(v)' /\ Says(5, SubSeq(wire, 6, 7))'
    ]_allVars

\* What goes over the wire is what the server meant to send: a reader of the
\* bytes finds the packet's kind, and its own length in the header.
CategoryOf(packet) ==
  CASE packet = "Ack" -> Ack
    [] packet = "KeepAlive" -> ServerKeepAlive
    [] packet = "Disconnect" -> Disconnect
    [] OTHER -> AudioCategory(packet)

WireTellsSent ==
  LET p == [data |-> wire, size |-> Len(wire)]
  IN  IF sent.packet = "Nothing" THEN wire = <<>>
      ELSE /\ GetPacketCategory(p) = CategoryOf(sent.packet)
           /\ ReadUInt16B(p, 3) = Len(wire)

\* Seen as packets, everything the datagrams do is something Server.tla does.
ImplementsServer == ServerSpec
=============================================================================
