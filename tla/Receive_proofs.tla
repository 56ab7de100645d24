--------------------------- MODULE Receive_proofs ---------------------------
(***************************************************************************)
(* The server of datagrams implements the server of packets, so that what  *)
(* is proved of the latter in Server_proofs holds of the former.  What the *)
(* server acts upon is in the datagram, what it sends can be read back,    *)
(* and the keys it presses come up.                                        *)
(***************************************************************************)
EXTENDS Receive, Server_proofs, FiniteSetTheorems, SequenceTheorems

-----------------------------------------------------------------------------
(***************************************************************************)
(* The dispatch.                                                           *)
(***************************************************************************)

\* A network value stands for at most one compression, and for no other.
LEMMA CompressionsAreKnown ==
  \A n \in Int : CompressionFromNetworkValue(n) \subseteq Compression
BY CompressionAssumption DEF CompressionFromNetworkValue, AudioCompression

\* What a read returns is an integer.
LEMMA ValuesAreIntegers ==
  ASSUME NEW p, p.data \in Seq(Byte), Len(p.data) >= HeaderSize + ConnectDataSize
  PROVE  /\ \A data \in GetConnectData(p) : data.compression \in Int
         /\ \A data \in GetSetFormatData(p) : data.compression \in Int
<1> USE DEF HeaderSize, ConnectDataSize, SetFormatDataSize, DataOffset
<1>1. \A i \in 0..8 : ReadUInt8(p, i) \in Int
  <2>1. p.data \in Seq(Byte) /\ Len(p.data) >= 9
    OBVIOUS
  <2>2. ASSUME NEW s \in Seq(Byte), Len(s) >= 9, NEW i \in 0..8 PROVE s[i + 1] \in Byte
    BY <2>2
  <2>3. Byte \subseteq Int
    BY DEF Byte
  <2> QED
    BY <2>1, <2>2, <2>3 DEF ReadUInt8
<1> QED
  BY <1>1, SMTT(30) DEF GetConnectData, GetSetFormatData

\* The receive buffer is a buffer of bytes.
BufferOK == datagram \in [1..InputPacketSize -> Byte]

\* The buffer keeps its type when a datagram is received into it.
LEMMA FillKeepsBuffer ==
  ASSUME BufferOK, NEW d \in Datagram
  PROVE  Fill(d) \in [1..InputPacketSize -> Byte]
<1>1. d \in Seq(Byte) /\ Len(d) <= InputPacketSize
  BY DatagramAssumption
<1>2. \A i \in 1..InputPacketSize : i <= Len(d) => d[i] \in Byte
  BY <1>1, InputPacketSizeAssumption
<1> QED
  BY <1>2 DEF Fill, BufferOK

\* Receiving a datagram is one step of the server, or none.
LEMMA ReceiveIsStep ==
  ASSUME BufferOK,
         NEW a \in Address, NEW d \in Datagram, Receive(a, d)
  PROVE  ServerNext \/ UNCHANGED vars
<1> DEFINE p == [data |-> datagram', size |-> nBytes']
<1>1. datagram' \in [1..InputPacketSize -> Byte]
  BY FillKeepsBuffer DEF Receive
<1>2. p.data \in Seq(Byte) /\ Len(p.data) >= HeaderSize + ConnectDataSize
  BY <1>1, InputPacketSizeAssumption
<1>3. Dispatch(a, p)
  BY DEF Receive
<1>4. CASE OnConnect(a, p)
  BY <1>2, <1>4, ValuesAreIntegers, CompressionsAreKnown
  DEF OnConnect, Ignore, ServerNext
<1>5. CASE OnSetFormat(a, p)
  BY <1>2, <1>5, ValuesAreIntegers, CompressionsAreKnown
  DEF OnSetFormat, Ignore, ServerNext
<1>6. CASE OnKeystroke(p)
  BY <1>6 DEF OnKeystroke, Ignore
<1>7. CASE ProcessDisconnect(a) \/ ProcessKeepAlive(a)
  BY <1>7 DEF ServerNext
<1>8. CASE Ignore
  BY <1>8 DEF Ignore
<1> QED
  BY <1>3, <1>4, <1>5, <1>6, <1>7, <1>8 DEF Dispatch

\* The receive buffer is always a buffer of bytes: no handler writes to it.
LEMMA BufferKeeps ==
  ReceiveSpec => []BufferOK
<1>1. ReceiveInit => BufferOK
  BY DEF ReceiveInit, BufferOK, Byte
<1>2. BufferOK /\ [ReceiveNext]_allVars => BufferOK'
  BY FillKeepsBuffer DEF ReceiveNext, Receive, allVars, receiver, BufferOK
<1> QED
  BY <1>1, <1>2, PTL DEF ReceiveSpec

\* The server that reads and writes bytes (Server.cpp with NetUtil.cpp)
\* implements the server of packets: every datagram, whole, cut off or
\* unknown, does something a packet does, or nothing.
THEOREM DatagramsArePackets == ReceiveSpec => ImplementsServer
<1>1. ReceiveInit => ServerInit
  BY DEF ReceiveInit
<1>2. BufferOK /\ [ReceiveNext]_allVars => [ServerNext]_vars
  <2> SUFFICES ASSUME BufferOK, [ReceiveNext]_allVars
               PROVE  ServerNext \/ UNCHANGED vars
    OBVIOUS
  <2>1. CASE \E a \in Address, d \in Datagram : Receive(a, d)
    BY <2>1, ReceiveIsStep
  <2>2. CASE Transmit
    BY <2>2 DEF Transmit, ServerNext
  <2>3. CASE BackgroundNext
    BY <2>3 DEF ServerNext
  <2>4. CASE UNCHANGED allVars
    BY <2>4 DEF allVars
  <2> QED
    BY <2>1, <2>2, <2>3, <2>4 DEF ReceiveNext
<1> QED
  BY <1>1, <1>2, BufferKeeps, PTL DEF ReceiveSpec, ServerSpec, ImplementsServer

\* So the sessions are served as Sessions promises when the packets are bytes.
THEOREM DatagramsKeepPromise == ReceiveSpec => KeepsPromise
BY DatagramsArePackets, ServerKeepsPromise DEF ImplementsServer

-----------------------------------------------------------------------------
(***************************************************************************)
(* Keystrokes.                                                             *)
(***************************************************************************)

\* The modifiers of a keystroke are finitely many.
LEMMA ModsAreFinite == \A mods : Cardinality(Mods(mods)) \in Nat
<1>1. IsFiniteSet(16..91)
  <2>1. \A a, b \in Int : IsFiniteSet(a..b)
    BY FS_Interval, Zenon
  <2>2. 16 \in Int /\ 91 \in Int
    OBVIOUS
  <2> QED
    BY <2>1, <2>2, Zenon
<1>2. \A mods : Mods(mods) \subseteq 16..91
  <2>1. \A m \in Modifier : ModKeyVk[m] \in 16..91
    BY SMT DEF ModKeyVk, Modifier
  <2> QED
    BY <2>1, Zenon DEF Mods
<1> QED
  BY <1>1, <1>2, FS_Subset, FS_CardinalityType

\* What the events of a keystroke are: each key has one that presses it, and
\* for every one that presses there is a later one that releases.
Paired(inputs, key, held, order, n) ==
  /\ \A i \in 1..n : inputs[i].wVk = order[i]
  /\ \A i \in 1..n + 1 : inputs[i].dwFlags = "KEYDOWN"
  /\ \A i \in n + 2..2 * (n + 1) : inputs[i].dwFlags = "KEYUP"
  /\ \A i \in 1..2 * (n + 1) : inputs[i].wVk \in held \cup {key}
  /\ \A i \in 1..n + 1 : inputs[2 * (n + 1) + 1 - i].wVk = inputs[i].wVk
  /\ \A k \in held \cup {key} : \E i \in 1..n + 1 : inputs[i].wVk = k

LEMMA EventsPair ==
  ASSUME NEW key, NEW held, NEW n \in Nat, NEW order \in Bijection(1..n, held),
         n = Cardinality(held)
  PROVE  Paired(Inputs(key, held, order), key, held, order, n)
<1> DEFINE inputs == Inputs(key, held, order)
<1>1. /\ order \in [1..n -> held]
      /\ \A k \in held : \E i \in 1..n : order[i] = k
  BY DEF Bijection, Injection, Surjection
<1>2. \A i \in 1..2 * (n + 1) :
        /\ inputs[i].wVk = IF i < n + 1 THEN order[i]
                           ELSE IF i <= (n + 1) + 1 THEN key
                           ELSE order[2 * (n + 1) + 1 - i]
        /\ inputs[i].dwFlags = IF i > n + 1 THEN "KEYUP" ELSE "KEYDOWN"
  BY DEF Inputs
<1> HIDE DEF inputs
<1>3. /\ \A i \in 1..n + 1 : inputs[i].dwFlags = "KEYDOWN"
      /\ \A i \in n + 2..2 * (n + 1) : inputs[i].dwFlags = "KEYUP"
  BY <1>2
<1>4. \A i \in 1..n : inputs[i].wVk = order[i]
  BY <1>2
<1>5. inputs[n + 1].wVk = key /\ inputs[n + 2].wVk = key
  BY <1>2
<1>6. \A j \in n + 3..2 * (n + 1) : inputs[j].wVk = order[2 * (n + 1) + 1 - j]
  BY <1>2
<1>7. \A i \in 1..n + 1 : inputs[2 * (n + 1) + 1 - i].wVk = inputs[i].wVk
  <2> TAKE i \in 1..n + 1
  <2>1. CASE i \in 1..n
    <3> DEFINE j == 2 * (n + 1) + 1 - i
    <3>1. j \in n + 3..2 * (n + 1) /\ 2 * (n + 1) + 1 - j = i
      BY <2>1
    <3> HIDE DEF j
    <3>2. inputs[j].wVk = order[i]
      BY <1>6, <3>1
    <3> QED
      BY <1>4, <2>1, <3>2 DEF j
  <2>2. CASE i = n + 1
    <3>1. 2 * (n + 1) + 1 - i = n + 2
      BY <2>2
    <3> QED
      BY <1>5, <2>2, <3>1
  <2> QED
    BY <2>1, <2>2
<1>8. \A i \in 1..2 * (n + 1) : inputs[i].wVk \in held \cup {key}
  <2> TAKE i \in 1..2 * (n + 1)
  <2>1. CASE i \in 1..n
    BY <1>1, <1>4, <2>1
  <2>2. CASE i = n + 1 \/ i = n + 2
    BY <1>5, <2>2
  <2>3. CASE i \in n + 3..2 * (n + 1)
    <3>1. 2 * (n + 1) + 1 - i \in 1..n
      BY <2>3
    <3> QED
      BY <1>1, <1>6, <2>3, <3>1
  <2> QED
    BY <2>1, <2>2, <2>3
<1>9. \A k \in held \cup {key} : \E i \in 1..n + 1 : inputs[i].wVk = k
  <2> TAKE k \in held \cup {key}
  <2>1. CASE k \in held
    <3>1. PICK i \in 1..n : order[i] = k
      BY <1>1, <2>1
    <3>2. i \in 1..n + 1
      OBVIOUS
    <3> QED
      BY <1>4, <3>1, <3>2
  <2>2. CASE k = key
    <3>1. n + 1 \in 1..n + 1
      OBVIOUS
    <3> QED
      BY <1>5, <2>2, <3>1
  <2> QED
    BY <2>1, <2>2
<1> QED
  BY <1>3, <1>4, <1>7, <1>8, <1>9 DEF inputs, Paired

\* Injected to the end, a keystroke leaves none of its keys pressed.
LEMMA FullInjection ==
  ASSUME NEW key, NEW held, NEW n \in Nat, NEW order \in Bijection(1..n, held),
         n = Cardinality(held), NEW pressed
  PROVE  After(pressed, Inputs(key, held, order), 2 * (n + 1))
           \subseteq pressed \ (held \cup {key})
<1> DEFINE inputs == Inputs(key, held, order)
<1>1. /\ \A i \in n + 2..2 * (n + 1) : inputs[i].dwFlags = "KEYUP"
      /\ \A i \in 1..n + 1 : inputs[2 * (n + 1) + 1 - i].wVk = inputs[i].wVk
      /\ \A k \in held \cup {key} : \E i \in 1..n + 1 : inputs[i].wVk = k
  <2>1. Paired(inputs, key, held, order, n)
    BY EventsPair, Zenon
  <2> QED
    BY <2>1, Zenon DEF Paired
<1> HIDE DEF inputs
<1> SUFFICES ASSUME NEW k \in After(pressed, inputs, 2 * (n + 1))
             PROVE  k \in pressed \ (held \cup {key})
  BY DEF inputs
<1> DEFINE events == {i \in 1..2 * (n + 1) : inputs[i].wVk = k}
<1>2. /\ k \in pressed \cup {inputs[i].wVk : i \in 1..2 * (n + 1)}
      /\ \/ events = {}
         \/ \E i \in events :
              inputs[i].dwFlags = "KEYDOWN" /\ \A j \in events : j <= i
  BY DEF After
<1>3. ASSUME NEW i \in events, inputs[i].dwFlags = "KEYDOWN",
             \A j \in events : j <= i
      PROVE  FALSE
  <2>1. i \in 1..n + 1
    <3>1. i \in 1..2 * (n + 1) /\ i \notin n + 2..2 * (n + 1)
      BY <1>1, <1>3
    <3> QED
      BY <3>1
  <2> DEFINE j == 2 * (n + 1) + 1 - i
  <2>2. j \in 1..2 * (n + 1) /\ ~(j <= i)
    BY <2>1
  <2>3. inputs[j].wVk = k
    BY <1>1, <2>1
  <2> QED
    BY <1>3, <2>2, <2>3
<1>4. events = {}
  BY <1>2, <1>3
<1>5. k \notin held \cup {key}
  <2>1. \A i \in 1..n + 1 : i \in 1..2 * (n + 1)
    OBVIOUS
  <2> QED
    BY <1>1, <1>4, <2>1
<1> QED
  BY <1>2, <1>4, <1>5

\* Cut short anywhere, it leaves no others pressed than were, and its own.
LEMMA PartInjection ==
  ASSUME NEW key, NEW held, NEW n \in Nat, NEW order \in Bijection(1..n, held),
         n = Cardinality(held), NEW pressed, NEW inserted \in 0..2 * (n + 1)
  PROVE  After(pressed, Inputs(key, held, order), inserted)
           \subseteq pressed \cup held \cup {key}
<1>1. \A i \in 1..2 * (n + 1) : Inputs(key, held, order)[i].wVk \in held \cup {key}
  BY EventsPair DEF Paired
<1>2. \A i \in 1..inserted : i \in 1..2 * (n + 1)
  OBVIOUS
<1> QED
  BY <1>1, <1>2 DEF After

\* When the main key is pressed, the modifiers are, and none besides.
LEMMA UnderModifiers ==
  ASSUME NEW key, NEW held, NEW n \in Nat, NEW order \in Bijection(1..n, held),
         n = Cardinality(held), NEW pressed
  PROVE  After(pressed, Inputs(key, held, order), n) = pressed \cup held
<1> DEFINE inputs == Inputs(key, held, order)
<1>1. /\ \A i \in 1..n : inputs[i].wVk = order[i]
      /\ \A i \in 1..n : inputs[i].dwFlags = "KEYDOWN"
  <2>1. \A i \in 1..n : i \in 1..n + 1
    OBVIOUS
  <2>2. Paired(inputs, key, held, order, n)
    BY EventsPair, Zenon
  <2> QED
    BY <2>1, <2>2, Zenon DEF Paired
<1>2. /\ order \in [1..n -> held]
      /\ \A k \in held : \E i \in 1..n : order[i] = k
      /\ \A i, j \in 1..n : order[i] = order[j] => i = j
  BY DEF Bijection, Injection, Surjection, IsInjective
<1> HIDE DEF inputs
<1>3. After(pressed, inputs, n) \subseteq pressed \cup held
  BY <1>1, <1>2 DEF After
<1>4. ASSUME NEW k \in held PROVE k \in After(pressed, inputs, n)
  <2>1. PICK i \in 1..n : order[i] = k
    BY <1>2
  <2>2. inputs[i].wVk = k /\ inputs[i].dwFlags = "KEYDOWN"
    BY <1>1, <2>1
  <2>3. \A j \in {m \in 1..n : inputs[m].wVk = k} : j <= i
    BY <1>1, <1>2, <2>1
  <2> QED
    BY <2>2, <2>3 DEF After
<1>5. ASSUME NEW k \in pressed, k \notin held PROVE k \in After(pressed, inputs, n)
  <2>1. {m \in 1..n : inputs[m].wVk = k} = {}
    BY <1>1, <1>2, <1>5
  <2> QED
    BY <2>1 DEF After
<1> QED
  BY <1>3, <1>4, <1>5 DEF inputs

\* The two properties of the keyboard, for any keystrokes and any cuts.
KeysOK == KeysComeUp /\ TypedAsAsked

LEMMA EmulateKeeps ==
  ASSUME KeysOK, NEW key, NEW mods, Emulate(key, mods)
  PROVE  KeysOK'
<1> DEFINE held == Mods(mods)
           n == Cardinality(held)
<1>1. n \in Nat
  BY ModsAreFinite
<1>2. PICK order \in Bijection(1..n, held), inserted \in 0..2 * (n + 1) :
        Inject(key, held, order, inserted)
  BY DEF Emulate
<1> HIDE DEF held
<1>3. KeysComeUp'
  <2>1. CASE inserted < 2 * (n + 1)
    <3>1. keyboard' \subseteq keyboard \cup held \cup {key}
      BY <1>1, <1>2, PartInjection DEF Inject
    <3> QED
      BY <1>2, <2>1, <3>1 DEF Inject, KeysOK, KeysComeUp
  <2>2. CASE ~(inserted < 2 * (n + 1))
    <3>1. inserted = 2 * (n + 1)
      BY <1>1, <1>2, <2>2
    <3>2. keyboard' \subseteq keyboard \ (held \cup {key})
      BY <1>1, <1>2, <3>1, FullInjection DEF Inject
    <3> QED
      BY <1>2, <2>2, <3>2 DEF Inject, KeysOK, KeysComeUp
  <2> QED
    BY <2>1, <2>2
<1>4. TypedAsAsked'
  <2>1. After(keyboard, Inputs(key, held, order), n) = keyboard \cup held
    BY <1>1, <1>2, UnderModifiers
  <2> QED
    BY <1>2, <2>1 DEF Inject, KeysOK, KeysComeUp, TypedAsAsked
<1> QED
  BY <1>3, <1>4 DEF KeysOK

LEMMA KeysInvariance == ReceiveSpec => []KeysOK
<1>1. ReceiveInit => KeysOK
  BY DEF ReceiveInit, KeystrokeInit, KeysOK, KeysComeUp, TypedAsAsked
<1>2. KeysOK /\ [ReceiveNext]_allVars => KeysOK'
  <2> SUFFICES ASSUME KeysOK, [ReceiveNext]_allVars PROVE KeysOK'
    OBVIOUS
  <2>1. CASE UNCHANGED keys
    BY <2>1 DEF keys, KeysOK, KeysComeUp, TypedAsAsked
  <2>2. ASSUME NEW key, NEW mods, Emulate(key, mods) PROVE KeysOK'
    BY <2>2, EmulateKeeps
  <2>3. ASSUME NEW a \in Address, NEW d \in Datagram, Receive(a, d) PROVE KeysOK'
    <3>1. PICK p : Dispatch(a, p)
      BY <2>3 DEF Receive
    <3> QED
      BY <3>1, <2>1, <2>2
      DEF Dispatch, OnConnect, OnSetFormat, OnKeystroke, Ignore
  <2> QED
    BY <2>1, <2>3 DEF ReceiveNext, allVars
<1> QED
  BY <1>1, <1>2, PTL DEF ReceiveSpec

\* Whatever SendInput cuts short, and in whatever order the modifiers come:
\* a key stays pressed only until a keystroke that uses it gets through.
THEOREM KeysAreSafe == ReceiveSpec => []KeysComeUp
<1>1. KeysOK => KeysComeUp
  BY DEF KeysOK
<1> QED
  BY <1>1, KeysInvariance, PTL

\* No key is typed without the modifiers it was asked for, or under keys
\* that nothing explains.
THEOREM KeysAreTyped == ReceiveSpec => []TypedAsAsked
<1>1. KeysOK => TypedAsAsked
  BY DEF KeysOK
<1> QED
  BY <1>1, KeysInvariance, PTL

-----------------------------------------------------------------------------
(***************************************************************************)
(* Packets on the wire.                                                    *)
(***************************************************************************)

HighByte(n) == (n \div 256) % 256
LowByte(n) == n % 256

LEMMA Halves ==
  /\ \A n \in Int : HighByte(n) \in Int /\ LowByte(n) \in Int
  /\ \A n \in Nat : n < 65536 => HighByte(n) * 256 + LowByte(n) = n
  /\ \A n \in Byte : n \in Int /\ LowByte(n) = n
  /\ \A x, y \in Byte : HighByte(x * 256 + y) = x /\ LowByte(x * 256 + y) = y
<1>1. ASSUME NEW n \in Int PROVE HighByte(n) \in Int /\ LowByte(n) \in Int
  BY DEF HighByte, LowByte
<1>2. ASSUME NEW n \in Nat, n < 65536 PROVE HighByte(n) * 256 + LowByte(n) = n
  BY <1>2 DEF HighByte, LowByte
<1>3. ASSUME NEW n \in Byte PROVE n \in Int /\ LowByte(n) = n
  BY DEF LowByte, Byte
<1>4. ASSUME NEW x \in Byte, NEW y \in Byte
      PROVE  HighByte(x * 256 + y) = x /\ LowByte(x * 256 + y) = y
  BY DEF HighByte, LowByte, Byte
<1> QED
  BY <1>1, <1>2, <1>3, <1>4

LEMMA Written ==
  ASSUME NEW n \in Int
  PROVE  /\ WriteUInt8(n) \in Seq(Int) /\ Len(WriteUInt8(n)) = 1
         /\ WriteUInt8(n)[1] = LowByte(n)
         /\ WriteUInt16B(n) \in Seq(Int) /\ Len(WriteUInt16B(n)) = 2
         /\ WriteUInt16B(n)[1] = HighByte(n) /\ WriteUInt16B(n)[2] = LowByte(n)
<1>1. HighByte(n) \in Int /\ LowByte(n) \in Int
  BY Halves
<1>2. ASSUME NEW x \in Int, NEW y \in Int
      PROVE  /\ <<x>> \in Seq(Int) /\ Len(<<x>>) = 1 /\ <<x>>[1] = x
             /\ <<x, y>> \in Seq(Int) /\ Len(<<x, y>>) = 2
             /\ <<x, y>>[1] = x /\ <<x, y>>[2] = y
  OBVIOUS
<1>3. WriteUInt8(n) = <<LowByte(n)>> /\ WriteUInt16B(n) = <<HighByte(n), LowByte(n)>>
  BY DEF WriteUInt8, WriteUInt16B, HighByte, LowByte
<1> HIDE DEF HighByte, LowByte
<1> QED
  BY <1>1, <1>2, <1>3

LEMMA Written32 ==
  ASSUME NEW n \in Int
  PROVE  WriteUInt32B(n) \in Seq(Int) /\ Len(WriteUInt32B(n)) = 4
<1>1. /\ (n \div 16777216) % 256 \in Int /\ (n \div 65536) % 256 \in Int
      /\ (n \div 256) % 256 \in Int /\ n % 256 \in Int
  OBVIOUS
<1>2. ASSUME NEW x \in Int, NEW y \in Int, NEW z \in Int, NEW w \in Int
      PROVE  <<x, y, z, w>> \in Seq(Int) /\ Len(<<x, y, z, w>>) = 4
  OBVIOUS
<1> QED
  BY <1>1, <1>2 DEF WriteUInt32B

\* Where the bytes of two sequences are in the one composed of them.
Joins(w, s, t) ==
  /\ w \in Seq(Int) /\ Len(w) = Len(s) + Len(t)
  /\ \A i \in 1..Len(s) : w[i] = s[i]
  /\ \A i \in 1..Len(t) : w[Len(s) + i] = t[i]

LEMMA Composed ==
  ASSUME NEW s \in Seq(Int), NEW t \in Seq(Int)
  PROVE  Joins(s \o t, s, t)
BY ConcatProperties DEF Joins

\* What writeHeader and the writing of the data leave in a packet.
Assembled(w, s, k, l, d) ==
  /\ w \in Seq(Int) /\ Len(w) = 5 + Len(d)
  /\ w[1] = s[1] /\ w[2] = s[2] /\ w[3] = k[1] /\ w[4] = l[1] /\ w[5] = l[2]
  /\ \A i \in 1..Len(d) : w[5 + i] = d[i]

LEMMA Assembling ==
  ASSUME NEW s \in Seq(Int), NEW k \in Seq(Int), NEW l \in Seq(Int), NEW d \in Seq(Int),
         Len(s) = 2, Len(k) = 1, Len(l) = 2
  PROVE  Assembled(s \o k \o l \o d, s, k, l, d)
<1>1. PICK two : two = s \o k
  OBVIOUS
<1>2. Joins(two, s, k)
  BY <1>1, Composed, Zenon
<1>3. two \in Seq(Int) /\ Len(two) = 3 /\ two[1] = s[1] /\ two[2] = s[2] /\ two[3] = k[1]
  BY <1>2 DEF Joins
<1>4. PICK header : header = two \o l
  OBVIOUS
<1>5. Joins(header, two, l)
  BY <1>3, <1>4, Composed, Zenon
<1>6. /\ header \in Seq(Int) /\ Len(header) = 5
      /\ header[1] = s[1] /\ header[2] = s[2] /\ header[3] = k[1]
      /\ header[4] = l[1] /\ header[5] = l[2]
  BY <1>3, <1>5 DEF Joins
<1>7. PICK w : w = header \o d
  OBVIOUS
<1>8. Joins(w, header, d)
  BY <1>6, <1>7, Composed, Zenon
<1>9. Assembled(w, s, k, l, d)
  <2>1. /\ w \in Seq(Int) /\ Len(w) = 5 + Len(d)
        /\ \A i \in 1..5 : w[i] = header[i]
        /\ \A i \in 1..Len(d) : w[5 + i] = d[i]
    BY <1>6, <1>8, Zenon DEF Joins
  <2>2. w[1] = header[1] /\ w[2] = header[2] /\ w[3] = header[3]
    BY <2>1
  <2>3. w[4] = header[4] /\ w[5] = header[5]
    BY <2>1
  <2> QED
    BY <1>6, <2>1, <2>2, <2>3, Zenon DEF Assembled
<1>10. w = s \o k \o l \o d
  BY <1>1, <1>4, <1>7, Zenon
<1> QED
  BY <1>9, <1>10, Zenon

\* The size of the packet can be written in its header.
Fits(data) == HeaderSize + Len(data) < 65536

\* writeHeader, byte for byte.
Carries(w, category, data) ==
  /\ w \in Seq(Int) /\ Len(w) = HeaderSize + Len(data)
  /\ w[1] = 165 /\ w[2] = 113 /\ w[3] = category
  /\ w[4] * 256 + w[5] = Len(w)
  /\ \A i \in 1..Len(data) : w[5 + i] = data[i]

LEMMA PacketLayout ==
  ASSUME NEW category \in Byte, NEW data \in Seq(Int), Fits(data)
  PROVE  Carries(CreatePacket(category, data), category, data)
<1>1. PICK n : n = HeaderSize + Len(data)
  OBVIOUS
<1>2. n \in Nat /\ n \in Int /\ n = 5 + Len(data)
  BY <1>1 DEF HeaderSize
<1>3. PICK s : s = WriteUInt16B(ProtocolSignature)
  OBVIOUS
<1>4. s \in Seq(Int) /\ Len(s) = 2 /\ s[1] = 165 /\ s[2] = 113
  <2>1. ProtocolSignature \in Int
    BY DEF ProtocolSignature
  <2>2. HighByte(ProtocolSignature) = 165 /\ LowByte(ProtocolSignature) = 113
    BY DEF ProtocolSignature, HighByte, LowByte
  <2> QED
    BY <1>3, <2>1, <2>2, Written
<1>5. PICK k : k = WriteUInt8(category)
  OBVIOUS
<1>6. k \in Seq(Int) /\ Len(k) = 1 /\ k[1] = category
  <2>1. category \in Int /\ LowByte(category) = category
    BY Halves
  <2> QED
    BY <1>5, <2>1, Written
<1>7. PICK l : l = WriteUInt16B(n)
  OBVIOUS
<1>8. l \in Seq(Int) /\ Len(l) = 2 /\ l[1] = HighByte(n) /\ l[2] = LowByte(n)
  BY <1>2, <1>7, Written
<1>9. HighByte(n) * 256 + LowByte(n) = n
  <2>1. n < 65536
    BY <1>1 DEF Fits
  <2> QED
    BY <1>2, <2>1, Halves
<1>10. PICK w : w = s \o k \o l \o data
  OBVIOUS
<1>11. Assembled(w, s, k, l, data)
  BY <1>4, <1>6, <1>8, <1>10, Assembling, Zenon
<1>12. Carries(w, category, data)
  BY <1>1, <1>2, <1>4, <1>6, <1>8, <1>9, <1>11 DEF Assembled, Carries
<1>13. w = CreatePacket(category, data)
  BY <1>1, <1>3, <1>5, <1>7, <1>10, Zenon DEF CreatePacket
<1> QED
  BY <1>12, <1>13, Zenon

\* What a packet says of itself.
TellsItself(w, category) ==
  /\ GetPacketCategory([data |-> w, size |-> Len(w)]) = category
  /\ ReadUInt16B([data |-> w, size |-> Len(w)], 3) = Len(w)

LEMMA PacketsTellThemselves ==
  ASSUME NEW category \in Byte, NEW data \in Seq(Int), Fits(data)
  PROVE  TellsItself(CreatePacket(category, data), category)
<1> DEFINE w == CreatePacket(category, data)
<1>1. /\ Len(w) = HeaderSize + Len(data) /\ w[1] = 165 /\ w[2] = 113 /\ w[3] = category
      /\ w[4] * 256 + w[5] = Len(w)
  BY PacketLayout DEF Carries
<1>2. Len(data) \in Nat
  OBVIOUS
<1> HIDE DEF w
<1> DEFINE p == [data |-> w, size |-> Len(w)]
<1>3. p.data = w /\ p.size = Len(w)
  OBVIOUS
<1>4. p.size >= HeaderSize
  BY <1>1, <1>2 DEF HeaderSize
<1> HIDE DEF p
<1>5. ReadUInt8(p, 0) = 165 /\ ReadUInt8(p, 0 + 1) = 113 /\ ReadUInt8(p, 2) = category
  BY <1>1, <1>3 DEF ReadUInt8
<1>6. ReadUInt8(p, 3) = w[4] /\ ReadUInt8(p, 3 + 1) = w[5]
  BY <1>3 DEF ReadUInt8
<1>7. ReadUInt16B(p, 0) = ProtocolSignature
  BY <1>5 DEF ReadUInt16B, ProtocolSignature
<1>8. GetPacketCategory(p) = category
  BY <1>4, <1>5, <1>7 DEF GetPacketCategory
<1>9. ReadUInt16B(p, 3) = Len(w)
  BY <1>1, <1>6 DEF ReadUInt16B
<1> QED
  BY <1>8, <1>9 DEF TellsItself, p, w

\* The packets of the server: each tells its kind and its length.
LEMMA DataOfAcks ==
  ASSUME NEW id \in Int, NEW custom \in Seq(Int), Len(custom) = 4
  PROVE  WriteUInt16B(id) \o custom \in Seq(Int) /\ Fits(WriteUInt16B(id) \o custom)
<1>1. PICK s : s = WriteUInt16B(id)
  OBVIOUS
<1>2. s \in Seq(Int) /\ Len(s) = 2
  BY <1>1, Written
<1>3. PICK data : data = s \o custom
  OBVIOUS
<1>4. Joins(data, s, custom)
  BY <1>2, <1>3, Composed, Zenon
<1>5. data \in Seq(Int) /\ Len(data) = 6
  BY <1>2, <1>4 DEF Joins
<1>6. Fits(data)
  BY <1>5 DEF Fits, HeaderSize
<1> QED
  BY <1>1, <1>3, <1>5, <1>6, Zenon

LEMMA KindsAreBytes ==
  /\ Ack \in Byte /\ ServerKeepAlive \in Byte /\ Disconnect \in Byte
  /\ \A c : AudioCategory(c) \in Byte
BY DEF Ack, ServerKeepAlive, Disconnect, AudioCategory, AudioDataUncompressed,
       AudioDataOpus, Byte

LEMMA AcksTellThemselves ==
  ASSUME NEW id \in Int
  PROVE  /\ TellsItself(CreateAckConnectPacket(id), Ack)
         /\ TellsItself(CreateAckSetFormatPacket(id), Ack)
<1>1. \A custom \in Seq(Int) : Len(custom) = 4 =>
        TellsItself(CreatePacket(Ack, WriteUInt16B(id) \o custom), Ack)
  BY DataOfAcks, KindsAreBytes, PacketsTellThemselves, Zenon
<1>2. PICK x, y : x = <<ProtocolVersion, 0, 0, 0>> /\ y = <<0, 0, 0, 0>>
  OBVIOUS
<1>3. x \in Seq(Int) /\ Len(x) = 4 /\ y \in Seq(Int) /\ Len(y) = 4
  BY <1>2 DEF ProtocolVersion
<1>4. /\ TellsItself(CreatePacket(Ack, WriteUInt16B(id) \o x), Ack)
      /\ TellsItself(CreatePacket(Ack, WriteUInt16B(id) \o y), Ack)
  BY <1>1, <1>3, Zenon
<1> QED
  BY <1>2, <1>4, Zenon DEF CreateAckConnectPacket, CreateAckSetFormatPacket

LEMMA AudioTellsItself ==
  ASSUME NEW c, NEW n \in SequenceNumber
  PROVE  TellsItself(CreateAudioPacket(AudioCategory(c), n, AudioData), AudioCategory(c))
<1>1. PICK s : s = WriteUInt32B(n)
  OBVIOUS
<1>2. s \in Seq(Int) /\ Len(s) = 4
  <2>1. n \in Int
    BY SequenceNumberAssumption
  <2> QED
    BY <1>1, <2>1, Written32
<1>3. PICK a : a = AudioData
  OBVIOUS
<1>4. a \in Seq(Int)
  <2>1. a \in Seq(Byte) /\ Byte \subseteq Int
    BY <1>3, AudioDataAssumption DEF Byte
  <2> QED
    BY <2>1, SeqMonotonic, Zenon
<1>5. PICK data : data = s \o a
  OBVIOUS
<1>6. Joins(data, s, a)
  BY <1>2, <1>4, <1>5, Composed, Zenon
<1>7. data \in Seq(Int) /\ Len(data) = 4 + Len(a) /\ Len(a) \in Nat
  BY <1>2, <1>4, <1>6 DEF Joins
<1>8. Fits(data)
  BY <1>3, <1>7, AudioDataAssumption DEF Fits, HeaderSize
<1>9. TellsItself(CreatePacket(AudioCategory(c), data), AudioCategory(c))
  BY <1>7, <1>8, KindsAreBytes, PacketsTellThemselves, Zenon
<1> QED
  BY <1>1, <1>3, <1>5, <1>9, Zenon DEF CreateAudioPacket

UInt32 == {n \in Nat : n < 4294967296}

\* A number of 32 bits is read back wherever its four bytes are.
LEMMA ReadBack32 ==
  ASSUME NEW n \in UInt32, NEW w, NEW size, NEW offset \in Nat,
         \A i \in 1..4 : w[offset + i] = WriteUInt32B(n)[i]
  PROVE  ReadUInt32B([data |-> w, size |-> size], offset) = n
<1> DEFINE a == n \div 16777216
           b == (n \div 65536) % 256
           c == (n \div 256) % 256
           d == n % 256
<1>1. a % 256 = a
  BY SMT DEF UInt32
<1>2. n = a * 16777216 + b * 65536 + c * 256 + d
  BY SMT DEF UInt32
<1>3. WriteUInt32B(n) = <<a, b, c, d>>
  BY <1>1, SMT DEF WriteUInt32B
<1> HIDE DEF a, b, c, d
<1>4. /\ w[offset + 1] = a /\ w[offset + 2] = b
      /\ w[offset + 3] = c /\ w[offset + 4] = d
  BY <1>3, SMT
<1> DEFINE p == [data |-> w, size |-> size]
<1>5. p.data = w
  BY SMT
<1> HIDE DEF p
<1>6. /\ ReadUInt8(p, offset) = a /\ ReadUInt8(p, offset + 1) = b
      /\ ReadUInt8(p, offset + 2) = c /\ ReadUInt8(p, offset + 3) = d
  BY <1>4, <1>5, SMT DEF ReadUInt8
<1>7. ReadUInt32B(p, offset) = n
  BY <1>2, <1>6, SMT DEF ReadUInt32B
<1> QED
  BY <1>7, SMT DEF p

\* What a client finds behind the header of an audio packet.
Delivers(w, n) ==
  /\ ReadUInt32B([data |-> w, size |-> Len(w)], DataOffset) = n
  /\ Len(w) = DataOffset + 4 + Len(AudioData)
  /\ \A i \in 1..Len(AudioData) : w[DataOffset + 4 + i] = AudioData[i]

\* In an audio packet of any kind, a reader finds the very number it was given
\* behind the header, for each of the 2^32 values audioSequenceNumber_ has
\* (TLC's integers end at half of them), and behind that the audio unchanged.
THEOREM NumberAndAudioArrive ==
  ASSUME NEW c, NEW n \in UInt32
  PROVE  Delivers(CreateAudioPacket(AudioCategory(c), n, AudioData), n)
<1>1. PICK s : s = WriteUInt32B(n)
  OBVIOUS
<1>2. s \in Seq(Int) /\ Len(s) = 4
  <2>1. n \in Int
    BY SMT DEF UInt32
  <2> QED
    BY <1>1, <2>1, Written32, Zenon
<1>3. PICK a : a = AudioData
  OBVIOUS
<1>4. a \in Seq(Int) /\ Len(a) \in Nat
  <2>1. a \in Seq(Byte) /\ Byte \subseteq Int
    BY <1>3, AudioDataAssumption DEF Byte
  <2>2. a \in Seq(Int)
    BY <2>1, SeqMonotonic, Zenon
  <2> QED
    BY <2>2
<1>5. PICK data : data = s \o a
  OBVIOUS
<1>6. Joins(data, s, a)
  BY <1>2, <1>4, <1>5, Composed, Zenon
<1>7. /\ data \in Seq(Int) /\ Len(data) = 4 + Len(a)
      /\ \A i \in 1..4 : data[i] = s[i]
      /\ \A i \in 1..Len(a) : data[4 + i] = a[i]
  BY <1>2, <1>6, Zenon DEF Joins
<1>8. Fits(data)
  BY <1>3, <1>4, <1>7, AudioDataAssumption DEF Fits, HeaderSize
<1>9. PICK w : w = CreatePacket(AudioCategory(c), data)
  OBVIOUS
<1>10. Carries(w, AudioCategory(c), data)
  BY <1>7, <1>8, <1>9, KindsAreBytes, PacketLayout, Zenon
<1>11. Len(w) = 5 + Len(data) /\ \A i \in 1..Len(data) : w[5 + i] = data[i]
  BY <1>10, Zenon DEF Carries, HeaderSize
<1>12. \A i \in 1..4 : w[5 + i] = s[i]
  <2>1. \A i \in 1..4 : i \in 1..Len(data)
    BY <1>4, <1>7
  <2> QED
    BY <1>7, <1>11, <2>1, Zenon
<1>13. \A i \in 1..Len(a) : w[5 + 4 + i] = a[i]
  <2>1. \A i \in 1..Len(a) : 4 + i \in 1..Len(data) /\ 5 + (4 + i) = 5 + 4 + i
    BY <1>4, <1>7
  <2> QED
    BY <1>7, <1>11, <2>1, Zenon
<1>14. ReadUInt32B([data |-> w, size |-> Len(w)], 5) = n
  <2>1. \A i \in 1..4 : w[5 + i] = WriteUInt32B(n)[i]
    BY <1>1, <1>12, Zenon
  <2>2. PICK offset \in Nat : offset = 5
    OBVIOUS
  <2>3. \A i \in 1..4 : w[offset + i] = WriteUInt32B(n)[i]
    BY <2>1, <2>2, Zenon
  <2>4. ReadUInt32B([data |-> w, size |-> Len(w)], offset) = n
    BY <2>3, ReadBack32, Zenon
  <2> QED
    BY <2>2, <2>4, Zenon
<1>15. Len(w) = 5 + 4 + Len(a)
  BY <1>4, <1>7, <1>11
<1>16. Delivers(w, n)
  BY <1>3, <1>13, <1>14, <1>15, Zenon DEF Delivers, DataOffset, HeaderSize
<1> QED
  BY <1>1, <1>3, <1>5, <1>9, <1>16, Zenon DEF CreateAudioPacket

LEMMA EmptyTellThemselves ==
  /\ TellsItself(CreateKeepAlivePacket, ServerKeepAlive)
  /\ TellsItself(CreateDisconnectPacket, Disconnect)
<1>1. PICK data : data = <<>>
  OBVIOUS
<1>2. data \in Seq(Int) /\ Len(data) = 0
  BY <1>1
<1>3. Fits(data)
  BY <1>2 DEF Fits, HeaderSize
<1>4. \A category \in Byte : TellsItself(CreatePacket(category, data), category)
  BY <1>2, <1>3, PacketsTellThemselves, Zenon
<1> QED
  BY <1>1, <1>4, KindsAreBytes, Zenon DEF CreateKeepAlivePacket, CreateDisconnectPacket

\* WireTellsSent, of any bytes and any packet.
WireSays(w, packet) ==
  IF packet = "Nothing" THEN w = <<>> ELSE TellsItself(w, CategoryOf(packet))

LEMMA WireSaid == WireTellsSent <=> WireSays(wire, sent.packet)
BY DEF WireTellsSent, WireSays, TellsItself

LEMMA KindsOfPackets ==
  /\ CategoryOf("Ack") = Ack /\ CategoryOf("KeepAlive") = ServerKeepAlive
  /\ CategoryOf("Disconnect") = Disconnect
  /\ \A c \in Compression : CategoryOf(c) = AudioCategory(c) /\ c # "Nothing"
<1>1. CategoryOf("Ack") = Ack
  BY DEF CategoryOf
<1>2. CategoryOf("KeepAlive") = ServerKeepAlive
  BY DEF CategoryOf
<1>3. CategoryOf("Disconnect") = Disconnect
  BY DEF CategoryOf
<1>4. ASSUME NEW c \in Compression PROVE CategoryOf(c) = AudioCategory(c) /\ c # "Nothing"
  <2>1. c # "Ack" /\ c # "KeepAlive" /\ c # "Disconnect" /\ c # "Nothing"
    BY CompressionAssumption DEF AudioCompression
  <2> QED
    BY <2>1 DEF CategoryOf
<1> QED
  BY <1>1, <1>2, <1>3, <1>4

\* What the handlers read of a request is an integer.
LEMMA RequestsAreIntegers ==
  ASSUME NEW p, p.data \in Seq(Byte), Len(p.data) >= HeaderSize + ConnectDataSize
  PROVE  /\ \A data \in GetConnectData(p) : data.requestId \in Int
         /\ \A data \in GetSetFormatData(p) : data.requestId \in Int
<1> USE DEF HeaderSize, ConnectDataSize, SetFormatDataSize, DataOffset
<1>1. \A i \in 0..8 : ReadUInt8(p, i) \in Int
  <2>1. p.data \in Seq(Byte) /\ Len(p.data) >= 9
    OBVIOUS
  <2>2. ASSUME NEW s \in Seq(Byte), Len(s) >= 9, NEW i \in 0..8 PROVE s[i + 1] \in Byte
    BY <2>2
  <2>3. Byte \subseteq Int
    BY DEF Byte
  <2> QED
    BY <2>1, <2>2, <2>3 DEF ReadUInt8
<1>2. ReadUInt16B(p, 5) \in Int /\ ReadUInt16B(p, 5 + 1) \in Int
  <2>1. /\ ReadUInt8(p, 5) \in Int /\ ReadUInt8(p, 5 + 1) \in Int
        /\ ReadUInt8(p, 5 + 1 + 1) \in Int
    BY <1>1
  <2> HIDE DEF ReadUInt8
  <2> QED
    BY <2>1 DEF ReadUInt16B
<1> QED
  BY <1>2 DEF GetConnectData, GetSetFormatData

\* Receiving leaves what was sent as it is, or answers.
LEMMA AnswersAreAcks ==
  ASSUME BufferOK, NEW a \in Address, NEW d \in Datagram, Receive(a, d)
  PROVE  \/ UNCHANGED <<sent, wire>>
         \/ /\ sent'.packet = "Ack"
            /\ \E id \in Int : wire' \in {CreateAckConnectPacket(id), CreateAckSetFormatPacket(id)}
<1> DEFINE p == [data |-> datagram', size |-> nBytes']
<1>1. datagram' \in [1..InputPacketSize -> Byte]
  BY FillKeepsBuffer DEF Receive
<1>2. p.data \in Seq(Byte) /\ Len(p.data) >= HeaderSize + ConnectDataSize
  BY <1>1, InputPacketSizeAssumption
<1>3. Dispatch(a, p)
  BY DEF Receive
<1>4. CASE OnConnect(a, p)
  <2>1. ASSUME NEW data \in GetConnectData(p), NEW c, ProcessConnect(a, c),
               wire' = CreateAckConnectPacket(data.requestId)
        PROVE  sent'.packet = "Ack" /\ data.requestId \in Int
    BY <1>2, <2>1, RequestsAreIntegers DEF ProcessConnect, Send
  <2> QED
    BY <1>4, <2>1, Zenon DEF OnConnect, Ignore, vars
<1>5. CASE OnSetFormat(a, p)
  <2>1. ASSUME NEW data \in GetSetFormatData(p), NEW c, ProcessSetFormat(a, c),
               wire' = CreateAckSetFormatPacket(data.requestId)
        PROVE  sent'.packet = "Ack" /\ data.requestId \in Int
    BY <1>2, <2>1, RequestsAreIntegers DEF ProcessSetFormat, Send
  <2> QED
    BY <1>5, <2>1, Zenon DEF OnSetFormat, Ignore, vars
<1>6. CASE OnKeystroke(p)
  BY <1>6 DEF OnKeystroke, Ignore, vars
<1>7. CASE (ProcessDisconnect(a) \/ ProcessKeepAlive(a)) /\ UNCHANGED <<keys, wire>>
  BY <1>7 DEF ProcessDisconnect, ProcessKeepAlive
<1>8. CASE Ignore
  BY <1>8 DEF Ignore, vars
<1> QED
  BY <1>3, <1>4, <1>5, <1>6, <1>7, <1>8 DEF Dispatch

\* Whatever the server sends, whoever reads the bytes finds its kind in them
\* and its own length in the header.
THEOREM WireIsTrue == ReceiveSpec => []WireTellsSent
<1>1. ReceiveInit => WireTellsSent
  BY DEF ReceiveInit, ServerInit, WireTellsSent
<1>2. BufferOK /\ WireTellsSent /\ [ReceiveNext]_allVars => WireTellsSent'
  <2> SUFFICES ASSUME BufferOK, WireSays(wire, sent.packet), [ReceiveNext]_allVars
               PROVE  WireSays(wire', sent'.packet)
    <3>1. WireTellsSent' <=> WireSays(wire', sent'.packet)
      BY DEF WireTellsSent, WireSays, TellsItself
    <3> QED
      BY WireSaid, <3>1, Zenon
  <2>1. ASSUME UNCHANGED <<sent, wire>> PROVE WireSays(wire', sent'.packet)
    BY <2>1, Zenon
  <2>2. ASSUME NEW packet, NEW w, sent'.packet = packet, wire' = w, packet # "Nothing",
               TellsItself(w, CategoryOf(packet))
        PROVE  WireSays(wire', sent'.packet)
    BY <2>2, Zenon DEF WireSays
  <2>3. CASE \E a \in Address, d \in Datagram : Receive(a, d)
    <3>1. SUFFICES ASSUME sent'.packet = "Ack", NEW id \in Int,
                          wire' \in {CreateAckConnectPacket(id), CreateAckSetFormatPacket(id)}
                   PROVE  WireSays(wire', sent'.packet)
      BY <2>1, <2>3, AnswersAreAcks, Zenon
    <3>2. TellsItself(wire', CategoryOf("Ack"))
      BY <3>1, AcksTellThemselves, KindsOfPackets, Zenon
    <3> QED
      BY <2>2, <3>1, <3>2, Zenon
  <2>4. CASE Transmit
    <3>1. ASSUME NEW c \in Compression, NEW n \in SequenceNumber, SendAudio(c),
                 wire' = CreateAudioPacket(AudioCategory(c), n, AudioData)
          PROVE  WireSays(wire', sent'.packet)
      <4>1. sent'.packet = c
        BY <3>1 DEF SendAudio, Send
      <4> QED
        BY <2>2, <3>1, <4>1, AudioTellsItself, KindsOfPackets, Zenon
    <3>2. ASSUME Maintain, wire' = CreateKeepAlivePacket
          PROVE  WireSays(wire', sent'.packet)
      <4>1. sent'.packet = "KeepAlive"
        BY <3>2 DEF Maintain, Send
      <4> QED
        BY <2>2, <3>2, <4>1, EmptyTellThemselves, KindsOfPackets, Zenon
    <3>3. ASSUME Shutdown \/ ShutdownFails, wire' = CreateDisconnectPacket
          PROVE  WireSays(wire', sent'.packet)
      <4>1. sent'.packet = "Disconnect"
        BY <3>3 DEF Shutdown, ShutdownFails
      <4> QED
        BY <2>2, <3>3, <4>1, EmptyTellThemselves, KindsOfPackets, Zenon
    <3> QED
      BY <2>4, <3>1, <3>2, <3>3, Zenon DEF Transmit
  <2>5. CASE BackgroundNext /\ UNCHANGED wire
    <3>1. UNCHANGED sent
      BY <2>5 DEF BackgroundNext, HandleSend, ReceiveFails, Suspend, StartCapture,
                  StopCapture, Elapse, Ended, vars
    <3> QED
      BY <2>1, <2>5, <3>1
  <2>6. CASE UNCHANGED allVars
    BY <2>1, <2>6 DEF allVars, vars
  <2> QED
    BY <2>3, <2>4, <2>5, <2>6, Zenon DEF ReceiveNext
<1> QED
  BY <1>1, <1>2, BufferKeeps, PTL DEF ReceiveSpec

-----------------------------------------------------------------------------
(***************************************************************************)
(* Requests on the wire.                                                   *)
(***************************************************************************)

LEMMA AcksCarryTheId ==
  ASSUME NEW id \in Int,
         NEW w, w \in {CreateAckConnectPacket(id), CreateAckSetFormatPacket(id)}
  PROVE  /\ Len(SubSeq(w, 6, 7)) = 2
         /\ SubSeq(w, 6, 7)[1] = HighByte(id) /\ SubSeq(w, 6, 7)[2] = LowByte(id)
<1>1. PICK x, y : x = <<ProtocolVersion, 0, 0, 0>> /\ y = <<0, 0, 0, 0>>
  OBVIOUS
<1>2. x \in Seq(Int) /\ Len(x) = 4 /\ y \in Seq(Int) /\ Len(y) = 4
  BY <1>1 DEF ProtocolVersion
<1>3. PICK custom \in Seq(Int) :
        Len(custom) = 4 /\ w = CreatePacket(Ack, WriteUInt16B(id) \o custom)
  BY <1>1, <1>2, Zenon DEF CreateAckConnectPacket, CreateAckSetFormatPacket
<1>4. PICK s : s = WriteUInt16B(id)
  OBVIOUS
<1>5. s \in Seq(Int) /\ Len(s) = 2 /\ s[1] = HighByte(id) /\ s[2] = LowByte(id)
  BY <1>4, Written
<1>6. PICK data : data = s \o custom
  OBVIOUS
<1>7. Joins(data, s, custom)
  BY <1>3, <1>5, <1>6, Composed, Zenon
<1>8. /\ data \in Seq(Int) /\ Len(data) = 6
      /\ data[1] = HighByte(id) /\ data[2] = LowByte(id)
  BY <1>3, <1>5, <1>7 DEF Joins
<1>9. Fits(data)
  BY <1>8 DEF Fits, HeaderSize
<1>10. Carries(w, Ack, data)
  BY <1>3, <1>4, <1>6, <1>8, <1>9, KindsAreBytes, PacketLayout, Zenon
<1>11. w \in Seq(Int) /\ Len(w) = 11 /\ w[6] = HighByte(id) /\ w[7] = LowByte(id)
  BY <1>8, <1>10 DEF Carries, HeaderSize
<1>12. 6 \in 1..Len(w) + 1 /\ 7 \in 6 - 1..Len(w)
  BY <1>11
<1>13. /\ Len(SubSeq(w, 6, 7)) = 7 - 6 + 1
       /\ \A i \in 1..7 - 6 + 1 : SubSeq(w, 6, 7)[i] = w[6 + i - 1]
  BY <1>11, <1>12, SubSeqProperties
<1> QED
  BY <1>11, <1>13

\* A value the server understands.
LEMMA NetworkValues ==
  ASSUME NEW v \in Int, NEW c \in CompressionFromNetworkValue(v)
  PROVE  v \in 0..5
<1>1. v # 0 /\ v # 1 /\ v # 2 /\ v # 3 /\ v # 4 /\ v # 5
        => CompressionFromNetworkValue(v) = {}
  BY DEF CompressionFromNetworkValue
<1> QED
  BY <1>1

\* A packet of some kind has the signature, and the kind.
Signed(p, category) ==
  /\ p.size >= HeaderSize
  /\ p.data[1] = 165 /\ p.data[2] = 113 /\ p.data[3] = category

LEMMA CategoriesAreSigned ==
  ASSUME NEW p, p.data \in Seq(Byte), Len(p.data) >= 9,
         NEW category, GetPacketCategory(p) = category, category # Error
  PROVE  Signed(p, category)
<1>1. /\ p.size >= HeaderSize /\ ReadUInt16B(p, 0) = ProtocolSignature
      /\ ReadUInt8(p, 2) = category
  BY DEF GetPacketCategory
<1>2. PICK x \in Byte, y \in Byte : x = p.data[1] /\ y = p.data[2]
  OBVIOUS
<1>3. ReadUInt16B(p, 0) = x * 256 + y
  BY <1>2 DEF ReadUInt16B, ReadUInt8
<1>4. HighByte(ProtocolSignature) = x /\ LowByte(ProtocolSignature) = y
  BY <1>1, <1>3, Halves
<1>5. HighByte(ProtocolSignature) = 165 /\ LowByte(ProtocolSignature) = 113
  BY DEF ProtocolSignature, HighByte, LowByte
<1> QED
  BY <1>1, <1>2, <1>4, <1>5 DEF Signed, ReadUInt8

\* The two requests, as their handlers read them: what the client asks for
\* and the id it wants back.
LEMMA ConnectIsRead ==
  ASSUME NEW p, p.data \in Seq(Byte), Len(p.data) >= 9, p.size \in Nat,
         NEW data \in GetConnectData(p),
         NEW c \in CompressionFromNetworkValue(data.compression)
  PROVE  /\ p.size >= 9 /\ p.data[9] = data.compression /\ data.compression \in 0..5
         /\ p.data[7] = HighByte(data.requestId) /\ p.data[8] = LowByte(data.requestId)
         /\ data.requestId \in Int
<1>1. PICK x \in Byte, y \in Byte, v \in Byte :
        x = p.data[7] /\ y = p.data[8] /\ v = p.data[9]
  OBVIOUS
<1>2. p.size >= 9 /\ data.requestId = x * 256 + y /\ data.compression = v
  BY <1>1 DEF GetConnectData, DataOffset, HeaderSize, ConnectDataSize, ReadUInt16B, ReadUInt8
<1>3. x \in Int /\ y \in Int /\ v \in Int
  BY DEF Byte
<1>4. v \in 0..5
  BY <1>2, <1>3, NetworkValues
<1>5. HighByte(x * 256 + y) = x /\ LowByte(x * 256 + y) = y
  BY Halves
<1> QED
  BY <1>1, <1>2, <1>3, <1>4, <1>5

LEMMA SetFormatIsRead ==
  ASSUME NEW p, p.data \in Seq(Byte), Len(p.data) >= 9, p.size \in Nat,
         NEW data \in GetSetFormatData(p),
         NEW c \in CompressionFromNetworkValue(data.compression)
  PROVE  /\ p.size >= 8 /\ p.data[8] = data.compression /\ data.compression \in 0..5
         /\ p.data[6] = HighByte(data.requestId) /\ p.data[7] = LowByte(data.requestId)
         /\ data.requestId \in Int
<1>1. PICK x \in Byte, y \in Byte, v \in Byte :
        x = p.data[6] /\ y = p.data[7] /\ v = p.data[8]
  OBVIOUS
<1>2. p.size >= 8 /\ data.requestId = x * 256 + y /\ data.compression = v
  BY <1>1 DEF GetSetFormatData, DataOffset, HeaderSize, SetFormatDataSize, ReadUInt16B, ReadUInt8
<1>3. x \in Int /\ y \in Int /\ v \in Int
  BY DEF Byte
<1>4. v \in 0..5
  BY <1>2, <1>3, NetworkValues
<1>5. HighByte(x * 256 + y) = x /\ LowByte(x * 256 + y) = y
  BY Halves
<1> QED
  BY <1>1, <1>2, <1>3, <1>4, <1>5

\* Says, of any buffer and number of bytes.
Holds(b, n, offset, bytes) ==
  offset + Len(bytes) <= n /\ \A i \in 1..Len(bytes) : b[offset + i] = bytes[i]

LEMMA HoldsPrefix ==
  ASSUME NEW b, NEW n \in Nat, n >= 3, NEW x, NEW y, NEW z,
         b[1] = x, b[2] = y, b[3] = z
  PROVE  Holds(b, n, 0, <<x, y, z>>)
BY DEF Holds

LEMMA HoldsByte ==
  ASSUME NEW b, NEW n \in Nat, NEW offset \in Nat, n >= offset + 1,
         NEW x, b[offset + 1] = x
  PROVE  Holds(b, n, offset, <<x>>)
BY DEF Holds

LEMMA HoldsPair ==
  ASSUME NEW b, NEW n \in Nat, NEW offset \in Nat, n >= offset + 2, NEW s,
         Len(s) = 2, b[offset + 1] = s[1], b[offset + 2] = s[2]
  PROVE  Holds(b, n, offset, s)
BY DEF Holds

\* A handler gives a format to who asks for it, and answers with its id.
Grants ==
  \A a \in Address :
    FormatOf(a)' \notin {FormatOf(a), NoClient} =>
      /\ sender' = a
      /\ \E v \in 0..5 :
           /\ FormatOf(a)' \in CompressionFromNetworkValue(v)
           /\ \/ AsksToConnect(v)'
              \/ AsksForFormat(v)' /\ FormatOf(a) # NoClient

Answers ==
  sent'.packet = "Ack" /\ <<sent', wire'>> # <<sent, wire>> =>
    /\ sent'.to = {sender'}
    /\ \E v \in 0..5 :
         \/ AsksToConnect(v)' /\ Says(6, SubSeq(wire, 6, 7))'
         \/ AsksForFormat(v)' /\ Says(5, SubSeq(wire, 6, 7))'

\* The other steps give no format to anyone.
LosesFormats == \A a \in Address : FormatOf(a)' \in {FormatOf(a), NoClient}

LEMMA NoFormatGrants == LosesFormats => Grants
BY Zenon DEF LosesFormats, Grants

LEMMA LeavingLoses ==
  ASSUME NEW gone,
         clients' = [a \in Address |-> IF a \in gone THEN NoClient ELSE clients[a]]
  PROVE  LosesFormats
BY DEF LosesFormats, FormatOf

LEMMA OthersLoseFormats ==
  ASSUME Inv,
         \/ \E a \in Address : ProcessDisconnect(a) \/ ProcessKeepAlive(a)
         \/ \E c \in Compression : SendAudio(c)
         \/ Maintain \/ Shutdown \/ ShutdownFails \/ BackgroundNext
         \/ UNCHANGED clients
  PROVE  LosesFormats
<1>1. UNCHANGED clients => LosesFormats
  BY DEF LosesFormats, FormatOf
<1>2. CASE Suspend \/ \E a \in Address : ProcessDisconnect(a)
  BY <1>2, Leaving, LeavingLoses, Zenon
<1>3. CASE Elapse \/ \E a \in Address : ProcessKeepAlive(a)
  <2>1. UNCHANGED Promise!sessions
    BY <1>3, TimesAreInvisible, Zenon
  <2>2. Formats' = Formats
    BY <2>1 DEF Promise!sessions, Formats
  <2>3. \A a \in Address : Formats[a] = FormatOf(a) /\ Formats'[a] = FormatOf(a)'
    BY DEF Formats
  <2> HIDE DEF Formats
  <2> QED
    BY <2>2, <2>3 DEF LosesFormats
<1>4. CASE Maintain
  <2>1. clients' = [a \in Address |-> IF a \in Expired THEN NoClient ELSE clients[a]]
    BY <1>4, InvRegistry, EvictKeeps DEF Maintain
  <2> QED
    BY <2>1, LeavingLoses, Zenon
<1>5. CASE \/ \E c \in Compression : SendAudio(c)
           \/ Shutdown \/ ShutdownFails
  BY <1>1, <1>5 DEF SendAudio, Shutdown, ShutdownFails
<1>6. CASE BackgroundNext
  <2>1. ASSUME NEW pipe, StartCapture(pipe) \/ StopCapture(pipe)
        PROVE  UNCHANGED clients
    BY <2>1 DEF StartCapture, StopCapture, AddClientsListener, RemoveClientsListener
  <2>2. ASSUME ReceiveFails \/ Ended \/ \E ok \in BOOLEAN : HandleSend(ok)
        PROVE  UNCHANGED clients
    BY <2>2 DEF ReceiveFails, Ended, HandleSend, vars
  <2> QED
    BY <1>1, <1>2, <1>3, <1>6, <2>1, <2>2, Zenon DEF BackgroundNext
<1> QED
  BY <1>1, <1>2, <1>3, <1>4, <1>5, <1>6, Zenon

\* The span a handler is given.
LastPacket == [data |-> datagram, size |-> nBytes]

LEMMA PacketsAreRead ==
  ASSUME BufferOK, NEW a \in Address, NEW d \in Datagram, Receive(a, d)
  PROVE  /\ LastPacket'.data = datagram' /\ LastPacket'.size = nBytes'
         /\ datagram' \in Seq(Byte) /\ Len(datagram') >= 9 /\ nBytes' \in Nat
         /\ sender' = a /\ Dispatch(a, LastPacket')
<1>1. datagram' \in [1..InputPacketSize -> Byte]
  BY FillKeepsBuffer DEF Receive
<1>2. datagram' \in Seq(Byte) /\ Len(datagram') >= 9
  BY <1>1, InputPacketSizeAssumption DEF HeaderSize, ConnectDataSize
<1>3. d \in Seq(Byte)
  BY DatagramAssumption
<1>4. nBytes' \in Nat /\ sender' = a
  BY <1>3 DEF Receive
<1> QED
  BY <1>2, <1>4 DEF Receive, LastPacket

\* Only the one who asks gets the format asked for.
LEMMA OneFormatGrants ==
  ASSUME NEW a \in Address, NEW c, NEW v \in 0..5,
         c \in CompressionFromNetworkValue(v), sender' = a,
         \/ Formats' = [Formats EXCEPT ![a] = c] /\ AsksToConnect(v)'
         \/ /\ Formats' = [Formats EXCEPT ![a] = c]
            /\ AsksForFormat(v)' /\ FormatOf(a) # NoClient
  PROVE  Grants
<1>1. /\ \A b \in Address : Formats[b] = FormatOf(b) /\ Formats'[b] = FormatOf(b)'
      /\ DOMAIN Formats = Address
  BY DEF Formats
<1> HIDE DEF Formats
<1>2. FormatOf(a)' = c /\ \A b \in Address : b # a => FormatOf(b)' = FormatOf(b)
  BY <1>1
<1> QED
  BY <1>2, Zenon DEF Grants

LEMMA AckAnswers ==
  ASSUME NEW a \in Address, NEW v \in 0..5, sender' = a, sent'.to = {a},
         \/ AsksToConnect(v)' /\ Says(6, SubSeq(wire, 6, 7))'
         \/ AsksForFormat(v)' /\ Says(5, SubSeq(wire, 6, 7))'
  PROVE  Answers
BY Zenon DEF Answers

LEMMA ConnectIsAsked ==
  ASSUME Inv, BufferOK, NEW a \in Address, NEW d \in Datagram, Receive(a, d),
         GetPacketCategory(LastPacket') = Connect, OnConnect(a, LastPacket')
  PROVE  Grants /\ Answers
<1>1. PICK p : p = LastPacket'
  OBVIOUS
<1>2. /\ p.data = datagram' /\ p.size = nBytes' /\ nBytes' \in Nat
      /\ p.data \in Seq(Byte) /\ Len(p.data) >= 9 /\ sender' = a
  BY <1>1, PacketsAreRead, Zenon
<1>3. CASE Ignore
  <2>1. LosesFormats /\ UNCHANGED <<sent, wire>>
    BY <1>3, OthersLoseFormats DEF Ignore, vars
  <2> QED
    BY <2>1, NoFormatGrants, Zenon DEF Answers
<1>4. ASSUME NEW data \in GetConnectData(p),
             NEW c \in CompressionFromNetworkValue(data.compression),
             ProcessConnect(a, c), wire' = CreateAckConnectPacket(data.requestId)
      PROVE  Grants /\ Answers
  <2>1. /\ nBytes' >= 9 /\ datagram'[9] = data.compression /\ data.compression \in 0..5
        /\ datagram'[7] = HighByte(data.requestId)
        /\ datagram'[8] = LowByte(data.requestId) /\ data.requestId \in Int
    BY <1>2, ConnectIsRead
  <2>2. Connect = 1 /\ Error = 0
    BY DEF Connect, Error
  <2>3. datagram'[1] = 165 /\ datagram'[2] = 113 /\ datagram'[3] = 1
    BY <1>1, <1>2, <2>2, CategoriesAreSigned DEF Signed
  <2>4. PICK v \in 0..5 : v = data.compression
    BY <2>1, Zenon
  <2>5. Holds(datagram', nBytes', 0, <<165, 113, 1>>)
    BY <1>2, <2>1, <2>3, HoldsPrefix
  <2>6. Holds(datagram', nBytes', 8, <<v>>)
    BY <1>2, <2>1, <2>4, HoldsByte
  <2>7. AsksToConnect(v)'
    BY <2>5, <2>6, Zenon DEF AsksToConnect, Says, Holds
  <2>8. PICK s : s = SubSeq(wire', 6, 7)
    OBVIOUS
  <2>9. Len(s) = 2 /\ s[1] = HighByte(data.requestId) /\ s[2] = LowByte(data.requestId)
    BY <1>4, <2>1, <2>8, AcksCarryTheId
  <2>10. Holds(datagram', nBytes', 6, s)
    BY <1>2, <2>1, <2>9, HoldsPair
  <2>11. Says(6, SubSeq(wire, 6, 7))'
    BY <2>8, <2>10, Zenon DEF Says, Holds
  <2>12. c \in Compression
    <3>1. data.compression \in Int
      BY <2>1
    <3> QED
      BY <3>1, CompressionsAreKnown, Zenon
  <2>13. Formats' = [Formats EXCEPT ![a] = c]
    BY <1>4, <2>12, ConnectSetsFormat, Zenon
  <2>14. Grants
    BY <1>2, <2>4, <2>7, <2>13, OneFormatGrants, Zenon
  <2>15. sent'.to = {a}
    BY <1>4 DEF ProcessConnect, Send
  <2> QED
    BY <1>2, <2>7, <2>11, <2>14, <2>15, AckAnswers, Zenon
<1> QED
  BY <1>1, <1>3, <1>4, Zenon DEF OnConnect

LEMMA FormatIsAsked ==
  ASSUME Inv, BufferOK, NEW a \in Address, NEW d \in Datagram, Receive(a, d),
         GetPacketCategory(LastPacket') = SetFormat, OnSetFormat(a, LastPacket')
  PROVE  Grants /\ Answers
<1>1. PICK p : p = LastPacket'
  OBVIOUS
<1>2. /\ p.data = datagram' /\ p.size = nBytes' /\ nBytes' \in Nat
      /\ p.data \in Seq(Byte) /\ Len(p.data) >= 9 /\ sender' = a
  BY <1>1, PacketsAreRead, Zenon
<1>3. CASE Ignore
  <2>1. LosesFormats /\ UNCHANGED <<sent, wire>>
    BY <1>3, OthersLoseFormats DEF Ignore, vars
  <2> QED
    BY <2>1, NoFormatGrants, Zenon DEF Answers
<1>4. ASSUME NEW data \in GetSetFormatData(p),
             NEW c \in CompressionFromNetworkValue(data.compression),
             ProcessSetFormat(a, c), wire' = CreateAckSetFormatPacket(data.requestId)
      PROVE  Grants /\ Answers
  <2>1. /\ nBytes' >= 8 /\ datagram'[8] = data.compression /\ data.compression \in 0..5
        /\ datagram'[6] = HighByte(data.requestId)
        /\ datagram'[7] = LowByte(data.requestId) /\ data.requestId \in Int
    BY <1>2, SetFormatIsRead
  <2>2. SetFormat = 3 /\ Error = 0
    BY DEF SetFormat, Error
  <2>3. datagram'[1] = 165 /\ datagram'[2] = 113 /\ datagram'[3] = 3
    BY <1>1, <1>2, <2>2, CategoriesAreSigned DEF Signed
  <2>4. PICK v \in 0..5 : v = data.compression
    BY <2>1, Zenon
  <2>5. Holds(datagram', nBytes', 0, <<165, 113, 3>>)
    BY <1>2, <2>1, <2>3, HoldsPrefix
  <2>6. Holds(datagram', nBytes', 7, <<v>>)
    BY <1>2, <2>1, <2>4, HoldsByte
  <2>7. AsksForFormat(v)'
    BY <2>5, <2>6, Zenon DEF AsksForFormat, Says, Holds
  <2>8. PICK s : s = SubSeq(wire', 6, 7)
    OBVIOUS
  <2>9. Len(s) = 2 /\ s[1] = HighByte(data.requestId) /\ s[2] = LowByte(data.requestId)
    BY <1>4, <2>1, <2>8, AcksCarryTheId
  <2>10. Holds(datagram', nBytes', 5, s)
    BY <1>2, <2>1, <2>9, HoldsPair
  <2>11. Says(5, SubSeq(wire, 6, 7))'
    BY <2>8, <2>10, Zenon DEF Says, Holds
  <2>12. c \in Compression
    <3>1. data.compression \in Int
      BY <2>1
    <3> QED
      BY <3>1, CompressionsAreKnown, Zenon
  <2>13. ASSUME a \in Members(clients) PROVE Grants
    <3>1. Formats' = [Formats EXCEPT ![a] = c]
      BY <1>4, <2>12, <2>13, SetFormatSetsFormat, Zenon
    <3>2. FormatOf(a) # NoClient
      <4>1. clients[a] # NoClient /\ clients[a] \in Client
        BY <2>13 DEF Members, Inv, ServerTypeOK, ClientsTypeOK
      <4> QED
        BY <4>1, NoFormatAssumption DEF FormatOf, Client
    <3> QED
      BY <1>2, <2>4, <2>7, <3>1, <3>2, OneFormatGrants, Zenon
  <2>14. ASSUME a \notin Members(clients) PROVE Grants
    <3>1. Formats' = Formats
      BY <1>4, <2>12, <2>14, SetFormatSetsFormat, Zenon
    <3>2. \A b \in Address : Formats[b] = FormatOf(b) /\ Formats'[b] = FormatOf(b)'
      BY DEF Formats
    <3> HIDE DEF Formats
    <3>3. LosesFormats
      BY <3>1, <3>2, Zenon DEF LosesFormats
    <3> QED
      BY <3>3, NoFormatGrants, Zenon
  <2>15. sent'.to = {a}
    BY <1>4 DEF ProcessSetFormat, Send
  <2> QED
    BY <1>2, <2>7, <2>11, <2>13, <2>14, <2>15, AckAnswers, Zenon
<1> QED
  BY <1>1, <1>3, <1>4, Zenon DEF OnSetFormat

\* A client's format changes, and an acknowledgement goes out, only in answer
\* to a datagram that is whole, from that client, for that format and with
\* that request's id: nothing that longer datagrams have left in the buffer is
\* ever taken for a request (OnlyWholeRequests).
THEOREM RequestsAreWhole == ReceiveSpec => OnlyWholeRequests
<1>1. ASSUME Inv, BufferOK, [ReceiveNext]_allVars PROVE Grants /\ Answers
  <2>1. ASSUME LosesFormats, UNCHANGED <<sent, wire>> \/ sent'.packet # "Ack"
        PROVE  Grants /\ Answers
    BY <2>1, NoFormatGrants, Zenon DEF Answers
  <2>2. ASSUME NEW a \in Address, NEW d \in Datagram, Receive(a, d)
        PROVE  Grants /\ Answers
    <3> DEFINE p == LastPacket'
    <3>1. Dispatch(a, LastPacket')
      BY <1>1, <2>2, PacketsAreRead, Zenon
    <3>2. CASE GetPacketCategory(LastPacket') = Connect /\ OnConnect(a, LastPacket')
      BY <1>1, <2>2, <3>2, ConnectIsAsked, Zenon
    <3>3. CASE GetPacketCategory(LastPacket') = SetFormat /\ OnSetFormat(a, LastPacket')
      BY <1>1, <2>2, <3>3, FormatIsAsked, Zenon
    <3>4. CASE OnKeystroke(LastPacket') \/ Ignore
      <4>1. UNCHANGED clients /\ UNCHANGED <<sent, wire>>
        BY <3>4 DEF OnKeystroke, Ignore, vars
      <4> QED
        BY <1>1, <2>1, <4>1, OthersLoseFormats, Zenon
    <3>5. CASE (ProcessDisconnect(a) \/ ProcessKeepAlive(a)) /\ UNCHANGED <<keys, wire>>
      <4>1. UNCHANGED <<sent, wire>>
        BY <3>5 DEF ProcessDisconnect, ProcessKeepAlive
      <4>2. LosesFormats
        BY <1>1, <3>5, OthersLoseFormats, Zenon
      <4> QED
        BY <2>1, <4>1, <4>2, Zenon
    <3> QED
      BY <3>1, <3>2, <3>3, <3>4, <3>5, Zenon DEF Dispatch
  <2>3. CASE Transmit
    <3>1. sent'.packet # "Ack"
      <4>1. \A c \in Compression : c # "Ack"
        BY CompressionAssumption DEF AudioCompression
      <4> QED
        BY <2>3, <4>1 DEF Transmit, SendAudio, Maintain, Shutdown, ShutdownFails, Send
    <3>2. LosesFormats
      BY <1>1, <2>3, OthersLoseFormats, Zenon DEF Transmit
    <3> QED
      BY <2>1, <3>1, <3>2, Zenon
  <2>4. CASE BackgroundNext /\ UNCHANGED wire
    <3>1. UNCHANGED sent
      BY <2>4 DEF BackgroundNext, HandleSend, ReceiveFails, Suspend, StartCapture,
                  StopCapture, Elapse, Ended, vars
    <3>2. LosesFormats
      BY <1>1, <2>4, OthersLoseFormats, Zenon
    <3> QED
      BY <2>1, <2>4, <3>1, <3>2
  <2>5. CASE UNCHANGED allVars
    <3>1. UNCHANGED clients /\ UNCHANGED <<sent, wire>>
      BY <2>5 DEF allVars, vars
    <3> QED
      BY <1>1, <2>1, <3>1, OthersLoseFormats, Zenon
  <2> QED
    BY <1>1, <2>2, <2>3, <2>4, <2>5, Zenon DEF ReceiveNext
<1>2. Inv /\ BufferOK /\ [ReceiveNext]_allVars => [Grants /\ Answers]_allVars
  BY <1>1, Zenon
<1>3. ReceiveSpec => []Inv
  BY DatagramsArePackets, Invariance, PTL DEF ImplementsServer
<1> QED
  BY <1>2, <1>3, BufferKeeps, PTL DEF ReceiveSpec, OnlyWholeRequests, Grants, Answers
=============================================================================
