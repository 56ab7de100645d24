------------------------------ MODULE Sessions ------------------------------
(***************************************************************************)
(* What the server promises the clients, without registry, listeners,      *)
(* cache and clock: who is connected in which format, and what goes out to *)
(* whom.  Server.tla implements it (Server!KeepsPromise).                  *)
(*                                                                         *)
(* A transmission is described by the kind of packet and the addresses it  *)
(* goes to.  Audio must go to exactly those who asked for its format last, *)
(* keepalives and the goodbye to exactly those who are connected.  When a  *)
(* session may end is left open: Server!LeavesForAReason says when.        *)
(***************************************************************************)
CONSTANTS
  Address,        \* the client addresses
  Compression,    \* the formats
  NotConnected    \* the format of an address without a session

VARIABLES
  format,         \* of each address
  sent,           \* the last transmission
  open            \* the server has neither stopped nor failed

sessions == <<format, sent, open>>

Connected == {a \in Address : format[a] # NotConnected}
Transmit(packet, addresses) == sent' = [packet |-> packet, to |-> addresses]
Forget(addresses) ==
  format' = [a \in Address |-> IF a \in addresses THEN NotConnected ELSE format[a]]

Init ==
  /\ format = [a \in Address |-> NotConnected]
  /\ sent = [packet |-> "Nothing", to |-> {}]
  /\ open = TRUE

\* A request for a format opens a session, or changes an open one, and is
\* acknowledged.
Ask(a, c) ==
  /\ open
  /\ format' = [format EXCEPT ![a] = c]
  /\ Transmit("Ack", {a})
  /\ UNCHANGED open

\* The acknowledgement of a change of format goes to a stranger as well.
AskAsStranger(a) ==
  /\ open /\ a \notin Connected
  /\ Transmit("Ack", {a})
  /\ UNCHANGED <<format, open>>

Play(c) ==
  /\ open
  /\ Transmit(c, {a \in Address : format[a] = c})
  /\ UNCHANGED <<format, open>>

Leave ==
  /\ open
  /\ \E addresses \in SUBSET Connected : Forget(addresses)
  /\ UNCHANGED <<sent, open>>

\* Everybody gets a sign of life before some are found to give none.
Refresh ==
  /\ open
  /\ Transmit("KeepAlive", Connected)
  /\ \E addresses \in SUBSET Connected : Forget(addresses)
  /\ UNCHANGED open

Close ==
  /\ open /\ open' = FALSE
  /\ Transmit("Disconnect", Connected)
  /\ UNCHANGED format

\* A failure may cut the goodbye short.
Fail ==
  /\ open /\ open' = FALSE
  /\ \/ UNCHANGED sent
     \/ \E told \in SUBSET Connected : Transmit("Disconnect", told)
  /\ UNCHANGED format

Next ==
  \/ \E a \in Address, c \in Compression : Ask(a, c)
  \/ \E a \in Address : AskAsStranger(a)
  \/ \E c \in Compression : Play(c)
  \/ Leave
  \/ Refresh
  \/ Close
  \/ Fail

Spec == Init /\ [][Next]_sessions
=============================================================================
