------------------------------ MODULE Clients ------------------------------
(***************************************************************************)
(* The registry of connected clients (domain/Clients.cpp): who is          *)
(* connected, with which compression, how long each one has been silent,   *)
(* and what every listener was last told.                                  *)
(*                                                                         *)
(* Every operation below runs under clientsMutex_, so each is one step;    *)
(* App.tla opens that step up and looks at what happens inside it.         *)
(* lastContact_ is modelled by the time that has passed since it, in ticks *)
(* of an arbitrary length: `silence' is `now - lastContact_'.              *)
(***************************************************************************)
EXTENDS Naturals

CONSTANTS
  Address,        \* the client addresses
  Compression,    \* the audio compressions a client can ask for
  Listener,       \* the callbacks that may be registered
  NoClient,       \* the entry of an address that is not registered
  NotListening,   \* the last call of a listener that is not registered
  Timeout         \* timeoutSeconds_, in ticks

ClientInfo == [address : Address, compression : Compression]
Client == [compression : Compression, silence : Nat]

ASSUME TimeoutAssumption == Timeout \in Nat
ASSUME NoClientAssumption == NoClient \notin Client
ASSUME NotListeningAssumption ==
  \A infos \in SUBSET ClientInfo : NotListening # infos

VARIABLES
  clients,        \* clients_
  clientInfos,    \* clientInfos_, the list handed to the listeners
  heard           \* clientsListeners_, with the infos of each one's last call

registry == <<clients, clientInfos, heard>>

Members(cs) == {a \in Address : cs[a] # NoClient}
Listening == {l \in Listener : heard[l] # NotListening}
InfosOf(cs) ==
  {[address |-> a, compression |-> cs[a].compression] : a \in Members(cs)}

ClientsInit ==
  /\ clients = [a \in Address |-> NoClient]
  /\ clientInfos = {}
  /\ heard = [l \in Listener |-> NotListening]

-----------------------------------------------------------------------------
\* updateAndNotify, once clients_ has become cs.
UpdateAndNotify(cs) ==
  /\ clientInfos' = InfosOf(cs)
  /\ heard' = [l \in Listener |->
                 IF l \in Listening THEN InfosOf(cs) ELSE NotListening]

\* An operation leaves clients_ at cs, and notifies when the code does.
Store(cs, notify) ==
  /\ clients' = cs
  /\ \/ notify /\ UpdateAndNotify(cs)
     \/ ~notify /\ UNCHANGED <<clientInfos, heard>>

Add(a, c) ==
  Store([clients EXCEPT ![a] = [compression |-> c, silence |-> 0]],
        IF a \in Members(clients) THEN clients[a].compression # c ELSE TRUE)

SetCompression(a, c) ==
  IF a \in Members(clients)
  THEN Store([clients EXCEPT ![a].compression = c], clients[a].compression # c)
  ELSE UNCHANGED registry

Keep(a) ==
  IF a \in Members(clients)
  THEN Store([clients EXCEPT ![a].silence = 0], FALSE)
  ELSE UNCHANGED registry

Remove(a) ==
  Store([clients EXCEPT ![a] = NoClient], a \in Members(clients))

RemoveAll ==
  Store([a \in Address |-> NoClient], Members(clients) # {})

\* maintain: those silent for longer than the timeout are erased.
Expired == {a \in Members(clients) : clients[a].silence > Timeout}

Evict ==
  Store([a \in Address |-> IF a \in Expired THEN NoClient ELSE clients[a]],
        Expired # {})

\* The listener is called at once, with the current infos.  Callers register
\* each callback at most once at a time (see App!OneListenerPerPipe).
AddClientsListener(l) ==
  /\ l \notin Listening
  /\ heard' = [heard EXCEPT ![l] = clientInfos]
  /\ UNCHANGED <<clients, clientInfos>>

RemoveClientsListener(l) ==
  /\ l \in Listening
  /\ heard' = [heard EXCEPT ![l] = NotListening]
  /\ UNCHANGED <<clients, clientInfos>>

\* steady_clock moves on by a tick.
Age ==
  /\ clients' = [a \in Address |->
                   IF a \in Members(clients)
                   THEN [clients[a] EXCEPT !.silence = @ + 1]
                   ELSE NoClient]
  /\ UNCHANGED <<clientInfos, heard>>

-----------------------------------------------------------------------------
\* The registry on its own, with any caller and any listeners.
ClientsNext ==
  \/ \E a \in Address, c \in Compression : Add(a, c) \/ SetCompression(a, c)
  \/ \E a \in Address : Keep(a) \/ Remove(a)
  \/ RemoveAll
  \/ Evict
  \/ \E l \in Listener : AddClientsListener(l) \/ RemoveClientsListener(l)
  \/ Age

ClientsSpec == ClientsInit /\ [][ClientsNext]_registry

-----------------------------------------------------------------------------
\* The types of the registry's state.
ClientsTypeOK ==
  /\ clients \in [Address -> Client \cup {NoClient}]
  /\ clientInfos \in SUBSET ClientInfo
  /\ heard \in [Listener -> (SUBSET ClientInfo) \cup {NotListening}]

\* Whatever sequence of operations led here, the infos describe the registry
\* and every registered listener was last told exactly them: no path of
\* Clients.cpp changes clients_ in a way listeners can see without notifying.
ListenersUpToDate ==
  /\ clientInfos = InfosOf(clients)
  /\ \A l \in Listening : heard[l] = InfosOf(clients)
=============================================================================
