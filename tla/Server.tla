------------------------------- MODULE Server -------------------------------
(***************************************************************************)
(* The UDP server (network/Server.cpp) together with the registry it       *)
(* drives.  One action per handler of the io_context, which runs them one  *)
(* at a time, plus the suspend handler of the window (which reaches the    *)
(* registry from the UI thread; App.tla looks inside that step).           *)
(*                                                                         *)
(* The network needs no state: a datagram may be lost, duplicated, delayed *)
(* or sent by anyone, so any packet may arrive from any address at any     *)
(* time.  A packet that does not parse, or asks for a compression that     *)
(* does not exist, is dropped by an early return and changes nothing.      *)
(***************************************************************************)
EXTENDS Clients

CONSTANTS
  ServerListener,       \* Server::onClientsUpdate
  AppListener,          \* SoundRemoteApp::onClientsUpdate, the window's list
  MaintenancePeriod     \* the second between two maintain() calls, in ticks

ASSUME ListenersAssumption == {ServerListener, AppListener} \subseteq Listener
ASSUME NoFormatAssumption == NoClient \notin Compression
ASSUME PeriodAssumption == MaintenancePeriod \in Nat \ {0}

VARIABLES
  clientsCache,   \* clientsCache_: the addresses of each compression
  timer,          \* ticks until maintenanceTimer_ expires
  sending,        \* a handler of an async_send_to is still to be called
  status,         \* "running", "stopped" (shutdown) or "failed" (std::exit)
  unheard,        \* history: ticks since the last packet sent to the address
  sent            \* history: the last packets sent, and to whom

vars == <<clients, clientInfos, heard, clientsCache, timer, sending, status,
          unheard, sent>>

\* onClientsUpdate.  A compression without clients maps to {}, so the empty
\* list that clientsCache_[compression] may insert is the same as no list.
GroupByCompression(infos) ==
  [c \in Compression |-> {i.address : i \in {j \in infos : j.compression = c}}]

\* (A slip: onClientsUpdate that merges into the cache it has.)
GroupIntoCache ==
  clientsCache' = [c \in Compression |->
    clientsCache[c] \cup GroupByCompression(heard'[ServerListener])[c]]

\* The listener runs whenever the registry notifies; when it does not,
\* heard'[ServerListener] is what the cache was built from already.
OnClientsUpdate ==
  clientsCache' = GroupByCompression(heard'[ServerListener])

Cached == UNION {clientsCache[c] : c \in Compression}

Packet == {"Nothing", "Ack", "KeepAlive", "Disconnect"} \cup Compression
Transmission == [packet : Packet, to : SUBSET Address]

\* send, the packet to each of the addresses.  Audio is known by its
\* compression; handlers that send nothing leave `sent' as it is.
Send(packet, addresses) ==
  /\ sent' = [packet |-> packet, to |-> addresses]
  /\ unheard' = [a \in Address |-> IF a \in addresses THEN 0 ELSE unheard[a]]
  /\ sending' = (sending \/ addresses # {})

\* After run(): the window and the server listen, nobody is connected yet,
\* and there is no capture pipe.
ServerInit ==
  /\ clients = [a \in Address |-> NoClient]
  /\ clientInfos = {}
  /\ heard = [l \in Listener |->
                IF l \in {ServerListener, AppListener} THEN {} ELSE NotListening]
  /\ clientsCache = [c \in Compression |-> {}]
  /\ timer = MaintenancePeriod
  /\ sending = FALSE
  /\ status = "running"
  /\ unheard = [a \in Address |-> 0]
  /\ sent = [packet |-> "Nothing", to |-> {}]

-----------------------------------------------------------------------------
\* receive, one packet.
ProcessConnect(a, c) ==
  /\ status = "running"
  /\ Add(a, c) /\ OnClientsUpdate
  /\ Send("Ack", {a})
  /\ UNCHANGED <<timer, status>>

ProcessDisconnect(a) ==
  /\ status = "running"
  /\ Remove(a) /\ OnClientsUpdate
  /\ UNCHANGED <<timer, sending, status, unheard, sent>>

\* The ack goes out whether or not the address is registered.
ProcessSetFormat(a, c) ==
  /\ status = "running"
  /\ SetCompression(a, c) /\ OnClientsUpdate
  /\ Send("Ack", {a})
  /\ UNCHANGED <<timer, status>>

ProcessKeepAlive(a) ==
  /\ status = "running"
  /\ Keep(a) /\ OnClientsUpdate
  /\ UNCHANGED <<timer, sending, status, unheard, sent>>

\* An error of the receive socket, or one thrown while a packet is
\* processed, is shown and ends the process.
ReceiveFails ==
  /\ status = "running"
  /\ status' = "failed"
  /\ UNCHANGED <<clients, clientInfos, heard, clientsCache, timer, sending,
                 unheard, sent>>

\* handleSend: an error is thrown out of the event loop and ends the process.
HandleSend(ok) ==
  /\ status = "running" /\ sending
  /\ sending' = FALSE
  /\ status' = IF ok THEN "running" ELSE "failed"
  /\ UNCHANGED <<clients, clientInfos, heard, clientsCache, timer, unheard,
                 sent>>

\* (A slip: sendAudio that plays to everybody in the cache.)
SendAudioToAll(c) ==
  /\ status = "running"
  /\ Send(c, Cached)
  /\ UNCHANGED <<clients, clientInfos, heard, clientsCache, timer, status>>

\* sendAudio, called by the capture pipe.
SendAudio(c) ==
  /\ status = "running"
  /\ Send(c, clientsCache[c])
  /\ UNCHANGED <<clients, clientInfos, heard, clientsCache, timer, status>>

\* (Slips: maintain() without the keepalive, without the timeout, taking those
\* that are merely as old as the timeout, or setting the timer to no time.)
MaintainWithoutKeepalive ==
  /\ status = "running" /\ timer = 0
  /\ Evict /\ OnClientsUpdate
  /\ timer' = MaintenancePeriod
  /\ UNCHANGED <<sending, status, unheard, sent>>

MaintainWithoutTimeout ==
  /\ status = "running" /\ timer = 0
  /\ Send("KeepAlive", Cached)
  /\ timer' = MaintenancePeriod
  /\ UNCHANGED <<clients, clientInfos, heard, clientsCache, status>>

MaintainForEver ==
  /\ status = "running" /\ timer = 0
  /\ Send("KeepAlive", Cached)
  /\ Evict /\ OnClientsUpdate
  /\ UNCHANGED <<timer, status>>

MaintainTooEager ==
  /\ status = "running" /\ timer = 0
  /\ Send("KeepAlive", Cached)
  /\ clients' = [a \in Address |->
       IF a \in Members(clients) /\ clients[a].silence >= Timeout
       THEN NoClient ELSE clients[a]]
  /\ UpdateAndNotify(clients') /\ OnClientsUpdate
  /\ timer' = MaintenancePeriod
  /\ UNCHANGED status

\* maintain: keepalive to everyone in the cache, then the timeouts, then
\* startMaintenanceTimer.
Maintain ==
  /\ status = "running" /\ timer = 0
  /\ Send("KeepAlive", Cached)
  /\ Evict /\ OnClientsUpdate
  /\ timer' = MaintenancePeriod
  /\ UNCHANGED status

\* WM_POWERBROADCAST with PBT_APMSUSPEND.
Suspend ==
  /\ status = "running"
  /\ RemoveAll /\ OnClientsUpdate
  /\ UNCHANGED <<timer, sending, status, unheard, sent>>

\* (A slip: shutdown that stops before it says goodbye.)
ShutdownSilently ==
  /\ status = "running"
  /\ status' = "stopped"
  /\ UNCHANGED <<clients, clientInfos, heard, clientsCache, timer, sending,
                 unheard, sent>>

\* SoundRemoteApp::shutdown: sendDisconnectBlocking, then the loop stops.
Shutdown ==
  /\ status = "running"
  /\ sent' = [packet |-> "Disconnect", to |-> Cached]
  /\ status' = "stopped"
  /\ UNCHANGED <<clients, clientInfos, heard, clientsCache, timer, sending,
                 unheard>>

\* One of its blocking sends throws: some have been told, the process ends.
ShutdownFails ==
  /\ status = "running"
  /\ \E told \in SUBSET Cached : sent' = [packet |-> "Disconnect", to |-> told]
  /\ status' = "failed"
  /\ UNCHANGED <<clients, clientInfos, heard, clientsCache, timer, sending,
                 unheard>>

\* startCapture registers a pipe's onClientsUpdate, stopCapture removes it.
StartCapture(pipe) ==
  /\ status = "running"
  /\ AddClientsListener(pipe) /\ OnClientsUpdate
  /\ UNCHANGED <<timer, sending, status, unheard, sent>>

StopCapture(pipe) ==
  /\ status = "running"
  /\ RemoveClientsListener(pipe) /\ OnClientsUpdate
  /\ UNCHANGED <<timer, sending, status, unheard, sent>>

\* Time passes.  The maintenance timer is punctual: no tick goes by while
\* its handler is due (the io thread is not blocked in a message box).
Elapse ==
  /\ status = "running" /\ timer > 0
  /\ timer' = timer - 1
  /\ Age
  /\ unheard' = [a \in Address |->
       IF a \in Members(clients) THEN unheard[a] + 1 ELSE unheard[a]]
  /\ UNCHANGED <<clientsCache, sending, status, sent>>

Ended == status # "running" /\ UNCHANGED vars

\* What neither a packet, a transmission nor the end of the program is.
BackgroundNext ==
  \/ \E ok \in BOOLEAN : HandleSend(ok)
  \/ ReceiveFails
  \/ Suspend
  \/ \E pipe \in Listener \ {ServerListener, AppListener} :
       StartCapture(pipe) \/ StopCapture(pipe)
  \/ Elapse
  \/ Ended

ServerNext ==
  \/ \E a \in Address, c \in Compression :
       ProcessConnect(a, c) \/ ProcessSetFormat(a, c)
  \/ \E a \in Address : ProcessDisconnect(a) \/ ProcessKeepAlive(a)
  \/ \E c \in Compression : SendAudio(c)
  \/ Maintain
  \/ Shutdown \/ ShutdownFails
  \/ BackgroundNext

ServerSpec == ServerInit /\ [][ServerNext]_vars

\* Time passes and the event loop gets round to an expired timer.
FairServerSpec == ServerSpec /\ WF_vars(Elapse) /\ WF_vars(Maintain)

-----------------------------------------------------------------------------
\* The types of the server's state.
ServerTypeOK ==
  /\ ClientsTypeOK
  /\ clientsCache \in [Compression -> SUBSET Address]
  /\ timer \in 0..MaintenancePeriod
  /\ sending \in BOOLEAN
  /\ status \in {"running", "stopped", "failed"}
  /\ unheard \in [Address -> Nat]
  /\ sent \in Transmission

\* Between handlers the three copies of "who is connected" agree: audio,
\* keepalives and the goodbye go to the registered clients and to nobody
\* else, each in the format it last asked for, the window lists them, and a
\* capture pipe has encoders for their formats.
ViewsAgree ==
  /\ ListenersUpToDate
  /\ {ServerListener, AppListener} \subseteq Listening
  /\ \A c \in Compression :
       clientsCache[c] = {a \in Members(clients) : clients[a].compression = c}

\* Whatever the network loses, repeats or delays (a late Connect brings a
\* departed client back), an address that has stopped talking is forgotten
\* at most one maintenance period after its timeout.
GoneInTime ==
  \A a \in Members(clients) :
    clients[a].silence <= Timeout + MaintenancePeriod

\* No registered client waits longer than a maintenance period for a packet
\* from the server: keepalives are sent from the cache, so this also needs
\* the cache to have every client, however it came in or changed format.
HeardInTime ==
  \A a \in Members(clients) : unheard[a] <= MaintenancePeriod

\* A client leaves the registry only because it said so, because the
\* machine is suspended, or after a silence longer than the timeout.
LeavesForAReason ==
  [][\A a \in Members(clients) :
       clients'[a] = NoClient =>
         ProcessDisconnect(a) \/ Suspend \/ clients[a].silence > Timeout]_vars

\* An orderly shutdown says goodbye to everyone registered at that moment.
FarewellComplete ==
  status = "stopped" => sent = [packet |-> "Disconnect", to |-> Members(clients)]

\* A client that has gone quiet does not stay for ever: again and again it
\* is unregistered or has just been in contact.
SilentClientLeaves ==
  \A a \in Address :
    []<>(\/ status # "running"
         \/ clients[a] = NoClient
         \/ clients[a].silence = 0)

-----------------------------------------------------------------------------
\* The sessions behind the registry.
FormatOf(a) == IF clients[a] = NoClient THEN NoClient ELSE clients[a].compression

Promise == INSTANCE Sessions WITH
  NotConnected <- NoClient,
  format <- [a \in Address |-> FormatOf(a)],
  sent <- sent,
  open <- status = "running"

\* The server does what Sessions promises: whoever asks is served, in the
\* format asked for last, from the next transmission on and until the
\* session ends, although everything is sent from a cache kept by callbacks.
KeepsPromise == Promise!Spec
=============================================================================
