---------------------------- MODULE Server_proofs ----------------------------
(***************************************************************************)
(* The safety properties of the server, for any addresses, compressions,   *)
(* listeners, timeout and maintenance period.                              *)
(*                                                                         *)
(* GoneInTime is not inductive: a client whose silence is just within the  *)
(* bound may see another tick.  What is inductive says how the bound is    *)
(* spent: silence and the time left on the maintenance timer never exceed  *)
(* Timeout + MaintenancePeriod together, because a maintenance run leaves  *)
(* nobody behind whose silence is above Timeout, and from then on one      *)
(* grows as the other falls.  HeardInTime goes the same way, and needs the *)
(* cache (ViewsAgree) to know that a keepalive reaches every client.       *)
(***************************************************************************)
EXTENDS Server, Clients_proofs

SilenceBudget ==
  \A a \in Members(clients) :
    clients[a].silence + timer <= Timeout + MaintenancePeriod

KeepaliveBudget ==
  \A a \in Members(clients) : unheard[a] + timer <= MaintenancePeriod

Inv ==
  /\ ServerTypeOK
  /\ ViewsAgree
  /\ SilenceBudget
  /\ KeepaliveBudget
  /\ FarewellComplete

\* What every handler's registry operation hands on to the rest of its step.
RegistryStep ==
  /\ RegistryInv' /\ {ServerListener, AppListener} \subseteq Listening'
  /\ OnClientsUpdate

LEMMA InvRegistry ==
  Inv => RegistryInv /\ {ServerListener, AppListener} \subseteq Listening
BY DEF Inv, ServerTypeOK, ViewsAgree, RegistryInv

\* The cache rebuilt from the listener's last infos has every client under
\* its compression.
LEMMA ViewsFollow ==
  ASSUME Inv, RegistryStep
  PROVE  ViewsAgree' /\ clientsCache' \in [Compression -> SUBSET Address]
<1>1. {ServerListener, AppListener} \subseteq Listening'
  BY DEF RegistryStep
<1>2. heard'[ServerListener] = InfosOf(clients')
  BY <1>1
  DEF RegistryStep, RegistryInv, ListenersUpToDate
<1>3. \A c \in Compression : GroupByCompression(InfosOf(clients'))[c]
        = {a \in Members(clients') : clients'[a].compression = c}
  <2> SUFFICES ASSUME NEW c \in Compression
               PROVE  GroupByCompression(InfosOf(clients'))[c]
                        = {a \in Members(clients') : clients'[a].compression = c}
    OBVIOUS
  <2> DEFINE info(a) == [address |-> a, compression |-> clients'[a].compression]
             asked == {j \in InfosOf(clients') : j.compression = c}
  <2>1. asked = {info(a) : a \in {b \in Members(clients') : clients'[b].compression = c}}
    <3>1. \A j \in InfosOf(clients') :
            \E a \in Members(clients') : j = info(a)
      BY DEF InfosOf
    <3>2. \A a \in Members(clients') :
            info(a) \in InfosOf(clients') /\ info(a).compression = clients'[a].compression
      BY DEF InfosOf
    <3> HIDE DEF info
    <3> QED
      BY <3>1, <3>2
  <2>2. {i.address : i \in asked}
          = {a \in Members(clients') : clients'[a].compression = c}
    <3>1. \A a : info(a).address = a
      OBVIOUS
    <3> HIDE DEF info, asked
    <3> QED
      BY <2>1, <3>1
  <2>3. GroupByCompression(InfosOf(clients'))[c] = {i.address : i \in asked}
    BY DEF GroupByCompression
  <2> QED
    BY <2>2, <2>3
<1>4. clientsCache' = GroupByCompression(InfosOf(clients'))
  BY <1>2 DEF RegistryStep, OnClientsUpdate
<1>5. \A c \in Compression : clientsCache'[c]
        = {a \in Members(clients') : clients'[a].compression = c}
  BY <1>3, <1>4
<1>6. clientsCache' \in [Compression -> SUBSET Address]
  <2>1. clientsCache' = [c \in Compression |-> clientsCache'[c]]
    BY <1>4 DEF GroupByCompression
  <2> QED
    BY <2>1, <1>5 DEF Members
<1> QED
  BY <1>1, <1>5, <1>6 DEF ViewsAgree, RegistryStep, RegistryInv

\* Everyone in the registry is in the cache.
LEMMA CachedAreMembers == Inv => Cached = Members(clients)
<1> SUFFICES ASSUME Inv PROVE Cached = Members(clients)
  OBVIOUS
<1>1. \A c \in Compression :
        clientsCache[c] = {a \in Members(clients) : clients[a].compression = c}
  BY DEF Inv, ViewsAgree
<1>2. \A a \in Members(clients) : clients[a] \in Client
  BY DEF Inv, ServerTypeOK, ClientsTypeOK, Members
<1>3. \A a \in Members(clients) : clients[a].compression \in Compression
  BY <1>2 DEF Client
<1> QED
  BY <1>1, <1>3 DEF Cached

\* The budgets survive a step in which a client may leave, may change its
\* format, and may come in or speak up (silence 0), while the timer stands.
LEMMA BudgetsFollow ==
  ASSUME Inv, RegistryInv', timer' = timer,
         \A a \in Members(clients') :
           \/ clients'[a].silence = 0
           \/ a \in Members(clients) /\ clients'[a].silence = clients[a].silence,
         \A a \in Members(clients') :
           \/ unheard'[a] = 0
           \/ a \in Members(clients) /\ unheard'[a] = unheard[a]
  PROVE  SilenceBudget' /\ KeepaliveBudget'
<1>1. timer \in 0..MaintenancePeriod /\ MaintenancePeriod \in Nat /\ Timeout \in Nat
  BY PeriodAssumption, TimeoutAssumption DEF Inv, ServerTypeOK
<1>2. SilenceBudget'
  BY <1>1 DEF Inv, SilenceBudget
<1>3. KeepaliveBudget'
  BY <1>1 DEF Inv, KeepaliveBudget
<1> QED
  BY <1>2, <1>3

\* Put together: a handler that keeps the status and the timer.
LEMMA HandlerKeeps ==
  ASSUME Inv, RegistryStep, status = "running",
         UNCHANGED <<timer, status>>, sent' \in Transmission,
         sending' \in BOOLEAN, unheard' \in [Address -> Nat],
         \A a \in Members(clients') :
           \/ clients'[a].silence = 0
           \/ a \in Members(clients) /\ clients'[a].silence = clients[a].silence,
         \A a \in Members(clients') :
           \/ unheard'[a] = 0
           \/ a \in Members(clients) /\ unheard'[a] = unheard[a]
  PROVE  Inv'
<1>1. ViewsAgree' /\ clientsCache' \in [Compression -> SUBSET Address]
  BY ViewsFollow
<1>2. SilenceBudget' /\ KeepaliveBudget'
  BY BudgetsFollow DEF RegistryStep
<1>3. ServerTypeOK'
  BY <1>1 DEF Inv, ServerTypeOK, RegistryStep, RegistryInv
<1>4. FarewellComplete'
  BY DEF FarewellComplete
<1> QED
  BY <1>1, <1>2, <1>3, <1>4 DEF Inv

\* What send does to the history of an address.
LEMMA SendType ==
  ASSUME Inv, NEW packet \in Packet, NEW addresses \in SUBSET Address,
         Send(packet, addresses)
  PROVE  /\ unheard' \in [Address -> Nat] /\ sending' \in BOOLEAN
         /\ sent' \in Transmission
         /\ \A a \in Address : unheard'[a] = IF a \in addresses THEN 0 ELSE unheard[a]
BY DEF Inv, ServerTypeOK, Send, Transmission

-----------------------------------------------------------------------------
LEMMA InitInv == ServerInit => Inv
<1> SUFFICES ASSUME ServerInit PROVE Inv
  OBVIOUS
<1>1. Members(clients) = {}
  BY DEF ServerInit, Members
<1>2. {ServerListener, AppListener} \subseteq Listening
  <2>1. {} # NotListening
    BY NotListeningAssumption
  <2> QED
    BY <2>1, ListenersAssumption DEF ServerInit, Listening
<1>3. InfosOf(clients) = {}
  BY <1>1 DEF InfosOf
<1>4. ServerTypeOK
  <2>1. ClientsTypeOK
    BY DEF ServerInit, ClientsTypeOK
  <2>4. sent \in Transmission
    BY DEF ServerInit, Transmission, Packet
  <2>2. timer \in 0..MaintenancePeriod
    BY PeriodAssumption DEF ServerInit
  <2>3. unheard \in [Address -> Nat] /\ clientsCache \in [Compression -> SUBSET Address]
    BY DEF ServerInit
  <2> QED
    BY <2>1, <2>2, <2>3, <2>4 DEF ServerInit, ServerTypeOK
<1>5. ViewsAgree
  <2>1. \A l \in Listening : heard[l] = {}
    BY DEF ServerInit, Listening
  <2> QED
    BY <1>1, <1>2, <1>3, <2>1 DEF ServerInit, ViewsAgree, ListenersUpToDate
<1>6. SilenceBudget /\ KeepaliveBudget
  BY <1>1 DEF SilenceBudget, KeepaliveBudget
<1>7. FarewellComplete
  BY DEF ServerInit, FarewellComplete
<1> QED
  BY <1>4, <1>5, <1>6, <1>7 DEF Inv

LEMMA ConnectKeeps ==
  ASSUME Inv, NEW a \in Address, NEW c \in Compression, ProcessConnect(a, c)
  PROVE  Inv'
<1>1. /\ RegistryInv' /\ Listening' = Listening
      /\ clients' = [clients EXCEPT ![a] = [compression |-> c, silence |-> 0]]
  BY InvRegistry, AddKeeps DEF ProcessConnect
<1>2. RegistryStep
  BY <1>1, InvRegistry DEF RegistryStep, ProcessConnect
<1>3. Members(clients') \subseteq Members(clients) \cup {a}
  BY <1>1 DEF Members, Inv, ServerTypeOK, ClientsTypeOK
<1>4. \A b \in Members(clients') :
        \/ clients'[b].silence = 0
        \/ b \in Members(clients) /\ clients'[b].silence = clients[b].silence
  BY <1>1, <1>3 DEF Members, Inv, ServerTypeOK, ClientsTypeOK
<1>5. /\ unheard' \in [Address -> Nat] /\ sending' \in BOOLEAN
      /\ sent' \in Transmission
      /\ \A b \in Address : unheard'[b] = IF b \in {a} THEN 0 ELSE unheard[b]
  BY SendType DEF ProcessConnect, Packet
<1>6. \A b \in Members(clients') :
        \/ unheard'[b] = 0
        \/ b \in Members(clients) /\ unheard'[b] = unheard[b]
  BY <1>3, <1>5 DEF Members
<1> QED
  BY <1>2, <1>4, <1>5, <1>6, HandlerKeeps DEF ProcessConnect

LEMMA SetFormatKeeps ==
  ASSUME Inv, NEW a \in Address, NEW c \in Compression, ProcessSetFormat(a, c)
  PROVE  Inv'
<1>1. /\ RegistryInv' /\ Listening' = Listening
      /\ clients' = IF a \in Members(clients)
                    THEN [clients EXCEPT ![a].compression = c]
                    ELSE clients
  BY InvRegistry, SetCompressionKeeps DEF ProcessSetFormat
<1>2. RegistryStep
  BY <1>1, InvRegistry DEF RegistryStep, ProcessSetFormat
<1>3. \A b \in Members(clients) : clients[b] \in Client
  BY DEF Members, Inv, ServerTypeOK, ClientsTypeOK
<1>4. \A b \in Members(clients') :
        b \in Members(clients) /\ clients'[b].silence = clients[b].silence
  BY <1>1, <1>3 DEF Members, Inv, ServerTypeOK, ClientsTypeOK, Client
<1>5. /\ unheard' \in [Address -> Nat] /\ sending' \in BOOLEAN
      /\ sent' \in Transmission
      /\ \A b \in Address : unheard'[b] = IF b \in {a} THEN 0 ELSE unheard[b]
  BY SendType DEF ProcessSetFormat, Packet
<1>6. \A b \in Members(clients') :
        \/ unheard'[b] = 0
        \/ b \in Members(clients) /\ unheard'[b] = unheard[b]
  BY <1>4, <1>5 DEF Members
<1> QED
  BY <1>2, <1>4, <1>5, <1>6, HandlerKeeps DEF ProcessSetFormat

LEMMA KeepAliveKeeps ==
  ASSUME Inv, NEW a \in Address, ProcessKeepAlive(a)
  PROVE  Inv'
<1>1. /\ RegistryInv' /\ Listening' = Listening
      /\ clients' = IF a \in Members(clients)
                    THEN [clients EXCEPT ![a].silence = 0]
                    ELSE clients
  BY InvRegistry, KeepKeeps DEF ProcessKeepAlive
<1>2. RegistryStep
  BY <1>1, InvRegistry DEF RegistryStep, ProcessKeepAlive
<1>3. \A b \in Members(clients) : clients[b] \in Client
  BY DEF Members, Inv, ServerTypeOK, ClientsTypeOK
<1>4. \A b \in Members(clients') :
        /\ b \in Members(clients)
        /\ clients'[b].silence = 0 \/ clients'[b].silence = clients[b].silence
  BY <1>1, <1>3 DEF Members, Inv, ServerTypeOK, ClientsTypeOK, Client
<1>5. unheard' = unheard /\ sending' = sending
  BY DEF ProcessKeepAlive
<1>6. unheard' \in [Address -> Nat] /\ sending' \in BOOLEAN /\ sent' \in Transmission
  BY <1>5 DEF Inv, ServerTypeOK, ProcessKeepAlive
<1> QED
  BY <1>2, <1>4, <1>5, <1>6, HandlerKeeps DEF ProcessKeepAlive

LEMMA DisconnectKeeps ==
  ASSUME Inv, NEW a \in Address, ProcessDisconnect(a)
  PROVE  Inv'
<1>1. /\ RegistryInv' /\ Listening' = Listening
      /\ clients' = [b \in Address |-> IF b = a THEN NoClient ELSE clients[b]]
  BY InvRegistry, RemoveKeeps DEF ProcessDisconnect
<1>2. RegistryStep
  BY <1>1, InvRegistry DEF RegistryStep, ProcessDisconnect
<1>3. \A b \in Members(clients') :
        b \in Members(clients) /\ clients'[b] = clients[b]
  BY <1>1 DEF Members
<1>4. unheard' = unheard /\ sending' = sending
  BY DEF ProcessDisconnect
<1>5. unheard' \in [Address -> Nat] /\ sending' \in BOOLEAN /\ sent' \in Transmission
  BY <1>4 DEF Inv, ServerTypeOK, ProcessDisconnect
<1> QED
  BY <1>2, <1>3, <1>4, <1>5, HandlerKeeps DEF ProcessDisconnect

LEMMA SuspendKeeps == ASSUME Inv, Suspend PROVE Inv'
<1>1. /\ RegistryInv' /\ Listening' = Listening
      /\ clients' = [a \in Address |-> NoClient]
  BY InvRegistry, RemoveAllKeeps DEF Suspend
<1>2. RegistryStep
  BY <1>1, InvRegistry DEF RegistryStep, Suspend
<1>3. Members(clients') = {}
  BY <1>1 DEF Members
<1>4. unheard' \in [Address -> Nat] /\ sending' \in BOOLEAN /\ sent' \in Transmission
  BY DEF Inv, ServerTypeOK, Suspend
<1> QED
  BY <1>2, <1>3, <1>4, HandlerKeeps DEF Suspend

\* Steps that leave the registry and the cache alone.
LEMMA QuietKeeps ==
  ASSUME Inv, UNCHANGED <<clients, clientInfos, heard, clientsCache, timer>>,
         sending' \in BOOLEAN,
         unheard' \in [Address -> Nat],
         \A a \in Address : unheard'[a] = 0 \/ unheard'[a] = unheard[a],
         status' \in {"running", "stopped", "failed"},
         sent' \in Transmission,
         FarewellComplete'
  PROVE  Inv'
<1>1. RegistryInv' /\ Listening' = Listening /\ Members(clients') = Members(clients)
  BY InvRegistry DEF RegistryInv, ClientsTypeOK, ListenersUpToDate, Listening,
                     Members, InfosOf
<1>2. ViewsAgree'
  BY <1>1 DEF Inv, ViewsAgree, RegistryInv
<1>3. SilenceBudget' /\ KeepaliveBudget'
  BY <1>1, BudgetsFollow DEF Members
<1>4. ServerTypeOK'
  BY <1>1 DEF Inv, ServerTypeOK, RegistryInv
<1> QED
  BY <1>2, <1>3, <1>4 DEF Inv

\* A capture pipe registers or goes: the server and the window listen on.
LEMMA PipeKeeps ==
  ASSUME Inv, NEW pipe \in Listener \ {ServerListener, AppListener},
         StartCapture(pipe) \/ StopCapture(pipe)
  PROVE  Inv'
<1>1. AddClientsListener(pipe) \/ RemoveClientsListener(pipe)
  BY DEF StartCapture, StopCapture
<1>2. /\ RegistryInv' /\ clients' = clients
      /\ {ServerListener, AppListener} \subseteq Listening'
  BY <1>1, InvRegistry, ListenerJoins, ListenerLeaves, ListenersAssumption
<1>3. RegistryStep
  BY <1>2 DEF RegistryStep, StartCapture, StopCapture
<1>4. /\ status = "running" /\ UNCHANGED <<timer, sending, status, unheard, sent>>
      /\ unheard' \in [Address -> Nat] /\ sending' \in BOOLEAN
      /\ sent' \in Transmission
  BY DEF StartCapture, StopCapture, Inv, ServerTypeOK
<1> QED
  BY <1>2, <1>3, <1>4, HandlerKeeps DEF Members

\* A maintenance run: nobody older than the timeout stays, everybody who
\* stays has been sent a keepalive, and the timer starts over.
LEMMA MaintainKeeps == ASSUME Inv, Maintain PROVE Inv'
<1>1. /\ RegistryInv' /\ Listening' = Listening
      /\ clients' = [a \in Address |->
                       IF a \in Expired THEN NoClient ELSE clients[a]]
  BY InvRegistry, EvictKeeps DEF Maintain
<1>2. RegistryStep
  BY <1>1, InvRegistry DEF RegistryStep, Maintain
<1>3. ViewsAgree' /\ clientsCache' \in [Compression -> SUBSET Address]
  BY <1>2, ViewsFollow
<1>4. /\ Timeout \in Nat /\ MaintenancePeriod \in Nat
      /\ timer' = MaintenancePeriod
  BY TimeoutAssumption, PeriodAssumption DEF Maintain
<1>5. \A a \in Members(clients') :
        a \in Members(clients) /\ a \notin Expired /\ clients'[a] = clients[a]
  BY <1>1 DEF Members
<1>6. SilenceBudget'
  <2>1. \A a \in Members(clients) : clients[a].silence \in Nat
    <3>1. \A a \in Members(clients) : clients[a] \in Client
      BY DEF Inv, ServerTypeOK, ClientsTypeOK, Members
    <3> QED
      BY <3>1 DEF Client
  <2>2. \A a \in Members(clients') : clients'[a].silence <= Timeout
    BY <1>4, <1>5, <2>1 DEF Expired
  <2>3. \A a \in Members(clients') : clients'[a].silence \in Nat
    BY <1>5, <2>1
  <2> QED
    BY <1>4, <2>2, <2>3 DEF SilenceBudget
<1>7. Cached = Members(clients) /\ Cached \in SUBSET Address
  BY CachedAreMembers DEF Members
<1>8. /\ unheard' \in [Address -> Nat] /\ sending' \in BOOLEAN
      /\ sent' \in Transmission
      /\ \A a \in Address : unheard'[a] = IF a \in Cached THEN 0 ELSE unheard[a]
  BY <1>7, SendType DEF Maintain, Packet
<1>9. KeepaliveBudget'
  <2>1. \A a \in Members(clients') : unheard'[a] = 0
    BY <1>5, <1>7, <1>8 DEF Members
  <2> QED
    BY <1>4, <2>1 DEF KeepaliveBudget
<1>10. ServerTypeOK'
  BY <1>1, <1>3, <1>4, <1>8
  DEF Inv, ServerTypeOK, RegistryInv, Maintain
<1>11. FarewellComplete'
  BY DEF Maintain, FarewellComplete
<1> QED
  BY <1>3, <1>6, <1>9, <1>10, <1>11 DEF Inv

\* A tick: what the budgets lose on the timer they gain in silence.
LEMMA ElapseKeeps == ASSUME Inv, Elapse PROVE Inv'
<1>1. RegistryInv' /\ Listening' = Listening /\ Members(clients') = Members(clients)
  BY InvRegistry, AgeKeeps DEF Elapse
<1>2. /\ Timeout \in Nat /\ MaintenancePeriod \in Nat
      /\ timer \in 0..MaintenancePeriod /\ timer > 0 /\ timer' = timer - 1
  BY TimeoutAssumption, PeriodAssumption DEF Inv, ServerTypeOK, Elapse
<1>3. \A a \in Members(clients) :
        /\ clients[a].silence \in Nat
        /\ clients'[a].silence = clients[a].silence + 1
        /\ clients'[a].compression = clients[a].compression
  <2> SUFFICES ASSUME NEW a \in Members(clients)
               PROVE  /\ clients[a].silence \in Nat
                      /\ clients'[a].silence = clients[a].silence + 1
                      /\ clients'[a].compression = clients[a].compression
    OBVIOUS
  <2>1. PICK r \in Client : r = clients[a]
    BY DEF Inv, ServerTypeOK, ClientsTypeOK, Members
  <2>2. clients'[a] = [r EXCEPT !.silence = @ + 1]
    BY <2>1 DEF Elapse, Age, Members
  <2>3. /\ r.silence \in Nat
        /\ [r EXCEPT !.silence = @ + 1].silence = r.silence + 1
        /\ [r EXCEPT !.silence = @ + 1].compression = r.compression
    BY DEF Client
  <2> QED
    BY <2>1, <2>2, <2>3
<1>4. SilenceBudget'
  BY <1>1, <1>2, <1>3 DEF Inv, SilenceBudget
<1>5. \A a \in Members(clients) : unheard[a] \in Nat /\ unheard'[a] = unheard[a] + 1
  BY DEF Inv, ServerTypeOK, Elapse, Members
<1>6. KeepaliveBudget'
  BY <1>1, <1>2, <1>5 DEF Inv, KeepaliveBudget
<1>7. ViewsAgree'
  <2>1. clientsCache' = clientsCache
    BY DEF Elapse
  <2> QED
    BY <1>1, <1>3, <2>1 DEF Inv, ViewsAgree, RegistryInv
<1>8. unheard' \in [Address -> Nat]
  BY DEF Inv, ServerTypeOK, Elapse
<1>9. timer' \in 0..MaintenancePeriod
  BY <1>2
<1>10. ServerTypeOK'
  BY <1>1, <1>8, <1>9 DEF Inv, ServerTypeOK, RegistryInv, Elapse
<1>11. FarewellComplete'
  BY DEF Elapse, FarewellComplete
<1> QED
  BY <1>4, <1>6, <1>7, <1>10, <1>11 DEF Inv

\* Every step of the server keeps the inductive invariant.
LEMMA NextInv == Inv /\ [ServerNext]_vars => Inv'
<1> SUFFICES ASSUME Inv, [ServerNext]_vars PROVE Inv'
  OBVIOUS
<1>1. ASSUME NEW a \in Address, NEW c \in Compression, ProcessConnect(a, c)
      PROVE  Inv'
  BY <1>1, ConnectKeeps
<1>2. ASSUME NEW a \in Address, NEW c \in Compression, ProcessSetFormat(a, c)
      PROVE  Inv'
  BY <1>2, SetFormatKeeps
<1>3. ASSUME NEW a \in Address, ProcessDisconnect(a) PROVE Inv'
  BY <1>3, DisconnectKeeps
<1>4. ASSUME NEW a \in Address, ProcessKeepAlive(a) PROVE Inv'
  BY <1>4, KeepAliveKeeps
<1>5. ASSUME NEW ok \in BOOLEAN, HandleSend(ok) PROVE Inv'
  <2>1. unheard' = unheard /\ unheard' \in [Address -> Nat] /\ sending' \in BOOLEAN
        /\ sent' \in Transmission
    BY <1>5 DEF HandleSend, Inv, ServerTypeOK
  <2>2. status' \in {"running", "failed"}
    BY <1>5 DEF HandleSend
  <2>3. FarewellComplete'
    BY <2>2 DEF FarewellComplete
  <2> QED
    BY <1>5, <2>1, <2>2, <2>3, QuietKeeps DEF HandleSend
<1>6. ASSUME NEW c \in Compression, SendAudio(c) PROVE Inv'
  <2>1. clientsCache[c] \in SUBSET Address
    BY DEF Inv, ServerTypeOK
  <2>2. /\ unheard' \in [Address -> Nat] /\ sending' \in BOOLEAN
        /\ \A a \in Address : unheard'[a] = 0 \/ unheard'[a] = unheard[a]
    BY <1>6, <2>1, SendType DEF SendAudio, Packet
  <2>3. FarewellComplete' /\ sent' \in Transmission
        /\ status' \in {"running", "stopped", "failed"}
    BY <1>6, <2>1, SendType DEF SendAudio, Packet, FarewellComplete, Inv, ServerTypeOK
  <2> QED
    BY <1>6, <2>2, <2>3, QuietKeeps DEF SendAudio
<1>7. CASE ReceiveFails
  <2>1. FarewellComplete'
    BY <1>7 DEF ReceiveFails, FarewellComplete
  <2>2. unheard' = unheard /\ unheard' \in [Address -> Nat] /\ sending' \in BOOLEAN
        /\ sent' \in Transmission
    BY <1>7 DEF ReceiveFails, Inv, ServerTypeOK
  <2> QED
    BY <1>7, <2>1, <2>2, QuietKeeps DEF ReceiveFails
<1>8. CASE Maintain
  BY <1>8, MaintainKeeps
<1>9. CASE Suspend
  BY <1>9, SuspendKeeps
<1>10. CASE Shutdown
  <2>1. sent' = [packet |-> "Disconnect", to |-> Members(clients')]
    BY <1>10, CachedAreMembers DEF Shutdown, Members
  <2>2. sent' \in Transmission /\ FarewellComplete'
    BY <2>1 DEF Members, FarewellComplete, Transmission, Packet
  <2>3. unheard' = unheard /\ unheard' \in [Address -> Nat] /\ sending' \in BOOLEAN
    BY <1>10 DEF Shutdown, Inv, ServerTypeOK
  <2> QED
    BY <1>10, <2>2, <2>3, QuietKeeps DEF Shutdown
<1>11. CASE Elapse
  BY <1>11, ElapseKeeps
<1>12. CASE ShutdownFails
  <2>1. PICK told \in SUBSET Cached : sent' = [packet |-> "Disconnect", to |-> told]
    BY <1>12 DEF ShutdownFails
  <2>2. sent' \in Transmission /\ FarewellComplete'
    BY <1>12, <2>1, CachedAreMembers
    DEF ShutdownFails, Members, FarewellComplete, Transmission, Packet
  <2>3. unheard' = unheard /\ unheard' \in [Address -> Nat] /\ sending' \in BOOLEAN
    BY <1>12 DEF ShutdownFails, Inv, ServerTypeOK
  <2> QED
    BY <1>12, <2>2, <2>3, QuietKeeps DEF ShutdownFails
<1>13. ASSUME NEW pipe \in Listener \ {ServerListener, AppListener},
              StartCapture(pipe) \/ StopCapture(pipe)
       PROVE  Inv'
  BY <1>13, PipeKeeps
<1>14. CASE UNCHANGED vars
  <2>1. FarewellComplete'
    BY <1>14 DEF vars, Inv, FarewellComplete, Members
  <2>2. unheard' = unheard /\ unheard' \in [Address -> Nat] /\ sending' \in BOOLEAN
        /\ sent' \in Transmission
        /\ status' \in {"running", "stopped", "failed"}
    BY <1>14 DEF vars, Inv, ServerTypeOK
  <2>3. UNCHANGED <<clients, clientInfos, heard, clientsCache, timer>>
    BY <1>14 DEF vars
  <2> QED
    BY <2>1, <2>2, <2>3, QuietKeeps
<1> QED
  BY <1>1, <1>2, <1>3, <1>4, <1>5, <1>6, <1>7, <1>8, <1>9, <1>10, <1>11, <1>14,
     <1>12, <1>13
  DEF ServerNext, BackgroundNext, Ended

THEOREM Invariance == ServerSpec => []Inv
BY InitInv, NextInv, PTL DEF ServerSpec

-----------------------------------------------------------------------------
\* The state of the server keeps its types.
THEOREM TypeCorrect == ServerSpec => []ServerTypeOK
BY Invariance, PTL DEF Inv

\* The registry, the send cache and the window's list agree between handlers.
THEOREM ViewsAlwaysAgree == ServerSpec => []ViewsAgree
BY Invariance, PTL DEF Inv

\* A silent client is gone one maintenance period after its timeout.
THEOREM Timely == ServerSpec => []GoneInTime
<1>1. Inv => GoneInTime
  <2> SUFFICES ASSUME Inv, NEW a \in Members(clients)
               PROVE  clients[a].silence <= Timeout + MaintenancePeriod
    BY DEF GoneInTime
  <2>1. clients[a] \in Client
    BY DEF Inv, ServerTypeOK, ClientsTypeOK, Members
  <2>2. clients[a].silence \in Nat
    BY <2>1 DEF Client
  <2>3. timer \in Nat /\ Timeout \in Nat /\ MaintenancePeriod \in Nat
    BY TimeoutAssumption, PeriodAssumption DEF Inv, ServerTypeOK
  <2>4. clients[a].silence + timer <= Timeout + MaintenancePeriod
    BY DEF Inv, SilenceBudget
  <2> QED
    BY <2>2, <2>3, <2>4
<1> QED
  BY <1>1, Invariance, PTL

\* No client goes unheard of for longer than a maintenance period.
THEOREM Informed == ServerSpec => []HeardInTime
<1>1. Inv => HeardInTime
  <2> SUFFICES ASSUME Inv, NEW a \in Members(clients)
               PROVE  unheard[a] <= MaintenancePeriod
    BY DEF HeardInTime
  <2>1. unheard[a] \in Nat /\ timer \in Nat /\ MaintenancePeriod \in Nat
    BY PeriodAssumption DEF Inv, ServerTypeOK, Members
  <2>2. unheard[a] + timer <= MaintenancePeriod
    BY DEF Inv, KeepaliveBudget
  <2> QED
    BY <2>1, <2>2
<1> QED
  BY <1>1, Invariance, PTL

\* The goodbye of an orderly shutdown leaves nobody out.
THEOREM Farewell == ServerSpec => []FarewellComplete
BY Invariance, PTL DEF Inv

\* Nobody is dropped without a goodbye, a suspend or a silence longer than
\* the timeout: of the other steps only a maintenance run unregisters at all.
THEOREM LeavingHasAReason == ServerSpec => LeavesForAReason
<1> DEFINE Reason(a) ==
      ProcessDisconnect(a) \/ Suspend \/ clients[a].silence > Timeout
<1>1. ASSUME Inv, ServerNext, NEW a \in Members(clients), clients'[a] = NoClient
      PROVE  Reason(a)
  <2> a \in Address /\ clients[a] # NoClient /\ clients[a] \in Client
    BY <1>1 DEF Members, Inv, ServerTypeOK, ClientsTypeOK
  <2> clients \in [Address -> Client \cup {NoClient}]
    BY <1>1 DEF Inv, ServerTypeOK, ClientsTypeOK
  <2> RegistryInv
    BY <1>1, InvRegistry
  <2>1. ASSUME NEW b \in Address, NEW c \in Compression, ProcessConnect(b, c)
        PROVE  FALSE
    <3>1. clients' = [clients EXCEPT ![b] = [compression |-> c, silence |-> 0]]
      BY <2>1, AddKeeps DEF ProcessConnect
    <3>2. [compression |-> c, silence |-> 0] \in Client
      BY DEF Client
    <3> QED
      BY <3>1, <3>2, <1>1, NoClientAssumption
  <2>2. ASSUME NEW b \in Address, NEW c \in Compression, ProcessSetFormat(b, c)
        PROVE  FALSE
    <3>1. clients' = IF b \in Members(clients)
                     THEN [clients EXCEPT ![b].compression = c]
                     ELSE clients
      BY <2>2, SetCompressionKeeps DEF ProcessSetFormat
    <3>2. [clients[a] EXCEPT !.compression = c] \in Client
      BY DEF Client
    <3> QED
      BY <3>1, <3>2, <1>1, NoClientAssumption
  <2>3. ASSUME NEW b \in Address, ProcessDisconnect(b) PROVE Reason(a)
    <3>1. clients' = [x \in Address |-> IF x = b THEN NoClient ELSE clients[x]]
      BY <2>3, RemoveKeeps DEF ProcessDisconnect
    <3>2. b = a
      BY <3>1, <1>1
    <3> QED
      BY <3>2, <2>3
  <2>4. ASSUME NEW b \in Address, ProcessKeepAlive(b) PROVE FALSE
    <3>1. clients' = IF b \in Members(clients)
                     THEN [clients EXCEPT ![b].silence = 0]
                     ELSE clients
      BY <2>4, KeepKeeps DEF ProcessKeepAlive
    <3>2. [clients[a] EXCEPT !.silence = 0] \in Client
      BY DEF Client
    <3> QED
      BY <3>1, <3>2, <1>1, NoClientAssumption
  <2>5. CASE Maintain
    <3>1. clients' = [x \in Address |->
                        IF x \in Expired THEN NoClient ELSE clients[x]]
      BY <2>5, EvictKeeps DEF Maintain
    <3>2. a \in Expired
      BY <3>1, <1>1
    <3> QED
      BY <3>2 DEF Expired
  <2>6. CASE Elapse
    <3>1. Members(clients') = Members(clients)
      BY <2>6, AgeKeeps DEF Elapse
    <3> QED
      BY <3>1, <1>1 DEF Members
  <2>7. ASSUME clients' = clients PROVE FALSE
    BY <2>7, <1>1
  <2> QED
    BY <1>1, <2>1, <2>2, <2>3, <2>4, <2>5, <2>6, <2>7
    DEF ServerNext, BackgroundNext, HandleSend, SendAudio, ReceiveFails, Shutdown, ShutdownFails,
        StartCapture, StopCapture, AddClientsListener, RemoveClientsListener,
        Ended, vars
<1>2. Inv /\ [ServerNext]_vars
        => [\A a \in Members(clients) : clients'[a] = NoClient =>
              ProcessDisconnect(a) \/ Suspend \/ clients[a].silence > Timeout]_vars
  BY <1>1
<1> QED
  BY <1>2, Invariance, PTL DEF ServerSpec, LeavesForAReason

-----------------------------------------------------------------------------
(***************************************************************************)
(* The server implements Sessions: under the mapping of Server!Promise     *)
(* every step of the server is a step of Sessions or changes nothing       *)
(* there.  What is sent comes from the cache, so the invariant Inv above   *)
(* is needed at every transmission.                                        *)
(***************************************************************************)

Formats == [a \in Address |-> FormatOf(a)]

\* The sessions are those of the registered clients, and the cache has them
\* by format.
LEMMA CacheHasFormats ==
  ASSUME Inv
  PROVE  /\ Promise!Connected = Members(clients)
         /\ Cached = Promise!Connected
         /\ \A c \in Compression : clientsCache[c] = {a \in Address : Formats[a] = c}
<1>1. \A a \in Members(clients) : clients[a].compression \in Compression
  <2>1. \A a \in Members(clients) : clients[a] \in Client
    BY DEF Inv, ServerTypeOK, ClientsTypeOK, Members
  <2> QED
    BY <2>1 DEF Client
<1>2. \A a \in Address : Formats[a] # NoClient <=> a \in Members(clients)
  BY <1>1, NoFormatAssumption DEF Formats, FormatOf, Members
<1>3. Promise!Connected = Members(clients)
  BY <1>2 DEF Promise!Connected, Formats, Members
<1>4. \A c \in Compression :
        clientsCache[c] = {a \in Members(clients) : clients[a].compression = c}
  BY DEF Inv, ViewsAgree
<1>5. \A a \in Address, c \in Compression :
        Formats[a] = c <=> a \in Members(clients) /\ clients[a].compression = c
  BY NoFormatAssumption DEF Formats, FormatOf, Members
<1>6. \A c \in Compression : clientsCache[c] = {a \in Address : Formats[a] = c}
  BY <1>4, <1>5 DEF Members
<1> QED
  BY <1>3, <1>6, CachedAreMembers

\* Clients that are erased leave, and the others keep their formats.
LEMMA EraseForgets ==
  ASSUME Inv, NEW gone \in SUBSET Members(clients),
         clients' = [a \in Address |-> IF a \in gone THEN NoClient ELSE clients[a]]
  PROVE  gone \in SUBSET Promise!Connected /\ Promise!Forget(gone)
<1>1. Formats' = [a \in Address |-> IF a \in gone THEN NoClient ELSE Formats[a]]
  BY DEF Formats, FormatOf
<1> QED
  BY <1>1, CacheHasFormats DEF Promise!Forget, Formats

\* Steps that touch neither formats nor transmissions are invisible.
LEMMA QuietIsStutter ==
  ASSUME UNCHANGED <<sent, status>>, \A a \in Address : FormatOf(a)' = FormatOf(a)
  PROVE  UNCHANGED Promise!sessions
BY DEF Promise!sessions

-----------------------------------------------------------------------------
LEMMA InitPromise == ServerInit => Promise!Init
BY DEF ServerInit, Promise!Init, FormatOf

\* Both requests for a format.
LEMMA ConnectSetsFormat ==
  ASSUME Inv, NEW a \in Address, NEW c \in Compression, ProcessConnect(a, c)
  PROVE  Formats' = [Formats EXCEPT ![a] = c]
<1>1. /\ clients' = [clients EXCEPT ![a] = [compression |-> c, silence |-> 0]]
      /\ clients \in [Address -> Client \cup {NoClient}]
  BY InvRegistry, AddKeeps DEF ProcessConnect, Inv, ServerTypeOK, ClientsTypeOK
<1>2. [compression |-> c, silence |-> 0] # NoClient
  <2>1. [compression |-> c, silence |-> 0] \in Client
    BY DEF Client
  <2> QED
    BY <2>1, NoClientAssumption
<1> QED
  BY <1>1, <1>2 DEF Formats, FormatOf

LEMMA SetFormatSetsFormat ==
  ASSUME Inv, NEW a \in Address, NEW c \in Compression, ProcessSetFormat(a, c)
  PROVE  Formats' = IF a \in Members(clients) THEN [Formats EXCEPT ![a] = c] ELSE Formats
<1>1. /\ clients' = IF a \in Members(clients)
                    THEN [clients EXCEPT ![a].compression = c]
                    ELSE clients
      /\ clients \in [Address -> Client \cup {NoClient}]
  BY InvRegistry, SetCompressionKeeps
  DEF ProcessSetFormat, Inv, ServerTypeOK, ClientsTypeOK
<1>2. CASE a \in Members(clients)
  <2>1. clients[a] \in Client
    BY <1>1, <1>2 DEF Members
  <2>2. /\ [clients[a] EXCEPT !.compression = c] \in Client
        /\ [clients[a] EXCEPT !.compression = c].compression = c
    BY <2>1 DEF Client
  <2>3. [clients[a] EXCEPT !.compression = c] # NoClient
    BY <2>2, NoClientAssumption
  <2>4. Formats' = [Formats EXCEPT ![a] = c]
    BY <1>1, <1>2, <2>2, <2>3 DEF Formats, FormatOf
  <2> QED
    BY <1>2, <2>4
<1>3. CASE a \notin Members(clients)
  BY <1>1, <1>3 DEF Formats, FormatOf
<1> QED
  BY <1>2, <1>3

LEMMA ConnectAsks ==
  ASSUME Inv, NEW a \in Address, NEW c \in Compression, ProcessConnect(a, c)
  PROVE  Promise!Next
<1>1. Promise!Ask(a, c)
  BY ConnectSetsFormat DEF Promise!Ask, Promise!Transmit, ProcessConnect, Send, Formats
<1> QED
  BY <1>1 DEF Promise!Next

LEMMA SetFormatAsks ==
  ASSUME Inv, NEW a \in Address, NEW c \in Compression, ProcessSetFormat(a, c)
  PROVE  Promise!Next
<1>1. CASE a \in Members(clients)
  <2>1. Formats' = [Formats EXCEPT ![a] = c]
    BY <1>1, SetFormatSetsFormat
  <2>2. Promise!Ask(a, c)
    BY <2>1 DEF Promise!Ask, Promise!Transmit, ProcessSetFormat, Send, Formats
  <2> QED
    BY <2>2 DEF Promise!Next
<1>2. CASE a \notin Members(clients)
  <2>1. a \notin Promise!Connected
    BY <1>2, CacheHasFormats
  <2>2. Formats' = Formats
    BY <1>2, SetFormatSetsFormat
  <2>3. Promise!AskAsStranger(a)
    BY <2>1, <2>2
    DEF Promise!AskAsStranger, Promise!Transmit, ProcessSetFormat, Send, Formats
  <2> QED
    BY <2>3 DEF Promise!Next
<1> QED
  BY <1>1, <1>2

\* The steps that may only make clients leave.
LEMMA Leaving ==
  ASSUME Inv, Suspend \/ \E a \in Address : ProcessDisconnect(a)
  PROVE  \E gone \in SUBSET Members(clients) :
           clients' = [a \in Address |-> IF a \in gone THEN NoClient ELSE clients[a]]
<1>1. CASE Suspend
  <2>1. clients' = [a \in Address |-> NoClient]
    BY <1>1, InvRegistry, RemoveAllKeeps DEF Suspend
  <2>2. clients' = [a \in Address |->
                      IF a \in Members(clients) THEN NoClient ELSE clients[a]]
    BY <2>1 DEF Members
  <2> QED
    BY <2>2
<1>2. ASSUME NEW b \in Address, ProcessDisconnect(b)
      PROVE  \E gone \in SUBSET Members(clients) :
               clients' = [a \in Address |-> IF a \in gone THEN NoClient ELSE clients[a]]
  <2> DEFINE gone == Members(clients) \cap {b}
  <2>1. clients' = [a \in Address |-> IF a = b THEN NoClient ELSE clients[a]]
    BY <1>2, InvRegistry, RemoveKeeps DEF ProcessDisconnect
  <2>2. clients' = [a \in Address |-> IF a \in gone THEN NoClient ELSE clients[a]]
    BY <2>1 DEF Members
  <2> QED
    BY <2>2
<1> QED
  BY <1>1, <1>2

LEMMA LeaveSteps ==
  ASSUME Inv, Suspend \/ \E a \in Address : ProcessDisconnect(a)
  PROVE  Promise!Next
<1>1. status = "running" /\ UNCHANGED <<sent, status>>
  BY DEF Suspend, ProcessDisconnect
<1>2. Promise!Leave
  BY <1>1, Leaving, EraseForgets DEF Promise!Leave
<1> QED
  BY <1>2 DEF Promise!Next

LEMMA MaintainRefreshes == ASSUME Inv, Maintain PROVE Promise!Next
<1>1. clients' = [a \in Address |-> IF a \in Expired THEN NoClient ELSE clients[a]]
  BY InvRegistry, EvictKeeps DEF Maintain
<1>2. Expired \in SUBSET Members(clients)
  BY DEF Expired
<1>3. /\ status = "running" /\ status' = status
      /\ sent' = [packet |-> "KeepAlive", to |-> Promise!Connected]
  BY CacheHasFormats DEF Maintain, Send
<1>4. Promise!Refresh
  BY <1>1, <1>2, <1>3, EraseForgets DEF Promise!Refresh, Promise!Transmit
<1> QED
  BY <1>4 DEF Promise!Next

\* The registry's times change, its formats do not.
LEMMA TimesAreInvisible ==
  ASSUME Inv, Elapse \/ \E a \in Address : ProcessKeepAlive(a)
  PROVE  UNCHANGED Promise!sessions
<1>1. clients \in [Address -> Client \cup {NoClient}]
  BY DEF Inv, ServerTypeOK, ClientsTypeOK
<1>2. \A r \in Client : \A n \in Nat :
        /\ [r EXCEPT !.silence = n].compression = r.compression
        /\ [r EXCEPT !.silence = n] \in Client
  BY DEF Client
<1>3. ASSUME Elapse, NEW a \in Address PROVE FormatOf(a)' = FormatOf(a)
  <2>1. CASE a \in Members(clients)
    <3>1. clients'[a] = [clients[a] EXCEPT !.silence = clients[a].silence + 1]
      BY <1>3, <2>1 DEF Elapse, Age
    <3>2. clients[a] \in Client /\ clients[a].silence + 1 \in Nat
      BY <1>1, <2>1 DEF Members, Client
    <3> QED
      BY <3>1, <3>2, <1>2, NoClientAssumption DEF FormatOf
  <2>2. CASE a \notin Members(clients)
    BY <1>3, <2>2 DEF Elapse, Age, FormatOf, Members
  <2> QED
    BY <2>1, <2>2
<1>4. ASSUME NEW b \in Address, ProcessKeepAlive(b), NEW a \in Address
      PROVE  FormatOf(a)' = FormatOf(a)
  <2>1. clients' = IF b \in Members(clients)
                   THEN [clients EXCEPT ![b].silence = 0]
                   ELSE clients
    BY <1>4, InvRegistry, KeepKeeps DEF ProcessKeepAlive
  <2>2. CASE a = b /\ b \in Members(clients)
    <3>1. clients'[a] = [clients[a] EXCEPT !.silence = 0] /\ clients[a] \in Client
      BY <1>1, <2>1, <2>2 DEF Members
    <3> QED
      BY <3>1, <1>2, NoClientAssumption DEF FormatOf
  <2>3. CASE ~(a = b /\ b \in Members(clients))
    BY <1>1, <2>1, <2>3 DEF FormatOf
  <2> QED
    BY <2>2, <2>3
<1>5. UNCHANGED <<sent, status>>
  BY DEF Elapse, ProcessKeepAlive
<1> QED
  BY <1>3, <1>4, <1>5, QuietIsStutter

\* The steps that send, or end, and leave the registry alone.
LEMMA SendSteps ==
  ASSUME Inv, UNCHANGED clients,
         \/ \E c \in Compression : SendAudio(c)
         \/ Shutdown \/ ShutdownFails \/ ReceiveFails
         \/ \E ok \in BOOLEAN : HandleSend(ok)
  PROVE  Promise!Next \/ UNCHANGED Promise!sessions
<1>1. Formats' = Formats /\ \A a \in Address : FormatOf(a)' = FormatOf(a)
  BY DEF Formats, FormatOf
<1>2. ASSUME NEW c \in Compression, SendAudio(c) PROVE Promise!Next
  <2>1. Promise!Play(c)
    BY <1>1, <1>2, CacheHasFormats
    DEF Promise!Play, Promise!Transmit, SendAudio, Send, Formats
  <2> QED
    BY <2>1 DEF Promise!Next
<1>3. CASE Shutdown
  <2>1. Promise!Close
    BY <1>1, <1>3, CacheHasFormats
    DEF Promise!Close, Promise!Transmit, Shutdown, Formats
  <2> QED
    BY <2>1 DEF Promise!Next
<1>4. CASE ShutdownFails
  <2>1. Promise!Fail
    BY <1>1, <1>4, CacheHasFormats
    DEF Promise!Fail, Promise!Transmit, ShutdownFails, Formats
  <2> QED
    BY <2>1 DEF Promise!Next
<1>5. CASE ReceiveFails
  <2>1. Promise!Fail
    BY <1>1, <1>5 DEF Promise!Fail, ReceiveFails, Formats
  <2> QED
    BY <2>1 DEF Promise!Next
<1>6. ASSUME NEW ok \in BOOLEAN, HandleSend(ok)
      PROVE  Promise!Next \/ UNCHANGED Promise!sessions
  <2>1. CASE ok
    BY <1>1, <1>6, <2>1, QuietIsStutter DEF HandleSend
  <2>2. CASE ~ok
    <3>1. Promise!Fail
      BY <1>1, <1>6, <2>2 DEF Promise!Fail, HandleSend, Formats
    <3> QED
      BY <3>1 DEF Promise!Next
  <2> QED
    BY <2>1, <2>2
<1> QED
  BY <1>2, <1>3, <1>4, <1>5, <1>6

\* Everything the server sends goes to those who asked for it last in the
\* format they asked for, whatever the network does (KeepsPromise).
THEOREM ServerKeepsPromise == ServerSpec => KeepsPromise
<1>1. Inv /\ [ServerNext]_vars => [Promise!Next]_(Promise!sessions)
  <2> SUFFICES ASSUME Inv, [ServerNext]_vars
               PROVE  Promise!Next \/ UNCHANGED Promise!sessions
    OBVIOUS
  <2>1. ASSUME NEW pipe \in Listener, StartCapture(pipe) \/ StopCapture(pipe)
        PROVE  UNCHANGED Promise!sessions
    <3>1. UNCHANGED <<clients, sent, status>>
      BY <2>1 DEF StartCapture, StopCapture, AddClientsListener, RemoveClientsListener
    <3>2. \A a \in Address : FormatOf(a)' = FormatOf(a)
      BY <3>1 DEF FormatOf
    <3> QED
      BY <3>1, <3>2, QuietIsStutter
  <2>2. CASE UNCHANGED vars
    <3>1. UNCHANGED <<clients, sent, status>>
      BY <2>2 DEF vars
    <3>2. \A a \in Address : FormatOf(a)' = FormatOf(a)
      BY <3>1 DEF FormatOf
    <3> QED
      BY <3>1, <3>2, QuietIsStutter
  <2>3. CASE \/ \E c \in Compression : SendAudio(c)
             \/ Shutdown \/ ShutdownFails \/ ReceiveFails
             \/ \E ok \in BOOLEAN : HandleSend(ok)
    <3>1. UNCHANGED clients
      BY <2>3 DEF SendAudio, Shutdown, ShutdownFails, ReceiveFails, HandleSend
    <3> QED
      BY <2>3, <3>1, SendSteps
  <2> QED
    BY <2>1, <2>2, <2>3, ConnectAsks, SetFormatAsks, LeaveSteps,
       MaintainRefreshes, TimesAreInvisible
    DEF ServerNext, BackgroundNext, Ended
<1> QED
  BY <1>1, InitPromise, Invariance, PTL DEF ServerSpec, KeepsPromise, Promise!Spec
=============================================================================
