--------------------------- MODULE Clients_proofs ---------------------------
(***************************************************************************)
(* The registry keeps its listeners up to date, for any set of addresses,  *)
(* compressions and listeners and any timeout.                             *)
(*                                                                         *)
(* Every operation stores some registry `cs' and either notifies or knows  *)
(* that the infos of `cs' are those it had, so one lemma about Store does  *)
(* the work and each operation only has to fit it.                         *)
(***************************************************************************)
EXTENDS Clients, TLAPS

Registry == [Address -> Client \cup {NoClient}]
RegistryInv == ClientsTypeOK /\ ListenersUpToDate

\* The infos of a registry are a set of infos, and so never the value that
\* stands for a listener that is not registered.
LEMMA InfosType ==
  ASSUME NEW cs \in Registry
  PROVE  /\ InfosOf(cs) \in SUBSET ClientInfo
         /\ InfosOf(cs) # NotListening
<1>1. \A a \in Members(cs) : cs[a] \in Client
  BY DEF Registry, Members
<1>2. InfosOf(cs) \in SUBSET ClientInfo
  BY <1>1 DEF InfosOf, Members, Client, ClientInfo
<1> QED
  BY <1>2, NotListeningAssumption

\* Store keeps the registry well typed and its listeners up to date, when it
\* skips the notification only for a registry with the same infos.
LEMMA StoreKeeps ==
  ASSUME RegistryInv,
         NEW cs \in Registry,
         NEW notify \in BOOLEAN,
         ~notify => InfosOf(cs) = InfosOf(clients),
         Store(cs, notify)
  PROVE  RegistryInv' /\ Listening' = Listening /\ clients' = cs
<1>1. clients' = cs
  BY DEF Store
<1>2. InfosOf(cs) \in SUBSET ClientInfo /\ InfosOf(cs) # NotListening
  BY InfosType
<1>3. InfosOf(clients') = InfosOf(cs)
  BY <1>1
<1>4. CASE notify
  <2>1. clientInfos' = InfosOf(cs)
    BY <1>4 DEF Store, UpdateAndNotify
  <2>2. heard' = [l \in Listener |->
                    IF l \in Listening THEN InfosOf(cs) ELSE NotListening]
    BY <1>4 DEF Store, UpdateAndNotify
  <2>3. Listening' = Listening
    BY <2>2, <1>2 DEF Listening
  <2>4. \A l \in Listening' : heard'[l] = InfosOf(cs)
    BY <2>2, <2>3 DEF Listening
  <2>5. ClientsTypeOK'
    BY <1>1, <1>2, <2>1, <2>2 DEF ClientsTypeOK, Registry
  <2> QED
    BY <1>1, <1>3, <2>1, <2>3, <2>4, <2>5 DEF RegistryInv, ListenersUpToDate
<1>5. CASE ~notify
  <2>1. clientInfos' = clientInfos /\ heard' = heard
    BY <1>5 DEF Store
  <2>2. Listening' = Listening
    BY <2>1 DEF Listening
  <2>3. InfosOf(clients') = InfosOf(clients)
    BY <1>3, <1>5
  <2>4. ClientsTypeOK'
    BY <1>1, <2>1 DEF RegistryInv, ClientsTypeOK, Registry
  <2> QED
    BY <1>1, <2>1, <2>2, <2>3, <2>4 DEF RegistryInv, ListenersUpToDate
<1> QED
  BY <1>4, <1>5

\* Two registries with the same members in the same formats have the same
\* infos.
LEMMA SameInfos ==
  ASSUME NEW cs, NEW ds,
         Members(cs) = Members(ds),
         \A a \in Members(cs) : cs[a].compression = ds[a].compression
  PROVE  InfosOf(cs) = InfosOf(ds)
BY DEF InfosOf

-----------------------------------------------------------------------------
\* Each operation of the registry, with the registry it leaves behind.
LEMMA AddKeeps ==
  ASSUME RegistryInv, NEW a \in Address, NEW c \in Compression, Add(a, c)
  PROVE  /\ RegistryInv' /\ Listening' = Listening
         /\ clients' = [clients EXCEPT ![a] = [compression |-> c, silence |-> 0]]
<1> DEFINE cs == [clients EXCEPT ![a] = [compression |-> c, silence |-> 0]]
           notify == IF a \in Members(clients) THEN clients[a].compression # c
                                               ELSE TRUE
<1>1. clients \in Registry
  BY DEF RegistryInv, ClientsTypeOK, Registry
<1>2. [compression |-> c, silence |-> 0] \in Client
  BY DEF Client
<1>3. cs \in Registry
  BY <1>1, <1>2 DEF Registry
<1>4. ASSUME ~notify PROVE InfosOf(cs) = InfosOf(clients)
  <2>1. a \in Members(clients) /\ clients[a].compression = c
    BY <1>4
  <2>2. Members(cs) = Members(clients)
    BY <2>1, <1>1, <1>2, NoClientAssumption DEF Members, Registry
  <2>3. \A b \in Members(cs) : cs[b].compression = clients[b].compression
    BY <2>1, <1>1 DEF Members, Registry
  <2> QED
    BY <2>2, <2>3, SameInfos
<1>5. notify \in BOOLEAN /\ Store(cs, notify)
  BY DEF Add
<1> HIDE DEF cs, notify
<1>6. RegistryInv' /\ Listening' = Listening /\ clients' = cs
  BY <1>3, <1>4, <1>5, StoreKeeps
<1> QED
  BY <1>6 DEF cs

LEMMA SetCompressionKeeps ==
  ASSUME RegistryInv, NEW a \in Address, NEW c \in Compression,
         SetCompression(a, c)
  PROVE  /\ RegistryInv' /\ Listening' = Listening
         /\ clients' = IF a \in Members(clients)
                       THEN [clients EXCEPT ![a].compression = c]
                       ELSE clients
<1> DEFINE cs == [clients EXCEPT ![a].compression = c]
           notify == clients[a].compression # c
<1>1. clients \in Registry
  BY DEF RegistryInv, ClientsTypeOK, Registry
<1>2. CASE a \in Members(clients)
  <2>1. clients[a] \in Client
    BY <1>1, <1>2 DEF Members, Registry
  <2>2. [clients[a] EXCEPT !.compression = c] \in Client
    BY <2>1 DEF Client
  <2>3. cs \in Registry
    BY <1>1, <2>2 DEF Registry
  <2>4. ASSUME ~notify PROVE InfosOf(cs) = InfosOf(clients)
    <3>1. Members(cs) = Members(clients)
      BY <1>1, <1>2, <2>2, NoClientAssumption DEF Members, Registry
    <3>2. \A b \in Members(cs) : cs[b].compression = clients[b].compression
      BY <1>1, <2>1, <2>4 DEF Members, Registry, Client
    <3> QED
      BY <3>1, <3>2, SameInfos
  <2>5. notify \in BOOLEAN /\ Store(cs, notify)
    BY <1>2 DEF SetCompression
  <2> HIDE DEF cs, notify
  <2>6. RegistryInv' /\ Listening' = Listening /\ clients' = cs
    BY <2>3, <2>4, <2>5, StoreKeeps
  <2> QED
    BY <1>2, <2>6 DEF cs
<1>3. CASE a \notin Members(clients)
  <2>1. UNCHANGED registry
    BY <1>3 DEF SetCompression
  <2> QED
    BY <1>3, <2>1 DEF registry, RegistryInv, ClientsTypeOK, ListenersUpToDate,
                      InfosOf, Listening, Members
<1> QED
  BY <1>2, <1>3

LEMMA KeepKeeps ==
  ASSUME RegistryInv, NEW a \in Address, Keep(a)
  PROVE  /\ RegistryInv' /\ Listening' = Listening
         /\ clients' = IF a \in Members(clients)
                       THEN [clients EXCEPT ![a].silence = 0]
                       ELSE clients
<1> DEFINE cs == [clients EXCEPT ![a].silence = 0]
<1>1. clients \in Registry
  BY DEF RegistryInv, ClientsTypeOK, Registry
<1>2. CASE a \in Members(clients)
  <2>1. clients[a] \in Client
    BY <1>1, <1>2 DEF Members, Registry
  <2>2. [clients[a] EXCEPT !.silence = 0] \in Client
    BY <2>1 DEF Client
  <2>3. cs \in Registry
    BY <1>1, <2>2 DEF Registry
  <2>4. Members(cs) = Members(clients)
    BY <1>1, <1>2, <2>2, NoClientAssumption DEF Members, Registry
  <2>5. \A b \in Members(cs) : cs[b].compression = clients[b].compression
    BY <1>1, <2>1 DEF Members, Registry, Client
  <2>6. InfosOf(cs) = InfosOf(clients)
    BY <2>4, <2>5, SameInfos
  <2>7. Store(cs, FALSE)
    BY <1>2 DEF Keep
  <2> HIDE DEF cs
  <2>8. RegistryInv' /\ Listening' = Listening /\ clients' = cs
    BY <2>3, <2>6, <2>7, StoreKeeps
  <2> QED
    BY <1>2, <2>8 DEF cs
<1>3. CASE a \notin Members(clients)
  <2>1. UNCHANGED registry
    BY <1>3 DEF Keep
  <2> QED
    BY <1>3, <2>1 DEF registry, RegistryInv, ClientsTypeOK, ListenersUpToDate,
                      InfosOf, Listening, Members
<1> QED
  BY <1>2, <1>3

\* Remove, RemoveAll and Evict take some addresses out.
LEMMA TakingOutKeeps ==
  ASSUME RegistryInv,
         NEW out \in SUBSET Address,
         NEW cs,
         cs = [a \in Address |-> IF a \in out THEN NoClient ELSE clients[a]],
         NEW notify \in BOOLEAN,
         ~notify => out \cap Members(clients) = {},
         Store(cs, notify)
  PROVE  RegistryInv' /\ Listening' = Listening /\ clients' = cs
<1>1. clients \in Registry
  BY DEF RegistryInv, ClientsTypeOK, Registry
<1>2. cs \in Registry
  BY <1>1 DEF Registry
<1>3. ASSUME ~notify PROVE InfosOf(cs) = InfosOf(clients)
  <2>1. cs = clients
    BY <1>1, <1>3 DEF Members, Registry
  <2> QED
    BY <2>1
<1> QED
  BY <1>2, <1>3, StoreKeeps

LEMMA RemoveKeeps ==
  ASSUME RegistryInv, NEW a \in Address, Remove(a)
  PROVE  /\ RegistryInv' /\ Listening' = Listening
         /\ clients' = [b \in Address |-> IF b = a THEN NoClient ELSE clients[b]]
<1> DEFINE cs == [b \in Address |-> IF b \in {a} THEN NoClient ELSE clients[b]]
           notify == a \in Members(clients)
<1>1. cs = [clients EXCEPT ![a] = NoClient]
  BY DEF RegistryInv, ClientsTypeOK
<1>2. notify \in BOOLEAN /\ Store(cs, notify)
  BY <1>1 DEF Remove
<1>3. ~notify => {a} \cap Members(clients) = {}
  OBVIOUS
<1> HIDE DEF cs, notify
<1>4. cs = [b \in Address |-> IF b \in {a} THEN NoClient ELSE clients[b]]
  BY DEF cs
<1>5. RegistryInv' /\ Listening' = Listening /\ clients' = cs
  BY <1>2, <1>3, <1>4, TakingOutKeeps
<1> QED
  BY <1>4, <1>5

LEMMA RemoveAllKeeps ==
  ASSUME RegistryInv, RemoveAll
  PROVE  /\ RegistryInv' /\ Listening' = Listening
         /\ clients' = [a \in Address |-> NoClient]
<1> DEFINE cs == [a \in Address |-> IF a \in Address THEN NoClient ELSE clients[a]]
           notify == Members(clients) # {}
<1>1. cs = [a \in Address |-> NoClient]
  OBVIOUS
<1>2. notify \in BOOLEAN /\ Store(cs, notify)
  BY <1>1 DEF RemoveAll
<1>3. ~notify => Address \cap Members(clients) = {}
  OBVIOUS
<1> HIDE DEF cs, notify
<1>4. cs = [a \in Address |-> IF a \in Address THEN NoClient ELSE clients[a]]
  BY DEF cs
<1>5. RegistryInv' /\ Listening' = Listening /\ clients' = cs
  BY <1>2, <1>3, <1>4, TakingOutKeeps
<1> QED
  BY <1>1, <1>5

LEMMA EvictKeeps ==
  ASSUME RegistryInv, Evict
  PROVE  /\ RegistryInv' /\ Listening' = Listening
         /\ clients' = [a \in Address |->
                          IF a \in Expired THEN NoClient ELSE clients[a]]
<1> DEFINE cs == [a \in Address |-> IF a \in Expired THEN NoClient ELSE clients[a]]
           notify == Expired # {}
<1>1. notify \in BOOLEAN /\ Store(cs, notify)
  BY DEF Evict
<1>2. ~notify => Expired \cap Members(clients) = {}
  OBVIOUS
<1>3. Expired \in SUBSET Address
  BY DEF Expired, Members
<1> HIDE DEF cs, notify
<1>4. cs = [a \in Address |-> IF a \in Expired THEN NoClient ELSE clients[a]]
  BY DEF cs
<1>5. RegistryInv' /\ Listening' = Listening /\ clients' = cs
  BY <1>1, <1>2, <1>3, <1>4, TakingOutKeeps
<1> QED
  BY <1>4, <1>5

LEMMA AgeKeeps ==
  ASSUME RegistryInv, Age
  PROVE  RegistryInv' /\ Listening' = Listening /\ Members(clients') = Members(clients)
<1>1. clients \in Registry
  BY DEF RegistryInv, ClientsTypeOK, Registry
<1>2. \A a \in Members(clients) :
        /\ clients[a] \in Client
        /\ clients'[a] = [clients[a] EXCEPT !.silence = @ + 1]
  BY <1>1 DEF Age, Members, Registry
<1>3. \A a \in Members(clients) :
        /\ clients'[a] \in Client
        /\ clients'[a].compression = clients[a].compression
  <2> SUFFICES ASSUME NEW a \in Members(clients)
               PROVE  /\ clients'[a] \in Client
                      /\ clients'[a].compression = clients[a].compression
    OBVIOUS
  <2>1. PICK r \in Client : r = clients[a]
    BY <1>2
  <2>2. [r EXCEPT !.silence = @ + 1] \in Client
        /\ [r EXCEPT !.silence = @ + 1].compression = r.compression
    BY DEF Client
  <2> QED
    BY <1>2, <2>1, <2>2
<1>4. \A a \in Address \ Members(clients) : clients'[a] = NoClient
  BY DEF Age
<1>5. Members(clients') = Members(clients)
  BY <1>3, <1>4, NoClientAssumption DEF Members
<1>6. clients' = [a \in Address |-> clients'[a]]
  BY DEF Age
<1>7. clients' \in Registry
  BY <1>3, <1>4, <1>6 DEF Registry
<1>8. InfosOf(clients') = InfosOf(clients)
  BY <1>3, <1>5, SameInfos
<1>9. clientInfos' = clientInfos /\ heard' = heard
  BY DEF Age
<1>10. Listening' = Listening
  BY <1>9 DEF Listening
<1> QED
  BY <1>5, <1>7, <1>8, <1>9, <1>10
  DEF RegistryInv, ClientsTypeOK, ListenersUpToDate, Registry

\* A listener is told the infos when it joins, and the others keep theirs.
LEMMA ListenerJoins ==
  ASSUME RegistryInv, NEW l \in Listener, AddClientsListener(l)
  PROVE  /\ RegistryInv' /\ clients' = clients
         /\ \A k \in Listener \ {l} : k \in Listening => k \in Listening'
<1>1. heard' = [heard EXCEPT ![l] = clientInfos]
      /\ clients' = clients /\ clientInfos' = clientInfos
  BY DEF AddClientsListener
<1>2. ClientsTypeOK'
  BY <1>1 DEF RegistryInv, ClientsTypeOK
<1>3. \A k \in Listening' : heard'[k] = clientInfos
  BY <1>1 DEF RegistryInv, ListenersUpToDate, ClientsTypeOK, Listening
<1>4. InfosOf(clients') = InfosOf(clients)
  BY <1>1
<1>5. \A k \in Listener \ {l} : k \in Listening => k \in Listening'
  BY <1>1 DEF RegistryInv, ClientsTypeOK, Listening
<1> QED
  BY <1>1, <1>2, <1>3, <1>4, <1>5 DEF RegistryInv, ListenersUpToDate

LEMMA ListenerLeaves ==
  ASSUME RegistryInv, NEW l \in Listener, RemoveClientsListener(l)
  PROVE  /\ RegistryInv' /\ clients' = clients
         /\ \A k \in Listener \ {l} : k \in Listening => k \in Listening'
<1>1. heard' = [heard EXCEPT ![l] = NotListening]
      /\ clients' = clients /\ clientInfos' = clientInfos
  BY DEF RemoveClientsListener
<1>2. ClientsTypeOK'
  BY <1>1 DEF RegistryInv, ClientsTypeOK
<1>3. \A k \in Listening' : heard'[k] = clientInfos
  BY <1>1 DEF RegistryInv, ListenersUpToDate, ClientsTypeOK, Listening
<1>4. InfosOf(clients') = InfosOf(clients)
  BY <1>1
<1>5. \A k \in Listener \ {l} : k \in Listening => k \in Listening'
  BY <1>1 DEF RegistryInv, ClientsTypeOK, Listening
<1> QED
  BY <1>1, <1>2, <1>3, <1>4, <1>5 DEF RegistryInv, ListenersUpToDate

-----------------------------------------------------------------------------
\* The registry and its listeners agree at the end of every operation, for
\* any callers and any listeners that come and go (ListenersUpToDate, and the
\* types it rests on).
THEOREM RegistrySafe == ClientsSpec => [](ClientsTypeOK /\ ListenersUpToDate)
<1>1. ClientsInit => RegistryInv
  BY DEF ClientsInit, RegistryInv, ClientsTypeOK, ListenersUpToDate, InfosOf,
         Members, Listening
<1>2. RegistryInv /\ [ClientsNext]_registry => RegistryInv'
  <2> SUFFICES ASSUME RegistryInv, [ClientsNext]_registry PROVE RegistryInv'
    OBVIOUS
  <2>1. ASSUME NEW a \in Address, NEW c \in Compression, Add(a, c)
        PROVE  RegistryInv'
    BY <2>1, AddKeeps
  <2>2. ASSUME NEW a \in Address, NEW c \in Compression, SetCompression(a, c)
        PROVE  RegistryInv'
    BY <2>2, SetCompressionKeeps
  <2>3. ASSUME NEW a \in Address, Keep(a) PROVE RegistryInv'
    BY <2>3, KeepKeeps
  <2>4. ASSUME NEW a \in Address, Remove(a) PROVE RegistryInv'
    BY <2>4, RemoveKeeps
  <2>5. CASE RemoveAll
    BY <2>5, RemoveAllKeeps
  <2>6. CASE Evict
    BY <2>6, EvictKeeps
  <2>7. ASSUME NEW l \in Listener, AddClientsListener(l) PROVE RegistryInv'
    BY <2>7, ListenerJoins
  <2>8. ASSUME NEW l \in Listener, RemoveClientsListener(l) PROVE RegistryInv'
    BY <2>8, ListenerLeaves
  <2>9. CASE Age
    BY <2>9, AgeKeeps
  <2>10. CASE UNCHANGED registry
    BY <2>10 DEF registry, RegistryInv, ClientsTypeOK, ListenersUpToDate,
                 InfosOf, Listening, Members
  <2> QED
    BY <2>1, <2>2, <2>3, <2>4, <2>5, <2>6, <2>7, <2>8, <2>9, <2>10
    DEF ClientsNext
<1> QED
  BY <1>1, <1>2, PTL DEF ClientsSpec, RegistryInv
=============================================================================
