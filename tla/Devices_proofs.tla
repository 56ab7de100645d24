--------------------------- MODULE Devices_proofs ---------------------------
(***************************************************************************)
(* That the device repository catches up with the system, and keeps what   *)
(* the user selected, for any devices and any number of notifications.     *)
(*                                                                         *)
(* The properties say what holds when no notification is left.  What is    *)
(* inductive says, of every way the repository may differ from the system  *)
(* meanwhile, which notification that still waits will mend it: Waits for  *)
(* the repository, and from the second notification on for the answers of  *)
(* a listing, since the first is the one that is being handled.  Which     *)
(* notifications mend what depends on their order, and Followed says what  *)
(* the system guarantees of that.                                          *)
(***************************************************************************)
EXTENDS Devices, FiniteSetTheorems, SequenceTheorems, TLAPS

DefaultIds == [flow \in Flow |-> IdsOf[flow] \cup {NoId}]
Removals == {Removed(id) : id \in Ids}
Relists == {Added} \cup Removals
Changes(flow) == {DefaultChanged(flow, id) : id \in DefaultIds[flow]}
Event == Relists \cup Changes("render") \cup Changes("capture")

IdsAsked(flow) == asked >= IF flow = "render" THEN 1 ELSE 3
DefaultAsked(flow) == asked >= IF flow = "render" THEN 2 ELSE 4

\* One of these waits in the queue, at place n or later.
Waits(queue, n, these) == \E i \in n..Len(queue) : queue[i] \in these

\* Each of these is followed by one of those.
Followed(queue, these, those) ==
  \A i \in 1..Len(queue) : queue[i] \in these =>
    \E j \in i + 1..Len(queue) : queue[j] \in those

SystemOK ==
  /\ active \in SUBSET Ids
  /\ osDefault \in [Flow -> Ids \cup {NoId}]
  /\ \A flow \in Flow : IF active \cap IdsOf[flow] = {} THEN osDefault[flow] = NoId
                        ELSE osDefault[flow] \in active \cap IdsOf[flow]
  /\ events \in Seq(Event)
  /\ phase # "listening" => events = <<>>

ListingOK ==
  /\ asked \in 0..4
  /\ answers \in [ids : Seq(Ids), defaults : [Flow -> Ids \cup {NoId}]]
  /\ \A flow \in Flow : answers.defaults[flow] \in DefaultIds[flow]
  /\ \A flow \in Flow : ~IdsAsked(flow) => Range(answers.ids) \cap IdsOf[flow] = {}
  /\ asked > 0 => \/ phase = "start"
                  \/ phase = "listening" /\ events # <<>> /\ events[1] \in Relists

RepositoryOK ==
  /\ phase \in {"start", "listed", "selected", "listening", "ended"}
  /\ deviceIds \in Seq(Ids)
  /\ currentKey \in 1..Len(deviceIds) \cup {NoKey, -1, -2}
  /\ defaults \in [Flow -> Ids \cup {NoId}]
  /\ \A flow \in Flow : defaults[flow] \in DefaultIds[flow]
  /\ captured \in active \cup {NoId}
  /\ phase \in {"start", "listed"} =>
       currentKey = NoKey /\ shownKey = NoKey /\ captured = NoId

\* A default that is no more is followed by the next one, also where the
\* notification of its device comes after it; and when a flow that had no
\* device has one again, its device is yet to be told of.
OrderOfEvents ==
  \A flow \in Flow :
    /\ Followed(events, Changes(flow) \ {DefaultChanged(flow, osDefault[flow])},
                Changes(flow))
    /\ Followed(events, {Removed(osDefault[flow])}, Changes(flow))
    /\ active \cap IdsOf[flow] # {} =>
         Followed(events, {DefaultChanged(flow, NoId)}, {Added})

\* The answers lag behind only as far as notifications wait behind the one
\* that is being handled.
AnswersFollow(flow) ==
  /\ IdsAsked(flow) => \A id \in IdsOf[flow] :
       /\ id \in Range(answers.ids) \ active => Waits(events, 2, {Removed(id)})
       /\ id \in active \ Range(answers.ids) => Waits(events, 2, {Added})
  /\ IdsAsked(flow) /\ ~DefaultAsked(flow) /\ Range(answers.ids) \cap IdsOf[flow] = {} =>
       osDefault[flow] = NoId \/ Waits(events, 2, Changes(flow))
  /\ DefaultAsked(flow) =>
       /\ answers.defaults[flow] = osDefault[flow] \/ Waits(events, 2, Changes(flow))
       /\ answers.defaults[flow] # NoId => Range(answers.ids) \cap IdsOf[flow] # {}
       /\ answers.defaults[flow] = NoId =>
            \A id \in Range(answers.ids) \cap IdsOf[flow] : Waits(events, 2, {Removed(id)})

Following == phase \in {"listed", "selected", "listening"} /\ ~missed

ListFollows ==
  /\ \A id \in Range(deviceIds) \ active : Waits(events, 1, {Removed(id)})
  /\ \A id \in active \ Range(deviceIds) : Waits(events, 1, {Added})

DefaultsFollow ==
  \A flow \in Flow : defaults[flow] = osDefault[flow] \/ Waits(events, 1, Changes(flow))

\* A default that is listed without being there, a selected default whose
\* flow is gone, and a combo box that shows something else, are mended by
\* the next listing.
SelectionFollows ==
  /\ \A flow \in Flow :
       /\ defaults[flow] = NoId /\ Range(deviceIds) \cap IdsOf[flow] # {} =>
            Waits(events, 1, Relists)
       /\ currentKey = DefaultKey[flow] /\ active \cap IdsOf[flow] = {} =>
            Waits(events, 1, Removals)
  /\ shownKey # currentKey => Waits(events, 1, Relists)

\* What is captured is the selected device, or nothing if that has gone and
\* will be told of; a selected default is captured unless it has changed.
CaptureFollows ==
  /\ currentKey = NoKey => captured = NoId
  /\ currentKey > 0 =>
       LET id == deviceIds[currentKey] IN
       /\ captured = id \/ (captured = NoId /\ Waits(events, 1, {Removed(id)}))
       /\ \A flow \in Flow :
            IdsAsked(flow) /\ id \in IdsOf[flow] \ Range(answers.ids) => captured = NoId
  /\ \A flow \in Flow : currentKey = DefaultKey[flow] =>
       /\ captured \in DefaultIds[flow]
       /\ captured = osDefault[flow] \/ Waits(events, 1, Changes(flow))
       /\ IdsAsked(flow) /\ Range(answers.ids) \cap IdsOf[flow] = {} => captured = NoId
       /\ DefaultAsked(flow) /\ answers.defaults[flow] = NoId => captured = NoId

DevicesInv ==
  /\ SystemOK
  /\ ListingOK
  /\ RepositoryOK
  /\ SelectionIsSaved
  /\ OrderOfEvents
  /\ ~missed => \A flow \in Flow : AnswersFollow(flow)
  /\ Following => ListFollows /\ DefaultsFollow /\ SelectionFollows
  /\ Following /\ ~lateSelect => CaptureFollows

-----------------------------------------------------------------------------
(***************************************************************************)
(* Queues, which grow at the end while the first notification is handled.  *)
(***************************************************************************)

LEMMA RangeIsValues ==
  ASSUME NEW S, NEW s \in Seq(S)
  PROVE  /\ Range(s) \subseteq S
         /\ \A i \in 1..Len(s) : s[i] \in Range(s)
         /\ \A e \in Range(s) : \E i \in 1..Len(s) : s[i] = e
<1>1. Range(s) = {s[i] : i \in 1..Len(s)}
  BY RangeEquality
<1> QED
  BY <1>1

LEMMA Singleton ==
  ASSUME NEW S, NEW e \in S
  PROVE  <<e>> \in Seq(S) /\ Range(<<e>>) = {e}
<1> DEFINE s == <<e>>
<1>1. s \in Seq(S) /\ Len(s) = 1 /\ s[1] = e
  OBVIOUS
<1> HIDE DEF s
<1>2. Range(s) \subseteq {e}
  <2> SUFFICES ASSUME NEW x \in Range(s) PROVE x = e
    OBVIOUS
  <2>1. PICK i \in 1..Len(s) : s[i] = x
    BY <1>1, RangeIsValues
  <2> QED
    BY <1>1, <2>1
<1>3. e \in Range(s)
  <2>1. \A i \in 1..Len(s) : s[i] \in Range(s)
    BY <1>1, RangeIsValues
  <2> QED
    BY <1>1, <2>1
<1> QED
  BY <1>1, <1>2, <1>3 DEF s

LEMMA WaitsOn ==
  ASSUME NEW S, NEW s \in Seq(S), NEW t \in Seq(S), NEW n \in {1, 2}, NEW these,
         Waits(s, n, these)
  PROVE  Waits(s \o t, n, these)
<1>1. PICK i \in n..Len(s) : s[i] \in these
  BY DEF Waits
<1>2. i \in n..Len(s \o t) /\ (s \o t)[i] = s[i]
  BY <1>1, ConcatProperties
<1> QED
  BY <1>1, <1>2 DEF Waits

LEMMA WaitsAtTheEnd ==
  ASSUME NEW S, NEW s \in Seq(S), NEW t \in Seq(S), NEW n \in {1, 2}, n <= Len(s) + 1,
         NEW these, Range(t) \cap these # {}
  PROVE  Waits(s \o t, n, these)
<1>1. PICK k \in 1..Len(t) : t[k] \in these
  BY RangeIsValues
<1>2. Len(s) + k \in n..Len(s \o t) /\ (s \o t)[Len(s) + k] = t[k]
  BY <1>1, ConcatProperties
<1> QED
  BY <1>1, <1>2 DEF Waits

LEMMA WaitsBehind ==
  ASSUME NEW S, NEW s \in Seq(S), s # <<>>, NEW these
  PROVE  /\ Waits(Tail(s), 1, these) <=> Waits(s, 2, these)
         /\ Waits(s, 1, these) <=> s[1] \in these \/ Waits(s, 2, these)
<1>1. /\ Len(Tail(s)) = Len(s) - 1 /\ Len(s) \in Nat /\ Len(s) > 0
      /\ \A i \in 1..Len(Tail(s)) : Tail(s)[i] = s[i + 1]
  BY HeadTailProperties
<1>2. ASSUME Waits(Tail(s), 1, these) PROVE Waits(s, 2, these)
  <2>1. PICK i \in 1..Len(Tail(s)) : Tail(s)[i] \in these
    BY <1>2 DEF Waits
  <2>2. i + 1 \in 2..Len(s) /\ s[i + 1] \in these
    BY <1>1, <2>1
  <2> QED
    BY <2>2 DEF Waits
<1>3. ASSUME Waits(s, 2, these) PROVE Waits(Tail(s), 1, these)
  <2>1. PICK i \in 2..Len(s) : s[i] \in these
    BY <1>3 DEF Waits
  <2>2. i - 1 \in 1..Len(Tail(s)) /\ Tail(s)[i - 1] = s[i]
    BY <1>1, <2>1
  <2> QED
    BY <2>1, <2>2 DEF Waits
<1>4. 1..Len(s) = {1} \cup 2..Len(s)
  BY <1>1
<1> QED
  BY <1>2, <1>3, <1>4 DEF Waits

LEMMA WaitsForMore ==
  ASSUME NEW s, NEW n, NEW these, NEW those, these \subseteq those, Waits(s, n, these)
  PROVE  Waits(s, n, those)
BY DEF Waits

LEMMA NobodyWaits ==
  ASSUME NEW n \in {1, 2}, NEW these
  PROVE  ~Waits(<<>>, n, these)
BY DEF Waits

LEMMA FollowedBehind ==
  ASSUME NEW S, NEW s \in Seq(S), s # <<>>, NEW these, NEW those,
         Followed(s, these, those)
  PROVE  /\ Followed(Tail(s), these, those)
         /\ s[1] \in these => Waits(s, 2, those)
<1>1. /\ Len(Tail(s)) = Len(s) - 1 /\ Len(s) \in Nat /\ Len(s) > 0
      /\ \A i \in 1..Len(Tail(s)) : Tail(s)[i] = s[i + 1]
  BY HeadTailProperties
<1>2. ASSUME NEW i \in 1..Len(Tail(s)), Tail(s)[i] \in these
      PROVE  \E j \in i + 1..Len(Tail(s)) : Tail(s)[j] \in those
  <2>1. i + 1 \in 1..Len(s) /\ s[i + 1] \in these
    BY <1>1, <1>2
  <2>2. PICK j \in (i + 1) + 1..Len(s) : s[j] \in those
    BY <2>1 DEF Followed
  <2>3. j - 1 \in i + 1..Len(Tail(s)) /\ Tail(s)[j - 1] = s[j]
    BY <1>1, <2>2
  <2> QED
    BY <2>2, <2>3
<1>3. 1 \in 1..Len(s) /\ 1 + 1 = 2
  BY <1>1
<1> QED
  BY <1>2, <1>3 DEF Followed, Waits

LEMMA FollowedOn ==
  ASSUME NEW S, NEW s \in Seq(S), NEW t \in Seq(S), NEW these, NEW those,
         Range(t) \cap these = {},
         Followed(s, these, those) \/ Range(t) \cap those # {}
  PROVE  Followed(s \o t, these, those)
<1>1. /\ Len(s \o t) = Len(s) + Len(t) /\ Len(s) \in Nat /\ Len(t) \in Nat
      /\ \A i \in 1..Len(s) : (s \o t)[i] = s[i]
      /\ \A k \in 1..Len(t) : (s \o t)[Len(s) + k] = t[k]
  BY ConcatProperties
<1>2. ASSUME NEW i \in 1..Len(s \o t), (s \o t)[i] \in these
      PROVE  i \in 1..Len(s)
  <2>1. CASE i \notin 1..Len(s)
    <3>1. i - Len(s) \in 1..Len(t) /\ i = Len(s) + (i - Len(s))
      BY <1>1, <2>1
    <3>2. (s \o t)[i] \in Range(t)
      BY <1>1, <3>1, RangeIsValues
    <3> QED
      BY <1>2, <3>2
  <2> QED
    BY <2>1
<1>3. CASE Followed(s, these, those)
  <2>1. ASSUME NEW i \in 1..Len(s \o t), (s \o t)[i] \in these
        PROVE  \E j \in i + 1..Len(s \o t) : (s \o t)[j] \in those
    <3>1. i \in 1..Len(s) /\ s[i] \in these
      BY <1>1, <1>2, <2>1
    <3>2. PICK j \in i + 1..Len(s) : s[j] \in those
      BY <1>3, <3>1 DEF Followed
    <3>3. j \in i + 1..Len(s \o t) /\ j \in 1..Len(s)
      BY <1>1, <3>1, <3>2
    <3> QED
      BY <1>1, <3>2, <3>3
  <2> QED
    BY <2>1 DEF Followed
<1>4. CASE Range(t) \cap those # {}
  <2>1. PICK k \in 1..Len(t) : t[k] \in those
    BY <1>4, RangeIsValues
  <2>2. ASSUME NEW i \in 1..Len(s \o t), (s \o t)[i] \in these
        PROVE  \E j \in i + 1..Len(s \o t) : (s \o t)[j] \in those
    <3>1. i \in 1..Len(s)
      BY <1>2, <2>2
    <3>2. Len(s) + k \in i + 1..Len(s \o t)
      BY <1>1, <3>1
    <3> QED
      BY <1>1, <2>1, <3>2
  <2> QED
    BY <2>2 DEF Followed
<1> QED
  BY <1>3, <1>4

-----------------------------------------------------------------------------
(***************************************************************************)
(* Notifications, flows and keys.                                          *)
(***************************************************************************)

LEMMA EventsDiffer ==
  /\ \A id : Removed(id) # Added
  /\ \A a, b : Removed(a) = Removed(b) => a = b
  /\ \A flow, id : DefaultChanged(flow, id) # Added
  /\ \A flow, id, b : DefaultChanged(flow, id) # Removed(b)
  /\ \A f, g, a, b : DefaultChanged(f, a) = DefaultChanged(g, b) => f = g /\ a = b
<1>1. /\ Added.type = "added"
      /\ \A id : Removed(id).type = "removed" /\ Removed(id).id = id
      /\ \A f, id : /\ DefaultChanged(f, id).type = "default"
                    /\ DefaultChanged(f, id).flow = f /\ DefaultChanged(f, id).id = id
  BY DEF Added, Removed, DefaultChanged
<1> QED
  BY <1>1

LEMMA EventSets ==
  /\ Added \in Relists /\ Removals \subseteq Relists
  /\ \A id \in Ids : Removed(id) \in Removals
  /\ \A e \in Relists : e = Added \/ e \in Removals
  /\ \A e \in Removals : \E id \in Ids : e = Removed(id)
  /\ \A flow \in Flow : \A id \in DefaultIds[flow] :
       DefaultChanged(flow, id) \in Changes(flow)
  /\ \A flow \in Flow : \A e \in Changes(flow) :
       \E id \in DefaultIds[flow] : e = DefaultChanged(flow, id)
  /\ Event = Relists \cup Changes("render") \cup Changes("capture")
BY DEF Relists, Removals, Changes, Event

LEMMA Flows ==
  /\ Flow = {"render", "capture"}
  /\ IdsOf["render"] = Playback /\ IdsOf["capture"] = Recording
  /\ DefaultKey["render"] = -1 /\ DefaultKey["capture"] = -2
  /\ DefaultName["render"] = "default_playback"
  /\ DefaultName["capture"] = "default_recording"
  /\ \A flow \in Flow : DefaultIds[flow] = IdsOf[flow] \cup {NoId}
BY DEF Flow, IdsOf, DefaultKey, DefaultName, DefaultIds

LEMMA IdsOfFlows ==
  /\ \A flow \in Flow : IdsOf[flow] \subseteq Ids /\ NoId \notin IdsOf[flow]
  /\ \A id \in Ids : \E flow \in Flow : id \in IdsOf[flow]
  /\ \A f, g \in Flow : f # g => IdsOf[f] \cap IdsOf[g] = {}
  /\ NoId \notin Ids
BY Flows, NoIdAssumption, FlowsAssumption DEF Ids

-----------------------------------------------------------------------------
(***************************************************************************)
(* A change of the system, whichever it is: of every device that comes or  *)
(* goes and every default that moves the listener is told, and what it is  *)
(* told is so now.                                                         *)
(***************************************************************************)

SystemTells(told) ==
  /\ told \in Seq(Event)
  /\ \A id \in active \ active' : Removed(id) \in Range(told)
  /\ \A id \in active' \ active : Added \in Range(told)
  /\ \A flow \in Flow : osDefault'[flow] # osDefault[flow] =>
       DefaultChanged(flow, osDefault'[flow]) \in Range(told)
  /\ \A e \in Range(told) :
       \/ e = Added
       \/ \E id \in Ids \ active' : e = Removed(id)
       \/ \E flow \in Flow : e = DefaultChanged(flow, osDefault'[flow])

SystemStep(told) ==
  /\ SystemTells(told)
  /\ phase # "ended"
  /\ active' \in SUBSET Ids
  /\ osDefault' \in [Flow -> Ids \cup {NoId}]
  /\ \A flow \in Flow : IF active' \cap IdsOf[flow] = {} THEN osDefault'[flow] = NoId
                        ELSE osDefault'[flow] \in active' \cap IdsOf[flow]
  /\ events' = IF phase = "listening" THEN events \o told ELSE events
  /\ missed' = (missed \/ phase \in {"listed", "selected"} \/ (phase = "start" /\ asked > 0))
  /\ captured' = IF captured \in active' THEN captured ELSE NoId
  /\ UNCHANGED <<phase, listing, repository, shownKey, lateSelect>>

LEMMA DefaultsAreActive ==
  ASSUME NEW devices \in SUBSET Ids, NEW new \in Defaults(devices)
  PROVE  /\ new \in [Flow -> Ids \cup {NoId}]
         /\ \A flow \in Flow : IF devices \cap IdsOf[flow] = {} THEN new[flow] = NoId
                               ELSE new[flow] \in devices \cap IdsOf[flow]
<1>1. PICK r \in DefaultsOf("render", devices), c \in DefaultsOf("capture", devices) :
        new = [flow \in Flow |-> IF flow = "render" THEN r ELSE c]
  BY DEF Defaults
<1>2. new["render"] = r /\ new["capture"] = c
  BY <1>1, Flows
<1> QED
  BY <1>1, <1>2, Flows, IdsOfFlows DEF DefaultsOf

LEMMA DefaultEventsTell ==
  ASSUME SystemOK, NEW new \in [Flow -> Ids \cup {NoId}],
         \A flow \in Flow : new[flow] \in DefaultIds[flow]
  PROVE  /\ DefaultEvents(new) \in Seq(Event)
         /\ \A flow \in Flow : new[flow] # osDefault[flow] =>
              DefaultChanged(flow, new[flow]) \in Range(DefaultEvents(new))
         /\ \A e \in Range(DefaultEvents(new)) :
              \E flow \in Flow : e = DefaultChanged(flow, new[flow])
<1>1. \A flow \in Flow : /\ DefaultEvent(new, flow) \in Seq(Event)
                         /\ Range(DefaultEvent(new, flow)) =
                              IF new[flow] = osDefault[flow] THEN {}
                              ELSE {DefaultChanged(flow, new[flow])}
  <2> SUFFICES ASSUME NEW flow \in Flow
               PROVE  /\ DefaultEvent(new, flow) \in Seq(Event)
                      /\ Range(DefaultEvent(new, flow)) =
                           IF new[flow] = osDefault[flow] THEN {}
                           ELSE {DefaultChanged(flow, new[flow])}
    OBVIOUS
  <2> DEFINE e == DefaultChanged(flow, new[flow])
  <2>1. e \in Event
    BY EventSets, Flows
  <2> HIDE DEF e
  <2>2. CASE new[flow] = osDefault[flow]
    <3>1. DefaultEvent(new, flow) = <<>>
      BY <2>2 DEF DefaultEvent
    <3>2. <<>> \in Seq(Event) /\ Range(<<>>) = {}
      BY DEF Range
    <3> QED
      BY <2>2, <3>1, <3>2
  <2>3. CASE new[flow] # osDefault[flow]
    <3>1. DefaultEvent(new, flow) = <<e>>
      BY <2>3 DEF DefaultEvent, e
    <3>2. <<e>> \in Seq(Event) /\ Range(<<e>>) = {e}
      BY <2>1, Singleton
    <3> QED
      BY <2>3, <3>1, <3>2 DEF e
  <2> QED
    BY <2>2, <2>3
<1>2. DefaultEvents(new) = DefaultEvent(new, "render") \o DefaultEvent(new, "capture")
  BY DEF DefaultEvents
<1>3. /\ DefaultEvents(new) \in Seq(Event)
      /\ Range(DefaultEvents(new)) =
           Range(DefaultEvent(new, "render")) \cup Range(DefaultEvent(new, "capture"))
  BY <1>1, <1>2, Flows, ConcatProperties, RangeConcatenation
<1> QED
  BY <1>1, <1>3, Flows

LEMMA SystemBecomesTells ==
  ASSUME SystemOK, NEW devices \in SUBSET Ids, NEW new \in Defaults(devices),
         NEW told \in Seq(Event), SystemBecomes(devices, new, told),
         \A id \in active \ devices : Removed(id) \in Range(told),
         \A id \in devices \ active : Added \in Range(told),
         \A e \in Range(told) : e = Added \/ \E id \in Ids \ devices : e = Removed(id)
  PROVE  \E all : SystemStep(all)
<1> DEFINE changes == DefaultEvents(new)
<1>1. /\ new \in [Flow -> Ids \cup {NoId}]
      /\ \A flow \in Flow : IF devices \cap IdsOf[flow] = {} THEN new[flow] = NoId
                            ELSE new[flow] \in devices \cap IdsOf[flow]
  BY DefaultsAreActive
<1>2. \A flow \in Flow : new[flow] \in DefaultIds[flow]
  BY <1>1, Flows
<1>3. /\ changes \in Seq(Event)
      /\ \A flow \in Flow : new[flow] # osDefault[flow] =>
           DefaultChanged(flow, new[flow]) \in Range(changes)
      /\ \A e \in Range(changes) : \E flow \in Flow : e = DefaultChanged(flow, new[flow])
  BY <1>1, <1>2, DefaultEventsTell
<1> HIDE DEF changes
<1>4. PICK all \in {told \o changes, changes \o told} :
        events' = IF phase = "listening" THEN events \o all ELSE events
  BY DEF SystemBecomes, changes
<1>5. all \in Seq(Event) /\ Range(all) = Range(told) \cup Range(changes)
  <2>1. CASE all = told \o changes
    BY <1>3, <2>1, ConcatProperties, RangeConcatenation
  <2>2. CASE all = changes \o told
    BY <1>3, <2>2, ConcatProperties, RangeConcatenation
  <2> QED
    BY <2>1, <2>2
<1>6. active' = devices /\ osDefault' = new
  BY DEF SystemBecomes
<1>7. SystemTells(all)
  BY <1>3, <1>5, <1>6 DEF SystemTells
<1>8. SystemStep(all)
  BY <1>1, <1>4, <1>6, <1>7, Zenon DEF SystemStep, SystemBecomes
<1> QED
  BY <1>8

LEMMA SystemChanges ==
  ASSUME SystemOK
  PROVE  /\ \A id \in Ids : PlugIn(id) \/ Unplug(id) => \E told : SystemStep(told)
         /\ \A flow \in Flow : ChangeDefault(flow) => \E told : SystemStep(told)
<1>1. active \in SUBSET Ids
  BY DEF SystemOK
<1>2. ASSUME NEW e \in Event
      PROVE  <<e>> \in Seq(Event) /\ Range(<<e>>) = {e}
  BY Singleton
<1>3. Added \in Event /\ \A id \in Ids : Removed(id) \in Event
  BY EventSets
<1>4. ASSUME NEW id \in Ids, PlugIn(id) PROVE \E told : SystemStep(told)
  <2>1. PICK new \in Defaults(active \cup {id}) :
          SystemBecomes(active \cup {id}, new, <<Added>>)
    BY <1>4 DEF PlugIn
  <2>2. active \cup {id} \in SUBSET Ids
    BY <1>1
  <2>3. <<Added>> \in Seq(Event) /\ Range(<<Added>>) = {Added}
    BY <1>2, <1>3
  <2> QED
    BY <2>1, <2>2, <2>3, SystemBecomesTells
<1>5. ASSUME NEW id \in Ids, Unplug(id) PROVE \E told : SystemStep(told)
  <2>1. PICK new \in Defaults(active \ {id}) :
          SystemBecomes(active \ {id}, new, <<Removed(id)>>)
    BY <1>5 DEF Unplug
  <2>2. active \ {id} \in SUBSET Ids
    BY <1>1
  <2>3. <<Removed(id)>> \in Seq(Event) /\ Range(<<Removed(id)>>) = {Removed(id)}
    BY <1>2, <1>3
  <2> QED
    BY <2>1, <2>2, <2>3, SystemBecomesTells
<1>6. ASSUME NEW flow \in Flow, ChangeDefault(flow) PROVE \E told : SystemStep(told)
  <2>1. PICK new \in Defaults(active) : SystemBecomes(active, new, <<>>)
    BY <1>6 DEF ChangeDefault
  <2>2. <<>> \in Seq(Event) /\ Range(<<>>) = {}
    BY DEF Range
  <2> QED
    BY <1>1, <2>1, <2>2, SystemBecomesTells
<1> QED
  BY <1>4, <1>5, <1>6

-----------------------------------------------------------------------------
(***************************************************************************)
(* The system's steps keep the invariant: whatever they change is told.    *)
(***************************************************************************)

LEMMA SystemStepWaits ==
  ASSUME DevicesInv, NEW told, SystemStep(told), phase = "listening"
  PROVE  \A n \in {1, 2} : \A these :
           /\ Waits(events, n, these) => Waits(events', n, these)
           /\ n <= Len(events) + 1 /\ Range(told) \cap these # {} =>
                Waits(events', n, these)
<1>1. events \in Seq(Event) /\ told \in Seq(Event) /\ events' = events \o told
  BY DEF DevicesInv, SystemOK, SystemStep, SystemTells
<1> QED
  BY <1>1, WaitsOn, WaitsAtTheEnd

LEMMA SystemStepOrder ==
  ASSUME DevicesInv, NEW told, SystemStep(told)
  PROVE  OrderOfEvents'
<1>1. CASE phase # "listening"
  <2>1. events' = <<>>
    BY <1>1 DEF SystemStep, DevicesInv, SystemOK
  <2> QED
    BY <2>1 DEF OrderOfEvents, Followed
<1>2. CASE phase = "listening"
  <2> SUFFICES ASSUME NEW flow \in Flow
               PROVE  /\ Followed(events', Changes(flow) \
                                    {DefaultChanged(flow, osDefault'[flow])}, Changes(flow))
                      /\ Followed(events', {Removed(osDefault'[flow])}, Changes(flow))
                      /\ active' \cap IdsOf[flow] # {} =>
                           Followed(events', {DefaultChanged(flow, NoId)}, {Added})
    BY DEF OrderOfEvents
  <2>1. events \in Seq(Event) /\ told \in Seq(Event) /\ events' = events \o told
    BY <1>2 DEF DevicesInv, SystemOK, SystemStep, SystemTells
  <2>2. IF active' \cap IdsOf[flow] = {} THEN osDefault'[flow] = NoId
        ELSE osDefault'[flow] \in active' \cap IdsOf[flow]
    BY DEF SystemStep
  <2>3. \A e \in Range(told) :
          \/ e = Added
          \/ \E id \in Ids \ active' : e = Removed(id)
          \/ \E f \in Flow : e = DefaultChanged(f, osDefault'[f])
    BY DEF SystemStep, SystemTells
  <2>4. osDefault'[flow] # osDefault[flow] =>
          DefaultChanged(flow, osDefault'[flow]) \in Range(told) \cap Changes(flow)
    <3>1. osDefault'[flow] \in DefaultIds[flow]
      BY <2>2, Flows
    <3> QED
      BY <3>1, EventSets DEF SystemStep, SystemTells
  <2>5. ASSUME NEW these, Range(told) \cap these = {},
               Followed(events, these, Changes(flow)) \/ osDefault'[flow] # osDefault[flow]
        PROVE  Followed(events', these, Changes(flow))
    BY <2>1, <2>4, <2>5, FollowedOn
  <2>6. Followed(events', Changes(flow) \ {DefaultChanged(flow, osDefault'[flow])},
                 Changes(flow))
    <3> DEFINE these == Changes(flow) \ {DefaultChanged(flow, osDefault'[flow])}
    <3>1. Range(told) \cap these = {}
      BY <2>3, EventsDiffer, EventSets
    <3>2. osDefault'[flow] = osDefault[flow] => Followed(events, these, Changes(flow))
      BY DEF DevicesInv, OrderOfEvents
    <3> HIDE DEF these
    <3>3. Followed(events', these, Changes(flow))
      BY <2>5, <3>1, <3>2
    <3> QED
      BY <3>3 DEF these
  <2>7. Followed(events', {Removed(osDefault'[flow])}, Changes(flow))
    <3> DEFINE these == {Removed(osDefault'[flow])}
    <3>1. Range(told) \cap these = {}
      BY <2>2, <2>3, EventsDiffer, IdsOfFlows
    <3>2. osDefault'[flow] = osDefault[flow] => Followed(events, these, Changes(flow))
      BY DEF DevicesInv, OrderOfEvents
    <3> HIDE DEF these
    <3>3. Followed(events', these, Changes(flow))
      BY <2>5, <3>1, <3>2
    <3> QED
      BY <3>3 DEF these
  <2>8. ASSUME active' \cap IdsOf[flow] # {}
        PROVE  Followed(events', {DefaultChanged(flow, NoId)}, {Added})
    <3>1. Range(told) \cap {DefaultChanged(flow, NoId)} = {}
      BY <2>2, <2>3, <2>8, EventsDiffer, IdsOfFlows
    <3>2. CASE active \cap IdsOf[flow] # {}
      <4>1. Followed(events, {DefaultChanged(flow, NoId)}, {Added})
        BY <3>2 DEF DevicesInv, OrderOfEvents
      <4> QED
        BY <2>1, <3>1, <4>1, FollowedOn
    <3>3. CASE active \cap IdsOf[flow] = {}
      <4>1. Range(told) \cap {Added} # {}
        BY <2>8, <3>3 DEF SystemStep, SystemTells
      <4> QED
        BY <2>1, <3>1, <4>1, FollowedOn
    <3> QED
      BY <3>2, <3>3
  <2> QED
    BY <2>6, <2>7, <2>8
<1> QED
  BY <1>1, <1>2

LEMMA SystemStepKeeps ==
  ASSUME DevicesInv, NEW told, SystemStep(told)
  PROVE  DevicesInv'
<1>1. /\ UNCHANGED <<phase, asked, answers, deviceIds, currentKey, defaults, saved>>
      /\ UNCHANGED <<shownKey, lateSelect>>
      /\ phase = "listening" => events' = events \o told
      /\ phase # "listening" => events' = events
      /\ events \in Seq(Event) /\ told \in Seq(Event)
      /\ phase # "listening" => events = <<>>
  BY DEF SystemStep, SystemTells, listing, repository, DevicesInv, SystemOK
<1>2. /\ events' \in Seq(Event)
      /\ phase # "listening" => events' = <<>>
      /\ events # <<>> => events' # <<>> /\ events'[1] = events[1]
  <2>1. CASE phase = "listening"
    <3>1. /\ events \o told \in Seq(Event)
          /\ Len(events \o told) = Len(events) + Len(told)
          /\ \A i \in 1..Len(events) : (events \o told)[i] = events[i]
      BY <1>1, ConcatProperties
    <3>2. events # <<>> => Len(events) > 0
      BY <1>1
    <3>3. events # <<>> => 1 \in 1..Len(events) /\ Len(events \o told) > 0
      BY <1>1, <3>1, <3>2
    <3>4. events # <<>> => events \o told # <<>>
      BY <3>3
    <3>5. events # <<>> => (events \o told)[1] = events[1]
      BY <3>1, <3>3, Zenon
    <3>6. events' = events \o told
      BY <1>1, <2>1
    <3> QED
      BY <2>1, <3>1, <3>4, <3>5, <3>6, Zenon
  <2>2. CASE phase # "listening"
    BY <1>1, <2>2
  <2> QED
    BY <2>1, <2>2
<1>3. SystemOK'
  BY <1>1, <1>2 DEF SystemStep, SystemOK
<1>4. ListingOK'
  BY <1>1, <1>2 DEF DevicesInv, ListingOK, IdsAsked
<1>5. RepositoryOK'
  <2>1. captured' \in active' \cup {NoId} /\ (captured = NoId => captured' = NoId)
    <3>1. NoId \notin active'
      BY IdsOfFlows DEF SystemStep
    <3> QED
      BY <3>1 DEF SystemStep, DevicesInv, RepositoryOK
  <2> QED
    BY <1>1, <2>1 DEF DevicesInv, RepositoryOK
<1>6. SelectionIsSaved'
  <2>1. DeviceId(currentKey)' = DeviceId(currentKey)
    BY <1>1 DEF DeviceId
  <2> QED
    BY <1>1, <2>1, Zenon DEF DevicesInv, SelectionIsSaved, SavedName
<1>7. OrderOfEvents'
  BY SystemStepOrder
<1>8. CASE phase # "listening"
  <2>1. ~missed' => asked' = 0 /\ ~Following'
    <3>1. asked \in 0..4 /\ (asked > 0 => phase \in {"start", "listening"})
      BY DEF DevicesInv, ListingOK
    <3>2. missed' <=> missed \/ phase \in {"listed", "selected"} \/ (phase = "start" /\ asked > 0)
      BY DEF SystemStep
    <3>3. ~missed' => asked = 0 /\ phase \notin {"listed", "selected"}
      BY <1>8, <3>1, <3>2
    <3> QED
      BY <1>1, <1>8, <3>3 DEF Following
  <2>2. Following' => ~missed'
    BY DEF Following
  <2>3. \A flow \in Flow : asked' = 0 => AnswersFollow(flow)'
    BY DEF AnswersFollow, IdsAsked, DefaultAsked
  <2> QED
    BY <1>3, <1>4, <1>5, <1>6, <1>7, <2>1, <2>2, <2>3 DEF DevicesInv
<1>9. CASE phase = "listening"
  <2>1. /\ \A these : Waits(events, 1, these) => Waits(events', 1, these)
        /\ \A these : Waits(events, 2, these) => Waits(events', 2, these)
        /\ \A these : Range(told) \cap these # {} => Waits(events', 1, these)
        /\ \A these : asked > 0 /\ Range(told) \cap these # {} => Waits(events', 2, these)
    <3>1. 1 <= Len(events) + 1 /\ (asked > 0 => 2 <= Len(events) + 1)
      BY <1>1, <1>9 DEF DevicesInv, ListingOK
    <3> QED
      BY <1>9, <3>1, SystemStepWaits
  <2>2. /\ (missed' <=> missed) /\ (Following' <=> Following)
        /\ captured' = IF captured \in active' THEN captured ELSE NoId
        /\ captured \in active \cup {NoId} /\ NoId \notin active'
        /\ \A id \in active \ active' : Removed(id) \in Range(told)
        /\ \A id \in active' \ active : Added \in Range(told)
        /\ \A flow \in Flow : osDefault'[flow] # osDefault[flow] =>
             DefaultChanged(flow, osDefault'[flow]) \in Range(told) \cap Changes(flow)
        /\ \A flow \in Flow : IF active' \cap IdsOf[flow] = {} THEN osDefault'[flow] = NoId
                        ELSE osDefault'[flow] \in active' \cap IdsOf[flow]
    <3>1. (missed' <=> missed) /\ (Following' <=> Following)
      <4>1. missed' <=> missed \/ phase \in {"listed", "selected"} \/ (phase = "start" /\ asked > 0)
        BY DEF SystemStep
      <4> QED
        BY <1>1, <1>9, <4>1 DEF Following
    <3>2. \A flow \in Flow : osDefault'[flow] \in DefaultIds[flow]
      BY Flows DEF SystemStep
    <3> QED
      BY <3>1, <3>2, IdsOfFlows, EventSets
      DEF SystemStep, SystemTells, DevicesInv, RepositoryOK
  <2> HIDE DEF Waits
  <2>3. ASSUME ~missed', NEW flow \in Flow PROVE AnswersFollow(flow)'
    <3>1. AnswersFollow(flow)
      BY <2>2, <2>3 DEF DevicesInv
    <3>2. IdsAsked(flow) \/ DefaultAsked(flow) => asked > 0
      BY DEF IdsAsked, DefaultAsked, DevicesInv, ListingOK
    <3>3. IdsAsked(flow)' = IdsAsked(flow) /\ DefaultAsked(flow)' = DefaultAsked(flow)
      BY <1>1 DEF IdsAsked, DefaultAsked
    <3>4. \A id : /\ Removed(id) \in Range(told) => Range(told) \cap {Removed(id)} # {}
                  /\ Added \in Range(told) => Range(told) \cap {Added} # {}
      OBVIOUS
    <3>5. IdsAsked(flow) => \A id \in IdsOf[flow] :
            /\ id \in Range(answers.ids) \ active' => Waits(events', 2, {Removed(id)})
            /\ id \in active' \ Range(answers.ids) => Waits(events', 2, {Added})
      BY <2>1, <2>2, <3>1, <3>2, <3>4 DEF AnswersFollow
    <3>6. IdsAsked(flow) /\ ~DefaultAsked(flow) /\ Range(answers.ids) \cap IdsOf[flow] = {} =>
            osDefault'[flow] = NoId \/ Waits(events', 2, Changes(flow))
      BY <2>1, <2>2, <3>1, <3>2 DEF AnswersFollow
    <3>7. DefaultAsked(flow) =>
            /\ answers.defaults[flow] = osDefault'[flow] \/ Waits(events', 2, Changes(flow))
            /\ answers.defaults[flow] # NoId => Range(answers.ids) \cap IdsOf[flow] # {}
            /\ answers.defaults[flow] = NoId =>
                 \A id \in Range(answers.ids) \cap IdsOf[flow] : Waits(events', 2, {Removed(id)})
      BY <2>1, <2>2, <3>1, <3>2 DEF AnswersFollow
    <3> QED
      BY <1>1, <3>3, <3>5, <3>6, <3>7 DEF AnswersFollow
  <2>4. ASSUME Following' PROVE ListFollows'
    <3>1. ListFollows
      BY <2>2, <2>4 DEF DevicesInv
    <3>2. \A id : /\ Removed(id) \in Range(told) => Range(told) \cap {Removed(id)} # {}
                  /\ Added \in Range(told) => Range(told) \cap {Added} # {}
      OBVIOUS
    <3>3. /\ \A id \in Range(deviceIds) \ active' : Waits(events', 1, {Removed(id)})
          /\ \A id \in active' \ Range(deviceIds) : Waits(events', 1, {Added})
      BY <2>1, <2>2, <3>1, <3>2 DEF ListFollows
    <3> QED
      BY <1>1, <3>3 DEF ListFollows
  <2>5. ASSUME Following' PROVE DefaultsFollow'
    <3>1. DefaultsFollow
      BY <2>2, <2>5 DEF DevicesInv
    <3> QED
      BY <1>1, <2>1, <2>2, <3>1 DEF DefaultsFollow
  <2>6. ASSUME Following' PROVE SelectionFollows'
    <3>1. SelectionFollows
      BY <2>2, <2>6 DEF DevicesInv
    <3>2. ASSUME NEW flow \in Flow, active' \cap IdsOf[flow] = {}, active \cap IdsOf[flow] # {}
          PROVE  Waits(events', 1, Removals)
      <4>1. PICK id \in active \cap IdsOf[flow] : Removed(id) \in Range(told)
        BY <2>2, <3>2
      <4>2. Removed(id) \in Range(told) \cap Removals
        BY <4>1, EventSets, IdsOfFlows
      <4> QED
        BY <2>1, <4>2
    <3> QED
      BY <1>1, <2>1, <3>1, <3>2 DEF SelectionFollows
  <2>7. ASSUME Following', ~lateSelect' PROVE CaptureFollows'
    <3>1. CaptureFollows
      BY <1>1, <2>2, <2>7 DEF DevicesInv
    <3>2. \A flow \in Flow : IdsAsked(flow)' = IdsAsked(flow) /\ DefaultAsked(flow)' = DefaultAsked(flow)
      BY <1>1 DEF IdsAsked, DefaultAsked
    <3>3. captured' = captured \/ (captured' = NoId /\ captured \in active \ active')
      BY <2>2
    <3>4. currentKey = NoKey => captured' = NoId
      BY <3>1, <3>3 DEF CaptureFollows
    <3>5. ASSUME currentKey > 0
          PROVE  LET id == deviceIds[currentKey] IN
       /\ captured' = id \/ (captured' = NoId /\ Waits(events', 1, {Removed(id)}))
       /\ \A flow \in Flow :
            IdsAsked(flow) /\ id \in IdsOf[flow] \ Range(answers.ids) => captured' = NoId
      BY <2>1, <2>2, <3>1, <3>3, <3>5 DEF CaptureFollows
    <3>6. ASSUME NEW flow \in Flow, currentKey = DefaultKey[flow]
          PROVE
       /\ captured' \in DefaultIds[flow]
       /\ captured' = osDefault'[flow] \/ Waits(events', 1, Changes(flow))
       /\ IdsAsked(flow) /\ Range(answers.ids) \cap IdsOf[flow] = {} => captured' = NoId
       /\ DefaultAsked(flow) /\ answers.defaults[flow] = NoId => captured' = NoId
      BY <2>1, <2>2, <3>1, <3>3, <3>6, Flows DEF CaptureFollows
    <3> QED
      BY <1>1, <3>2, <3>4, <3>5, <3>6 DEF CaptureFollows
  <2> QED
    BY <1>3, <1>4, <1>5, <1>6, <1>7, <2>3, <2>4, <2>5, <2>6, <2>7 DEF DevicesInv
<1> QED
  BY <1>8, <1>9

-----------------------------------------------------------------------------
(***************************************************************************)
(* The questions of a listing.                                             *)
(***************************************************************************)

LEMMA AskingLeavesRest ==
  ASSUME DevicesInv,
         UNCHANGED <<system, phase, repository, shownKey, captured, lateSelect, missed>>
  PROVE  /\ SystemOK' /\ RepositoryOK' /\ SelectionIsSaved' /\ OrderOfEvents'
         /\ Following' => ListFollows' /\ DefaultsFollow' /\ SelectionFollows'
<1>1. /\ UNCHANGED <<active, osDefault, events, phase, deviceIds, currentKey, defaults>>
      /\ UNCHANGED <<saved, shownKey, captured, lateSelect, missed>>
  BY DEF system, repository
<1>2. SystemOK'
  BY <1>1 DEF DevicesInv, SystemOK
<1>3. RepositoryOK'
  BY <1>1 DEF DevicesInv, RepositoryOK
<1>4. SelectionIsSaved'
  <2>1. DeviceId(currentKey)' = DeviceId(currentKey)
    BY <1>1 DEF DeviceId
  <2> QED
    BY <1>1, <2>1, Zenon DEF DevicesInv, SelectionIsSaved, SavedName
<1>5. OrderOfEvents'
  BY <1>1 DEF DevicesInv, OrderOfEvents
<1>6. Following' => ListFollows' /\ DefaultsFollow' /\ SelectionFollows'
  BY <1>1 DEF DevicesInv, Following, ListFollows, DefaultsFollow, SelectionFollows
<1> QED
  BY <1>2, <1>3, <1>4, <1>5, <1>6

\* Listing in answer to a notification, it is still the first in the queue.
LEMMA ListsFirst ==
  ASSUME SystemOK, Lists
  PROVE  \/ phase = "start"
         \/ phase = "listening" /\ events # <<>> /\ events[1] \in Relists
<1>1. CASE phase = "start"
  BY <1>1
<1>2. CASE phase = "listening" /\ events # <<>> /\ Head(events).type \in {"added", "removed"}
  <2>1. events[1] = Head(events) /\ events[1] \in Event
    BY <1>2 DEF SystemOK
  <2>2. \A f, id : DefaultChanged(f, id).type = "default"
    BY DEF DefaultChanged
  <2> QED
    BY <1>2, <2>1, <2>2, EventSets, Flows
<1> QED
  BY <1>1, <1>2 DEF Lists

LEMMA GetEndpointDevicesKeeps ==
  ASSUME DevicesInv, NEW flow \in Flow, GetEndpointDevices(flow)
  PROVE  DevicesInv'
<1> DEFINE devices == active \cap IdsOf[flow]
           n == IF flow = "render" THEN 0 ELSE 2
<1>1. /\ Lists /\ asked = n /\ asked' = n + 1
      /\ UNCHANGED <<system, phase, repository, shownKey, captured, lateSelect, missed>>
  BY DEF GetEndpointDevices, Asks
<1>2. PICK ids \in Bijection(1..Cardinality(devices), devices) :
        answers' = [answers EXCEPT !.ids = @ \o ids]
  BY DEF GetEndpointDevices
<1>3. /\ UNCHANGED <<active, osDefault, events, phase, deviceIds, currentKey, captured>>
      /\ UNCHANGED <<lateSelect, missed>>
  BY <1>1 DEF system, repository
<1>4. devices \subseteq Ids /\ Cardinality(devices) \in Nat
  BY FlowsAssumption, FS_Subset, FS_CardinalityType DEF DevicesInv, SystemOK
<1>5. ids \in Seq(Ids) /\ Range(ids) = devices
  <2> HIDE DEF devices
  <2>1. /\ ids \in [1..Cardinality(devices) -> devices]
        /\ \A id \in devices : \E i \in 1..Cardinality(devices) : ids[i] = id
    BY DEF Bijection, Injection, Surjection
  <2>2. ids \in Seq(Ids)
    BY <1>4, <2>1
  <2> QED
    BY <2>1, <2>2 DEF Range
<1>6. /\ answers.ids \in Seq(Ids)
      /\ answers.ids \o ids \in Seq(Ids)
      /\ Range(answers.ids \o ids) = Range(answers.ids) \cup devices
      /\ answers'.ids = answers.ids \o ids /\ answers'.defaults = answers.defaults
      /\ answers' \in [ids : Seq(Ids), defaults : [Flow -> Ids \cup {NoId}]]
  <2>1. answers \in [ids : Seq(Ids), defaults : [Flow -> Ids \cup {NoId}]]
    BY DEF DevicesInv, ListingOK
  <2>2. /\ answers.ids \o ids \in Seq(Ids)
        /\ Range(answers.ids \o ids) = Range(answers.ids) \cup devices
    BY <1>5, <2>1, ConcatProperties, RangeConcatenation
  <2> QED
    BY <1>2, <2>1, <2>2
<1>7. /\ IdsAsked(flow)' /\ ~IdsAsked(flow)
      /\ \A f \in Flow \ {flow} : IdsAsked(f)' <=> IdsAsked(f)
      /\ \A f \in Flow : DefaultAsked(f)' <=> DefaultAsked(f)
      /\ ~DefaultAsked(flow)
  BY <1>1, Flows DEF IdsAsked, DefaultAsked
<1>8. /\ Range(answers'.ids) \cap IdsOf[flow] = devices
      /\ \A f \in Flow \ {flow} :
           Range(answers'.ids) \cap IdsOf[f] = Range(answers.ids) \cap IdsOf[f]
  <2>1. Range(answers.ids) \cap IdsOf[flow] = {}
    BY <1>7 DEF DevicesInv, ListingOK
  <2> QED
    BY <1>6, <2>1, IdsOfFlows
<1>9. ListingOK'
  <2>1. \A f \in Flow : ~IdsAsked(f)' => Range(answers'.ids) \cap IdsOf[f] = {}
    BY <1>7, <1>8 DEF DevicesInv, ListingOK
  <2>2. asked' \in 0..4
    BY <1>1
  <2>3. \/ phase = "start"
        \/ phase = "listening" /\ events # <<>> /\ events[1] \in Relists
    BY <1>1, ListsFirst DEF DevicesInv
  <2> QED
    BY <1>3, <1>6, <2>1, <2>2, <2>3 DEF DevicesInv, ListingOK
<1> HIDE DEF n
<1>10. /\ active \cap IdsOf[flow] = devices
       /\ devices = {} => osDefault[flow] = NoId
  BY DEF DevicesInv, SystemOK
<1>11. ASSUME ~missed', NEW f \in Flow PROVE AnswersFollow(f)'
  <2>1. AnswersFollow(f)
    BY <1>3, <1>11 DEF DevicesInv
  <2>2. CASE f = flow
    BY <1>3, <1>7, <1>8, <1>10, <2>2 DEF AnswersFollow
  <2>3. CASE f # flow
    BY <1>3, <1>6, <1>7, <1>8, <2>1, <2>3 DEF AnswersFollow
  <2> QED
    BY <2>2, <2>3
<1>12. ASSUME Following', ~lateSelect' PROVE CaptureFollows'
  <2>1. CaptureFollows
    BY <1>3, <1>12 DEF DevicesInv, Following
  <2>2. captured \in active \cup {NoId}
    BY DEF DevicesInv, RepositoryOK
  <2>3. ASSUME currentKey > 0, NEW f \in Flow, IdsAsked(f)',
               deviceIds[currentKey] \in IdsOf[f] \ Range(answers'.ids)
        PROVE  captured = NoId
    <3>1. CASE f = flow
      <4>1. deviceIds[currentKey] \notin active
        BY <1>8, <2>3, <3>1
      <4> QED
        BY <2>1, <2>2, <2>3, <4>1 DEF CaptureFollows
    <3>2. CASE f # flow
      BY <1>7, <1>8, <2>1, <2>3, <3>2 DEF CaptureFollows
    <3> QED
      BY <3>1, <3>2
  <2>4. ASSUME NEW f \in Flow, currentKey = DefaultKey[f]
        PROVE  /\ IdsAsked(f)' /\ Range(answers'.ids) \cap IdsOf[f] = {} => captured = NoId
               /\ DefaultAsked(f)' /\ answers'.defaults[f] = NoId => captured = NoId
    <3>1. CASE f = flow
      BY <1>7, <1>8, <2>1, <2>2, <2>4, <3>1, Flows DEF CaptureFollows
    <3>2. CASE f # flow
      BY <1>6, <1>7, <1>8, <2>1, <2>4, <3>2 DEF CaptureFollows
    <3> QED
      BY <3>1, <3>2
  <2> QED
    BY <1>3, <2>1, <2>3, <2>4 DEF CaptureFollows
<1>13. /\ SystemOK' /\ RepositoryOK' /\ SelectionIsSaved' /\ OrderOfEvents'
       /\ Following' => ListFollows' /\ DefaultsFollow' /\ SelectionFollows'
  BY <1>1, AskingLeavesRest
<1> QED
  BY <1>9, <1>11, <1>12, <1>13 DEF DevicesInv

LEMMA GetDefaultDeviceIdKeeps ==
  ASSUME DevicesInv, NEW flow \in Flow, GetDefaultDeviceId(flow)
  PROVE  DevicesInv'
<1> DEFINE n == IF flow = "render" THEN 1 ELSE 3
           listed == Range(answers.ids) \cap IdsOf[flow]
           default == IF listed = {} THEN NoId ELSE osDefault[flow]
<1>1. /\ Lists /\ asked = n /\ asked' = n + 1
      /\ UNCHANGED <<system, phase, repository, shownKey, captured, lateSelect, missed>>
      /\ answers' = [answers EXCEPT !.defaults[flow] = default]
  BY DEF GetDefaultDeviceId, Asks
<1>2. /\ UNCHANGED <<active, osDefault, events, phase, deviceIds, currentKey, captured>>
      /\ UNCHANGED <<lateSelect, missed>>
  BY <1>1 DEF system, repository
<1>3. /\ osDefault[flow] \in DefaultIds[flow]
      /\ active \cap IdsOf[flow] = {} <=> osDefault[flow] = NoId
  BY Flows, IdsOfFlows DEF DevicesInv, SystemOK
<1>4. /\ IdsAsked(flow) /\ ~DefaultAsked(flow) /\ DefaultAsked(flow)'
      /\ \A f \in Flow : IdsAsked(f)' <=> IdsAsked(f)
      /\ \A f \in Flow \ {flow} : DefaultAsked(f)' <=> DefaultAsked(f)
      /\ asked' \in 0..4
  BY <1>1, Flows DEF IdsAsked, DefaultAsked
<1> HIDE DEF n
<1>5. default \in DefaultIds[flow] /\ default \in Ids \cup {NoId}
  BY <1>3, Flows, IdsOfFlows
<1>6. /\ answers' \in [ids : Seq(Ids), defaults : [Flow -> Ids \cup {NoId}]]
      /\ answers'.ids = answers.ids
      /\ answers'.defaults[flow] = default
      /\ \A f \in Flow \ {flow} : answers'.defaults[f] = answers.defaults[f]
  <2> HIDE DEF default
  <2>1. answers \in [ids : Seq(Ids), defaults : [Flow -> Ids \cup {NoId}]]
    BY DEF DevicesInv, ListingOK
  <2> QED
    BY <1>1, <1>5, <2>1
<1>7. ListingOK'
  <2>1. \A f \in Flow : answers'.defaults[f] \in DefaultIds[f]
    BY <1>5, <1>6 DEF DevicesInv, ListingOK
  <2>2. \/ phase = "start"
        \/ phase = "listening" /\ events # <<>> /\ events[1] \in Relists
    BY <1>1, ListsFirst DEF DevicesInv
  <2> QED
    BY <1>2, <1>4, <1>6, <2>1, <2>2 DEF DevicesInv, ListingOK
<1>8. ASSUME ~missed', NEW f \in Flow PROVE AnswersFollow(f)'
  <2>1. AnswersFollow(f)
    BY <1>2, <1>8 DEF DevicesInv
  <2>2. CASE f = flow
    <3>1. default = osDefault[flow] \/ Waits(events, 2, Changes(flow))
      BY <1>4, <2>1, <2>2 DEF AnswersFollow
    <3>2. default # NoId => listed # {}
      OBVIOUS
    <3>3. default = NoId => \A id \in listed : Waits(events, 2, {Removed(id)})
      BY <1>3, <1>4, <2>1, <2>2 DEF AnswersFollow
    <3> HIDE DEF default
    <3> QED
      BY <1>2, <1>4, <1>6, <2>1, <2>2, <3>1, <3>2, <3>3 DEF AnswersFollow
  <2>3. CASE f # flow
    BY <1>2, <1>4, <1>6, <2>1, <2>3 DEF AnswersFollow
  <2> QED
    BY <2>2, <2>3
<1>9. ASSUME Following', ~lateSelect' PROVE CaptureFollows'
  <2>1. CaptureFollows
    BY <1>2, <1>9 DEF DevicesInv, Following
  <2>2. captured \in active \cup {NoId}
    BY DEF DevicesInv, RepositoryOK
  <2>3. ASSUME NEW f \in Flow, currentKey = DefaultKey[f], DefaultAsked(f)',
               answers'.defaults[f] = NoId
        PROVE  captured = NoId
    <3>1. CASE f = flow
      <4>1. CASE listed = {}
        BY <1>4, <2>1, <2>3, <3>1, <4>1 DEF CaptureFollows
      <4>2. CASE listed # {}
        <5>1. active \cap IdsOf[flow] = {}
          BY <1>3, <1>6, <2>3, <3>1, <4>2
        <5> QED
          BY <2>1, <2>2, <2>3, <3>1, <5>1, Flows DEF CaptureFollows
      <4> QED
        BY <4>1, <4>2
    <3>2. CASE f # flow
      BY <1>4, <1>6, <2>1, <2>3, <3>2 DEF CaptureFollows
    <3> QED
      BY <3>1, <3>2
  <2> QED
    BY <1>2, <1>4, <1>6, <2>1, <2>3 DEF CaptureFollows
<1>10. /\ SystemOK' /\ RepositoryOK' /\ SelectionIsSaved' /\ OrderOfEvents'
       /\ Following' => ListFollows' /\ DefaultsFollow' /\ SelectionFollows'
  BY <1>1, AskingLeavesRest
<1> QED
  BY <1>7, <1>8, <1>9, <1>10 DEF DevicesInv

-----------------------------------------------------------------------------
(***************************************************************************)
(* initDevices.                                                            *)
(***************************************************************************)

LEMMA NothingAsked ==
  ASSUME asked' = 0, answers' = NoAnswers
  PROVE  /\ ListingOK'
         /\ \A flow \in Flow : /\ AnswersFollow(flow)'
                               /\ ~IdsAsked(flow)' /\ ~DefaultAsked(flow)'
<1>1. /\ NoAnswers \in [ids : Seq(Ids), defaults : [Flow -> Ids \cup {NoId}]]
      /\ NoAnswers.ids = <<>>
      /\ \A flow \in Flow : NoAnswers.defaults[flow] = NoId
  BY DEF NoAnswers
<1>2. Range(NoAnswers.ids) = {}
  BY <1>1 DEF Range
<1>3. \A flow \in Flow : ~IdsAsked(flow)' /\ ~DefaultAsked(flow)'
  BY DEF IdsAsked, DefaultAsked
<1>4. \A flow \in Flow : NoAnswers.defaults[flow] \in DefaultIds[flow]
  BY <1>1, Flows
<1> QED
  BY <1>1, <1>2, <1>3, <1>4 DEF ListingOK, AnswersFollow

\* What SelectionIsSaved says of each kind of key.
SavedAs(key, ids, name) ==
  /\ key > 0 => name = ids[key]
  /\ \A flow \in Flow : key = DefaultKey[flow] => name = DefaultName[flow]

LEMMA KindsOfKeys ==
  /\ \A key \in Int : key > 0 => key # NoKey /\ \A flow \in Flow : key # DefaultKey[flow]
  /\ \A flow \in Flow : /\ DefaultKey[flow] # NoKey /\ DefaultKey[flow] \in {-1, -2}
                        /\ ~(DefaultKey[flow] > 0)
  /\ \A f, g \in Flow : DefaultKey[f] = DefaultKey[g] => f = g
  /\ \A key \in {-1, -2} : \E flow \in Flow : key = DefaultKey[flow]
  /\ \A key : IsDefaultKey(key) <=> \E flow \in Flow : key = DefaultKey[flow]
  /\ ~(NoKey > 0)
BY Flows DEF NoKey, IsDefaultKey

LEMMA DeviceIds ==
  ASSUME deviceIds \in Seq(Ids)
  PROVE  /\ \A key \in 1..Len(deviceIds) : DeviceId(key) = deviceIds[key]
         /\ \A flow \in Flow : DeviceId(DefaultKey[flow]) = defaults[flow]
         /\ DeviceId(NoKey) = NoId
<1>1. \A key \in 1..Len(deviceIds) : DeviceId(key) = deviceIds[key]
  BY Flows DEF DeviceId
<1>2. \A flow \in Flow : DeviceId(DefaultKey[flow]) = defaults[flow]
  BY Flows DEF DeviceId
<1>3. DeviceId(NoKey) = NoId
  BY Flows DEF DeviceId, NoKey
<1> QED
  BY <1>1, <1>2, <1>3

LEMMA DeviceIdsNext ==
  ASSUME deviceIds' \in Seq(Ids)
  PROVE  /\ \A key \in 1..Len(deviceIds') : DeviceId(key)' = deviceIds'[key]
         /\ \A flow \in Flow : DeviceId(DefaultKey[flow])' = defaults'[flow]
<1>1. \A key \in 1..Len(deviceIds') : DeviceId(key)' = deviceIds'[key]
  BY Flows DEF DeviceId
<1>2. \A flow \in Flow : DeviceId(DefaultKey[flow])' = defaults'[flow]
  BY Flows DEF DeviceId
<1> QED
  BY <1>1, <1>2

LEMMA SavedNames ==
  ASSUME NEW key \in Int, NEW id
  PROVE  /\ key > 0 => SavedName(key, id) = id
         /\ \A flow \in Flow : key = DefaultKey[flow] => SavedName(key, id) = DefaultName[flow]
<1>1. key > 0 => SavedName(key, id) = id
  BY Flows DEF SavedName
<1>2. \A flow \in Flow : key = DefaultKey[flow] => SavedName(key, id) = DefaultName[flow]
  BY Flows DEF SavedName
<1> QED
  BY <1>1, <1>2

LEMMA SavedNow ==
  ASSUME RepositoryOK, SelectionIsSaved
  PROVE  SavedAs(currentKey, deviceIds, saved)
<1>1. deviceIds \in Seq(Ids) /\ currentKey \in 1..Len(deviceIds) \cup {NoKey, -1, -2}
  BY DEF RepositoryOK
<1>2. currentKey \in Int
  BY <1>1 DEF NoKey
<1>3. currentKey > 0 => currentKey \in 1..Len(deviceIds)
  BY <1>1 DEF NoKey
<1>4. currentKey > 0 => saved = deviceIds[currentKey]
  BY <1>1, <1>2, <1>3, DeviceIds, SavedNames, KindsOfKeys DEF SelectionIsSaved
<1>5. \A flow \in Flow : currentKey = DefaultKey[flow] => saved = DefaultName[flow]
  BY <1>2, SavedNames, KindsOfKeys DEF SelectionIsSaved
<1> QED
  BY <1>4, <1>5 DEF SavedAs

LEMMA SavedNext ==
  ASSUME deviceIds' \in Seq(Ids), currentKey' \in 1..Len(deviceIds') \cup {NoKey, -1, -2},
         SavedAs(currentKey', deviceIds', saved')
  PROVE  SelectionIsSaved'
<1>1. currentKey' \in Int
  BY DEF NoKey
<1>2. CASE currentKey' \in 1..Len(deviceIds')
  <2>1. DeviceId(currentKey)' = deviceIds'[currentKey']
    BY <1>2, Flows DEF DeviceId
  <2>2. SavedName(currentKey', DeviceId(currentKey)') = DeviceId(currentKey)'
    BY <1>1, <1>2, SavedNames
  <2> QED
    BY <1>2, <2>1, <2>2 DEF SelectionIsSaved, SavedAs
<1>3. CASE currentKey' \in {-1, -2}
  <2>1. PICK flow \in Flow : currentKey' = DefaultKey[flow]
    BY <1>3, KindsOfKeys
  <2>2. SavedName(currentKey', DeviceId(currentKey)') = DefaultName[flow]
    BY <1>1, <2>1, SavedNames
  <2> QED
    BY <2>1, <2>2 DEF SelectionIsSaved, SavedAs
<1>4. CASE currentKey' = NoKey
  BY <1>4 DEF SelectionIsSaved
<1> QED
  BY <1>2, <1>3, <1>4

LEMMA AskFailsKeeps ==
  ASSUME DevicesInv, AskFails
  PROVE  DevicesInv'
<1>1. /\ phase' = "ended" /\ events' = <<>> /\ asked' = 0 /\ answers' = NoAnswers
      /\ captured' = NoId
      /\ UNCHANGED <<active, osDefault, deviceIds, currentKey, defaults, saved>>
  BY DEF AskFails, repository
<1>2. ListingOK' /\ \A flow \in Flow : AnswersFollow(flow)'
  BY <1>1, NothingAsked
<1>3. SystemOK' /\ RepositoryOK'
  BY <1>1 DEF DevicesInv, SystemOK, RepositoryOK
<1>4. SelectionIsSaved'
  BY <1>1, <1>3, SavedNow, SavedNext DEF DevicesInv, RepositoryOK
<1>5. OrderOfEvents'
  BY <1>1 DEF OrderOfEvents, Followed
<1>6. ~Following'
  BY <1>1 DEF Following
<1> QED
  BY <1>2, <1>3, <1>4, <1>5, <1>6 DEF DevicesInv

LEMMA ConstructKeeps ==
  ASSUME DevicesInv, Construct
  PROVE  DevicesInv'
<1>1. /\ phase = "start" /\ phase' = "listed" /\ asked = 4
      /\ deviceIds' = answers.ids /\ defaults' = answers.defaults
      /\ asked' = 0 /\ answers' = NoAnswers /\ currentKey' = NoKey
      /\ UNCHANGED <<active, osDefault, events, captured, missed, lateSelect>>
      /\ shownKey' = NoKey
  BY DEF Construct, InitDeviceList, ListUpdate, system
<1>2. events = <<>> /\ events' = <<>> /\ captured = NoId
  BY <1>1 DEF DevicesInv, SystemOK, RepositoryOK
<1>3. \A flow \in Flow : IdsAsked(flow) /\ DefaultAsked(flow)
  BY <1>1 DEF IdsAsked, DefaultAsked
<1>4. ListingOK' /\ \A flow \in Flow : AnswersFollow(flow)'
  BY <1>1, NothingAsked
<1>5. SystemOK'
  BY <1>1, <1>2 DEF DevicesInv, SystemOK
<1>6. RepositoryOK'
  BY <1>1, <1>2 DEF DevicesInv, RepositoryOK, ListingOK
<1>7. SelectionIsSaved'
  BY <1>1 DEF SelectionIsSaved
<1>8. OrderOfEvents'
  BY <1>2 DEF OrderOfEvents, Followed
<1>9. ASSUME Following' PROVE ListFollows' /\ DefaultsFollow' /\ SelectionFollows'
  <2>1. \A flow \in Flow : AnswersFollow(flow)
    BY <1>1, <1>9 DEF DevicesInv, Following
  <2>2. \A these : ~Waits(events, 2, these)
    BY <1>2, NobodyWaits
  <2>3. \A flow \in Flow :
          /\ \A id \in IdsOf[flow] : id \in Range(answers.ids) <=> id \in active
          /\ answers.defaults[flow] = osDefault[flow]
          /\ answers.defaults[flow] = NoId => Range(answers.ids) \cap IdsOf[flow] = {}
    BY <1>3, <2>1, <2>2 DEF AnswersFollow
  <2>4. Range(answers.ids) \subseteq Ids /\ active \subseteq Ids
    BY RangeOfSeq DEF DevicesInv, ListingOK, SystemOK
  <2>5. Range(deviceIds') = active
    BY <1>1, <2>3, <2>4, IdsOfFlows
  <2>6. ListFollows' /\ DefaultsFollow'
    BY <1>1, <2>3, <2>5 DEF ListFollows, DefaultsFollow
  <2>7. SelectionFollows'
    BY <1>1, <2>3, KindsOfKeys DEF SelectionFollows
  <2> QED
    BY <2>6, <2>7
<1>10. CaptureFollows'
  BY <1>1, <1>2, KindsOfKeys DEF CaptureFollows
<1> QED
  BY <1>4, <1>5, <1>6, <1>7, <1>8, <1>9, <1>10 DEF DevicesInv

LEMMA KeysIn ==
  ASSUME NEW ids \in Seq(Ids), NEW id
  PROVE  \/ KeyIn(ids, id) \in 1..Len(ids) /\ ids[KeyIn(ids, id)] = id
         \/ KeyIn(ids, id) = NoKey /\ id \notin Range(ids)
<1>1. CASE Contains(ids, id)
  <2>1. \E k \in 1..Len(ids) : ids[k] = id
    BY <1>1 DEF Contains
  <2> QED
    BY <1>1, <2>1 DEF KeyIn
<1>2. CASE ~Contains(ids, id)
  BY <1>2, RangeIsValues DEF KeyIn, Contains
<1> QED
  BY <1>1, <1>2

\* A key that is loaded is that of the saved device or default.
LEMMA LoadedKeys ==
  ASSUME deviceIds \in Seq(Ids)
  PROVE  /\ \/ LoadedKey = NoKey
            \/ LoadedKey \in 1..Len(deviceIds) /\ deviceIds[LoadedKey] = saved
            \/ \E flow \in Flow : /\ LoadedKey = DefaultKey[flow] /\ defaults[flow] # NoId
                                  /\ saved = DefaultName[flow]
         /\ \/ FallbackKey = NoKey
            \/ \E flow \in Flow : FallbackKey = DefaultKey[flow] /\ defaults[flow] # NoId
<1>1. FallbackKey = NoKey \/ \E flow \in Flow : FallbackKey = DefaultKey[flow] /\ defaults[flow] # NoId
  BY Flows DEF FallbackKey
<1> DEFINE flows == {f \in Flow : saved = DefaultName[f]}
<1>2. CASE flows = {}
  BY <1>1, <1>2, KeysIn DEF LoadedKey
<1>3. CASE flows # {}
  <2> DEFINE flow == CHOOSE f \in flows : TRUE
  <2>1. flow \in flows
    BY <1>3
  <2>2. LoadedKey = IF defaults[flow] = NoId THEN NoKey ELSE DefaultKey[flow]
    BY <1>3, Zenon DEF LoadedKey
  <2> HIDE DEF flow
  <2> QED
    BY <1>1, <2>1, <2>2
<1> QED
  BY <1>2, <1>3

LEMMA Captures ==
  ASSUME NEW id
  PROVE  /\ Capture(id) \in {id, NoId} /\ Capture(id) \in active \cup {NoId}
         /\ id \in active => Capture(id) = id
BY DEF Capture

LEMMA LoadDeviceKeeps ==
  ASSUME DevicesInv, LoadDevice
  PROVE  DevicesInv'
<1>1. /\ phase = "listed" /\ phase' = "selected"
      /\ currentKey' = IF LoadedKey # NoKey THEN LoadedKey ELSE FallbackKey
      /\ saved' = IF LoadedKey = NoKey /\ FallbackKey # NoKey
                  THEN SavedName(FallbackKey, DeviceId(FallbackKey)) ELSE saved
      /\ shownKey' = currentKey'
      /\ captured' = Capture(DeviceId(currentKey'))
      /\ UNCHANGED <<active, osDefault, events, asked, answers, deviceIds, defaults>>
      /\ UNCHANGED <<lateSelect, missed>>
  BY DEF LoadDevice, system, listing
<1>2. /\ events = <<>> /\ asked = 0 /\ deviceIds \in Seq(Ids)
      /\ currentKey = NoKey
  BY <1>1 DEF DevicesInv, SystemOK, ListingOK, RepositoryOK
<1>3. \/ currentKey' = NoKey
      \/ /\ currentKey' \in 1..Len(deviceIds) /\ currentKey' > 0
         /\ saved' = deviceIds[currentKey']
      \/ \E flow \in Flow : /\ currentKey' = DefaultKey[flow] /\ defaults[flow] # NoId
                            /\ saved' = DefaultName[flow]
  <2>1. CASE LoadedKey # NoKey
    BY <1>1, <1>2, <2>1, LoadedKeys
  <2>2. CASE LoadedKey = NoKey /\ FallbackKey # NoKey
    <3>1. PICK flow \in Flow : FallbackKey = DefaultKey[flow] /\ defaults[flow] # NoId
      BY <1>2, <2>2, LoadedKeys
    <3>2. SavedName(FallbackKey, DeviceId(FallbackKey)) = DefaultName[flow]
      BY <3>1, SavedNames, KindsOfKeys
    <3> QED
      BY <1>1, <2>2, <3>1, <3>2
  <2>3. CASE LoadedKey = NoKey /\ FallbackKey = NoKey
    BY <1>1, <2>3
  <2> QED
    BY <2>1, <2>2, <2>3
<1>4. SystemOK' /\ ListingOK' /\ OrderOfEvents'
  BY <1>1, <1>2 DEF DevicesInv, SystemOK, ListingOK, OrderOfEvents, IdsAsked
<1>5. RepositoryOK'
  <2>1. currentKey' \in 1..Len(deviceIds') \cup {NoKey, -1, -2}
    BY <1>1, <1>3, KindsOfKeys
  <2>2. captured' \in active' \cup {NoId}
    BY <1>1, Captures
  <2> QED
    BY <1>1, <2>1, <2>2 DEF DevicesInv, RepositoryOK
<1>6. SelectionIsSaved'
  <2>1. SavedAs(currentKey', deviceIds', saved')
    BY <1>1, <1>3, KindsOfKeys DEF SavedAs
  <2> QED
    BY <1>5, <2>1, SavedNext DEF RepositoryOK
<1>7. ~missed' => \A flow \in Flow : AnswersFollow(flow)'
  BY <1>1, <1>2 DEF AnswersFollow, IdsAsked, DefaultAsked
<1>8. ASSUME Following'
      PROVE  /\ ListFollows' /\ DefaultsFollow' /\ SelectionFollows'
             /\ CaptureFollows'
  <2>1. ListFollows /\ DefaultsFollow /\ SelectionFollows
    BY <1>1, <1>8 DEF DevicesInv, Following
  <2>2. \A these : ~Waits(events, 1, these)
    BY <1>2, NobodyWaits
  <2>3. Range(deviceIds) = active /\ \A flow \in Flow : defaults[flow] = osDefault[flow]
    BY <2>1, <2>2 DEF ListFollows, DefaultsFollow
  <2>4. \A flow \in Flow : defaults[flow] # NoId =>
          defaults[flow] \in active /\ defaults[flow] \in DefaultIds[flow]
                                    /\ active \cap IdsOf[flow] # {}
    BY <2>3, Flows DEF DevicesInv, SystemOK
  <2>5. ListFollows' /\ DefaultsFollow'
    BY <1>1, <2>1 DEF ListFollows, DefaultsFollow
  <2>6. SelectionFollows'
    BY <1>1, <1>3, <2>1, <2>4, KindsOfKeys DEF SelectionFollows
  <2>7. \A flow \in Flow : ~IdsAsked(flow)' /\ ~DefaultAsked(flow)'
    BY <1>1, <1>2 DEF IdsAsked, DefaultAsked
  <2>8. CASE currentKey' = NoKey
    <3>1. captured' = NoId
      BY <1>1, <1>2, <2>8, DeviceIds, Captures
    <3> QED
      BY <2>5, <2>6, <2>8, <3>1, KindsOfKeys DEF CaptureFollows
  <2>9. CASE currentKey' \in 1..Len(deviceIds) /\ currentKey' > 0
    <3>1. DeviceId(currentKey') = deviceIds[currentKey'] /\ deviceIds[currentKey'] \in active
      BY <1>2, <2>3, <2>9, DeviceIds, RangeIsValues
    <3>2. captured' = deviceIds'[currentKey']
      BY <1>1, <3>1, Captures
    <3> QED
      BY <2>5, <2>6, <2>7, <2>9, <3>2, KindsOfKeys DEF CaptureFollows
  <2>10. ASSUME NEW flow \in Flow, currentKey' = DefaultKey[flow], defaults[flow] # NoId
         PROVE  CaptureFollows'
    <3>1. captured' = osDefault'[flow] /\ captured' \in DefaultIds[flow]
      BY <1>1, <1>2, <2>3, <2>4, <2>10, DeviceIds, Captures
    <3> QED
      BY <2>7, <2>10, <3>1, KindsOfKeys DEF CaptureFollows
  <2> QED
    BY <1>3, <2>5, <2>6, <2>8, <2>9, <2>10
<1> QED
  BY <1>4, <1>5, <1>6, <1>7, <1>8 DEF DevicesInv

LEMMA ListenKeeps ==
  ASSUME DevicesInv, Listen
  PROVE  DevicesInv'
<1>1. /\ phase = "selected" /\ phase' = "listening"
      /\ UNCHANGED <<active, osDefault, events, asked, answers, deviceIds, currentKey>>
      /\ UNCHANGED <<defaults, saved, shownKey, captured, lateSelect, missed>>
  BY DEF Listen, system, listing, repository
<1>2. asked = 0 /\ (Following' => Following)
  BY <1>1 DEF DevicesInv, ListingOK, Following
<1>3. SystemOK' /\ ListingOK' /\ RepositoryOK' /\ OrderOfEvents'
  BY <1>1, <1>2
  DEF DevicesInv, SystemOK, ListingOK, RepositoryOK, OrderOfEvents, IdsAsked
<1>4. SelectionIsSaved'
  BY <1>1, <1>3, SavedNow, SavedNext DEF DevicesInv, RepositoryOK
<1>5. ~missed' => \A flow \in Flow : AnswersFollow(flow)'
  BY <1>1, <1>2 DEF AnswersFollow, IdsAsked, DefaultAsked
<1>6. Following' => ListFollows' /\ DefaultsFollow' /\ SelectionFollows'
  BY <1>1, <1>2 DEF DevicesInv, ListFollows, DefaultsFollow, SelectionFollows
<1>7. Following' /\ ~lateSelect' => CaptureFollows'
  BY <1>1, <1>2 DEF DevicesInv, CaptureFollows, IdsAsked, DefaultAsked
<1> QED
  BY <1>3, <1>4, <1>5, <1>6, <1>7 DEF DevicesInv

-----------------------------------------------------------------------------
(***************************************************************************)
(* The user.                                                               *)
(***************************************************************************)

\* With no notification left, what is captured is what is selected.
LEMMA CaughtUp ==
  ASSUME RepositoryOK, DefaultsFollow, CaptureFollows, events = <<>>
  PROVE  captured = DeviceId(currentKey)
<1>1. deviceIds \in Seq(Ids) /\ currentKey \in 1..Len(deviceIds) \cup {NoKey, -1, -2}
  BY DEF RepositoryOK
<1>2. \A these : ~Waits(events, 1, these)
  BY NobodyWaits
<1>3. CASE currentKey \in 1..Len(deviceIds)
  BY <1>1, <1>2, <1>3, DeviceIds DEF CaptureFollows
<1>4. CASE currentKey \in {-1, -2}
  <2>1. PICK flow \in Flow : currentKey = DefaultKey[flow]
    BY <1>4, KindsOfKeys
  <2> QED
    BY <1>1, <1>2, <2>1, DeviceIds DEF CaptureFollows, DefaultsFollow
<1>5. CASE currentKey = NoKey
  BY <1>1, <1>5, DeviceIds DEF CaptureFollows
<1> QED
  BY <1>1, <1>3, <1>4, <1>5

LEMMA OnDeviceSelectedKeeps ==
  ASSUME DevicesInv, NEW key \in KeysOf(deviceIds), OnDeviceSelected(key)
  PROVE  DevicesInv'
<1> DEFINE newId == DeviceId(key)
<1>1. /\ phase = "listening" /\ asked = 0 /\ shownKey' = key
      /\ UNCHANGED <<active, osDefault, events, phase, asked, answers, deviceIds, defaults>>
      /\ UNCHANGED missed
      /\ lateSelect' = (lateSelect \/ events # <<>>)
      /\ \/ newId = NoId /\ currentKey' = NoKey /\ captured' = NoId
         \/ /\ newId # NoId /\ currentKey' = key /\ saved' = SavedName(key, newId)
            /\ captured' = IF DeviceId(currentKey) # newId THEN Capture(newId) ELSE captured
  BY DEF OnDeviceSelected, system, listing
<1>2. deviceIds \in Seq(Ids) /\ captured \in active \cup {NoId}
  BY DEF DevicesInv, RepositoryOK
<1>3. \/ key \in 1..Len(deviceIds) /\ key > 0 /\ newId = deviceIds[key] /\ newId \in Range(deviceIds)
      \/ \E flow \in Flow : /\ key = DefaultKey[flow] /\ newId = defaults[flow]
                            /\ Range(deviceIds) \cap IdsOf[flow] # {}
  BY <1>2, DeviceIds, RangeIsValues DEF KeysOf
<1> HIDE DEF newId
<1>4. key \in 1..Len(deviceIds) \cup {-1, -2} /\ key \in Int
  BY <1>3, KindsOfKeys
<1>5. SystemOK' /\ ListingOK' /\ OrderOfEvents'
  BY <1>1 DEF DevicesInv, SystemOK, ListingOK, OrderOfEvents, IdsAsked
<1>6. RepositoryOK'
  <2>1. currentKey' \in 1..Len(deviceIds') \cup {NoKey, -1, -2}
    BY <1>1, <1>4
  <2>2. captured' \in active' \cup {NoId}
    BY <1>1, <1>2, Captures
  <2> QED
    BY <1>1, <2>1, <2>2 DEF DevicesInv, RepositoryOK
<1>7. SelectionIsSaved'
  <2>1. CASE currentKey' = NoKey
    BY <2>1 DEF SelectionIsSaved
  <2>2. CASE currentKey' = key /\ saved' = SavedName(key, newId)
    <3>1. SavedAs(currentKey', deviceIds', saved')
      BY <1>1, <1>3, <1>4, <2>2, SavedNames, KindsOfKeys DEF SavedAs
    <3> QED
      BY <1>6, <3>1, SavedNext DEF RepositoryOK
  <2> QED
    BY <1>1, <2>1, <2>2
<1>8. ~missed' => \A flow \in Flow : AnswersFollow(flow)'
  BY <1>1 DEF AnswersFollow, IdsAsked, DefaultAsked
<1>9. ASSUME Following' PROVE ListFollows' /\ DefaultsFollow' /\ SelectionFollows'
  <2>1. ListFollows /\ DefaultsFollow /\ SelectionFollows
    BY <1>1, <1>9 DEF DevicesInv, Following
  <2>2. ListFollows' /\ DefaultsFollow'
    BY <1>1, <2>1 DEF ListFollows, DefaultsFollow
  <2>3. ASSUME newId = NoId PROVE Waits(events, 1, Relists)
    <3>1. CASE newId \in Range(deviceIds)
      BY <1>2, <2>3, <3>1, RangeIsValues, IdsOfFlows
    <3> QED
      BY <1>3, <2>1, <2>3, <3>1 DEF SelectionFollows
  <2>4. ASSUME NEW flow \in Flow, key = DefaultKey[flow], active \cap IdsOf[flow] = {}
        PROVE  Waits(events, 1, Removals)
    <3>1. PICK id \in Range(deviceIds) \cap IdsOf[flow] : TRUE
      BY <1>3, <2>4, KindsOfKeys
    <3>2. Waits(events, 1, {Removed(id)}) /\ {Removed(id)} \subseteq Removals
      BY <2>1, <2>4, <3>1, EventSets, IdsOfFlows DEF ListFollows
    <3> QED
      BY <3>2, WaitsForMore
  <2>5. SelectionFollows'
    BY <1>1, <2>1, <2>3, <2>4, KindsOfKeys DEF SelectionFollows
  <2> QED
    BY <2>2, <2>5
<1>10. ASSUME Following', ~lateSelect' PROVE CaptureFollows'
  <2>1. ListFollows /\ DefaultsFollow /\ CaptureFollows /\ events = <<>>
    BY <1>1, <1>10 DEF DevicesInv, Following
  <2>2. \A flow \in Flow : ~IdsAsked(flow)' /\ ~DefaultAsked(flow)'
    BY <1>1 DEF IdsAsked, DefaultAsked
  <2>3. \A these : ~Waits(events, 1, these)
    BY <2>1, NobodyWaits
  <2>4. Range(deviceIds) = active /\ \A flow \in Flow : defaults[flow] = osDefault[flow]
    BY <2>1, <2>3 DEF ListFollows, DefaultsFollow
  <2>5. newId # NoId => newId \in active
    BY <1>3, <2>4 DEF DevicesInv, SystemOK
  <2>6. CASE newId = NoId
    BY <1>1, <2>6, KindsOfKeys DEF CaptureFollows
  <2>7. CASE newId # NoId
    <3>1. currentKey' = key /\ captured' = newId
      BY <1>1, <2>1, <2>5, <2>7, CaughtUp, Captures DEF DevicesInv
    <3>2. CASE key \in 1..Len(deviceIds) /\ key > 0 /\ newId = deviceIds[key]
      BY <1>1, <2>2, <3>1, <3>2, KindsOfKeys DEF CaptureFollows
    <3>3. ASSUME NEW flow \in Flow, key = DefaultKey[flow], newId = defaults[flow]
          PROVE  CaptureFollows'
      <4>1. captured' = osDefault'[flow] /\ captured' \in DefaultIds[flow]
        BY <1>1, <2>4, <3>1, <3>3 DEF DevicesInv, RepositoryOK
      <4> QED
        BY <2>2, <3>1, <3>3, <4>1, KindsOfKeys DEF CaptureFollows
    <3> QED
      BY <1>3, <3>2, <3>3
  <2> QED
    BY <2>6, <2>7
<1> QED
  BY <1>5, <1>6, <1>7, <1>8, <1>9, <1>10 DEF DevicesInv

-----------------------------------------------------------------------------
(***************************************************************************)
(* The notifications: what was to wait at the second place waits at the    *)
(* first now, and a listing that returns leaves the repository as far      *)
(* behind the system as its answers were.                                  *)
(***************************************************************************)

LEMMA HandleKeeps ==
  ASSUME DevicesInv, NEW event, Handle(event)
  PROVE  /\ phase = "listening" /\ (Following <=> ~missed) /\ (Following' <=> ~missed)
         /\ UNCHANGED <<active, osDefault, phase, saved, lateSelect, missed>>
         /\ event \in Event /\ events[1] = event /\ events # <<>> /\ events \in Seq(Event)
         /\ \A these : Waits(events', 1, these) <=> Waits(events, 2, these)
         /\ \A these : event \notin these =>
              (Waits(events, 1, these) => Waits(events', 1, these))
         /\ SystemOK' /\ OrderOfEvents'
<1>1. /\ phase = "listening" /\ events # <<>> /\ Head(events) = event
      /\ events' = Tail(events)
      /\ UNCHANGED <<active, osDefault, phase, saved, lateSelect, missed>>
  BY DEF Handle
<1>2. events \in Seq(Event) /\ events[1] = event /\ event \in Event
      /\ events' \in Seq(Event)
  BY <1>1 DEF DevicesInv, SystemOK
<1>3. /\ \A these : Waits(events', 1, these) <=> Waits(events, 2, these)
      /\ \A these : Waits(events, 1, these) => event \in these \/ Waits(events', 1, these)
  BY <1>1, <1>2, WaitsBehind
<1>4. SystemOK'
  BY <1>1, <1>2 DEF DevicesInv, SystemOK
<1>5. \A these, those : Followed(events, these, those) => Followed(events', these, those)
  BY <1>1, <1>2, FollowedBehind
<1>6. OrderOfEvents'
  BY <1>1, <1>5 DEF DevicesInv, OrderOfEvents
<1> QED
  BY <1>1, <1>2, <1>3, <1>4, <1>6 DEF Following

\* What a listing that has just returned leaves to be mended.
Relisted ==
  \A flow \in Flow :
    /\ defaults[flow] # NoId => Range(deviceIds) \cap IdsOf[flow] # {}
    /\ defaults[flow] = NoId /\ Range(deviceIds) \cap IdsOf[flow] # {} =>
         Waits(events, 1, Removals)
    /\ active \cap IdsOf[flow] # {} /\ Range(deviceIds) \cap IdsOf[flow] = {} =>
         Waits(events, 1, {Added})
    /\ active \cap IdsOf[flow] = {} /\ Range(deviceIds) \cap IdsOf[flow] # {} =>
         Waits(events, 1, Removals)

LEMMA Relisting ==
  ASSUME DevicesInv, NEW event \in Relists, Handle(event), InitDeviceList
  PROVE  /\ asked = 4 /\ deviceIds' = answers.ids /\ defaults' = answers.defaults
         /\ ListingOK' /\ deviceIds' \in Seq(Ids)
         /\ defaults' \in [Flow -> Ids \cup {NoId}]
         /\ \A flow \in Flow : /\ AnswersFollow(flow)' /\ defaults'[flow] \in DefaultIds[flow]
                               /\ IdsAsked(flow) /\ DefaultAsked(flow)
                               /\ ~IdsAsked(flow)' /\ ~DefaultAsked(flow)'
         /\ ~missed => ListFollows' /\ DefaultsFollow' /\ Relisted'
<1>1. /\ asked = 4 /\ deviceIds' = answers.ids /\ defaults' = answers.defaults
      /\ asked' = 0 /\ answers' = NoAnswers
  BY DEF InitDeviceList
<1>2. /\ deviceIds' \in Seq(Ids) /\ defaults' \in [Flow -> Ids \cup {NoId}]
      /\ \A flow \in Flow : defaults'[flow] \in DefaultIds[flow]
      /\ Range(deviceIds') \subseteq Ids
  <2>1. /\ answers.ids \in Seq(Ids) /\ answers.defaults \in [Flow -> Ids \cup {NoId}]
        /\ \A flow \in Flow : answers.defaults[flow] \in DefaultIds[flow]
    BY DEF DevicesInv, ListingOK
  <2> QED
    BY <1>1, <2>1, RangeIsValues
<1>3. \A flow \in Flow : IdsAsked(flow) /\ DefaultAsked(flow)
  BY <1>1 DEF IdsAsked, DefaultAsked
<1>4. /\ ListingOK'
      /\ \A flow \in Flow : AnswersFollow(flow)' /\ ~IdsAsked(flow)' /\ ~DefaultAsked(flow)'
  BY <1>1, NothingAsked
<1>5. ASSUME ~missed PROVE ListFollows' /\ DefaultsFollow' /\ Relisted'
  <2>1. /\ \A these : Waits(events', 1, these) <=> Waits(events, 2, these)
        /\ UNCHANGED <<active, osDefault>>
    BY HandleKeeps
  <2>2. ASSUME NEW flow \in Flow
        PROVE  /\ \A id \in IdsOf[flow] :
                    /\ id \in Range(deviceIds') \ active => Waits(events', 1, {Removed(id)})
                    /\ id \in active \ Range(deviceIds') => Waits(events', 1, {Added})
               /\ defaults'[flow] = osDefault[flow] \/ Waits(events', 1, Changes(flow))
               /\ defaults'[flow] # NoId => Range(deviceIds') \cap IdsOf[flow] # {}
               /\ defaults'[flow] = NoId =>
                    \A id \in Range(deviceIds') \cap IdsOf[flow] : Waits(events', 1, {Removed(id)})
    BY <1>1, <1>3, <1>5, <2>1, <2>2 DEF DevicesInv, AnswersFollow
  <2>3. ListFollows'
    BY <1>2, <2>1, <2>2, IdsOfFlows DEF ListFollows, DevicesInv, SystemOK
  <2>4. DefaultsFollow'
    BY <2>1, <2>2 DEF DefaultsFollow
  <2>5. \A id \in Ids : Waits(events', 1, {Removed(id)}) => Waits(events', 1, Removals)
    <3> SUFFICES ASSUME NEW id \in Ids, Waits(events', 1, {Removed(id)})
                 PROVE  Waits(events', 1, Removals)
      OBVIOUS
    <3>1. {Removed(id)} \subseteq Removals
      BY EventSets
    <3> QED
      BY <3>1, WaitsForMore
  <2>6. Relisted'
    <3> SUFFICES ASSUME NEW flow \in Flow
                 PROVE
    /\ defaults'[flow] # NoId => Range(deviceIds') \cap IdsOf[flow] # {}
    /\ defaults'[flow] = NoId /\ Range(deviceIds') \cap IdsOf[flow] # {} =>
         Waits(events', 1, Removals)
    /\ active' \cap IdsOf[flow] # {} /\ Range(deviceIds') \cap IdsOf[flow] = {} =>
         Waits(events', 1, {Added})
    /\ active' \cap IdsOf[flow] = {} /\ Range(deviceIds') \cap IdsOf[flow] # {} =>
         Waits(events', 1, Removals)
      BY DEF Relisted
    <3> QED
      BY <2>1, <2>2, <2>5, IdsOfFlows
  <2> QED
    BY <2>3, <2>4, <2>6
<1> QED
  BY <1>1, <1>2, <1>3, <1>4, <1>5

\* A device that was selected keeps its selection, under the key it has now,
\* unless it is not listed any more; then it is not captured either.
LEMMA KeyFollows ==
  ASSUME DevicesInv, NEW event \in Relists, Handle(event), InitDeviceList,
         currentKey > 0, event # Removed(deviceIds[currentKey]),
         currentKey' = KeyIn(deviceIds', deviceIds[currentKey]),
         captured' = captured, ListUpdate(currentKey')
  PROVE  /\ currentKey' \in 1..Len(deviceIds') \cup {NoKey} /\ shownKey' = currentKey'
         /\ SavedAs(currentKey', deviceIds', saved')
         /\ ~missed /\ ~lateSelect => CaptureFollows'
<1> DEFINE id == deviceIds[currentKey]
<1>1. currentKey \in 1..Len(deviceIds) /\ id \in Ids /\ saved = id
  <2>1. deviceIds \in Seq(Ids) /\ currentKey \in 1..Len(deviceIds) \cup {NoKey, -1, -2}
    BY DEF DevicesInv, RepositoryOK
  <2>2. currentKey \in 1..Len(deviceIds)
    BY <2>1 DEF NoKey
  <2>3. SavedAs(currentKey, deviceIds, saved)
    BY SavedNow DEF DevicesInv
  <2> QED
    BY <2>1, <2>2, <2>3 DEF SavedAs
<1>2. /\ asked = 4 /\ deviceIds' = answers.ids /\ deviceIds' \in Seq(Ids)
      /\ \A flow \in Flow : IdsAsked(flow) /\ ~IdsAsked(flow)'
      /\ saved' = saved
  BY Relisting, HandleKeeps
<1> HIDE DEF id
<1>3. \/ /\ currentKey' \in 1..Len(deviceIds') /\ currentKey' > 0 /\ deviceIds'[currentKey'] = id
      \/ currentKey' = NoKey /\ id \notin Range(deviceIds')
  <2>1. currentKey' = KeyIn(deviceIds', id)
    BY DEF id
  <2> QED
    BY <1>2, <2>1, KeysIn
<1>4. shownKey' = currentKey'
  BY <1>3 DEF ListUpdate, KeysOf
<1>5. SavedAs(currentKey', deviceIds', saved')
  BY <1>1, <1>2, <1>3, KindsOfKeys DEF SavedAs
<1>6. ASSUME ~missed, ~lateSelect PROVE CaptureFollows'
  <2>1. CaptureFollows /\ Following
    BY <1>6, HandleKeeps DEF DevicesInv
  <2>2. /\ captured = id \/ (captured = NoId /\ Waits(events, 1, {Removed(id)}))
        /\ \A flow \in Flow : id \in IdsOf[flow] \ Range(answers.ids) => captured = NoId
    BY <1>2, <2>1 DEF CaptureFollows, id
  <2>3. Waits(events, 1, {Removed(id)}) => Waits(events', 1, {Removed(id)})
    <3>1. event \notin {Removed(id)}
      BY DEF id
    <3> QED
      BY <3>1, HandleKeeps
  <2>4. CASE currentKey' > 0 /\ deviceIds'[currentKey'] = id
    BY <1>2, <2>2, <2>3, <2>4, KindsOfKeys DEF CaptureFollows
  <2>5. CASE currentKey' = NoKey /\ id \notin Range(deviceIds')
    <3>1. captured' = NoId
      BY <1>1, <1>2, <2>2, <2>5, IdsOfFlows
    <3> QED
      BY <2>5, <3>1, KindsOfKeys DEF CaptureFollows
  <2> QED
    BY <1>3, <2>4, <2>5
<1> QED
  BY <1>3, <1>4, <1>5, <1>6

LEMMA KindsOfEvents ==
  /\ Added \notin Removals
  /\ \A id, b : Removed(id) \notin {Added} /\ (id # b => Removed(id) \notin {Removed(b)})
  /\ \A flow \in Flow : Added \notin Changes(flow)
  /\ \A flow \in Flow : \A id : Removed(id) \notin Changes(flow)
  /\ \A flow, id : DefaultChanged(flow, id) \notin Relists
  /\ \A flow, id : DefaultChanged(flow, id) \notin Removals
  /\ \A f, g \in Flow : \A id : f # g => DefaultChanged(f, id) \notin Changes(g)
  /\ \A flow \in Flow : \A id : DefaultChanged(flow, id) \in Event => id \in DefaultIds[flow]
<1>1. \A f, g \in Flow : \A id : DefaultChanged(f, id) \in Changes(g) =>
        f = g /\ id \in DefaultIds[f]
  BY EventsDiffer, EventSets
<1>2. \A flow, id : DefaultChanged(flow, id) \notin Relists
  BY EventsDiffer, EventSets
<1>3. \A flow \in Flow : \A id : DefaultChanged(flow, id) \in Event => id \in DefaultIds[flow]
  BY <1>1, <1>2, EventSets, Flows
<1> QED
  BY <1>1, <1>2, <1>3, EventsDiffer, EventSets

LEMMA OnDeviceAddedKeeps ==
  ASSUME DevicesInv, OnDeviceAdded
  PROVE  DevicesInv'
<1>1. /\ Handle(Added) /\ InitDeviceList /\ ListUpdate(currentKey')
      /\ captured' = captured
      /\ currentKey' =
           CASE IsDefaultKey(currentKey) -> currentKey
             [] ~IsDefaultKey(currentKey) /\ DeviceId(currentKey) # NoId ->
                  KeyIn(deviceIds', DeviceId(currentKey))
             [] OTHER -> NoKey
  BY DEF OnDeviceAdded
<1>2. Added \in Relists
  BY EventSets
<1>3. /\ deviceIds \in Seq(Ids) /\ captured \in active \cup {NoId}
      /\ currentKey \in 1..Len(deviceIds) \cup {NoKey, -1, -2}
  BY DEF DevicesInv, RepositoryOK
<1>4. SystemOK' /\ ListingOK' /\ OrderOfEvents' /\ \A flow \in Flow : AnswersFollow(flow)'
  BY <1>1, <1>2, HandleKeeps, Relisting
<1>5. /\ (Following <=> ~missed) /\ (Following' <=> ~missed)
      /\ UNCHANGED <<active, osDefault, saved, lateSelect>> /\ phase' = "listening"
  BY <1>1, HandleKeeps
<1>6. /\ deviceIds' \in Seq(Ids) /\ defaults' \in [Flow -> Ids \cup {NoId}]
      /\ \A flow \in Flow : defaults'[flow] \in DefaultIds[flow]
      /\ \A flow \in Flow : ~IdsAsked(flow)' /\ ~DefaultAsked(flow)'
      /\ ~missed => ListFollows' /\ DefaultsFollow' /\ Relisted'
  BY <1>1, <1>2, Relisting
<1>7. ASSUME currentKey' \in 1..Len(deviceIds') \cup {NoKey, -1, -2},
             SavedAs(currentKey', deviceIds', saved'),
             ~missed => SelectionFollows', ~missed /\ ~lateSelect => CaptureFollows'
      PROVE  DevicesInv'
  <2>1. RepositoryOK'
    BY <1>1, <1>3, <1>5, <1>6, <1>7 DEF RepositoryOK
  <2>2. SelectionIsSaved'
    BY <1>6, <1>7, SavedNext
  <2> QED
    BY <1>4, <1>5, <1>6, <1>7, <2>1, <2>2 DEF DevicesInv
<1>8. SavedAs(currentKey, deviceIds, saved)
  BY SavedNow DEF DevicesInv
<1>9. ~missed => \A flow \in Flow :
        defaults'[flow] = NoId /\ Range(deviceIds') \cap IdsOf[flow] # {} =>
          Waits(events', 1, Relists)
  BY <1>6, EventSets, WaitsForMore DEF Relisted
<1>10. ASSUME NEW flow \in Flow, currentKey = DefaultKey[flow] PROVE DevicesInv'
  <2>1. currentKey' = currentKey
    BY <1>1, <1>10, KindsOfKeys
  <2>2. /\ currentKey' \in 1..Len(deviceIds') \cup {NoKey, -1, -2}
        /\ SavedAs(currentKey', deviceIds', saved')
    BY <1>5, <1>8, <1>10, <2>1, KindsOfKeys DEF SavedAs
  <2>3. ASSUME ~missed PROVE SelectionFollows'
    <3>1. active \cap IdsOf[flow] = {} => Waits(events', 1, Removals)
      <4>1. active \cap IdsOf[flow] = {} => Waits(events, 1, Removals)
        BY <1>5, <1>10, <2>3 DEF DevicesInv, SelectionFollows
      <4>2. Added \notin Removals
        BY KindsOfEvents
      <4> QED
        BY <1>1, <4>1, <4>2, HandleKeeps
    <3>2. shownKey' # currentKey' => Range(deviceIds') \cap IdsOf[flow] = {}
      BY <1>1, <1>10, <2>1 DEF ListUpdate, KeysOf
    <3>3. shownKey' # currentKey' => Waits(events', 1, Relists)
      <4>1. shownKey' # currentKey' => Waits(events', 1, Removals) \/ Waits(events', 1, {Added})
        BY <1>5, <1>6, <2>3, <3>1, <3>2 DEF Relisted
      <4>2. Removals \subseteq Relists /\ {Added} \subseteq Relists
        BY EventSets
      <4> QED
        BY <4>1, <4>2, WaitsForMore
    <3> QED
      BY <1>5, <1>9, <1>10, <2>1, <2>3, <3>1, <3>3, KindsOfKeys DEF SelectionFollows
  <2>4. ASSUME ~missed, ~lateSelect PROVE CaptureFollows'
    <3>1. /\ captured \in DefaultIds[flow]
          /\ captured = osDefault[flow] \/ Waits(events, 1, Changes(flow))
      BY <1>5, <1>10, <2>4 DEF DevicesInv, CaptureFollows
    <3>2. Waits(events, 1, Changes(flow)) => Waits(events', 1, Changes(flow))
      BY <1>1, KindsOfEvents, HandleKeeps
    <3> QED
      BY <1>1, <1>5, <1>6, <1>10, <2>1, <3>1, <3>2, KindsOfKeys DEF CaptureFollows
  <2> QED
    BY <1>7, <2>2, <2>3, <2>4
<1>11. ASSUME shownKey' = currentKey', currentKey' \in 1..Len(deviceIds') \cup {NoKey}, ~missed
       PROVE  SelectionFollows'
  <2>1. \A flow \in Flow : currentKey' # DefaultKey[flow]
    BY <1>11, KindsOfKeys
  <2> QED
    BY <1>9, <1>11, <2>1 DEF SelectionFollows
<1>12. CASE currentKey \in 1..Len(deviceIds)
  <2>1. DeviceId(currentKey) = deviceIds[currentKey] /\ deviceIds[currentKey] # NoId
    BY <1>3, <1>12, DeviceIds, IdsOfFlows
  <2>2. currentKey' = KeyIn(deviceIds', deviceIds[currentKey]) /\ currentKey > 0
    BY <1>1, <1>12, <2>1, KindsOfKeys
  <2>3. Added # Removed(deviceIds[currentKey])
    BY EventsDiffer
  <2>4. /\ currentKey' \in 1..Len(deviceIds') \cup {NoKey} /\ shownKey' = currentKey'
        /\ SavedAs(currentKey', deviceIds', saved')
        /\ ~missed /\ ~lateSelect => CaptureFollows'
    BY <1>1, <1>2, <2>2, <2>3, KeyFollows
  <2> QED
    BY <1>7, <1>11, <2>4
<1>13. CASE currentKey = NoKey
  <2>1. currentKey' = NoKey /\ shownKey' = NoKey
    BY <1>1, <1>3, <1>13, DeviceIds, KindsOfKeys DEF ListUpdate
  <2>2. SavedAs(currentKey', deviceIds', saved')
    BY <2>1, KindsOfKeys DEF SavedAs
  <2>3. ~missed /\ ~lateSelect => CaptureFollows'
    BY <1>1, <1>5, <1>13, <2>1, KindsOfKeys DEF DevicesInv, CaptureFollows
  <2> QED
    BY <1>7, <1>11, <2>1, <2>2, <2>3
<1> QED
  BY <1>3, <1>10, <1>12, <1>13, KindsOfKeys

LEMMA OnDeviceRemovedKeeps ==
  ASSUME DevicesInv, NEW removed \in Ids, OnDeviceRemoved(removed)
  PROVE  DevicesInv'
<1> DEFINE currentId == DeviceId(currentKey)
           kept == \E flow \in Flow : currentKey = DefaultKey[flow] /\ defaults'[flow] # NoId
<1>1. /\ Handle(Removed(removed)) /\ InitDeviceList /\ ListUpdate(currentKey')
      /\ captured' = IF currentKey # NoKey /\ currentId = removed THEN NoId ELSE captured
      /\ currentKey = NoKey => currentKey' = NoKey
      /\ currentKey # NoKey /\ IsDefaultKey(currentKey) =>
           currentKey' = IF kept THEN currentKey ELSE NoKey
      /\ currentKey # NoKey /\ ~IsDefaultKey(currentKey) =>
           currentKey' = IF currentId \notin {NoId, removed} THEN KeyIn(deviceIds', currentId)
                                                             ELSE NoKey
  <2>1. /\ currentKey = NoKey => currentKey' = NoKey
        /\ currentKey # NoKey /\ IsDefaultKey(currentKey) =>
             currentKey' = IF kept THEN currentKey ELSE NoKey
        /\ currentKey # NoKey /\ ~IsDefaultKey(currentKey) =>
             currentKey' = IF currentId \notin {NoId, removed} THEN KeyIn(deviceIds', currentId)
                                                               ELSE NoKey
    <3>1. IsDefaultKey(currentKey) => currentKey # NoKey
      BY KindsOfKeys
    <3> QED
      BY <3>1 DEF OnDeviceRemoved
  <2> QED
    BY <2>1 DEF OnDeviceRemoved
<1>2. Removed(removed) \in Relists
  BY EventSets
<1>3. /\ deviceIds \in Seq(Ids) /\ captured \in active \cup {NoId}
      /\ currentKey \in 1..Len(deviceIds) \cup {NoKey, -1, -2}
  BY DEF DevicesInv, RepositoryOK
<1>4. SystemOK' /\ ListingOK' /\ OrderOfEvents' /\ \A flow \in Flow : AnswersFollow(flow)'
  BY <1>1, <1>2, HandleKeeps, Relisting
<1>5. /\ (Following <=> ~missed) /\ (Following' <=> ~missed)
      /\ UNCHANGED <<active, osDefault, saved, lateSelect>> /\ phase' = "listening"
  BY <1>1, HandleKeeps
<1>6. /\ deviceIds' \in Seq(Ids) /\ defaults' \in [Flow -> Ids \cup {NoId}]
      /\ defaults' = answers.defaults
      /\ \A flow \in Flow : defaults'[flow] \in DefaultIds[flow] /\ DefaultAsked(flow)
      /\ \A flow \in Flow : ~IdsAsked(flow)' /\ ~DefaultAsked(flow)'
      /\ ~missed => ListFollows' /\ DefaultsFollow' /\ Relisted'
  BY <1>1, <1>2, Relisting
<1>7. ASSUME currentKey' \in 1..Len(deviceIds') \cup {NoKey, -1, -2},
             SavedAs(currentKey', deviceIds', saved'),
             ~missed => SelectionFollows', ~missed /\ ~lateSelect => CaptureFollows'
      PROVE  DevicesInv'
  <2>1. captured' \in active' \cup {NoId}
    BY <1>1, <1>3, <1>5
  <2>2. RepositoryOK'
    BY <1>3, <1>5, <1>6, <1>7, <2>1 DEF RepositoryOK
  <2>3. SelectionIsSaved'
    BY <1>6, <1>7, SavedNext
  <2> QED
    BY <1>4, <1>5, <1>6, <1>7, <2>2, <2>3 DEF DevicesInv
<1>8. SavedAs(currentKey, deviceIds, saved)
  BY SavedNow DEF DevicesInv
<1>9. ~missed => \A flow \in Flow :
        defaults'[flow] = NoId /\ Range(deviceIds') \cap IdsOf[flow] # {} =>
          Waits(events', 1, Relists)
  BY <1>6, EventSets, WaitsForMore DEF Relisted
<1>10. ASSUME shownKey' = currentKey', currentKey' \in 1..Len(deviceIds') \cup {NoKey}, ~missed
       PROVE  SelectionFollows'
  <2>1. \A flow \in Flow : currentKey' # DefaultKey[flow]
    BY <1>10, KindsOfKeys
  <2> QED
    BY <1>9, <1>10, <2>1 DEF SelectionFollows
<1>11. ASSUME currentKey' = NoKey, ~missed /\ ~lateSelect => captured' = NoId
       PROVE  DevicesInv'
  <2>1. shownKey' = currentKey'
    BY <1>1, <1>11 DEF ListUpdate
  <2>2. SavedAs(currentKey', deviceIds', saved')
    BY <1>11, KindsOfKeys DEF SavedAs
  <2>3. ~missed /\ ~lateSelect => CaptureFollows'
    BY <1>11, KindsOfKeys DEF CaptureFollows
  <2> QED
    BY <1>7, <1>10, <1>11, <2>1, <2>2, <2>3
<1>12. CASE currentKey = NoKey
  BY <1>1, <1>5, <1>11, <1>12 DEF DevicesInv, CaptureFollows
<1>13. ASSUME NEW flow \in Flow, currentKey = DefaultKey[flow] PROVE DevicesInv'
  <2>1. /\ currentId = defaults[flow]
        /\ captured' = IF currentId = removed THEN NoId ELSE captured
        /\ currentKey' = IF defaults'[flow] # NoId THEN currentKey ELSE NoKey
    BY <1>1, <1>3, <1>13, DeviceIds, KindsOfKeys
  <2>2. CASE defaults'[flow] = NoId
    <3>1. ~missed /\ ~lateSelect => captured = NoId
      BY <1>5, <1>6, <1>13, <2>2 DEF DevicesInv, CaptureFollows
    <3> QED
      BY <1>11, <2>1, <2>2, <3>1
  <2>3. CASE defaults'[flow] # NoId
    <3>1. currentKey' = DefaultKey[flow]
      BY <1>13, <2>1, <2>3
    <3>2. /\ currentKey' \in 1..Len(deviceIds') \cup {NoKey, -1, -2}
          /\ SavedAs(currentKey', deviceIds', saved')
      BY <1>5, <1>8, <1>13, <3>1, KindsOfKeys DEF SavedAs
    <3>3. ASSUME ~missed PROVE SelectionFollows'
      <4>1. Range(deviceIds') \cap IdsOf[flow] # {}
        BY <1>6, <2>3, <3>3 DEF Relisted
      <4>2. shownKey' = currentKey'
        BY <1>1, <3>1, <4>1 DEF ListUpdate, KeysOf
      <4>3. active' \cap IdsOf[flow] = {} => Waits(events', 1, Removals)
        BY <1>6, <3>3, <4>1 DEF Relisted
      <4> QED
        BY <1>9, <3>1, <3>3, <4>2, <4>3, KindsOfKeys DEF SelectionFollows
    <3>4. ASSUME ~missed, ~lateSelect PROVE CaptureFollows'
      <4>1. /\ captured \in DefaultIds[flow]
            /\ captured = osDefault[flow] \/ Waits(events, 1, Changes(flow))
            /\ defaults[flow] = osDefault[flow] \/ Waits(events, 1, Changes(flow))
        BY <1>5, <1>13, <3>4 DEF DevicesInv, CaptureFollows, DefaultsFollow
      <4>2. Waits(events, 1, Changes(flow)) => Waits(events', 1, Changes(flow))
        BY <1>1, KindsOfEvents, HandleKeeps
      <4>3. removed = osDefault[flow] => Waits(events', 1, Changes(flow))
        <5>1. Followed(events, {Removed(osDefault[flow])}, Changes(flow))
          BY DEF DevicesInv, OrderOfEvents
        <5>2. events[1] = Removed(removed) /\ events # <<>> /\ events \in Seq(Event)
          BY <1>1, HandleKeeps
        <5>3. removed = osDefault[flow] => Waits(events, 2, Changes(flow))
          BY <5>1, <5>2, FollowedBehind
        <5> QED
          BY <1>1, <5>3, HandleKeeps
      <4>4. captured' = osDefault[flow] \/ Waits(events', 1, Changes(flow))
        BY <2>1, <4>1, <4>2, <4>3
      <4>5. captured' \in DefaultIds[flow]
        BY <2>1, <4>1, Flows
      <4> QED
        BY <1>5, <1>6, <3>1, <4>4, <4>5, KindsOfKeys DEF CaptureFollows
    <3> QED
      BY <1>7, <3>2, <3>3, <3>4
  <2> QED
    BY <2>2, <2>3
<1>14. CASE currentKey \in 1..Len(deviceIds)
  <2>1. /\ currentId = deviceIds[currentKey] /\ currentId # NoId
        /\ currentKey > 0 /\ currentKey # NoKey /\ ~IsDefaultKey(currentKey)
    BY <1>3, <1>14, DeviceIds, IdsOfFlows, KindsOfKeys
  <2>2. CASE currentId = removed
    BY <1>1, <1>11, <2>1, <2>2
  <2>3. CASE currentId # removed
    <3>1. currentKey' = KeyIn(deviceIds', deviceIds[currentKey]) /\ captured' = captured
      BY <1>1, <2>1, <2>3
    <3>2. Removed(removed) # Removed(deviceIds[currentKey])
      BY <2>1, <2>3, EventsDiffer
    <3>3. /\ currentKey' \in 1..Len(deviceIds') \cup {NoKey} /\ shownKey' = currentKey'
          /\ SavedAs(currentKey', deviceIds', saved')
          /\ ~missed /\ ~lateSelect => CaptureFollows'
      BY <1>1, <1>2, <2>1, <3>1, <3>2, KeyFollows
    <3> QED
      BY <1>7, <1>10, <3>3
  <2> QED
    BY <2>2, <2>3
<1> QED
  BY <1>3, <1>12, <1>13, <1>14, KindsOfKeys

LEMMA OnDefaultDeviceChangedKeeps ==
  ASSUME DevicesInv, NEW changed \in Flow, NEW id, OnDefaultDeviceChanged(changed, id)
  PROVE  DevicesInv'
<1> DEFINE event == DefaultChanged(changed, id)
<1>1. /\ Handle(event)
      /\ captured' = IF currentKey = DefaultKey[changed] THEN Capture(id) ELSE captured
      /\ defaults' = [defaults EXCEPT ![changed] = id]
      /\ UNCHANGED <<asked, answers, deviceIds, currentKey, shownKey>>
  BY DEF OnDefaultDeviceChanged, listing
<1>2. /\ event \notin Relists /\ event \notin Removals /\ event \notin {Added}
      /\ \A b : event \notin {Removed(b)}
      /\ \A flow \in Flow \ {changed} : event \notin Changes(flow)
  BY KindsOfEvents, EventsDiffer
<1>3. /\ event \in Event /\ events[1] = event /\ events # <<>> /\ events \in Seq(Event)
      /\ (Following <=> ~missed) /\ (Following' <=> ~missed) /\ phase = "listening"
      /\ UNCHANGED <<active, osDefault, phase, saved, lateSelect, missed>>
      /\ SystemOK' /\ OrderOfEvents'
      /\ \A these : Waits(events', 1, these) <=> Waits(events, 2, these)
      /\ \A these : event \notin these => (Waits(events, 1, these) => Waits(events', 1, these))
  BY <1>1, HandleKeeps
<1>4. id \in DefaultIds[changed]
  BY <1>3, KindsOfEvents
<1>5. \A these, those : event \in these /\ Followed(events, these, those) => Waits(events', 1, those)
  BY <1>3, FollowedBehind
<1>6. id # osDefault[changed] => Waits(events', 1, Changes(changed))
  <2>1. Followed(events, Changes(changed) \ {DefaultChanged(changed, osDefault[changed])},
                 Changes(changed))
    BY DEF DevicesInv, OrderOfEvents
  <2>2. event \in Changes(changed)
    BY <1>4, EventSets
  <2>3. id # osDefault[changed] => event # DefaultChanged(changed, osDefault[changed])
    BY EventsDiffer
  <2> QED
    BY <1>5, <2>1, <2>2, <2>3
<1>7. id = NoId /\ active \cap IdsOf[changed] # {} => Waits(events', 1, {Added})
  <2>1. active \cap IdsOf[changed] # {} =>
          Followed(events, {DefaultChanged(changed, NoId)}, {Added})
    BY DEF DevicesInv, OrderOfEvents
  <2>2. id = NoId => event \in {DefaultChanged(changed, NoId)}
    OBVIOUS
  <2> QED
    BY <1>5, <2>1, <2>2
<1> HIDE DEF event
<1>8. asked = 0 /\ \A flow \in Flow : ~IdsAsked(flow)' /\ ~DefaultAsked(flow)'
  <2>1. asked = 0
    BY <1>2, <1>3 DEF DevicesInv, ListingOK
  <2> QED
    BY <1>1, <2>1 DEF IdsAsked, DefaultAsked
<1>9. ListingOK' /\ \A flow \in Flow : AnswersFollow(flow)'
  <2>1. ListingOK'
    BY <1>1, <1>8 DEF DevicesInv, ListingOK, IdsAsked
  <2> QED
    BY <1>8, <2>1 DEF AnswersFollow
<1>10. /\ defaults' \in [Flow -> Ids \cup {NoId}] /\ defaults'[changed] = id
       /\ \A flow \in Flow \ {changed} : defaults'[flow] = defaults[flow]
       /\ \A flow \in Flow : defaults'[flow] \in DefaultIds[flow]
  BY <1>1, <1>4, Flows, IdsOfFlows DEF DevicesInv, RepositoryOK
<1>11. RepositoryOK'
  <2>1. captured' \in active' \cup {NoId}
    BY <1>1, <1>3, Captures DEF DevicesInv, RepositoryOK
  <2> QED
    BY <1>1, <1>3, <1>10, <2>1 DEF DevicesInv, RepositoryOK
<1>12. SelectionIsSaved'
  <2>1. SavedAs(currentKey', deviceIds', saved')
    BY <1>1, <1>3, SavedNow DEF DevicesInv
  <2> QED
    BY <1>11, <2>1, SavedNext DEF RepositoryOK
<1>13. ASSUME Following' PROVE ListFollows' /\ DefaultsFollow' /\ SelectionFollows'
  <2>1. ListFollows /\ DefaultsFollow /\ SelectionFollows
    BY <1>3, <1>13 DEF DevicesInv
  <2>2. ListFollows'
    BY <1>1, <1>2, <1>3, <2>1 DEF ListFollows
  <2>3. DefaultsFollow'
    BY <1>2, <1>3, <1>6, <1>10, <2>1 DEF DefaultsFollow
  <2>4. ASSUME NEW flow \in Flow, defaults'[flow] = NoId, Range(deviceIds) \cap IdsOf[flow] # {}
        PROVE  Waits(events', 1, Relists)
    <3>1. CASE flow # changed
      BY <1>2, <1>3, <1>10, <2>1, <2>4, <3>1 DEF SelectionFollows
    <3>2. CASE flow = changed /\ active \cap IdsOf[flow] # {}
      <4>1. Waits(events', 1, {Added}) /\ {Added} \subseteq Relists
        BY <1>7, <1>10, <2>4, <3>2, EventSets
      <4> QED
        BY <4>1, WaitsForMore
    <3>3. CASE active \cap IdsOf[flow] = {}
      <4>1. PICK x \in Range(deviceIds) \cap IdsOf[flow] : TRUE
        BY <2>4
      <4>2. Waits(events', 1, {Removed(x)}) /\ {Removed(x)} \subseteq Relists
        BY <1>2, <1>3, <2>1, <3>3, <4>1, EventSets, IdsOfFlows DEF ListFollows
      <4> QED
        BY <4>2, WaitsForMore
    <3> QED
      BY <3>1, <3>2, <3>3
  <2>5. SelectionFollows'
    BY <1>1, <1>2, <1>3, <2>1, <2>4 DEF SelectionFollows
  <2> QED
    BY <2>2, <2>3, <2>5
<1>14. ASSUME Following', ~lateSelect' PROVE CaptureFollows'
  <2>1. CaptureFollows
    BY <1>3, <1>14 DEF DevicesInv
  <2>2. CASE currentKey = DefaultKey[changed]
    <3>1. captured' \in DefaultIds[changed]
      BY <1>1, <1>4, <2>2, Captures, Flows
    <3>2. id = osDefault[changed] => captured' = id
      <4>1. osDefault[changed] = NoId \/ osDefault[changed] \in active
        BY DEF DevicesInv, SystemOK
      <4> QED
        BY <1>1, <2>2, <4>1, Captures
    <3> QED
      BY <1>1, <1>3, <1>6, <1>8, <2>2, <3>1, <3>2, KindsOfKeys DEF CaptureFollows
  <2>3. CASE currentKey # DefaultKey[changed]
    <3>1. captured' = captured
      BY <1>1, <2>3
    <3>2. ASSUME currentKey > 0
          PROVE  \/ captured = deviceIds[currentKey]
                 \/ captured = NoId /\ Waits(events', 1, {Removed(deviceIds[currentKey])})
      BY <1>2, <1>3, <2>1, <3>2 DEF CaptureFollows
    <3>3. ASSUME NEW flow \in Flow, currentKey = DefaultKey[flow]
          PROVE  /\ captured \in DefaultIds[flow]
                 /\ captured = osDefault[flow] \/ Waits(events', 1, Changes(flow))
      BY <1>2, <1>3, <2>1, <2>3, <3>3 DEF CaptureFollows
    <3> QED
      BY <1>1, <1>3, <1>8, <2>1, <3>1, <3>2, <3>3 DEF CaptureFollows
  <2> QED
    BY <2>2, <2>3
<1> QED
  BY <1>3, <1>9, <1>11, <1>12, <1>13, <1>14 DEF DevicesInv

-----------------------------------------------------------------------------
(***************************************************************************)
(* The invariant, and what it gives.                                       *)
(***************************************************************************)

LEMMA StutterKeeps ==
  ASSUME DevicesInv, UNCHANGED vars
  PROVE  DevicesInv'
<1>1. UNCHANGED <<system, phase, listing, repository, shownKey, captured, lateSelect, missed>>
  BY DEF vars
<1>2. UNCHANGED <<phase, asked, answers, events, osDefault, active, missed, lateSelect>>
      /\ UNCHANGED <<currentKey, deviceIds, captured>>
  BY <1>1 DEF system, listing, repository
<1>3. /\ SystemOK' /\ RepositoryOK' /\ SelectionIsSaved' /\ OrderOfEvents'
      /\ Following' => ListFollows' /\ DefaultsFollow' /\ SelectionFollows'
  BY <1>1, AskingLeavesRest
<1>4. ListingOK'
  BY <1>2 DEF DevicesInv, ListingOK, IdsAsked
<1>5. ~missed' => \A flow \in Flow : AnswersFollow(flow)'
  BY <1>2 DEF DevicesInv, AnswersFollow, IdsAsked, DefaultAsked
<1>6. Following' /\ ~lateSelect' => CaptureFollows'
  BY <1>2 DEF DevicesInv, CaptureFollows, IdsAsked, DefaultAsked, Following
<1> QED
  BY <1>3, <1>4, <1>5, <1>6 DEF DevicesInv

LEMMA InitEstablishes ==
  ASSUME DevicesInit
  PROVE  DevicesInv
<1>1. /\ active \in SUBSET Ids /\ osDefault \in Defaults(active) /\ events = <<>>
      /\ phase = "start" /\ asked = 0 /\ answers = NoAnswers
      /\ deviceIds = <<>> /\ currentKey = NoKey
      /\ defaults = [flow \in Flow |-> NoId]
      /\ shownKey = NoKey /\ captured = NoId
  BY DEF DevicesInit
<1>2. /\ NoAnswers.ids = <<>> /\ Range(<<>>) = {}
      /\ NoAnswers.defaults = [flow \in Flow |-> NoId]
      /\ NoAnswers \in [ids : Seq(Ids), defaults : [Flow -> Ids \cup {NoId}]]
  BY DEF NoAnswers, Range
<1>3. SystemOK
  BY <1>1, DefaultsAreActive DEF SystemOK
<1>4. ListingOK
  BY <1>1, <1>2, Flows DEF ListingOK
<1>5. RepositoryOK
  BY <1>1, Flows DEF RepositoryOK
<1>6. SelectionIsSaved
  BY <1>1 DEF SelectionIsSaved
<1>7. OrderOfEvents
  BY <1>1 DEF OrderOfEvents, Followed
<1>8. \A flow \in Flow : AnswersFollow(flow)
  BY <1>1 DEF AnswersFollow, IdsAsked, DefaultAsked
<1>9. ~Following
  BY <1>1 DEF Following
<1> QED
  BY <1>3, <1>4, <1>5, <1>6, <1>7, <1>8, <1>9 DEF DevicesInv

LEMMA StepKeeps ==
  ASSUME DevicesInv, [DevicesNext]_vars
  PROVE  DevicesInv'
<1> SystemOK
  BY DEF DevicesInv
<1>1. ASSUME NEW id \in Ids, PlugIn(id) \/ Unplug(id) PROVE DevicesInv'
  BY <1>1, SystemChanges, SystemStepKeeps
<1>2. ASSUME NEW flow \in Flow, ChangeDefault(flow) PROVE DevicesInv'
  BY <1>2, SystemChanges, SystemStepKeeps
<1>3. ASSUME NEW flow \in Flow, GetEndpointDevices(flow) \/ GetDefaultDeviceId(flow)
      PROVE  DevicesInv'
  BY <1>3, GetEndpointDevicesKeeps, GetDefaultDeviceIdKeeps
<1>4. CASE AskFails \/ Construct \/ LoadDevice \/ Listen
  BY <1>4, AskFailsKeeps, ConstructKeeps, LoadDeviceKeeps, ListenKeeps
<1>5. ASSUME NEW key \in KeysOf(deviceIds), OnDeviceSelected(key) PROVE DevicesInv'
  BY <1>5, OnDeviceSelectedKeeps
<1>6. CASE OnDeviceAdded
  BY <1>6, OnDeviceAddedKeeps
<1>7. ASSUME NEW id \in Ids, OnDeviceRemoved(id) PROVE DevicesInv'
  BY <1>7, OnDeviceRemovedKeeps
<1>8. ASSUME NEW flow \in Flow, NEW id \in Ids \cup {NoId}, OnDefaultDeviceChanged(flow, id)
      PROVE  DevicesInv'
  BY <1>8, OnDefaultDeviceChangedKeeps
<1>9. CASE UNCHANGED vars
  BY <1>9, StutterKeeps
<1>10. CASE Ended
  BY <1>10, StutterKeeps DEF Ended
<1> QED
  BY <1>1, <1>2, <1>3, <1>4, <1>5, <1>6, <1>7, <1>8, <1>9, <1>10 DEF DevicesNext

LEMMA DevicesInvariance == DevicesSpec => []DevicesInv
BY InitEstablishes, StepKeeps, PTL DEF DevicesSpec

\* With no notification left there is nothing to mend.
LEMMA SettledFollows ==
  ASSUME DevicesInv, Settled
  PROVE  /\ ListFollows /\ DefaultsFollow /\ SelectionFollows
         /\ events = <<>> /\ \A these : ~Waits(events, 1, these)
         /\ ~lateSelect => CaptureFollows
<1>1. Following /\ events = <<>>
  BY DEF Settled, Following
<1> QED
  BY <1>1, NobodyWaits DEF DevicesInv

(***************************************************************************)
(* Once the notifications are handled, the list and the defaults are the   *)
(* system's (Devices.cpp, onDeviceAdded, onDeviceRemoved and               *)
(* onDefaultDeviceChanged), however far they lagged behind and whatever    *)
(* changed between two questions of a listing.                             *)
(***************************************************************************)
THEOREM ListsCatchUp == DevicesSpec => []ListCatchesUp
<1>1. ASSUME DevicesInv, Settled PROVE Range(deviceIds) = active /\ defaults = osDefault
  <2>1. Range(deviceIds) = active /\ \A flow \in Flow : defaults[flow] = osDefault[flow]
    BY <1>1, SettledFollows DEF ListFollows, DefaultsFollow
  <2>2. defaults \in [Flow -> Ids \cup {NoId}] /\ osDefault \in [Flow -> Ids \cup {NoId}]
    BY <1>1 DEF DevicesInv, SystemOK, RepositoryOK
  <2> QED
    BY <2>1, <2>2
<1>2. DevicesInv => ListCatchesUp
  BY <1>1 DEF ListCatchesUp
<1> QED
  BY <1>2, DevicesInvariance, PTL

(***************************************************************************)
(* ... the device that is captured is the one that is selected, if the     *)
(* user did not select one while a notification was under way (idUpdate_   *)
(* is called for a change of the id only, in Devices.cpp).                 *)
(***************************************************************************)
THEOREM CapturesCatchUp == DevicesSpec => []CaptureCatchesUp
<1>1. DevicesInv => CaptureCatchesUp
  BY SettledFollows, CaughtUp DEF DevicesInv, CaptureCatchesUp
<1> QED
  BY <1>1, DevicesInvariance, PTL

(***************************************************************************)
(* ... and the combo box shows the selection, although onDeviceListUpdated *)
(* rebuilds it with other keys.                                            *)
(***************************************************************************)
THEOREM ComboBoxIsCurrent == DevicesSpec => []ShownIsCurrent
<1>1. DevicesInv => ShownIsCurrent
  BY SettledFollows DEF SelectionFollows, ShownIsCurrent
<1> QED
  BY <1>1, DevicesInvariance, PTL

(***************************************************************************)
(* At all times the settings name what is selected, by its id or as one of *)
(* the two defaults (Devices.cpp, onDeviceSelected and                     *)
(* selectDefaultDevice).                                                   *)
(***************************************************************************)
THEOREM SettingsNameSelection == DevicesSpec => []SelectionIsSaved
<1>1. DevicesInv => SelectionIsSaved
  BY DEF DevicesInv
<1> QED
  BY <1>1, DevicesInvariance, PTL

(***************************************************************************)
(* A key that follows its device through a listing never becomes another   *)
(* device's: only the user's selection changes the device.                 *)
(***************************************************************************)
THEOREM SelectionStays == DevicesSpec => SelectionStaysPut
<1> DEFINE Kept == (currentKey > 0 /\ currentKey' > 0) =>
                     \/ deviceIds'[currentKey'] = deviceIds[currentKey]
                     \/ \E key \in KeysOf(deviceIds) : OnDeviceSelected(key)
<1>1. ASSUME DevicesInv, DevicesInv', DevicesNext, currentKey > 0, currentKey' > 0
      PROVE  \/ deviceIds'[currentKey'] = deviceIds[currentKey]
             \/ \E key \in KeysOf(deviceIds) : OnDeviceSelected(key)
  <2>1. saved = deviceIds[currentKey]
    BY <1>1, SavedNow DEF DevicesInv, SavedAs
  <2>2. saved' = deviceIds'[currentKey']
    <3>1. deviceIds' \in Seq(Ids) /\ currentKey' \in 1..Len(deviceIds') \cup {NoKey, -1, -2}
      BY <1>1 DEF DevicesInv, RepositoryOK
    <3>2. currentKey' \in 1..Len(deviceIds') /\ currentKey' \in Int
      BY <1>1, <3>1 DEF NoKey
    <3>3. DeviceId(currentKey)' = deviceIds'[currentKey']
      BY <3>1, <3>2, DeviceIdsNext
    <3>4. SavedName(currentKey', DeviceId(currentKey)') = DeviceId(currentKey)'
      BY <1>1, <3>2, SavedNames
    <3>5. currentKey' # NoKey
      BY <1>1, KindsOfKeys
    <3> QED
      BY <1>1, <3>3, <3>4, <3>5 DEF DevicesInv, SelectionIsSaved
  <2>3. ASSUME ~LoadDevice, ~\E key \in KeysOf(deviceIds) : OnDeviceSelected(key)
        PROVE  saved' = saved
    <3>1. ASSUME NEW id \in Ids, PlugIn(id) \/ Unplug(id) PROVE saved' = saved
      BY <3>1 DEF PlugIn, Unplug, SystemBecomes, repository
    <3>2. ASSUME NEW flow \in Flow,
                 \/ ChangeDefault(flow) \/ GetEndpointDevices(flow) \/ GetDefaultDeviceId(flow)
          PROVE  saved' = saved
      BY <3>2
      DEF ChangeDefault, SystemBecomes, GetEndpointDevices, GetDefaultDeviceId, Asks, repository
    <3>3. CASE AskFails \/ Construct \/ Listen \/ Ended
      BY <3>3 DEF AskFails, Construct, Listen, Ended, vars, repository
    <3>4. CASE OnDeviceAdded
      BY <3>4 DEF OnDeviceAdded, Handle
    <3>5. ASSUME NEW id \in Ids, OnDeviceRemoved(id) PROVE saved' = saved
      BY <3>5 DEF OnDeviceRemoved, Handle
    <3>6. ASSUME NEW flow \in Flow, NEW id \in Ids \cup {NoId}, OnDefaultDeviceChanged(flow, id)
          PROVE  saved' = saved
      BY <3>6 DEF OnDefaultDeviceChanged, Handle
    <3> QED
      BY <1>1, <2>3, <3>1, <3>2, <3>3, <3>4, <3>5, <3>6 DEF DevicesNext
  <2>4. ~LoadDevice
    <3>1. LoadDevice => currentKey = NoKey
      BY <1>1 DEF LoadDevice, DevicesInv, RepositoryOK
    <3> QED
      BY <1>1, <3>1, KindsOfKeys
  <2> QED
    BY <2>1, <2>2, <2>3, <2>4
<1>2. DevicesInv /\ DevicesInv' /\ [DevicesNext]_vars => [Kept]_vars
  BY <1>1
<1>3. [][Kept]_vars => SelectionStaysPut
  BY DEF SelectionStaysPut
<1> QED
  BY <1>2, <1>3, DevicesInvariance, PTL DEF DevicesSpec
=============================================================================
