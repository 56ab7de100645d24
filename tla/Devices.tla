------------------------------ MODULE Devices ------------------------------
(***************************************************************************)
(* The device repository (domain/Devices.cpp) between the operating        *)
(* system, whose devices come and go, and the user, who selects one.       *)
(*                                                                         *)
(* The system's changes reach the repository as notifications              *)
(* (audio/DeviceEventListener.cpp), one after the other and some time      *)
(* after the change: the thread that brings them waits in SendMessage      *)
(* until the UI thread has handled the one before.  When a handler lists   *)
(* the devices, it asks the system four questions, and each is answered as *)
(* the system is by then, which may be ahead of the notification it        *)
(* handles, and of the answer before.                                      *)
(*                                                                         *)
(* Keys are the positions in the list, so they mean another device after   *)
(* each listing; -1 and -2 are the default devices of the two flows.       *)
(***************************************************************************)
EXTENDS Integers, Sequences, FiniteSets, SequencesExt

CONSTANTS
  Playback,     \* the render endpoints
  Recording,    \* the capture endpoints
  NoId,         \* no device id
  DeviceFirst,  \* the system tells of a device before its default moves
  MaxEvents     \* bound of a run: notifications not yet delivered

Flow == {"render", "capture"}
Ids == Playback \cup Recording
IdsOf == [flow \in Flow |-> IF flow = "render" THEN Playback ELSE Recording]

ASSUME NoIdAssumption == NoId \notin Ids
ASSUME DeviceFirstAssumption == DeviceFirst \in BOOLEAN
ASSUME FlowsAssumption == IsFiniteSet(Ids) /\ Playback \cap Recording = {}

NoKey == 0
DefaultKey == [flow \in Flow |-> IF flow = "render" THEN -1 ELSE -2]
DefaultName == [flow \in Flow |->
                  IF flow = "render" THEN "default_playback" ELSE "default_recording"]

VARIABLES
  active,       \* system: the devices that are active
  osDefault,    \* system: the default device of each flow
  events,       \* system: the notifications not yet handled
  phase,        \* initDevices: "start", "listed", "selected", "listening";
                \* or "ended", by an error of the system
  asked,        \* initDeviceList: the questions asked so far
  answers,      \* and what the system has answered
  deviceIds,    \* deviceIds_: the ids of the keys 1, 2, ...
  currentKey,   \* currentDeviceKey_
  defaults,     \* currentDefaultPlaybackDeviceId_ and ...RecordingDeviceId_
  saved,        \* the capture device in the settings
  shownKey,     \* the key selected in the combo box
  captured,     \* the device being captured since the last idUpdate_
  lateSelect,   \* history: the selection fell behind an unhandled notification
  missed        \* history: the system changed before anyone listened

system == <<active, osDefault, events>>
repository == <<deviceIds, currentKey, defaults, saved>>
listing == <<asked, answers>>
vars == <<system, phase, listing, repository, shownKey, captured, lateSelect, missed>>

Added == [type |-> "added"]
Removed(id) == [type |-> "removed", id |-> id]
DefaultChanged(flow, id) == [type |-> "default", flow |-> flow, id |-> id]

-----------------------------------------------------------------------------
\* getDeviceId and getDeviceKey.
DeviceId(key) ==
  CASE key \in 1..Len(deviceIds) -> deviceIds[key]
    [] key = DefaultKey["render"] -> defaults["render"]
    [] key = DefaultKey["capture"] -> defaults["capture"]
    [] OTHER -> NoId

KeyIn(ids, id) == IF Contains(ids, id) THEN CHOOSE k \in 1..Len(ids) : ids[k] = id
                                       ELSE NoKey

\* What the combo box offers after a listing.
KeysOf(ids) ==
  (1..Len(ids)) \cup {DefaultKey[flow] : flow \in
                        {f \in Flow : Range(ids) \cap IdsOf[f] # {}}}

SavedName(key, id) ==
  CASE key = DefaultKey["render"] -> DefaultName["render"]
    [] key = DefaultKey["capture"] -> DefaultName["capture"]
    [] OTHER -> id

IsDefaultKey(key) == key \in {DefaultKey[flow] : flow \in Flow}

NoAnswers == [ids |-> <<>>, defaults |-> [flow \in Flow |-> NoId]]

\* initDeviceList has been answered all its questions, and returns; but for
\* the key, which every caller sets again.
InitDeviceList ==
  /\ asked = 4
  /\ deviceIds' = answers.ids /\ defaults' = answers.defaults
  /\ asked' = 0 /\ answers' = NoAnswers

\* idUpdate_: the capture of any other device is stopped and this one's is
\* started, which fails when the device is not there any more.
Capture(id) == IF id \in active THEN id ELSE NoId

\* onDeviceListUpdated: a key the list does not have selects nothing.
ListUpdate(key) == shownKey' = IF key \in KeysOf(deviceIds') THEN key ELSE NoKey

-----------------------------------------------------------------------------
(* The system.  A flow with active devices has one of them as its default. *)

DefaultsOf(flow, devices) ==
  IF devices \cap IdsOf[flow] = {} THEN {NoId} ELSE devices \cap IdsOf[flow]
Defaults(devices) ==
  {[flow \in Flow |-> IF flow = "render" THEN r ELSE c] :
     r \in DefaultsOf("render", devices), c \in DefaultsOf("capture", devices)}

DefaultEvent(new, flow) ==
  IF new[flow] = osDefault[flow] THEN <<>> ELSE <<DefaultChanged(flow, new[flow])>>
DefaultEvents(new) == DefaultEvent(new, "render") \o DefaultEvent(new, "capture")

\* The system changes, and tells the listener if there is one; of the device
\* and of the default, it tells either first unless DeviceFirst.  Capturing
\* from a device that goes ends in an Audio::Error, which stops the capture.
SystemBecomes(devices, new, stateEvents) ==
  /\ phase # "ended"
  /\ active' = devices /\ osDefault' = new
  /\ \E told \in {stateEvents \o DefaultEvents(new)}
                   \cup IF DeviceFirst THEN {} ELSE {DefaultEvents(new) \o stateEvents} :
       /\ Len(events) + Len(told) <= MaxEvents
       /\ events' = IF phase = "listening" THEN events \o told ELSE events
  /\ missed' = (missed \/ phase \in {"listed", "selected"} \/ (phase = "start" /\ asked > 0))
  /\ captured' = IF captured \in devices THEN captured ELSE NoId
  /\ UNCHANGED <<phase, listing, repository, shownKey, lateSelect>>

\* The default of the flow may pass to the new device.
PlugIn(id) ==
  /\ id \notin active
  /\ \E new \in Defaults(active \cup {id}) :
       /\ \A flow \in Flow : new[flow] \in {osDefault[flow], id}
       /\ SystemBecomes(active \cup {id}, new, <<Added>>)

\* The default moves only if it was the device that went.
Unplug(id) ==
  /\ id \in active
  /\ \E new \in Defaults(active \ {id}) :
       /\ \A flow \in Flow : osDefault[flow] # id => new[flow] = osDefault[flow]
       /\ SystemBecomes(active \ {id}, new, <<Removed(id)>>)

ChangeDefault(flow) ==
  \E new \in Defaults(active) :
    /\ new[flow] # osDefault[flow]
    /\ \A other \in Flow \ {flow} : new[other] = osDefault[other]
    /\ SystemBecomes(active, new, <<>>)

-----------------------------------------------------------------------------
(* The questions of initDeviceList, for its four callers. *)

Lists ==
  \/ phase = "start"
  \/ phase = "listening" /\ events # <<>> /\ Head(events).type \in {"added", "removed"}

Asks(n) ==
  /\ Lists /\ asked = n /\ asked' = n + 1
  /\ UNCHANGED <<system, phase, repository, shownKey, captured, lateSelect, missed>>

\* The system lists the active devices of a flow in any order.
GetEndpointDevices(flow) ==
  LET devices == active \cap IdsOf[flow] IN
  /\ Asks(IF flow = "render" THEN 0 ELSE 2)
  /\ \E ids \in Bijection(1..Cardinality(devices), devices) :
       answers' = [answers EXCEPT !.ids = @ \o ids]

\* Asked only if the flow had a device; there may be no default by now.
GetDefaultDeviceId(flow) ==
  /\ Asks(IF flow = "render" THEN 1 ELSE 3)
  /\ answers' = [answers EXCEPT !.defaults[flow] =
       IF Range(answers.ids) \cap IdsOf[flow] = {} THEN NoId ELSE osDefault[flow]]

\* exitOnError: a device that goes while it is asked for its properties, say.
AskFails ==
  /\ Lists /\ asked < 4
  /\ phase' = "ended" /\ events' = <<>>
  /\ asked' = 0 /\ answers' = NoAnswers /\ captured' = NoId
  /\ UNCHANGED <<active, osDefault, repository, shownKey, lateSelect, missed>>

-----------------------------------------------------------------------------
(* initDevices: construct, load or select the default, then listen. *)

Construct ==
  /\ phase = "start" /\ phase' = "listed"
  /\ InitDeviceList /\ currentKey' = NoKey /\ ListUpdate(NoKey)
  /\ UNCHANGED <<system, saved, captured, lateSelect, missed>>

\* loadDevice: the saved device, if it is there.
LoadedKey ==
  LET flows == {f \in Flow : saved = DefaultName[f]} IN
  IF flows = {} THEN KeyIn(deviceIds, saved)
  ELSE LET flow == CHOOSE f \in flows : TRUE IN
       IF defaults[flow] = NoId THEN NoKey ELSE DefaultKey[flow]

\* selectDefaultDevice: the playback one before the recording one.
FallbackKey ==
  CASE defaults["render"] # NoId -> DefaultKey["render"]
    [] defaults["render"] = NoId /\ defaults["capture"] # NoId -> DefaultKey["capture"]
    [] OTHER -> NoKey

LoadDevice ==
  /\ phase = "listed" /\ phase' = "selected"
  /\ currentKey' = IF LoadedKey # NoKey THEN LoadedKey ELSE FallbackKey
  /\ saved' = IF LoadedKey = NoKey /\ FallbackKey # NoKey
              THEN SavedName(FallbackKey, DeviceId(FallbackKey)) ELSE saved
  /\ shownKey' = currentKey'
  /\ captured' = Capture(DeviceId(currentKey'))
  /\ UNCHANGED <<system, listing, deviceIds, defaults, lateSelect, missed>>

Listen ==
  /\ phase = "selected" /\ phase' = "listening"
  /\ UNCHANGED <<system, listing, repository, shownKey, captured, lateSelect, missed>>

-----------------------------------------------------------------------------
(* The user and the notifications. *)

\* (A slip: the settings are written only when the id changes.)
SaveOnlyNewIds(key) ==
  /\ phase = "listening" /\ asked = 0
  /\ key \in KeysOf(deviceIds) /\ key # currentKey
  /\ shownKey' = key
  /\ LET newId == DeviceId(key) IN
     /\ currentKey' = IF newId = NoId THEN NoKey ELSE key
     /\ captured' = IF DeviceId(currentKey) # newId THEN Capture(newId) ELSE captured
     /\ saved' = IF DeviceId(currentKey) # newId /\ newId # NoId
                 THEN SavedName(key, newId) ELSE saved
  /\ lateSelect' = (lateSelect \/ events # <<>>)
  /\ UNCHANGED <<system, phase, listing, deviceIds, defaults, missed>>

\* onDeviceSelected, from the combo box.
OnDeviceSelected(key) ==
  /\ phase = "listening" /\ asked = 0
  /\ key \in KeysOf(deviceIds) /\ key # currentKey
  /\ shownKey' = key
  /\ LET newId == DeviceId(key) IN
     \/ /\ newId = NoId
        /\ currentKey' = NoKey /\ captured' = NoId
        /\ UNCHANGED saved
     \/ /\ newId # NoId
        /\ currentKey' = key
        /\ saved' = SavedName(key, newId)
        /\ captured' = IF DeviceId(currentKey) # newId THEN Capture(newId) ELSE captured
  /\ lateSelect' = (lateSelect \/ events # <<>>)
  /\ UNCHANGED <<system, phase, listing, deviceIds, defaults, missed>>

Handle(event) ==
  /\ phase = "listening" /\ events # <<>> /\ Head(events) = event
  /\ events' = Tail(events)
  /\ UNCHANGED <<active, osDefault, phase, saved, lateSelect, missed>>

\* (A slip: the old number is kept although the list has changed.)
KeepOldKey ==
  /\ Handle(Added)
  /\ InitDeviceList
  /\ UNCHANGED <<currentKey, captured>>
  /\ ListUpdate(currentKey')

\* onDeviceAdded: a default key stays, another one follows its device.
OnDeviceAdded ==
  /\ Handle(Added)
  /\ InitDeviceList
  /\ currentKey' =
       CASE IsDefaultKey(currentKey) -> currentKey
         [] ~IsDefaultKey(currentKey) /\ DeviceId(currentKey) # NoId ->
              KeyIn(deviceIds', DeviceId(currentKey))
         [] OTHER -> NoKey
  /\ ListUpdate(currentKey')
  /\ UNCHANGED captured

\* (A slip: the list is made anew but not shown.)
RemoveUnseen(id) ==
  /\ Handle(Removed(id))
  /\ InitDeviceList
  /\ currentKey' = IF \/ IsDefaultKey(currentKey)
                      \/ DeviceId(currentKey) \in {NoId, id}
                   THEN NoKey ELSE KeyIn(deviceIds', DeviceId(currentKey))
  /\ captured' = IF currentKey' = NoKey THEN NoId ELSE captured
  /\ shownKey' = IF shownKey > Len(deviceIds') THEN NoKey ELSE shownKey

\* onDeviceRemoved: capturing stops if it was the selected device, a default
\* key stays if its flow still has a default, another one follows its device.
OnDeviceRemoved(id) ==
  /\ Handle(Removed(id))
  /\ InitDeviceList
  /\ LET currentId == DeviceId(currentKey) IN
     /\ captured' = IF currentKey # NoKey /\ currentId = id THEN NoId ELSE captured
     /\ currentKey' =
          CASE currentKey = NoKey -> NoKey
            [] IsDefaultKey(currentKey) ->
                 IF \E flow \in Flow : /\ currentKey = DefaultKey[flow]
                                       /\ defaults'[flow] # NoId
                 THEN currentKey ELSE NoKey
            [] OTHER -> IF currentId \notin {NoId, id}
                        THEN KeyIn(deviceIds', currentId) ELSE NoKey
  /\ ListUpdate(currentKey')

\* (Slips: the new default is captured but not kept, or kept but not captured.)
CaptureNewDefault(flow, id) ==
  /\ Handle(DefaultChanged(flow, id))
  /\ captured' = IF currentKey = DefaultKey[flow] THEN Capture(id) ELSE captured
  /\ UNCHANGED <<listing, deviceIds, currentKey, defaults, shownKey>>

KeepNewDefault(flow, id) ==
  /\ Handle(DefaultChanged(flow, id))
  /\ defaults' = [defaults EXCEPT ![flow] = id]
  /\ UNCHANGED <<listing, deviceIds, currentKey, captured, shownKey>>

\* onDefaultDeviceChanged: capturing follows the default that is selected.
OnDefaultDeviceChanged(flow, id) ==
  /\ Handle(DefaultChanged(flow, id))
  /\ captured' = IF currentKey = DefaultKey[flow] THEN Capture(id) ELSE captured
  /\ defaults' = [defaults EXCEPT ![flow] = id]
  /\ UNCHANGED <<listing, deviceIds, currentKey, shownKey>>

-----------------------------------------------------------------------------
DevicesInit ==
  /\ active \in SUBSET Ids /\ osDefault \in Defaults(active) /\ events = <<>>
  /\ phase = "start" /\ asked = 0 /\ answers = NoAnswers
  /\ deviceIds = <<>> /\ currentKey = NoKey
  /\ defaults = [flow \in Flow |-> NoId]
  /\ saved \in Ids \cup {DefaultName[flow] : flow \in Flow}
  /\ shownKey = NoKey /\ captured = NoId
  /\ lateSelect = FALSE /\ missed = FALSE

Ended == phase = "ended" /\ UNCHANGED vars

DevicesNext ==
  \/ \E id \in Ids : PlugIn(id) \/ Unplug(id)
  \/ \E flow \in Flow :
       ChangeDefault(flow) \/ GetEndpointDevices(flow) \/ GetDefaultDeviceId(flow)
  \/ AskFails
  \/ Construct \/ LoadDevice \/ Listen
  \/ \E key \in KeysOf(deviceIds) : OnDeviceSelected(key)
  \/ OnDeviceAdded
  \/ \E id \in Ids : OnDeviceRemoved(id)
  \/ \E flow \in Flow, id \in Ids \cup {NoId} : OnDefaultDeviceChanged(flow, id)
  \/ Ended

DevicesSpec == DevicesInit /\ [][DevicesNext]_vars

-----------------------------------------------------------------------------
\* All the notifications have been handled, and none was missed.
Settled == phase = "listening" /\ events = <<>> /\ ~missed

\* Once the notifications are handled, in whatever way they lagged behind,
\* the list and the defaults are those of the system.
ListCatchesUp ==
  Settled => /\ Range(deviceIds) = active
             /\ defaults = osDefault

\* ... and the device captured is the selected one, unless the user selected
\* something while a notification was under way.
CaptureCatchesUp ==
  (Settled /\ ~lateSelect) => captured = DeviceId(currentKey)

\* The same without the exception: selecting a device captures it.
SelectedIsCaptured == Settled => captured = DeviceId(currentKey)

\* The combo box shows the selection, although every listing rebuilds it and
\* gives the devices other keys.
ShownIsCurrent == Settled => shownKey = currentKey

\* The settings name the selection, so that a restart finds it again.
SelectionIsSaved ==
  currentKey # NoKey =>
    saved = SavedName(currentKey, DeviceId(currentKey))

\* Listing the devices again gives them other keys; the selection follows its
\* device and never passes to another one without the user.
SelectionStaysPut ==
  [][(currentKey > 0 /\ currentKey' > 0) =>
       \/ deviceIds'[currentKey'] = deviceIds[currentKey]
       \/ \E key \in KeysOf(deviceIds) : OnDeviceSelected(key)]_vars
=============================================================================
