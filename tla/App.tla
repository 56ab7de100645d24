-------------------------------- MODULE App --------------------------------
(***************************************************************************)
(* The two threads of SoundRemoteApp and what they share.                  *)
(*                                                                         *)
(* The UI thread runs the message loop (wndProc), the io thread runs       *)
(* asioEventLoop, which takes one handler at a time: those the UI thread   *)
(* posts, in order, and those of the network, the timers and the capture.  *)
(* They share the posted handlers, capturePipe_, muted_, the registry of   *)
(* clients with its mutex, and its list of listeners, which has none.      *)
(*                                                                         *)
(* A step of a thread is what it does between two points where the other   *)
(* thread can see a difference.  The list of clients is a window of the UI *)
(* thread, so the io thread's SetWindowTextA waits until that thread gets  *)
(* back to its message loop.                                               *)
(***************************************************************************)
EXTENDS Naturals, Sequences, FiniteSets, SequencesExt

CONSTANTS
  Device,         \* the audio devices a selection can name
  ClientId,       \* the clients that come and go
  NoDevice,       \* no device to capture
  NoPipe,         \* capturePipe_ is null
  PowerEvents,    \* whether the machine is ever suspended
  MaxPosted       \* bound of a run: handlers posted and not yet run

Pipe == [device : Device, muted : BOOLEAN]
Handler == [op : {"start"}, device : Device]
             \cup [op : {"stop", "shutdown", "failure"}, device : {NoDevice}]
ListenerName == {"pipe", "server", "window"}

ASSUME NoDeviceAssumption == NoDevice \notin Device
ASSUME NoPipeAssumption == NoPipe \notin Pipe
ASSUME PowerEventsAssumption == PowerEvents \in BOOLEAN

VARIABLES
  status,       \* the process: "alive", "fatal" (std::exit) or "crashed"
  ui,           \* where the UI thread is
  io,           \* where the io thread is
  job,          \* the handler stopCapture/startCapture runs for
  posted,       \* handlers posted to ioContext_ and not yet run
  capturePipe,  \* capturePipe_
  dangling,     \* the UI thread holds the pointer of a destroyed pipe
  muted,        \* muted_
  newMuted,     \* startCapture: the value of muted_ it passed on
  newInfos,     \* addClientsListener: the infos it passes to the pipe
  mutex,        \* who holds clientsMutex_: "nobody", "ui" or "io"
  clients,      \* clients_, and with it clientInfos_
  listeners,    \* clientsListeners_, front first
  calls,        \* notifyListeners: the listeners the holder still has to call
  heard,        \* the clients each listener was last told of
  meter,        \* the peak meter's timer is set
  target,       \* the device of the last onDeviceIdUpdated
  missedMute    \* history: a click fell between reading muted_ and assigning

threads == <<status, ui, io, job, posted>>
capture == <<capturePipe, dangling, muted, newMuted, missedMute>>
registry == <<newInfos, mutex, clients, listeners, calls, heard>>
window == <<meter, target>>
vars == <<threads, capture, registry, window>>

NoJob == [op |-> "stop", device |-> NoDevice]

\* After run(): App first and Server second, so Server is at the front.
AppInit ==
  /\ status = "alive" /\ ui = "loop" /\ io = "loop"
  /\ job = NoJob /\ posted = <<>>
  /\ capturePipe = NoPipe /\ dangling = FALSE
  /\ muted = FALSE /\ newMuted = FALSE /\ missedMute = FALSE
  /\ newInfos = {} /\ mutex = "nobody" /\ clients = {}
  /\ listeners = <<"server", "window">> /\ calls = <<>>
  /\ heard = [l \in ListenerName |-> {}]
  /\ meter = FALSE /\ target = NoDevice

\* The UI thread follows a pointer to the pipe it has just tested.
UiHoldsPipe == ui \in {"muteUse", "meterUse"}
WindowDestroyed == ui \in {"joining", "ended"}
\* Where the pipe is in the list of listeners.
PipePlaces == {i \in 1..Len(listeners) : listeners[i] = "pipe"}
UiAt(here, there) == status = "alive" /\ ui = here /\ ui' = there
IoAt(here, there) == status = "alive" /\ io = here /\ io' = there
Post(handler) == posted' = Append(posted, handler)

-----------------------------------------------------------------------------
(* The UI thread.  GetMessage answers what other threads have sent before  *)
(* it takes the next message, so nothing new starts while the io thread    *)
(* waits for an answer.                                                    *)

SentPending ==
  \/ io = "notify" /\ calls # <<>> /\ Head(calls) = "window"
  \/ io = "keystroke"
UiTakes(there) == ~SentPending /\ UiAt("loop", there)

\* onDeviceIdUpdated with a device.  (A slip: it posts only the start.)
SelectWithoutStop(d) ==
  /\ UiTakes("loop") /\ Len(posted) < MaxPosted
  /\ IF capturePipe = NoPipe THEN Post([op |-> "start", device |-> d])
                             ELSE UNCHANGED posted
  /\ meter' = TRUE /\ target' = d
  /\ UNCHANGED <<status, io, job, capture, registry>>

SelectDevice(d) ==
  /\ UiTakes("loop") /\ Len(posted) < MaxPosted
  /\ Post([op |-> "start", device |-> d])
  /\ meter' = TRUE /\ target' = d               \* startPeakMeter
  /\ UNCHANGED <<status, io, job, capture, registry>>

\* onDeviceIdUpdated without a device.
LoseDevice ==
  /\ UiTakes("loop") /\ Len(posted) < MaxPosted
  /\ Post([op |-> "stop", device |-> NoDevice])
  /\ meter' = FALSE /\ target' = NoDevice       \* stopPeakMeter
  /\ UNCHANGED <<status, io, job, capture, registry>>

\* The mute button's callback: muted_ = v, then `if (capturePipe_)', then
\* capturePipe_->setMuted(v).
ClickMute ==
  /\ UiTakes("muteCheck")
  /\ muted' = ~muted
  /\ UNCHANGED <<status, io, job, posted, capturePipe, dangling, newMuted,
                 missedMute, registry, window>>

\* (A slip: the callback tests the pipe but leaves it as it is.)
CheckMuteOnly ==
  /\ UiAt("muteCheck", "loop")
  /\ UNCHANGED <<status, io, job, posted, capture, registry, window>>

CheckMute ==
  /\ UiAt("muteCheck", IF capturePipe = NoPipe THEN "loop" ELSE "muteUse")
  /\ missedMute' = (missedMute \/ io = "assign")
  /\ UNCHANGED <<status, io, job, posted, capturePipe, dangling, muted,
                 newMuted, registry, window>>

\* Writing through a dangling pointer is lost in freed memory, or reaches the
\* pipe that is there now (capturePipe_ read again), or ends the process.
UseMute ==
  /\ status = "alive" /\ ui = "muteUse" /\ ui' = "loop"
  /\ \/ /\ capturePipe # NoPipe
        /\ capturePipe' = [capturePipe EXCEPT !.muted = muted]
        /\ UNCHANGED status
     \/ /\ dangling
        /\ status' \in {"alive", "crashed"}
        /\ UNCHANGED capturePipe
  /\ dangling' = FALSE
  /\ UNCHANGED <<io, job, posted, muted, newMuted, missedMute, registry, window>>

\* updatePeakMeter: stopPeakMeter when there is no pipe.
TickMeter ==
  /\ meter
  /\ UiTakes(IF capturePipe = NoPipe THEN "loop" ELSE "meterUse")
  /\ meter' = (capturePipe # NoPipe)
  /\ UNCHANGED <<status, io, job, posted, capture, registry, target>>

ReadMeter ==
  /\ status = "alive" /\ ui = "meterUse" /\ ui' = "loop"
  /\ status' \in IF dangling THEN {"alive", "crashed"} ELSE {"alive"}
  /\ dangling' = FALSE
  /\ UNCHANGED <<io, job, posted, capturePipe, muted, newMuted, missedMute,
                 registry, window>>

\* PBT_APMSUSPEND: Clients::removeAll, up to the lock.
Suspend ==
  /\ PowerEvents
  /\ UiTakes("lock")
  /\ UNCHANGED <<status, io, job, posted, capture, registry, window>>

\* removeAll takes the mutex; it returns at once when nobody is registered.
LockAndRemoveAll ==
  /\ mutex = "nobody"
  /\ UiAt("lock", IF clients = {} THEN "loop" ELSE "notify")
  /\ IF clients = {}
     THEN UNCHANGED <<mutex, clients, calls>>
     ELSE mutex' = "ui" /\ clients' = {} /\ calls' = listeners
  /\ UNCHANGED <<status, io, job, posted, capture, newInfos, listeners, heard,
                 window>>

\* removeAll's notifyListeners, one listener; on this thread the window's
\* list is set without waiting.  The server replaces its cache and the pipe its
\* encoders, which the io thread may be walking.  A pipe that is gone by now is
\* a dead node of the list: the call is lost or ends the process.
NotifyFromUi ==
  /\ status = "alive" /\ ui = "notify" /\ calls # <<>>
  /\ calls' = Tail(calls)
  /\ \/ /\ Contains(listeners, Head(calls))
        /\ heard' = [heard EXCEPT ![Head(calls)] = clients]
        /\ status' \in IF io = "walk" /\ Head(calls) # "window"
                       THEN {"alive", "crashed"} ELSE {"alive"}
     \/ /\ ~Contains(listeners, Head(calls))
        /\ status' \in {"alive", "crashed"}
        /\ UNCHANGED heard
  /\ UNCHANGED <<ui, io, job, posted, capture, newInfos, mutex, clients,
                 listeners, window>>

UnlockUi ==
  /\ calls = <<>>
  /\ UiAt("notify", "loop")
  /\ mutex' = "nobody"
  /\ UNCHANGED <<status, io, job, posted, capture, newInfos, clients, listeners,
                 calls, heard, window>>

\* WM_DESTROY, the end of exec and ~SoundRemoteApp: shutdown is posted and
\* the io thread is joined.
Close ==
  /\ UiTakes("joining")
  /\ Post([op |-> "shutdown", device |-> NoDevice])
  /\ UNCHANGED <<status, io, job, capture, registry, window>>

Join ==
  /\ io = "halted"
  /\ UiAt("joining", "ended")
  /\ UNCHANGED <<status, io, job, posted, capture, registry, window>>

-----------------------------------------------------------------------------
(* The io thread: handlers. *)

\* (A slip: shutdown stops the context and leaves the capture as it is.)
TakeShutdownAtOnce ==
  /\ posted # <<>>
  /\ IoAt("loop", IF Head(posted).op = "shutdown" THEN "halted" ELSE "stopCapture")
  /\ job' = Head(posted) /\ posted' = Tail(posted)
  /\ UNCHANGED <<status, ui, capture, registry, window>>

\* The next posted handler.  Each of them begins with stopCapture (shutdown
\* says goodbye first, see Server!Shutdown).
TakePosted ==
  /\ posted # <<>>
  /\ IoAt("loop", "stopCapture")
  /\ job' = Head(posted) /\ posted' = Tail(posted)
  /\ UNCHANGED <<status, ui, capture, registry, window>>

\* A packet or a maintenance run changes who is connected: the registry
\* locks, updates and notifies.
ChangeClients ==
  /\ mutex = "nobody"
  /\ IoAt("loop", "notify")
  /\ mutex' = "io"
  /\ clients' \in SUBSET ClientId \ {clients}
  /\ calls' = listeners
  /\ UNCHANGED <<status, ui, job, posted, capture, newInfos, listeners, heard,
                 window>>

\* The pipe and the server take the list and return.
NotifyFromIo ==
  /\ status = "alive" /\ io = "notify" /\ calls # <<>>
  /\ Head(calls) # "window"
  /\ heard' = [heard EXCEPT ![Head(calls)] = clients]
  /\ calls' = Tail(calls)
  /\ UNCHANGED <<threads, capture, newInfos, mutex, clients, listeners, window>>

\* SoundRemoteApp::onClientsUpdate: SetWindowTextA is a message sent to the
\* UI thread.  It is answered from the message loop; once the window is
\* destroyed it fails at once.
SetWindowText ==
  /\ status = "alive" /\ io = "notify" /\ calls # <<>>
  /\ Head(calls) = "window"
  /\ ui = "loop" \/ WindowDestroyed
  /\ heard' = [heard EXCEPT !["window"] = clients]
  /\ calls' = Tail(calls)
  /\ UNCHANGED <<threads, capture, newInfos, mutex, clients, listeners, window>>

UnlockIo ==
  /\ calls = <<>>
  /\ IoAt("notify", "loop")
  /\ mutex' = "nobody"
  /\ UNCHANGED <<status, ui, job, posted, capture, newInfos, clients, listeners,
                 calls, heard, window>>

\* Audio or a keepalive is sent: the server walks its cache of the clients, and
\* the pipe its encoders, without a lock.
WalkClients ==
  /\ IoAt("loop", "walk")
  /\ UNCHANGED <<status, ui, job, posted, capture, registry, window>>

WalkEnds ==
  /\ IoAt("walk", "loop")
  /\ UNCHANGED <<status, ui, job, posted, capture, registry, window>>

\* onReceiveKeystroke: Edit_ReplaceSel waits for the UI thread too, but no
\* lock is held.
ShowKeystroke ==
  /\ IoAt("loop", "keystroke")
  /\ UNCHANGED <<status, ui, job, posted, capture, registry, window>>

KeystrokeShown ==
  /\ ui = "loop" \/ WindowDestroyed
  /\ IoAt("keystroke", "loop")
  /\ UNCHANGED <<status, ui, job, posted, capture, registry, window>>

\* An Audio::Error out of a handler: asioEventLoop shows it and, once the
\* box is dismissed, stops the capture and runs the context again.
CaptureFails ==
  /\ capturePipe # NoPipe
  /\ IoAt("loop", "messageBox")
  /\ UNCHANGED <<status, ui, job, posted, capture, registry, window>>

DismissError ==
  /\ IoAt("messageBox", "stopCapture")
  /\ job' = [op |-> "failure", device |-> NoDevice]
  /\ UNCHANGED <<status, ui, posted, capture, registry, window>>

-----------------------------------------------------------------------------
(* The io thread: stopCapture and startCapture. *)

\* What a handler does after its stopCapture.  (Slips: it forgets to start
\* again, or to stop the context.)
OnlyStop == IF job.op = "shutdown" THEN "halted" ELSE "loop"
NeverHalt == IF job.op = "start" THEN "construct" ELSE "loop"

AfterStop ==
  CASE job.op = "start" -> "construct"
    [] job.op = "shutdown" -> "halted"
    [] OTHER -> "loop"

NothingToStop ==
  /\ capturePipe = NoPipe
  /\ IoAt("stopCapture", AfterStop)
  /\ UNCHANGED <<status, ui, job, posted, capture, registry, window>>

\* (A slip: the pipe is destroyed and its listener stays.)
ForgetListener ==
  /\ status = "alive" /\ io = "stopCapture" /\ capturePipe # NoPipe
  /\ io' = "reset"
  /\ UNCHANGED <<status, ui, job, posted, capture, registry, window>>

\* removeClientsListener, without the lock, removes every listener of the
\* pipe's type; anything but one removed is a fatal error.
RemoveListener ==
  /\ status = "alive" /\ io = "stopCapture" /\ capturePipe # NoPipe
  /\ \/ /\ Cardinality(PipePlaces) = 1
        /\ \E i \in PipePlaces : listeners' = RemoveAt(listeners, i)
        /\ io' = "reset" /\ UNCHANGED status
     \/ /\ Cardinality(PipePlaces) # 1
        /\ status' = "fatal" /\ UNCHANGED <<io, listeners>>
  /\ UNCHANGED <<ui, job, posted, capture, newInfos, mutex, clients, calls,
                 heard, window>>

\* capturePipe_.reset().
ResetPipe ==
  /\ IoAt("reset", AfterStop)
  /\ capturePipe' = NoPipe
  /\ dangling' = UiHoldsPipe
  /\ UNCHANGED <<status, ui, job, posted, muted, newMuted, missedMute, registry,
                 window>>

\* The pipe is constructed with the current muted_, or its constructor throws.
ConstructPipe ==
  /\ status = "alive" /\ io = "construct"
  /\ io' \in {"assign", "messageBox"}
  /\ newMuted' = muted /\ missedMute' = FALSE
  /\ UNCHANGED <<status, ui, job, posted, capturePipe, dangling, muted, registry,
                 window>>

AssignPipe ==
  /\ IoAt("assign", "register")
  /\ capturePipe' = [device |-> job.device, muted |-> newMuted]
  /\ UNCHANGED <<status, ui, job, posted, dangling, muted, newMuted, missedMute,
                 registry, window>>

\* addClientsListener, without the lock: the pipe joins the list ...
RegisterPipe ==
  /\ IoAt("register", "tell")
  /\ listeners' = <<"pipe">> \o listeners
  /\ newInfos' = clients
  /\ UNCHANGED <<status, ui, job, posted, capture, mutex, clients, calls, heard,
                 window>>

\* (A slip: the listener joins without being called.)
TellNobody ==
  /\ status = "alive" /\ io = "tell"
  /\ io' \in {"start", "messageBox"}
  /\ UNCHANGED <<status, ui, job, posted, capture, registry, window>>

\* ... and is called with the infos: creating an encoder may throw.
TellPipe ==
  /\ status = "alive" /\ io = "tell"
  /\ io' \in {"start", "messageBox"}
  /\ heard' = [heard EXCEPT !["pipe"] = newInfos]
  /\ UNCHANGED <<status, ui, job, posted, capture, newInfos, mutex, clients,
                 listeners, calls, window>>

\* CapturePipe::start: the coroutine runs up to its first wait, or throws.
StartPipe ==
  /\ status = "alive" /\ io = "start"
  /\ io' \in {"loop", "messageBox"}
  /\ UNCHANGED <<status, ui, job, posted, capture, registry, window>>

-----------------------------------------------------------------------------
Ended ==
  /\ status # "alive" \/ ui = "ended"
  /\ UNCHANGED vars

UiStarts ==
  \/ \E d \in Device : SelectDevice(d)
  \/ LoseDevice
  \/ ClickMute
  \/ TickMeter
  \/ Suspend
  \/ Close

UiContinues ==
  \/ CheckMute
  \/ UseMute
  \/ ReadMeter
  \/ LockAndRemoveAll
  \/ NotifyFromUi
  \/ UnlockUi
  \/ Join

IoStarts == ChangeClients \/ WalkClients \/ ShowKeystroke \/ CaptureFails

IoContinues ==
  \/ NotifyFromIo
  \/ SetWindowText
  \/ UnlockIo
  \/ WalkEnds
  \/ KeystrokeShown
  \/ DismissError
  \/ NothingToStop
  \/ RemoveListener
  \/ ResetPipe
  \/ ConstructPipe
  \/ AssignPipe
  \/ RegisterPipe
  \/ TellPipe
  \/ StartPipe

AppNext == UiStarts \/ UiContinues \/ TakePosted \/ IoStarts \/ IoContinues \/ Ended

AppSpec == AppInit /\ [][AppNext]_vars

\* Each thread goes on with what it has begun (the scheduler runs both), the
\* message boxes are dismissed, and asio, which queues handlers in order,
\* gets to a posted one however many others become ready.
FairAppSpec ==
  /\ AppSpec
  /\ WF_vars(UiContinues)
  /\ WF_vars(IoContinues)
  /\ SF_vars(TakePosted)

-----------------------------------------------------------------------------
\* The types of what the threads share.
AppTypeOK ==
  /\ status \in {"alive", "fatal", "crashed"}
  /\ ui \in {"loop", "muteCheck", "muteUse", "meterUse", "lock", "notify",
             "joining", "ended"}
  /\ io \in {"loop", "notify", "walk", "keystroke", "messageBox", "stopCapture",
             "reset", "construct", "assign", "register", "tell", "start",
             "halted"}
  /\ job \in Handler /\ posted \in Seq(Handler)
  /\ capturePipe \in Pipe \cup {NoPipe}
  /\ dangling \in BOOLEAN
  /\ muted \in BOOLEAN /\ newMuted \in BOOLEAN /\ missedMute \in BOOLEAN
  /\ mutex \in {"nobody", "ui", "io"}
  /\ clients \in SUBSET ClientId /\ newInfos \in SUBSET ClientId
  /\ listeners \in Seq(ListenerName) /\ calls \in Seq(ListenerName)
  /\ heard \in [ListenerName -> SUBSET ClientId]
  /\ meter \in BOOLEAN /\ target \in Device \cup {NoDevice}

\* Between handlers of the io thread the pipe's listener is registered once
\* if there is a pipe and not at all otherwise, whichever of the capture's
\* steps failed; so the fatal error of stopCapture cannot be reached.
OneListenerPerPipe ==
  /\ status # "fatal"
  /\ io \in {"loop", "halted"} =>
       Cardinality(PipePlaces) = IF capturePipe = NoPipe THEN 0 ELSE 1

\* Once the posted handlers have run, what is captured (if anything: the
\* capture may have failed) is the device last asked for, never an earlier
\* one, however selections, losses and failures interleave.
LastSelectionWins ==
  (io = "loop" /\ posted = <<>> /\ capturePipe # NoPipe) =>
    capturePipe.device = target

\* The pipe is muted exactly when the button says so, except after a click
\* that fell between startCapture reading muted_ and assigning the pipe.
MuteFollowsButton ==
  (io = "loop" /\ ui = "loop" /\ capturePipe # NoPipe /\ ~missedMute) =>
    capturePipe.muted = muted

\* While nobody is changing the registry every registered listener, the pipe
\* that has just joined included, knows the clients there are.
ListenersKnowClients ==
  (status = "alive" /\ io = "loop" /\ mutex = "nobody") =>
    \A i \in 1..Len(listeners) : heard[listeners[i]] = clients

\* When the threads have been joined the capture has been taken down.
NothingLeftAtExit ==
  ui = "ended" =>
    capturePipe = NoPipe /\ ~Contains(listeners, "pipe") /\ mutex = "nobody"

\* SoundRemoteApp.cpp says the context runs, waiting for packets, as long as
\* the server works: the io thread is never stuck for good.  It is stuck when
\* it waits, with the clients locked, for a UI thread that waits for the lock.
IoThreadNotStuck ==
  ~(/\ io = "notify" /\ mutex = "io" /\ calls # <<>> /\ Head(calls) = "window"
    /\ ui = "lock")

\* Clients.h leaves the listeners unsynchronized because the list is modified
\* on program start and on device change only: it is not modified while the
\* other thread walks it.
ListenersNotShared ==
  ~(ui = "notify" /\ (io = "register" \/ (io = "stopCapture" /\ capturePipe # NoPipe)))

\* A selection is carried out, unless another one follows it, the capture
\* fails or the program ends.
SelectionTakesEffect ==
  \A d \in Device :
    (posted # <<>> /\ Last(posted) = [op |-> "start", device |-> d]) ~>
      \/ capturePipe # NoPipe /\ capturePipe.device = d /\ io = "loop"
      \/ target # d
      \/ io = "messageBox"
      \/ ui = "joining"
      \/ status # "alive"

\* Closing the window ends the program: the UI thread's join returns, even
\* if it was closed while the io thread was waiting for the window.
CloseEnds == ui = "joining" ~> (ui = "ended" \/ status # "alive")
=============================================================================
