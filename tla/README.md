# SoundRemote server: TLA+ models and proofs

SoundRemote server captures what a Windows machine plays (or records), cuts it
into frames, encodes it and sends it over UDP to the clients that have
connected; clients also send keystrokes for it to inject. This directory models
the program's control in TLA+, checks small instances with TLC, and proves most of
the properties for every value of the parameters with TLAPS.

- [1. The program](#1-the-program): components, state, interactions, hazards
- [2. The modules](#2-the-modules): what models what, and how
- [3. The runs](#3-the-runs): what each shows, bounds, fairness
- [4. The proofs](#4-the-proofs)
- [5. What the models found](#5-what-the-models-found)
- [6. What is not modelled](#6-what-is-not-modelled)
- [7. Plan](#7-plan)

To repeat the checks: `tlc -config MCServer.cfg MCServer` for a run,
`tlapm Server_proofs.tla` for a proof. `PROJECT.json` lists the runs, maps every
definition to the lines it models, and lists a mutation for every property.

## 1. The program

Paths are relative to `src/SoundRemote/`.

### Threads

| thread | runs | started by |
|---|---|---|
| UI | the message loop, `wndProc`, every callback of a control, the device repository, the peak meter's timer, suspend | `main` |
| io | `asioEventLoop`: the sockets, the maintenance timer, the capture and everything posted to it | `SoundRemoteApp::run` |
| notifier | `DeviceEventListener`, called by COM; hands each event to the UI thread with `SendMessage` | the system |
| workers | one detached thread for each update check | `UpdateChecker::checkUpdates` |

The UI thread passes work to the io thread with `boost::asio::post`. The io thread
passes text to the UI thread by setting the text of its windows, which waits for
the UI thread. Directly shared are `capturePipe_`, `muted_`, the registry
`Clients` with its mutex, and the registry's list of listeners with none.

### Components

| component | state | operations | what makes it correct |
|---|---|---|---|
| Client registry, `domain/Clients` | `clients_` (address to compression and time of last contact), `clientInfos_`, the listeners | `add`, `setCompression`, `keep`, `remove`, `removeAll`, `maintain`, `addClientsListener`, `removeClientsListener` | every listener holds the current list, whatever the order of operations |
| Server, `network/Server` | sockets, maintenance timer, `clientsCache_` | receive and process a packet, send audio, send keepalives, say goodbye | audio and keepalives go to exactly the registered clients; a silent client is forgotten soon enough and not too soon |
| Application, `SoundRemoteApp` | `capturePipe_`, `muted_`, the io context and its thread, the windows | start and stop capturing, mute, suspend, shut down, show clients and keystrokes, recover from audio errors | no deadlock, one listener per pipe, the device captured is the one last asked for, closing ends the program |
| Device repository, `domain/Devices` | the ids behind the keys, the current key, the default ids, the setting | list, load, select, handle "added", "removed", "default changed" | after the notifications the list, the selection, the setting, the combo box and the capture fit together |
| Device notifications, `audio/DeviceEventListener` | reference count | three events | order is kept, nothing is lost once registered |
| Capture pipe, `audio/CapturePipe` | the pipe's coroutine, `pcmAudioBuffer_`, `encoders_`, `muted_`, `audioSequenceNumber_` | start, `process`, `onClientsUpdate`, `setMuted` | audio is sent once, in order, in whole frames; the encoders are those the clients need |
| Audio capture, `audio/AudioCapture` | the capture's coroutine, its timer, the device's buffers | poll, hand over packets, make up for silence | one timer awaited at any time, every buffer given back |
| Resampler, Opus encoder, `audio/AudioResampler`, `audio/EncoderOpus` | library handles | convert, encode | a failure is an exception; Opus may also make no packet of a frame (a result of two bytes or less), which is then not sent |
| Update checker, `network/UpdateChecker` | `checkMutex_`, detached threads | check, show the result | the result shown is true, a check is answered |
| Version comparison, `common/Util` | none | `isNewerVersion` | the order the header describes |
| Packets, `network/NetUtil` | none | build and parse packets | what one side writes the other reads; anything else is rejected |
| Settings, `Settings` | the settings file | load, repair, get, set, save | after loading every setting is valid |
| Keystrokes, `domain/Keystroke` | none | emulate | every key pressed is released, in reverse order |
| Controls, `ui/Controls` | the mute button | click | |

### Interactions

- A packet changes `Clients`, which calls its listeners with the lock held: the
  server (its cache), the window (the client list) and the pipe (its encoders).
- The pipe's coroutine owns the capture's; the capture's timer resumes the
  capture, which resumes the pipe, which resumes the capture, and so on in
  nested calls until there is no more audio.
- A notification about devices or a selection ends in `idUpdate_`, which posts
  `startCapture` or `stopCapture` to the io thread.
- An `Audio::Error` leaves `io_context::run`; the io thread shows a message box,
  stops the capture and runs the context again. Any other exception ends the
  process.

### What is hard

Two threads that each wait for the other (the registry's mutex one way, window
messages the other); a list of listeners that only one of them should touch;
selections, device losses and failures that overtake each other; notifications
that describe a system that has moved on; coroutines re-entered on top of
themselves and unwound by exceptions; completions queued for a timer that is
gone; periods and timeouts at their boundaries; the caches of who is connected.
`PROJECT.json`, "hazards", lists each at its line with the properties about it.

## 2. The modules

Each module names the code's operations where TLA+ allows it. One action is one
handler, or, where another thread could see the difference, one part of it.
Operators whose comment begins with "A slip" are mutated versions of the operator
after them. They are not part of any specification: `PROJECT.json`, "mutants",
pairs each with the property that notices it.

| module | models | state kept | abstracted |
|---|---|---|---|
| `Sessions` | what the server promises its clients (abstract specification) | the format of each address, the last transmission, whether the server is open | how it is kept, and when a silent session ends |
| `Clients` | `domain/Clients` | `clients`, `clientInfos`, what each listener `heard` | the time of last contact becomes the silence since, in ticks |
| `Server` (extends `Clients`, implements `Sessions`) | `network/Server` | the cache by compression, the maintenance timer, whether a send is pending, whether the process runs; history: the last transmission, how long since a client was last sent anything | packets are parsed |
| `Packets` | `network/NetUtil`, `network/NetDefines` | none | nothing: byte for byte |
| `Keystroke` | `domain/Keystroke` | the keys that the system takes for pressed | the extended-key flag, the texts |
| `Receive` (extends `Server`, `Packets`, `Keystroke`; implements `Server`) | `Server::receive`, the parsing in the handlers, the bytes sent | the receive buffer, the length and sender of the last datagram, the bytes last sent | which datagrams there are is a constant |
| `App` | `SoundRemoteApp`, the mute button | where each thread is, posted handlers, pipe, mutex, listeners, what they heard, the peak meter's timer | the audio; what changes the registry |
| `Devices` | `domain/Devices`, `audio/DeviceEventListener`, the queries of `audio/AudioUtil` | the system's devices and defaults, notifications under way, the answers of a listing under way, the repository, the setting, the combo box, the capture | names; idUpdate as taking effect at once (`App` models the way there) |
| `Capture` | `audio/AudioCapture`, `audio/CapturePipe`, `audio/AudioResampler`, `audio/EncoderOpus` | what the io thread runs, both coroutines, their depth, the timer, device buffers, silence, what the resampler holds, PCM buffer, encoders, sequence number | a unit of audio is a numbered token |
| `Settings` | `Settings`, the menu item of a setting | the file, the settings in memory, the check mark, over runs of the program | a value is a token, among them one that cannot be read |
| `Version` | `Util::isNewerVersion` | none | a version is what the regular expression matches |
| `UpdateChecker` (extends `Version`) | `network/UpdateChecker` | each check's progress, its open handles, the blocks read, the mutex, posted messages, open boxes | what HTTP and JSON carry is one release |
| `..._proofs` | | | theorems, see section 4 |
| `MC...` | | | the constants of the runs |

Composition: `Clients` in `Server` in `Receive`, with `Packets` and `Keystroke`; `Version`
in `UpdateChecker`. `App` and `Capture` are two views of one thread: in `App`
stopping and starting the pipe are steps among others and the coroutines are left
out, in `Capture` they are everything and posted handlers are the next action.

### Sessions, Clients and Server

Every operation of `Clients` runs under one lock, so it is one step here. `Server`
composes with it: each packet handler is the registry's operation, the server's
`onClientsUpdate` and the reply. `Elapse` is the passage of a tick: all silences
grow and the timer runs down. It cannot pass an expired timer, so maintenance is
punctual; the io thread blocked in a message box is the exception the timing
properties leave out. `ReceiveFails` and `HandleSend(FALSE)` end the process, as
`Server::receive` and `Server::handleSend` do; `StartCapture` and `StopCapture` are
pipes that join and leave the listeners.

`Sessions` knows nothing of registry, listeners, cache and clock. `Server!Promise`
instantiates it with the format a client is registered for; `sent`, the kind of the
last packet and the addresses it went to, is the same variable in both. So the
refinement (`KeepsPromise`) says that everything sent from the cache goes to exactly
those to whom the sessions say it should, after any history.

### Packets, Keystroke and Receive

The functions of `NetUtil` are operators on sequences of bytes, with the width of
each field (`% 256`) and the network's byte order. A packet that is read is a span of
the receive buffer: the code bounds its reads by the datagram's length only where
it checks it, and behind that length lies what an earlier datagram left. `Receive`
keeps that buffer over datagrams, dispatches over the category as `Server::receive`
does, and calls the handlers of `Server` with what the parsers return, or does
nothing where they return nothing. An event that is injected is pressed or released in
order; `Emulate` lets `SendInput` insert any number of the events, in any order of
the modifiers that the unordered set may have.

### App

`ui` and `io` are the program counters of the two threads. The UI thread's
`Close`, `SelectDevice` and so on begin only at the message loop, and not while
the io thread waits for an answer to a message, because `GetMessage` answers
those first. The io thread's handlers are opened up at every access to something
shared: testing `capturePipe_` and following it are two steps, reading `muted_`
and assigning the pipe are two steps, a notification is one step for each
listener, under the mutex. Errors that end the process wherever they occur (a
failed send, for instance) are in `Server`; nothing here depends on them. Where
the code uses a pipe or a list node that the other thread has freed, the model
continues with every outcome: the access is lost, reaches what is there now, or
ends the process (`status = "crashed"`).

### Devices

The system's part (`PlugIn`, `Unplug`, `ChangeDefault`) changes the world and
queues notifications; the repository's part handles them one at a time. A listing
asks the system four questions (the devices of each flow and its default), and the
system may change between any two of them, so that a list can have a default that
it does not contain, or contain a device that has gone; the handler takes effect
when the fourth is answered. `AskFails` is a query that ends in `exitOnError`.
The devices of a flow are listed in any order, since the system promises none, and
the keys are given in that order. `Construct`, `LoadDevice` and `Listen` are the steps
of `initDevices`, with changes
between them that nobody is told of (`missed`). `DeviceFirst` says whether the
system tells of a device before its new default; the runs that pass allow both
orders.

### Capture

`running` names the piece of code that runs on the io thread; an action is the
piece between two transfers of control. `Yield` is `co_yield`, and `depth` counts
the activations of the pipe's body on the stack. The second packet of a tick
resumes the pipe while its body is running, which C++ does not define; the model
takes what the compiled coroutine does, which is to go on from its last point of
suspension, on top of the activation there is. `Throw` unwinds all of them. The
UI thread and the device act between any two pieces. The history variable
`undefined` collects what else C++ leaves undefined and may go either way:
`destroyed twice` (two activations of `process` each destroy the local capture,
after an exception in the second packet of a tick) and `encoders shared` (suspend
clears `encoders_` while the pipe walks them). Both are reached, and each continues
with and without the end of the process.

For a device whose format is not the encoder's, the packet goes through the
resampler (`Resampled`): its transform takes all of it in and gives back what it has
taken in but for at most `HeldBack` units, so audio of one packet comes out with the
next, and what is inside is lost with the pipe. A call of it can fail after part of
a packet came out (`ResamplerFails`).

`frames` lists the frames cut from the buffer, each with the compressions it is sent
to (`to`). Opus may make no packet of a frame (`PacketsMade`; uncompressed audio is
always sent), and `process` goes on: the frame takes a number and its audio is
consumed all the same. When nobody gets it, its units count as given up (`Unsent`).
An encoder can also fail (`EncodeFails`), in front of or after others that have sent
the frame. `TimerFails` is the other exception of the coroutine's machinery: a wait
that ends with an error that is no cancellation ends the process.

### Settings

A state is one moment of one run of the program, or between two. `Start` loads the
file, takes the ports from where versions up to 0.5.2 had them, repairs single keys
and saves; or writes the defaults, when there is no file or it cannot be loaded.
`SaveFile` has the three outcomes that nobody looks at: done, not opened, and cut
short with any of the lines written. `Stop` is the end of the program, orderly or
not. `meant` is what the user has the settings at, kept independently of the file.

### Version and UpdateChecker

`IsNewerVersion` is the loop, written by the first turn that returns. `Before` is
the order that the comment in `common/Util.h` describes, written independently of
the loop. A turn decides by nested `IF`s, as the code does: the cases overlap (a number
can be too large where the other version has none) and the first one counts.
`UpdateChecker` runs checks on any pair of versions, since the version
of the program is whatever text its resource holds. A check goes through the calls
of `getLatestRelease` one at a time: each may fail, the first three open a handle,
and `Leave` closes them on every way out. The body is read in blocks until no data
is available, which may be too soon; then no tag is found in it.

## 3. The runs

| run | cfg | result | distinct states |
|---|---|---|---|
| server | `MCServer` | pass | 101 thousand |
| receive | `MCReceive` | pass | 232 thousand |
| app | `MCApp` | pass | 259 thousand |
| app_suspend | `MCAppSuspend` | pass | 482 thousand |
| app_deadlock | `MCAppDeadlock` | violation of `IoThreadNotStuck` |  |
| app_listeners | `MCAppListeners` | violation of `ListenersNotShared` |  |
| devices | `MCDevices` | pass | 1.03 million |
| devices_select | `MCDevicesSelect` | violation of `SelectedIsCaptured` |  |
| capture | `MCCapture` | pass | 2.94 million |
| settings | `MCSettings` | pass | 73 thousand |
| update | `MCUpdateChecker` | pass | 494 thousand |
| update_versions | `MCUpdateVersions` | violation of `ComparesAsDocumented` |  |

### What the passing runs show

- **server**. `KeepsPromise`: the server implements `Sessions`. `ViewsAgree`:
  registry, cache and window agree between handlers: after any operations, with
  pipes joining and leaving, each listener's last call had the current list (its
  first conjunct, `ListenersUpToDate`); the operations that skip the notification (an
  unchanged compression, a keepalive, a removal of nobody) are the ones that could
  go wrong. `GoneInTime` and
  `LeavesForAReason` are the two sides of the timeout: nobody stays longer than the
  timeout and one period, nobody goes within the timeout unless they said so or the
  machine is suspended. `HeardInTime`: a registered client gets some packet in every
  period, also one that has just joined or changed format. `FarewellComplete`: an
  orderly shutdown says goodbye to all who are registered. `SilentClientLeaves` is
  the liveness side: again and again a client is gone or has just spoken.
- **receive**. `ImplementsServer`: whatever the datagrams, the server does only what
  the server on packets may do. `OnlyWholeRequests`: no request is completed from what
  a longer datagram left in the buffer; an acknowledgement answers that very
  datagram with its request's id. `WireTellsSent`: a reader of the bytes finds the
  kind and the length that were meant. `KeysComeUp` and `TypedAsAsked`: however
  injections were cut short before, keys stay pressed only until a keystroke with
  them gets through, and a key meets no others than those.
- **app**. Without suspend events there is no deadlock (checked), every selection
  takes effect unless another follows, the capture fails or the program ends
  (`SelectionTakesEffect`), and closing the window ends the program even if the io
  thread is waiting for the window just then (`CloseEnds`).
  `ListenersKnowClients`: a pipe registered without the lock, with the list read
  before it is called, still ends up with the clients there are.
- **app_suspend**. With suspend events and every outcome of the races:
  `OneListenerPerPipe` (the fatal error in `stopCapture` is not reached, wherever
  `startCapture` fails), `LastSelectionWins`, `MuteFollowsButton` (with the one gap
  it names) and `NothingLeftAtExit`.
- **devices**. Once the notifications are handled, and although the system changes
  between the questions of a listing: the list and defaults are the system's
  (`ListCatchesUp`), the combo box shows the selection (`ShownIsCurrent`),
  the capture is of the selected device (`CaptureCatchesUp`, unless the user
  selected something while notifications were queued), and at all times
  the setting names the selection (`SelectionIsSaved`). `SelectionStaysPut`: renumbering
  never moves the selection to another device.
- **capture**. `WaitsForOneTimer`: however a tick ended, capturing waits for
  exactly one timer, so it neither dies silently nor runs twice, and a completion
  that was queued for a destroyed timer resumes nobody. `AudioInOrder`: every unit
  captured is sent once, in order, or is in the resampler or a buffer, or was
  given up: skipped on purpose, gone with its pipe, or in a frame that no packet was
  made of. `FramesOfOnePipe` and `NumbersFollow`: frames are whole, never mix two
  devices, and their numbers count them from one pipe to the next, those that were
  not sent included, so that a client sees a gap where it missed something; a
  number is used twice only where an encoder failed half way through the compressions.
  `SilenceKeepsUp`: less than a buffer of silence is owed between ticks, although
  the period is rounded down. `EncodersMatchClients` and `BufferGivenBack` as their
  comments say.
- **settings**. From every file that two values for each key, missing keys, keys that
  cannot be read and ports of earlier versions make up: no key is missing while the
  program runs (`AllThere`), what the user chose last is used in this run and the
  following ones unless a save failed (`UsedAsMeant`), the file is what is used
  (`FileFollows`), and the menu shows it (`MenuShowsSetting`).
- **update**. `BoxesTellTheTruth`: over all pairs of versions with three or four
  numbers, with and without suffix, with unreadable text and with numbers too
  large, a box says what `Before` says, except for two equal versions of
  three numbers (see section 5). `BusyIsTheOnlyExcuse`: the mutex is free in the
  end, and a manual check without an answer met a check that was under way.
  `HandlesGivenBack`: whichever call fails, the handles are closed before the window
  is informed. `ChecksEnd`: every check ends, answered unless it was turned away.

### Bounds

| bound | value | why it is enough |
|---|---|---|
| clients (`Address`, `ClientId`) | 2 in `Server`, 1 in `App` and `Receive` | the registry treats addresses independently, two show one's change reaching the other; `App` needs the list to change, not who is in it; what the handlers do with two clients is the server run's, and proved |
| `Timeout`, `MaintenancePeriod` (server) | 3 and 2 ticks of half a second | contacts fall between maintenance runs, and the timeout is not a multiple of the period, so both sides of the boundary are met; the theorems hold for any values |
| the same (receive) | 0 and 1 | times are not that run's question; a client can still be evicted between two datagrams |
| `InputPacketSize` | 9 bytes (1024 in the code) | the longest request fits exactly, so a cut one is completed by the last byte of another |
| `Datagram` | each kind of request, whole and one byte short, and an unknown compression | one byte short is the boundary of each length check |
| `SequenceNumber` | 2147483647 | the largest number that TLC has; `NumberAndAudioArrive` covers the rest |
| `MaxPosted` | 2 | a selection overtakes another one or a loss while a third is carried out; the theorems do not need it |
| `Device` in `App` | 2 | a selection that differs from the last |
| devices in `Devices` | 2 playback, 1 recording | keys shift and are permuted, a default moves within its flow, each flow can be empty; devices of a flow are interchangeable (symmetry) |
| `MaxEvents` | 3, and 4 in devices_select | a change of device with its change of default, and another change before the first is handled |
| `MaxReady`, `MaxPipes` | 2 and 2 | two packets in a tick re-enter the pipe; a second pipe follows the first |
| `MaxCaptured` | 6 units | several frames with rests carried over; the theorems do not need it |
| `FrameSize`, `PacketSize` | 2, {1, 3} | packets shorter and longer than a frame, neither a multiple of it |
| `HeldBack` | 1 | the resampler delays audio past the packet it came with |
| `BufferDuration` | 3 | odd: twice the period is less than the duration |
| `SequenceModulus` | 3 | the number wraps within a run (2^32 in the code) |
| values in `Settings` | 2 for each key, with `Malformed` and `Missing` | the default and another one |
| `Check`, `MaxPart` | 2 and 1 | one check that meets another; a number above the largest that `stoul` takes |
| `BodySize` | 2 blocks, 1 in update_versions | an answer that breaks off after its first block |

The bounds `MaxPosted`, `MaxEvents`, `MaxReady`, `MaxCaptured`, `MaxPipes` and `Check`
are guards on actions of the environment (the user, the system, the device),
never on what the program does with what it has been given; the exceptions are
`Expire` and `GetBuffer`, which stop when the audio that can be numbered is used up.

### Deadlock

TLC checks for deadlock in server, receive, app, devices, devices_select, capture
and settings; where a process has ended the specification says so by an action
that changes nothing. `CHECK_DEADLOCK FALSE` stands in the runs with suspend events,
because there the program does deadlock (section 5), and in the runs of the update
checker, which stops when all its checks are used.

### Fairness

- `FairServerSpec`: weak fairness of `Elapse` (time passes) and `Maintain` (the
  event loop gets round to an expired timer, which `startMaintenanceTimer` always
  sets again). Nothing is assumed about clients or the network.
- `FairAppSpec`: weak fairness of each thread's continuation of what it has begun
  (the operating system runs both threads, users dismiss message boxes), and
  strong fairness of `TakePosted`, because the io context queues handlers in the
  order they were posted, so others that become ready cannot keep a posted one
  waiting for ever. Nothing is assumed about what the user, the clients or the
  device begin.
- `FairCheckerSpec`: weak fairness of each worker (detached threads are scheduled,
  and WinHTTP's calls return, by their timeouts if nothing else, `GiveUp` among the
  outcomes) and of `OnUpdateCheckFinish` (the message loop runs, also under a box).
  Not assumed: that users start checks or dismiss boxes, that any call succeeds.
- The other runs check safety only.

## 4. The proofs

Eight modules hold theorems. All hold for every value of the constants that the
named `ASSUME`s allow; TLC evaluates these in the runs.

| module | theorem | property |
|---|---|---|
| `Clients_proofs` | `RegistrySafe` | (`ListenersUpToDate`, a part of `ViewsAgree`, for any user of the registry) |
| `Server_proofs` | `TypeCorrect`, `ViewsAlwaysAgree`, `Timely`, `Informed`, `Farewell`, `LeavingHasAReason`, `ServerKeepsPromise` | `ServerTypeOK`, `ViewsAgree`, `GoneInTime`, `HeardInTime`, `FarewellComplete`, `LeavesForAReason`, `KeepsPromise` |
| `Receive_proofs` | `DatagramsArePackets`, `DatagramsKeepPromise`, `RequestsAreWhole`, `WireIsTrue`, `KeysAreSafe`, `KeysAreTyped`, `NumberAndAudioArrive` | `ImplementsServer`, `KeepsPromise`, `OnlyWholeRequests`, `WireTellsSent`, `KeysComeUp`, `TypedAsAsked` |
| `Devices_proofs` | `ListsCatchUp`, `CapturesCatchUp`, `ComboBoxIsCurrent`, `SettingsNameSelection`, `SelectionStays` | `ListCatchesUp`, `CaptureCatchesUp`, `ShownIsCurrent`, `SelectionIsSaved`, `SelectionStaysPut` |
| `UpdateChecker_proofs` | `BoxesAreTrue`, `NobodyIsForgotten`, `HandlesAreGivenBack` | `BoxesTellTheTruth`, `BusyIsTheOnlyExcuse`, `HandlesGivenBack` |
| `Settings_proofs` | `EverySettingThere`, `ChoicesSurvive`, `FileIsCurrent`, `MenuIsCurrent` | `AllThere`, `UsedAsMeant`, `FileFollows`, `MenuShowsSetting` |
| `App_proofs` | `OneListener`, `SelectionWins`, `MuteFollows`, `NothingLeft`, `ListenersKnow` | `OneListenerPerPipe`, `LastSelectionWins`, `MuteFollowsButton`, `NothingLeftAtExit`, `ListenersKnowClients` |
| `Capture_proofs` | `CaptureGoesOn`, `BuffersReturn`, `SilenceIsMadeUpFor`, `EncodersFollow`, `OrderKept`, `FramesWhole`, `NumbersGoOnAlways` | `WaitsForOneTimer`, `BufferGivenBack`, `SilenceKeepsUp`, `EncodersMatchClients`, `AudioInOrder`, `FramesOfOnePipe`, `NumbersFollow` |

**Clients and Server.** `RegistrySafe` needs the strengthening that `clientInfos` is
the list of the current clients and that each listening listener has heard it;
every operation either leaves the list as it is or goes through
`UpdateAndNotify`. Lemmas about `Store` and the operations are stated once, and are
reused by the server's proof. The server's inductive invariant (`Invariance`) is the
conjunction of `ServerTypeOK`, `ViewsAgree`, `SilenceBudget`, `KeepaliveBudget` and
`FarewellComplete`. `GoneInTime` is not inductive: a client can be as silent as it
allows with the timer full, and then age. `SilenceBudget` ties silence to the timer:
silence plus what is left on the timer is at most the timeout plus one period. A
maintenance run leaves only clients within the timeout and sets the timer to a
period, and a tick moves one unit from the timer to the silence. `KeepaliveBudget`
does the same for the time since the last packet, and needs `ViewsAgree`:
keepalives are sent from the cache, before the timeouts are looked at.

**Refinements.** `ServerKeepsPromise`: the initial state maps to that of `Sessions`, and
every step of the server to one of its steps or to none. Transmissions come from
the cache, so the server's invariant is used at each (`CacheHasFormats`), and a
maintenance run that keeps some alive and forgets others is one step of `Sessions`.
`DatagramsArePackets` does the same between `Receive` and `Server`, from the fact that the
parsers return integers and `CompressionFromNetworkValue` only known compressions.
The two compose: `DatagramsKeepPromise`.

**Requests and packets.** `RequestsAreWhole` is an action property and needs no new
invariant: `Inv` of the server (through `DatagramsArePackets`) says that a format
changes only for the address that is served, and the parsers' length checks say
that every byte a handler uses is one of the datagram's (`ConnectIsRead`,
`SetFormatIsRead`); the id is the same two bytes going in (`HighByte`, `LowByte`) and
coming out (`AcksCarryTheId`). All other steps only take formats away
(`OthersLoseFormats`). `WireIsTrue` is inductive as it stands. Both rest on
`PacketLayout`, which says byte for byte what `CreatePacket` composes, as long as
the length fits its field; `AudioDataAssumption` says so of the audio of a frame,
which is 10 ms and some 2 kB even uncompressed.

**Keystrokes and numbers.** `KeysAreSafe` and `KeysAreTyped` rest on what is pressed after
the first n events, for any set of modifiers in any order (`UnderModifiers`,
`FullInjection`, `PartInjection`). `NumberAndAudioArrive` states for every audio packet,
whatever the compression and the audio, that the number read behind the header is
the one written, for each of its 2^32 values (TLC's integers end at half of them),
and that the audio follows unchanged. The program only writes such packets; the
reader is a client, taken to use the inverse that `NetUtil` has (`readUInt32B`, which
no handler calls). It rests on `PacketLayout` and on the lemma `ReadBack32`: four bytes
written anywhere are read as the number they were written from.

**Settings.** The invariant adds `Kept` to the properties: between runs an intact file
(no file, for the defaults) has what the user has the settings at. What a start
makes of a file is the lemma `RepairFindsAll`: the repaired keys are `HasSet`, none is
missing.

**App.** The properties speak of the time between handlers; `IInv` says for each place
of the io thread what has become of the pipe and its listener (`PipeOK`: gone
together, or one is there and the other not between two steps), which device is on
its way (`SelectionOK`: the last handler posted is for the device last selected; with
none left, the one that runs is), and what the UI thread still has to tell the pipe
(`MuteOK`: the pipe has the button's value unless a click is on its way or was
missed). `ControlOK` ties the mutex to the places that hold it. `ListenersKnow` has
the hypothesis that the machine is not suspended, because without it the
property is false: the UI thread empties the registry while the io thread
has read the list for the pipe it is registering, and that pipe is told of clients
that are gone. Under the hypothesis only the io thread changes the registry, and
`KnowInv` says of every listener that it knows the clients, or is yet to be called in
the walk under way, or is the pipe that is about to be told.

**Devices.** The properties say what holds when no notification is left, which no
handler by itself preserves. `DevicesInv` says of every difference between the
repository and the system which notification in the queue will mend it: a device
listed and gone has its `Removed`, a new one its `Added`, a default that differs a later
`DefaultChanged` of its flow. While a listing is under way the same holds of its
answers, and counts from the second notification on, because the first is the one
being handled and its listing may have been asked before the change
(`AnswersFollow`). What the system guarantees of the order (`DeviceFirst` decides part
of it) is `OrderOfEvents`. The selection and the capture are tied to the defaults the
same way (`SelectionFollows`, `CaptureFollows`), but for a change that nobody is told
of (`missed`) and for a selection made while notifications were queued
(`lateSelect`), which is how `devices_select` goes wrong. `SelectionIsSaved` needs none of
this and holds at all times.

**Update checker.** `ComparisonIsBefore` compares the loop with the order that
`Util.h` describes, for versions of any numbers that can be read, unless they agree
in three numbers. `CheckerInv` says for each state of a check whether it has the mutex
(while it works, and only then), which handles are open (those of the calls made,
all until `Leave`), and that a result is on its way to the window, was shown, or
need not be.

**Capture.** `IInv` of `Capture_proofs` says the same for the places of a tick: the timer
is idle while a tick runs and the coroutines alive, a buffer is held from `GetBuffer`
to `ReleaseBuffer`, the silence counted is what is owed but for the period that is
being handed over. The module's second half is about the audio: all that waits (PCM
buffer, resampler, packet) is one sequence, `Waiting`; steps move the border between
its parts, cut its start off as frames, or put new audio at its end. `AInv` adds whose
pipe's audio it is, what the current number is, and that the frames nobody got are
among what was given up, and is inductive relative to `IInv`. Cutting is where
induction over the audio would be needed; positions and `FramesOf` as a function of
the frame's index take its place.

Every invariant and every action property of the passing runs is proved, and
both refinements. Only model-checked: the liveness properties (`SilentClientLeaves`,
`SelectionTakesEffect`, `CloseEnds`, `ChecksEnd`) and the absence of deadlock, since
fairness and `ENABLED` are outside what the prover handles; and the four properties
that the code does not have.

## 5. What the models found

1. **The threads can wait for each other for ever** (app_deadlock).
   `Clients` notifies its listeners with its mutex held. One of them sets the
   text of the client list from the io thread (`SoundRemoteApp.cpp:267`), which waits
   for the UI thread. If that thread is in `Clients::removeAll` after a suspend
   event (`SoundRemoteApp.cpp:685`), it waits for the mutex.
2. **The list of listeners is shared after all** (app_listeners). `Clients.h:50`
   explains why it is not synchronized; `removeAll` walks it on the UI thread while
   the io thread changes it with the device.
3. **A selected device is not captured** (devices_select). The default is selected
   and a new device becomes the default. The notification "added" comes first, and
   its listing learns of the new default without capturing it. If the user now
   selects that device by name, `onDeviceSelected` finds that the id has not changed
   (`domain/Devices.cpp:88`) and starts nothing; the change of default that arrives
   next finds no default selected. The old device goes on being captured.
4. **Equal versions of three numbers are an update** (update_versions).
   `common/Util.cpp:53` asks only whether the current version has the number
   that both lack. The tests compare equal versions of four numbers only.

Not contradicted by any text of the repository, and so not counted above, but
reached by the models: the UI thread follows `capturePipe_` after the io thread
has reset it (`App`, `dangling`); an error in the second packet of a tick destroys
the capture's coroutine twice (`Capture`, `undefined`); a suspend event clears the
encoders while the pipe uses them (the same), and replaces the server's cache
while the io thread walks it (`App`, `walk`); a tick of the peak meter between two
pipes ends the meter until the next selection (`App`, `meter`); a device that
changes between listing and listening is never noticed (`Devices`, `missed`); a
click on mute while a pipe is made can be lost (`App`, `missedMute`); a check from the
menu is dropped, with no word to the user, if the quiet check of the program's
start is still running (`UpdateChecker`, `turnedAway`); an injection cut short leaves
its modifiers pressed (`Keystroke`, `cut`); a settings file that cannot be read for a
moment is replaced by the defaults (`Settings`, `SetDefaultValues`); a value that
cannot be read stays in the file until it is set, and is read as zero or false (the
same, `Malformed`).

## 6. What is not modelled

- The codec, the conversion of audio, HTTP, JSON and the calls to the audio system
  are libraries: the models let each fail where the code handles a failure. The
  negotiation of formats (`AudioResampler`'s construction, `AudioCapture`'s choice of
  one) is one step that may fail; that the result of `SetOutputType` is dropped
  (`AudioResampler.cpp:43`) has no state to show in.
- `audio/AudioUtil` beyond its queries: names, formats and error texts. `EndpointDevice`
  only carries a name and an id.
- Datagrams longer than the receive buffer: Windows reports them as an error of the
  socket, which is `ReceiveFails`.
- Keystrokes: the texts shown for keys; the range that `Keystroke.h:12` gives for keys
  and nothing enforces.
- Settings: edits of the file while the program runs, and saves cut within a line.
- Windows, layout, icons, translations, texts of messages: no property is about
  them. Of the controls only the mute button's click is in `App`.
- The io thread held up by a message box delays maintenance; the timing
  properties of `Server` do not cover that time.
- The end of the program while update checks run on their detached threads: what a
  worker does then is undefined from its first step on.
- Data races below the level of a step (torn reads) other than those named
  in sections 2 and 5.

## 7. Plan

Done: all modules of section 2, with the runs and proofs described. What could
follow, in order:

1. `App` with `Capture`: stopping and starting the pipe at the points where the
   coroutines can be, in place of the single steps each has now; `Devices` with
   `Settings` and `App`, so that a selection goes all the way from the combo box to the
   file and to the pipe.
2. The end of the program in `UpdateChecker`.
3. An abstract audio stream (frames in order, a gap in the numbers where frames
   were not sent) refined by
   `Capture`, to which the client's side of the protocol could be joined.
