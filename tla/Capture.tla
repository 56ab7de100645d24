------------------------------ MODULE Capture ------------------------------
(***************************************************************************)
(* From the device to the server: the capturing coroutine                  *)
(* (AudioCapture::capture), the coroutine it feeds (CapturePipe::process), *)
(* the resampler of a device that has another format, the PCM buffer cut   *)
(* into frames, and the encoders.                                          *)
(*                                                                         *)
(* Everything runs on the io thread.  A timer resumes the capture, which   *)
(* hands control to the pipe with each packet; the pipe resumes the        *)
(* capture from its own body, so a second packet in the same tick enters   *)
(* the pipe a second time, on top of the first, and an exception unwinds   *)
(* through all of them.  An action is what runs between two such calls;    *)
(* between them the UI thread may mute, or remove all the clients, and the *)
(* device goes on recording.                                               *)
(***************************************************************************)
EXTENDS Naturals, Sequences, FiniteSets

CONSTANTS
  Compression,      \* the compressions clients ask for
  Uncompressed,     \* the one that needs no encoder, Audio::Compression::none
  FrameSize,        \* opusInputSize_, in units of audio
  PacketSize,       \* the sizes of the device's packets, in units
  BufferDuration,   \* bufferDuration_, a whole number
  HeldBack,         \* the most units the resampling transform keeps inside
  SequenceModulus,  \* 2^32, the values of audioSequenceNumber_
  MaxReady,         \* bound of a run: packets waiting in the device
  MaxCaptured,      \* bound of a run: units of audio captured
  MaxPipes          \* bound of a run: pipes made

TimerPeriod == BufferDuration \div 2

ASSUME CompressionAssumption == IsFiniteSet(Compression)
ASSUME SizesAssumption ==
  /\ FrameSize \in Nat \ {0} /\ PacketSize \subseteq Nat \ {0}
  /\ BufferDuration \in Nat /\ TimerPeriod > 0
  /\ HeldBack \in Nat /\ SequenceModulus \in Nat \ {0}

VARIABLES
  status,       \* the process: "alive", "failed" (std::exit) or "crashed"
  running,      \* what the io thread runs, "loop" between two handlers
  pipe,         \* "none", "alive", or "ended" by an exception
  capture,      \* the capturing coroutine, likewise
  depth,        \* activations of the pipe on the stack
  timer,        \* its timer: "idle", "armed", or "queued" to be handled
  stale,        \* a queued handler whose timer has been destroyed
  ready,        \* packets waiting in the device
  held,         \* a device buffer is held
  silent,       \* uncompensatedSilenceDuration
  pcm,          \* pcmAudio, what the capture hands over
  inside,       \* what the transform of audioResampler_ has taken in
  buffer,       \* pcmAudioBuffer_
  sequence,     \* audioSequenceNumber_, which outlives the pipe
  encoders,     \* the keys of encoders_
  wanted,       \* the compressions of the clients there are
  muted,        \* muted_ of the pipe, set from the UI thread
  resampleRequired,     \* resampleRequired_, of the pipe
  pipes,        \* history: the pipes made so far
  captured,     \* history: the units captured so far
  owed,         \* history: silent periods since a packet, less those handed on
  frames,       \* history: the frames cut from the buffer, and sent to whom
  dropped,      \* history: the units given up
  undefined     \* history: the undefined behaviours met

thread == <<status, running, pipe, capture, depth, undefined>>
device == <<ready, held>>
clock == <<timer, stale, silent, owed>>
audio == <<pcm, inside, buffer, sequence, captured, frames, dropped>>
clients == <<encoders, wanted, muted>>
made == <<resampleRequired, pipes>>
vars == <<thread, device, clock, audio, clients, made>>

Indexes(units) == {units[i].index : i \in 1..Len(units)}
\* The units in those of the frames fs that were sent to nobody.
Unsent(fs) ==
  UNION {Indexes(fs[k].audio) : k \in {k \in 1..Len(fs) : fs[k].to = {}}}
Runs(here) == status = "alive" /\ running = here

CaptureInit ==
  /\ status = "alive" /\ running = "loop"
  /\ pipe = "none" /\ capture = "none" /\ depth = 0
  /\ timer = "idle" /\ stale = FALSE
  /\ ready = 0 /\ held = FALSE /\ silent = 0
  /\ pcm = <<>> /\ inside = <<>> /\ buffer = <<>> /\ sequence = 1 % SequenceModulus
  /\ encoders = {} /\ wanted = {} /\ muted = FALSE
  /\ resampleRequired = FALSE /\ pipes = 0 /\ captured = 0 /\ owed = 0
  /\ frames = <<>> /\ dropped = {} /\ undefined = {}

-----------------------------------------------------------------------------
(* Errors and the end of a pipe. *)

\* An exception leaves the coroutine that throws, and every activation of the
\* pipe below it.  Each activation destroys the same local, the capture: from
\* the second on that is a frame which is gone.
Throw ==
  /\ running' = "error" /\ depth' = 0 /\ held' = FALSE /\ pcm' = <<>>
  /\ IF depth = 0 THEN capture' = "ended" /\ UNCHANGED pipe
                  ELSE capture' = "none" /\ pipe' = "ended"
  /\ IF depth > 1 THEN /\ undefined' = undefined \cup {"destroyed twice"}
                       /\ status' \in {"alive", "crashed"}
                  ELSE UNCHANGED <<undefined, status>>
  /\ UNCHANGED <<timer, stale>>

\* (A slip: the buffer and the number are as the last pipe left them.)
DestroyPipeButKeepAudio ==
  /\ pipe' = "none" /\ capture' = "none" /\ silent' = 0 /\ owed' = 0
  /\ timer' = "idle" /\ stale' = (stale \/ timer = "queued")
  /\ encoders' = {}
  /\ UNCHANGED <<inside, buffer, dropped>>

\* ~CapturePipe: the coroutines, the timer, the resampler with what it has
\* inside, the buffer and the encoders go.
\* A completion that is queued already cannot be cancelled any more.
DestroyPipe ==
  /\ pipe' = "none" /\ capture' = "none" /\ silent' = 0 /\ owed' = 0
  /\ timer' = "idle" /\ stale' = (stale \/ timer = "queued")
  /\ inside' = <<>> /\ buffer' = <<>>
  /\ dropped' = dropped \cup Indexes(buffer \o inside)
  /\ encoders' = {}

\* stopCapture as a handler, and as asioEventLoop's answer to an error.
StopCapture ==
  /\ Runs("loop") /\ pipe # "none"
  /\ DestroyPipe
  /\ UNCHANGED <<status, running, depth, undefined, device, pcm, sequence,
                 captured, frames, wanted, muted, made>>

HandleError ==
  /\ Runs("error") /\ running' = "loop"
  /\ DestroyPipe
  /\ UNCHANGED <<status, depth, undefined, device, pcm, sequence, captured,
                 frames, wanted, muted, made>>

\* startCapture: construct, register with the clients, run to the first wait.
\* The device hands out what it records from here on, in the format the
\* clients get or in one that has to be resampled.
StartCapture ==
  /\ Runs("loop") /\ pipe = "none" /\ pipes < MaxPipes
  /\ pipe' = "alive" /\ capture' = "alive" /\ pipes' = pipes + 1
  /\ resampleRequired' \in BOOLEAN
  /\ timer' = "armed" /\ ready' = 0 /\ encoders' = wanted
  /\ UNCHANGED <<status, running, depth, undefined, held, stale, silent, owed,
                 audio, wanted, muted>>

\* Some step of it fails: device, resampler, encoder or audio client.
StartFails ==
  /\ Runs("loop") /\ pipe = "none" /\ running' = "error"
  /\ UNCHANGED <<status, pipe, capture, depth, undefined, device, clock, audio,
                 clients, made>>

-----------------------------------------------------------------------------
(* The timer, AwaitableTimer. *)

Expire ==
  /\ timer = "armed" /\ timer' = "queued"
  /\ captured < MaxCaptured
  /\ UNCHANGED <<thread, device, stale, silent, owed, audio, clients, made>>

HandleTimer ==
  /\ Runs("loop") /\ timer = "queued"
  /\ timer' = "idle" /\ running' = "poll"
  /\ UNCHANGED <<status, pipe, capture, depth, undefined, device, stale, silent,
                 owed, audio, clients, made>>

\* Waiting ends with an error that is no cancellation.  The handler throws it,
\* also for a timer that is gone, and the event loop ends the process.
TimerFails ==
  /\ Runs("loop") /\ (timer = "queued" \/ stale)
  /\ status' = "failed"
  /\ UNCHANGED <<running, pipe, capture, depth, undefined, device, clock, audio,
                 clients, made>>

\* (A slip: the handler resumes the coroutine although it is destroyed.)
ResumeDestroyed ==
  /\ Runs("loop") /\ stale /\ stale' = FALSE
  /\ running' = "poll"
  /\ UNCHANGED <<status, pipe, capture, depth, undefined, device, timer, silent,
                 owed, audio, clients, made>>

\* The flag the timer's destructor sets makes the handler do nothing.
HandleStale ==
  /\ Runs("loop") /\ stale /\ stale' = FALSE
  /\ UNCHANGED <<thread, device, timer, silent, owed, audio, clients, made>>

-----------------------------------------------------------------------------
(* AudioCapture::capture. *)

\* co_yield: the capture is suspended and the pipe resumed in its place.
Yield(size) ==
  /\ pcm' = [i \in 1..size |-> [pipe |-> pipes, index |-> captured + i]]
  /\ captured' = captured + size
  /\ depth' = depth + 1 /\ running' = "pipe"
  /\ UNCHANGED <<inside, buffer, sequence, frames, dropped>>

\* GetNextPacketSize, GetBuffer or ReleaseBuffer fails.
DeviceFails ==
  /\ status = "alive" /\ running \in {"poll", "get", "more"}
  /\ Throw
  /\ UNCHANGED <<ready, silent, owed, inside, buffer, sequence, captured, frames,
                 dropped, clients, made>>

\* No packet: silence is handed over once a whole buffer of it is missing.
PollSilence ==
  /\ Runs("poll") /\ ready = 0
  /\ silent' = silent + TimerPeriod
  /\ IF silent' >= BufferDuration
     THEN Yield(1) /\ UNCHANGED owed
     ELSE running' = "wait" /\ owed' = owed + 1 /\ UNCHANGED <<depth, audio>>
  /\ UNCHANGED <<status, pipe, capture, undefined, device, timer, stale,
                 clients, made>>

\* (A slip: the compensation starts from nothing each time.)
ForgetSilence ==
  /\ Runs("quiet") /\ running' = "wait"
  /\ silent' = 0
  /\ UNCHANGED <<status, pipe, capture, depth, undefined, device, timer, stale,
                 owed, audio, clients, made>>

ResumeAfterSilence ==
  /\ Runs("quiet") /\ running' = "wait"
  /\ silent' = silent - TimerPeriod
  /\ UNCHANGED <<status, pipe, capture, depth, undefined, device, timer, stale,
                 owed, audio, clients, made>>

PollPacket ==
  /\ Runs("poll") /\ ready > 0
  /\ running' = "get" /\ silent' = 0 /\ owed' = 0
  /\ UNCHANGED <<status, pipe, capture, depth, undefined, device, timer, stale,
                 audio, clients, made>>

GetBuffer(size) ==
  /\ Runs("get") /\ captured + size <= MaxCaptured
  /\ held' = TRUE /\ ready' = ready - 1
  /\ Yield(size)
  /\ UNCHANGED <<status, pipe, capture, undefined, clock, clients, made>>

\* (A slip: the buffer is given back only when there is no next packet.)
ReleaseLastOnly ==
  /\ Runs("more")
  /\ held' = (ready > 0)
  /\ running' = IF ready > 0 THEN "get" ELSE "wait"
  /\ UNCHANGED <<status, pipe, capture, depth, undefined, ready, clock, audio,
                 clients, made>>

ReleaseBuffer ==
  /\ Runs("more")
  /\ held' = FALSE
  /\ running' = IF ready > 0 THEN "get" ELSE "wait"
  /\ UNCHANGED <<status, pipe, capture, depth, undefined, ready, clock, audio,
                 clients, made>>

\* co_await timer: control returns through the activations of the pipe, each
\* of which finds no audio and suspends, to the event loop.
AwaitTimer ==
  /\ Runs("wait")
  /\ timer' = "armed" /\ depth' = 0 /\ running' = "loop"
  /\ UNCHANGED <<status, pipe, capture, undefined, device, stale, silent, owed,
                 audio, clients, made>>

-----------------------------------------------------------------------------
(* CapturePipe. *)

\* The compressions that get a packet of a frame: uncompressed audio always
\* is one, while EncoderOpus::encode may find that there is nothing to send.
PacketsMade == {to \in SUBSET encoders : encoders \cap {Uncompressed} \subseteq to}

\* The first frames of b, numbered from the current number on: the k-th is
\* sent to the compressions to[k].
FramesOf(b, to) ==
  [k \in 1..Len(to) |->
    [pipe |-> pipes, to |-> to[k],
     number |-> (sequence + k - 1) % SequenceModulus,
     audio |-> SubSeq(b, (k - 1) * FrameSize + 1, k * FrameSize)]]

ResumeCapture == running' = IF held THEN "more" ELSE "quiet"

\* resample: the transform takes the packet in, and gives what it has but for
\* some that it holds back.  Without a resampler the packet goes by it.
Resampled ==
  LET all == inside \o pcm
      fewest == IF resampleRequired THEN Len(all) - HeldBack ELSE Len(all)
  IN  {[out |-> SubSeq(all, 1, n), inside |-> SubSeq(all, n + 1, Len(all))] :
         n \in {k \in 0..Len(all) : k >= fewest}}

\* (A slip: the buffer keeps the unit a frame ends with.)
CutFramesAndKeepLast(b, n) ==
  /\ \E to \in [1..n -> PacketsMade] :
       /\ frames' = frames \o FramesOf(b, to)
       /\ dropped' = dropped \cup Unsent(FramesOf(b, to))
  /\ sequence' = (sequence + n) % SequenceModulus
  /\ buffer' = SubSeq(b, IF n = 0 THEN 1 ELSE n * FrameSize, Len(b))

\* (A slip: only a frame that is sent takes a number.)
CountSentFrames(b, n) ==
  /\ \E to \in [1..n -> PacketsMade] :
       /\ frames' = frames \o FramesOf(b, to)
       /\ dropped' = dropped \cup Unsent(FramesOf(b, to))
       /\ sequence' = (sequence + Cardinality({k \in 1..n : to[k] # {}}))
                        % SequenceModulus
  /\ buffer' = SubSeq(b, n * FrameSize + 1, Len(b))

\* process(pcmAudio, server): n frames are encoded, numbered and consumed.  A
\* frame no encoder makes a packet of is not sent; it takes a number as well.
CutFrames(b, n) ==
  /\ \E to \in [1..n -> PacketsMade] :
       /\ frames' = frames \o FramesOf(b, to)
       /\ dropped' = dropped \cup Unsent(FramesOf(b, to))
  /\ sequence' = (sequence + n) % SequenceModulus
  /\ buffer' = SubSeq(b, n * FrameSize + 1, Len(b))

\* process(): the audio is skipped while muted or without clients.
SkipAudio ==
  /\ Runs("pipe") /\ (muted \/ encoders = {})
  /\ dropped' = dropped \cup Indexes(pcm) /\ pcm' = <<>>
  /\ ResumeCapture
  /\ UNCHANGED <<status, pipe, capture, depth, undefined, device, clock, inside,
                 buffer, sequence, captured, frames, clients, made>>

SendAudio ==
  /\ Runs("pipe") /\ ~muted /\ encoders # {}
  /\ \E resampled \in Resampled :
       LET all == buffer \o resampled.out IN
       /\ CutFrames(all, Len(all) \div FrameSize)
       /\ inside' = resampled.inside
  /\ pcm' = <<>>
  /\ ResumeCapture
  /\ UNCHANGED <<status, pipe, capture, depth, undefined, device, clock,
                 captured, clients, made>>

\* A call of the resampler's fails, be it after it gave some of the audio.
ResamplerFails ==
  /\ Runs("pipe") /\ ~muted /\ encoders # {} /\ resampleRequired
  /\ LET all == inside \o pcm IN
     \E n \in 0..Len(all) :
       /\ buffer' = buffer \o SubSeq(all, 1, n)
       /\ dropped' = dropped \cup Indexes(SubSeq(all, n + 1, Len(all)))
  /\ inside' = <<>>
  /\ Throw
  /\ UNCHANGED <<ready, silent, owed, sequence, captured, frames, clients, made>>

\* An encoder fails at frame n + 1, of which some of the other compressions
\* may have been sent a packet by then.
EncodeFails ==
  /\ Runs("pipe") /\ ~muted
  /\ \E failing \in encoders \ {Uncompressed}, resampled \in Resampled :
       LET all == buffer \o resampled.out IN
       \E n \in 0..(Len(all) \div FrameSize) - 1 :
       \E to \in [1..n -> PacketsMade], some \in SUBSET (encoders \ {failing}) :
         LET cut == FramesOf(all, IF some = {} THEN to ELSE Append(to, some)) IN
         /\ frames' = frames \o cut
         /\ dropped' = dropped \cup Unsent(cut)
         /\ sequence' = (sequence + n) % SequenceModulus
         /\ buffer' = SubSeq(all, n * FrameSize + 1, Len(all))
         /\ inside' = resampled.inside
  /\ Throw
  /\ UNCHANGED <<ready, silent, owed, captured, clients, made>>

\* (A slip: it returns early whenever there is no new compression.)
OnlyNewCompressions(infos) ==
  encoders' = IF infos \ encoders = {} THEN encoders ELSE infos

\* onClientsUpdate: nothing changes if no compression is new and as many as
\* before are still asked for; else the others go and the new ones join.
OnClientsUpdate(infos) ==
  LET existing == infos \cap encoders
      new == infos \ encoders IN
  encoders' = IF new = {} /\ Cardinality(existing) = Cardinality(encoders)
              THEN encoders ELSE existing \cup new

\* The registry notifies the pipe from a handler of the io thread.
ClientsChange(infos) ==
  /\ Runs("loop") /\ infos # wanted
  /\ wanted' = infos
  /\ IF pipe = "none" THEN UNCHANGED encoders ELSE OnClientsUpdate(infos)
  /\ UNCHANGED <<thread, device, clock, audio, muted, made>>

\* An encoder cannot be made: the error ends the process, in Server::receive.
EncoderFails(infos) ==
  /\ Runs("loop") /\ pipe = "alive" /\ infos \ (encoders \cup {Uncompressed}) # {}
  /\ wanted' = infos /\ status' = "failed"
  /\ UNCHANGED <<running, pipe, capture, depth, undefined, device, clock, audio,
                 encoders, muted, made>>

-----------------------------------------------------------------------------
(* The UI thread and the device. *)

SetMuted ==
  /\ status = "alive" /\ muted' = ~muted
  /\ UNCHANGED <<thread, device, clock, audio, encoders, wanted, made>>

\* Clients::removeAll on suspend.  It may clear encoders_ while the pipe
\* walks them.
RemoveAll ==
  /\ status = "alive" /\ wanted # {}
  /\ wanted' = {} /\ encoders' = {}
  /\ IF running = "pipe" THEN /\ undefined' = undefined \cup {"encoders shared"}
                              /\ status' \in {"alive", "crashed"}
                         ELSE UNCHANGED <<undefined, status>>
  /\ UNCHANGED <<running, pipe, capture, depth, device, clock, audio, muted, made>>

Record ==
  /\ pipe = "alive" /\ ready < MaxReady
  /\ \A size \in PacketSize : captured + (ready + 1) * size <= MaxCaptured
  /\ ready' = ready + 1
  /\ UNCHANGED <<thread, held, clock, audio, clients, made>>

Ended == status # "alive" /\ UNCHANGED vars

CaptureNext ==
  \/ StartCapture \/ StartFails \/ StopCapture \/ HandleError
  \/ Expire \/ HandleTimer \/ HandleStale \/ TimerFails
  \/ PollSilence \/ PollPacket \/ DeviceFails
  \/ \E size \in PacketSize : GetBuffer(size)
  \/ ReleaseBuffer \/ ResumeAfterSilence \/ AwaitTimer
  \/ SkipAudio \/ SendAudio \/ ResamplerFails \/ EncodeFails
  \/ \E infos \in SUBSET Compression : ClientsChange(infos) \/ EncoderFails(infos)
  \/ SetMuted \/ RemoveAll \/ Record
  \/ Ended

CaptureSpec == CaptureInit /\ [][CaptureNext]_vars

-----------------------------------------------------------------------------
\* Between two handlers there is either no pipe and nothing left of it, or a
\* pipe and a capture that wait for exactly one timer: however a tick ended
\* (many packets, an exception at any depth, a stop with the completion
\* queued already, which then resumes nobody), capturing neither dies
\* silently nor goes on twice.
WaitsForOneTimer ==
  Runs("loop") =>
    IF pipe = "none" THEN timer = "idle" /\ capture = "none"
    ELSE pipe = "alive" /\ capture = "alive" /\ timer \in {"armed", "queued"}

\* The device's buffers are got and given back in turn, also when an
\* exception or a stop comes in between.
BufferGivenBack == running \in {"loop", "poll", "get", "wait", "error"} => ~held

\* A device that plays nothing is made up for: between ticks, less than one
\* buffer of silence is owed to the clients.
SilenceKeepsUp == running = "loop" => owed * TimerPeriod < BufferDuration

\* The encoders are those of the clients there are, after whatever updates.
EncodersMatchClients == (Runs("loop") /\ pipe = "alive") => encoders = wanted

Precedes(s, t) ==
  \A i \in 1..Len(s), j \in 1..Len(t) : s[i].index < t[j].index
Increasing(s) == \A i, j \in 1..Len(s) : i < j => s[i].index < s[j].index
InOrder(fs) ==
  \A k \in 1..Len(fs) :
    /\ Increasing(fs[k].audio)
    /\ \A l \in 1..Len(fs) : k < l => Precedes(fs[k].audio, fs[l].audio)
IndexesIn(fs) ==
  UNION {Indexes(fs[k].audio) : k \in {k \in 1..Len(fs) : fs[k].to # {}}}
Waiting == buffer \o inside \o pcm

\* All audio is sent once, in the order it was captured and in one piece,
\* although a packet may be processed on top of the one before it: it is in a
\* frame that was sent, waits in the resampler or the buffer, or was given up,
\* on purpose, with its pipe, or because no encoder made a packet of it.
AudioInOrder ==
  /\ InOrder(frames)
  /\ running # "error" =>
       /\ Increasing(Waiting)
       /\ \A k \in 1..Len(frames) : Precedes(frames[k].audio, Waiting)
  /\ IndexesIn(frames) \cup Indexes(Waiting) \cup dropped = 1..captured

\* A frame is whole and holds the audio of one device.
FramesOfOnePipe ==
  \A k \in 1..Len(frames) :
    /\ Len(frames[k].audio) = FrameSize
    /\ \A i \in 1..FrameSize : frames[k].audio[i].pipe = frames[k].pipe

\* The numbers count the frames, those that were not sent included, over a
\* change of device as well: from the numbers of the packets it gets, a client
\* can tell how many frames were not for it.  After a change of device one may
\* be used again: that of a frame at which an encoder failed when others had
\* been sent it.
NumbersFollow ==
  \A k \in 1..Len(frames) - 1 :
    LET next == (frames[k].number + 1) % SequenceModulus IN
    \/ frames[k + 1].number = next
    \/ frames[k + 1].pipe # frames[k].pipe /\ frames[k + 1].number = frames[k].number
=============================================================================
