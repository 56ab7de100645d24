--------------------------- MODULE Capture_proofs ---------------------------
(***************************************************************************)
(* The control of the capture, for any compressions, sizes, durations and  *)
(* bounds: what the io thread waits for between two handlers, that device  *)
(* buffers are given back, that silence is made up for, and that the       *)
(* encoders are those the clients need.                                    *)
(*                                                                         *)
(* None of it is inductive, because a tick goes through many steps, during *)
(* which nothing of it need hold.  IInv says for each place of the io      *)
(* thread what has become of the pipe, its timer and the buffer.           *)
(***************************************************************************)
EXTENDS Capture, FiniteSetTheorems, SequenceTheorems, TLAPS

\* The places of the io thread within a tick.
Ticking == {"poll", "get", "pipe", "more", "quiet", "wait"}

ControlOK ==
  /\ status \in {"alive", "failed", "crashed"}
  /\ running \in Ticking \cup {"loop", "error"}
  /\ silent \in Nat /\ owed \in Nat
  /\ encoders \in SUBSET Compression /\ wanted \in SUBSET Compression

\* Between handlers the capture waits for its timer, and only there.
TimerOK ==
  /\ running = "loop" =>
       IF pipe = "none" THEN timer = "idle" /\ capture = "none"
       ELSE pipe = "alive" /\ capture = "alive" /\ timer \in {"armed", "queued"}
  /\ running \in Ticking => pipe = "alive" /\ capture = "alive" /\ timer = "idle"

\* A buffer is held from GetBuffer on until the pipe has done with it.
BufferOK ==
  /\ running \in {"loop", "poll", "get", "quiet", "wait", "error"} => ~held
  /\ running = "more" => held

\* The silence counted is what is owed, but for the period being handed over.
SilenceOK ==
  /\ owed * TimerPeriod < BufferDuration
  /\ running \in {"loop", "poll", "wait"} => silent = owed * TimerPeriod
  /\ running = "quiet" \/ (running = "pipe" /\ ~held) =>
       silent = owed * TimerPeriod + TimerPeriod
  /\ running \in {"get", "more"} \/ (running = "pipe" /\ held) =>
       silent = 0 /\ owed = 0

EncodersOK == status = "alive" /\ pipe = "alive" => encoders = wanted

IInv == ControlOK /\ TimerOK /\ BufferOK /\ SilenceOK /\ EncodersOK

-----------------------------------------------------------------------------
LEMMA Durations ==
  /\ BufferDuration \in Nat /\ TimerPeriod \in Nat
  /\ 0 < TimerPeriod /\ 0 < BufferDuration
BY SizesAssumption DEF TimerPeriod

LEMMA OneMore ==
  ASSUME NEW n \in Nat, NEW t \in Nat
  PROVE  /\ n * t \in Nat
         /\ (n + 1) * t = n * t + t
         /\ 0 * t = 0
OBVIOUS

\* onClientsUpdate always ends with an encoder for each compression asked for
\* and no other, although it compares numbers rather than sets.
LEMMA UpdateMatches ==
  ASSUME NEW infos \in SUBSET Compression, encoders \in SUBSET Compression,
         OnClientsUpdate(infos)
  PROVE  encoders' = infos
<1>1. IsFiniteSet(encoders)
  BY CompressionAssumption, FS_Subset
<1>2. CASE infos \ encoders = {} /\ Cardinality(infos \cap encoders) = Cardinality(encoders)
  <2>1. infos \cap encoders = encoders
    BY <1>1, <1>2, FS_Subset
  <2> QED BY <1>2, <2>1 DEF OnClientsUpdate
<1>3. CASE ~(infos \ encoders = {} /\ Cardinality(infos \cap encoders) = Cardinality(encoders))
  BY <1>3 DEF OnClientsUpdate
<1> QED BY <1>2, <1>3

-----------------------------------------------------------------------------
(* The steps, by what they have in common.                                  *)

\* An exception leaves nothing held and no timer set.
LEMMA ThrowIInv ==
  ASSUME IInv, status = "alive", running \in Ticking, Throw,
         UNCHANGED <<silent, owed, encoders, wanted>>
  PROVE  IInv'
<1>1. ControlOK' /\ EncodersOK'
  BY DEF IInv, ControlOK, EncodersOK, Throw, Ticking
<1>2. TimerOK' /\ BufferOK'
  BY DEF IInv, TimerOK, BufferOK, Throw, Ticking
<1>3. SilenceOK'
  BY DEF IInv, SilenceOK, Throw
<1> QED BY <1>1, <1>2, <1>3 DEF IInv

\* With the pipe goes all that the next one must not find.
LEMMA DestroyIInv ==
  ASSUME IInv, status = "alive", running \in {"loop", "error"}, running' = "loop",
         DestroyPipe, UNCHANGED <<status, held, wanted>>
  PROVE  IInv'
<1>1. ControlOK' /\ EncodersOK'
  BY DEF IInv, ControlOK, EncodersOK, DestroyPipe
<1>2. TimerOK' /\ BufferOK'
  BY DEF IInv, TimerOK, BufferOK, DestroyPipe, Ticking
<1>3. SilenceOK'
  BY Durations, OneMore DEF IInv, SilenceOK, DestroyPipe
<1> QED BY <1>1, <1>2, <1>3 DEF IInv

\* Steps that leave the control where it is.
LEMMA SameControlIInv ==
  ASSUME IInv, UNCHANGED <<running, pipe, capture, timer, held, silent, owed>>,
         status' \in {"alive", "failed", "crashed"},
         encoders' \in SUBSET Compression, wanted' \in SUBSET Compression,
         EncodersOK'
  PROVE  IInv'
BY DEF IInv, ControlOK, TimerOK, BufferOK, SilenceOK

\* A packet, or silence, has been processed.
LEMMA ResumeIInv ==
  ASSUME IInv, Runs("pipe"), ResumeCapture,
         UNCHANGED <<status, pipe, capture, timer, held, silent, owed, encoders, wanted>>
  PROVE  IInv'
<1>1. ControlOK' /\ EncodersOK'
  BY DEF IInv, ControlOK, EncodersOK, ResumeCapture, Ticking, Runs
<1>2. TimerOK' /\ BufferOK'
  BY DEF IInv, TimerOK, BufferOK, ResumeCapture, Ticking, Runs
<1>3. SilenceOK'
  BY DEF IInv, SilenceOK, ResumeCapture, Runs
<1> QED BY <1>1, <1>2, <1>3 DEF IInv

-----------------------------------------------------------------------------
LEMMA InitIInv == CaptureInit => IInv
<1> SUFFICES ASSUME CaptureInit PROVE IInv
  OBVIOUS
<1>1. ControlOK /\ TimerOK /\ BufferOK /\ EncodersOK
  BY DEF CaptureInit, ControlOK, TimerOK, BufferOK, EncodersOK, Ticking
<1>2. SilenceOK
  BY Durations, OneMore DEF CaptureInit, SilenceOK
<1> QED BY <1>1, <1>2 DEF IInv

LEMMA NextIInv == IInv /\ [CaptureNext]_vars => IInv'
<1> SUFFICES ASSUME IInv, [CaptureNext]_vars PROVE IInv'
  OBVIOUS
<1> USE DEF Runs, thread, device, clock, audio, clients, made
<1>1. CASE StartCapture
  <2>1. ControlOK' /\ EncodersOK'
    BY <1>1 DEF StartCapture, IInv, ControlOK, EncodersOK
  <2>2. TimerOK' /\ BufferOK'
    BY <1>1 DEF StartCapture, IInv, TimerOK, BufferOK, Ticking
  <2>3. SilenceOK'
    BY <1>1 DEF StartCapture, IInv, SilenceOK
  <2> QED BY <2>1, <2>2, <2>3 DEF IInv
<1>2. CASE StartFails
  <2>1. ControlOK' /\ EncodersOK'
    BY <1>2 DEF StartFails, IInv, ControlOK, EncodersOK
  <2>2. TimerOK' /\ BufferOK'
    BY <1>2 DEF StartFails, IInv, TimerOK, BufferOK, Ticking
  <2>3. SilenceOK'
    BY <1>2 DEF StartFails, IInv, SilenceOK
  <2> QED BY <2>1, <2>2, <2>3 DEF IInv
<1>3. CASE StopCapture
  BY <1>3, DestroyIInv DEF StopCapture
<1>4. CASE HandleError
  BY <1>4, DestroyIInv DEF HandleError
<1>5. CASE Expire
  <2>1. ControlOK' /\ EncodersOK'
    BY <1>5 DEF Expire, IInv, ControlOK, EncodersOK
  <2>2. TimerOK' /\ BufferOK'
    BY <1>5 DEF Expire, IInv, TimerOK, BufferOK, Ticking
  <2>3. SilenceOK'
    BY <1>5 DEF Expire, IInv, SilenceOK
  <2> QED BY <2>1, <2>2, <2>3 DEF IInv
<1>6. CASE HandleTimer
  <2>1. ControlOK' /\ EncodersOK'
    BY <1>6 DEF HandleTimer, IInv, ControlOK, EncodersOK, Ticking
  <2>2. TimerOK' /\ BufferOK'
    BY <1>6 DEF HandleTimer, IInv, TimerOK, BufferOK, Ticking
  <2>3. SilenceOK'
    BY <1>6 DEF HandleTimer, IInv, SilenceOK
  <2> QED BY <2>1, <2>2, <2>3 DEF IInv
<1>7. CASE HandleStale
  BY <1>7, SameControlIInv DEF HandleStale, IInv, ControlOK, EncodersOK
<1>8. CASE PollSilence
  <2>1. ControlOK' /\ EncodersOK'
    BY <1>8, Durations DEF PollSilence, Yield, IInv, ControlOK, EncodersOK, Ticking
  <2>2. TimerOK' /\ BufferOK'
    BY <1>8 DEF PollSilence, Yield, IInv, TimerOK, BufferOK, Ticking
  <2>3. SilenceOK'
    <3>1. silent = owed * TimerPeriod /\ ~held /\ held' = held
      BY <1>8 DEF PollSilence, IInv, SilenceOK, BufferOK
    <3>2. /\ owed * TimerPeriod \in Nat
          /\ (owed + 1) * TimerPeriod = owed * TimerPeriod + TimerPeriod
      BY Durations, OneMore DEF IInv, ControlOK
    <3>3. CASE silent + TimerPeriod >= BufferDuration
      BY <1>8, <3>1, <3>2, <3>3 DEF PollSilence, Yield, IInv, SilenceOK
    <3>4. CASE ~(silent + TimerPeriod >= BufferDuration)
      BY <1>8, <3>1, <3>2, <3>4, Durations DEF PollSilence, IInv, SilenceOK
    <3> QED BY <3>3, <3>4
  <2> QED BY <2>1, <2>2, <2>3 DEF IInv
<1>9. CASE PollPacket
  <2>1. ControlOK' /\ EncodersOK'
    BY <1>9 DEF PollPacket, IInv, ControlOK, EncodersOK, Ticking
  <2>2. TimerOK' /\ BufferOK'
    BY <1>9 DEF PollPacket, IInv, TimerOK, BufferOK, Ticking
  <2>3. SilenceOK'
    BY <1>9, Durations, OneMore DEF PollPacket, IInv, SilenceOK
  <2> QED BY <2>1, <2>2, <2>3 DEF IInv
<1>10. CASE DeviceFails
  BY <1>10, ThrowIInv DEF DeviceFails, Ticking
<1>11. ASSUME NEW size \in PacketSize, GetBuffer(size) PROVE IInv'
  <2>1. ControlOK' /\ EncodersOK'
    BY <1>11 DEF GetBuffer, Yield, IInv, ControlOK, EncodersOK, Ticking
  <2>2. TimerOK' /\ BufferOK'
    BY <1>11 DEF GetBuffer, Yield, IInv, TimerOK, BufferOK, Ticking
  <2>3. SilenceOK'
    BY <1>11 DEF GetBuffer, Yield, IInv, SilenceOK
  <2> QED BY <2>1, <2>2, <2>3 DEF IInv
<1>12. CASE ReleaseBuffer
  <2>1. ControlOK' /\ EncodersOK'
    BY <1>12 DEF ReleaseBuffer, IInv, ControlOK, EncodersOK, Ticking
  <2>2. TimerOK' /\ BufferOK'
    BY <1>12 DEF ReleaseBuffer, IInv, TimerOK, BufferOK, Ticking
  <2>3. SilenceOK'
    BY <1>12, Durations, OneMore DEF ReleaseBuffer, IInv, SilenceOK
  <2> QED BY <2>1, <2>2, <2>3 DEF IInv
<1>13. CASE ResumeAfterSilence
  <2>1. owed * TimerPeriod \in Nat /\ TimerPeriod \in Nat
    BY Durations, OneMore DEF IInv, ControlOK
  <2>2. silent = owed * TimerPeriod + TimerPeriod
    BY <1>13 DEF ResumeAfterSilence, IInv, SilenceOK
  <2>3. silent' = owed * TimerPeriod
    BY <1>13, <2>1, <2>2 DEF ResumeAfterSilence
  <2>4. ControlOK' /\ EncodersOK'
    BY <1>13, <2>1, <2>3 DEF ResumeAfterSilence, IInv, ControlOK, EncodersOK, Ticking
  <2>5. TimerOK' /\ BufferOK'
    BY <1>13 DEF ResumeAfterSilence, IInv, TimerOK, BufferOK, Ticking
  <2>6. SilenceOK'
    BY <1>13, <2>3 DEF ResumeAfterSilence, IInv, SilenceOK
  <2> QED BY <2>4, <2>5, <2>6 DEF IInv
<1>14. CASE AwaitTimer
  <2>1. ControlOK' /\ EncodersOK'
    BY <1>14 DEF AwaitTimer, IInv, ControlOK, EncodersOK
  <2>2. TimerOK' /\ BufferOK'
    BY <1>14 DEF AwaitTimer, IInv, TimerOK, BufferOK, Ticking
  <2>3. SilenceOK'
    BY <1>14 DEF AwaitTimer, IInv, SilenceOK
  <2> QED BY <2>1, <2>2, <2>3 DEF IInv
<1>15. CASE SkipAudio
  BY <1>15, ResumeIInv DEF SkipAudio
<1>16. CASE SendAudio
  BY <1>16, ResumeIInv DEF SendAudio
<1>17. CASE ResamplerFails
  BY <1>17, ThrowIInv DEF ResamplerFails, Ticking
<1>18. CASE EncodeFails
  BY <1>18, ThrowIInv DEF EncodeFails, Ticking
<1>19. ASSUME NEW infos \in SUBSET Compression, ClientsChange(infos) PROVE IInv'
  <2>1. encoders \in SUBSET Compression
    BY DEF IInv, ControlOK
  <2>2. pipe # "none" => encoders' = infos
    BY <1>19, <2>1, UpdateMatches DEF ClientsChange
  <2>3. encoders' \in SUBSET Compression /\ wanted' \in SUBSET Compression /\ EncodersOK'
    BY <1>19, <2>1, <2>2 DEF ClientsChange, EncodersOK
  <2> QED BY <1>19, <2>3, SameControlIInv DEF ClientsChange, IInv, ControlOK
<1>20. ASSUME NEW infos \in SUBSET Compression, EncoderFails(infos) PROVE IInv'
  BY <1>20, SameControlIInv DEF EncoderFails, IInv, ControlOK, EncodersOK
<1>21. CASE SetMuted
  BY <1>21, SameControlIInv DEF SetMuted, IInv, ControlOK, EncodersOK
<1>22. CASE RemoveAll
  <2>1. status' \in {"alive", "failed", "crashed"}
    BY <1>22 DEF RemoveAll
  <2> QED BY <1>22, <2>1, SameControlIInv DEF RemoveAll, EncodersOK
<1>23. CASE Record
  BY <1>23, SameControlIInv DEF Record, IInv, ControlOK, EncodersOK
<1>24. CASE TimerFails
  BY <1>24, SameControlIInv DEF TimerFails, IInv, ControlOK, EncodersOK
<1>25. CASE UNCHANGED vars
  BY <1>25, SameControlIInv DEF vars, IInv, ControlOK, EncodersOK
<1> QED
  BY <1>1, <1>2, <1>3, <1>4, <1>5, <1>6, <1>7, <1>8, <1>9, <1>10, <1>11, <1>12,
     <1>13, <1>14, <1>15, <1>16, <1>17, <1>18, <1>19, <1>20, <1>21, <1>22,
     <1>23, <1>24, <1>25
  DEF CaptureNext, Ended

LEMMA Invariance == CaptureSpec => []IInv
BY InitIInv, NextIInv, PTL DEF CaptureSpec

-----------------------------------------------------------------------------
\* However the ticks before it ended, capturing waits for exactly one timer,
\* or there is no pipe and nothing left of it.
THEOREM CaptureGoesOn == CaptureSpec => []WaitsForOneTimer
<1>1. IInv => WaitsForOneTimer
  BY DEF IInv, TimerOK, WaitsForOneTimer, Runs
<1> QED BY Invariance, <1>1, PTL

\* No exception and no stop leaves the device without one of its buffers.
THEOREM BuffersReturn == CaptureSpec => []BufferGivenBack
<1>1. IInv => BufferGivenBack
  BY DEF IInv, BufferOK, BufferGivenBack
<1> QED BY Invariance, <1>1, PTL

\* For any duration of the device's buffer, although the period is half of it
\* rounded down, less than a buffer of silence is owed.
THEOREM SilenceIsMadeUpFor == CaptureSpec => []SilenceKeepsUp
<1>1. IInv => SilenceKeepsUp
  BY DEF IInv, SilenceOK, SilenceKeepsUp
<1> QED BY Invariance, <1>1, PTL

\* The encoders are those of the clients there are, whatever updates and
\* restarts there were.
THEOREM EncodersFollow == CaptureSpec => []EncodersMatchClients
<1>1. IInv => EncodersMatchClients
  BY DEF IInv, EncodersOK, EncodersMatchClients, Runs
<1> QED BY Invariance, <1>1, PTL

-----------------------------------------------------------------------------
(***************************************************************************)
(* The audio on its way through the capture, for any sizes of frames and   *)
(* packets, any amount the resampler holds back and any number of values   *)
(* of the sequence number: its order, the frames, their numbers.           *)
(*                                                                         *)
(* The argument: all that waits is one sequence, Waiting.  A step of the   *)
(* transform moves the border between its parts, sending cuts its start    *)
(* off, new audio goes to its end.  AInv adds to the three properties whose*)
(* pipe's audio it is and what the current number is; it is inductive      *)
(* relative to IInv above.                                                 *)
(***************************************************************************)

\* The audio of pipe p, and the frames it is cut into.
UnitOf(p) == [pipe : {p}, index : Nat]
FrameOf(p) ==
  [pipe : {p}, to : SUBSET Compression, number : Nat,
   audio : {s \in Seq(UnitOf(p)) : Len(s) = FrameSize}]
Frames == Seq(UNION {FrameOf(p) : p \in Nat})

-----------------------------------------------------------------------------
(* Positions and numbers.                                                   *)

LEMMA ModIsSmall ==
  ASSUME NEW a \in Nat, NEW m \in Nat \ {0}
  PROVE  a % m \in 0..m - 1
OBVIOUS

LEMMA Remainder ==
  ASSUME NEW m \in Nat \ {0}, NEW q \in Nat, NEW r \in Nat, r < m
  PROVE  (m * q + r) % m = r
OBVIOUS

LEMMA ModSuccessor ==
  ASSUME NEW a \in Nat, NEW m \in Nat \ {0}
  PROVE  (a + 1) % m = ((a % m) + 1) % m
<1> DEFINE q == a \div m
           r == a % m
<1>1. q \in Nat /\ r \in Nat /\ r < m /\ a = m * q + r
  OBVIOUS
<1>2. CASE r + 1 < m
  <2>1. a + 1 = m * q + (r + 1)
    BY <1>1
  <2>2. (m * q + (r + 1)) % m = r + 1
    <3>1. r + 1 \in Nat
      BY <1>1
    <3> HIDE DEF q, r
    <3> QED BY <1>1, <1>2, <3>1, Remainder
  <2>3. (a + 1) % m = r + 1
    BY <2>1, <2>2
  <2>4. (r + 1) % m = r + 1
    BY <1>1, <1>2
  <2> QED BY <2>3, <2>4
<1>3. CASE r + 1 = m
  <2>1. a + 1 = m * (q + 1) + 0
    BY <1>1, <1>3
  <2>2. (m * (q + 1) + 0) % m = 0
    BY <1>1
  <2>3. m % m = 0
    OBVIOUS
  <2> QED BY <1>1, <1>3, <2>1, <2>2, <2>3
<1> QED BY <1>1, <1>2, <1>3

\* The frames tile what they are cut from.
LEMMA Tiles ==
  ASSUME NEW f \in Nat \ {0}, NEW n \in Nat
  PROVE  /\ n * f \in Nat
         /\ \A k \in 1..n, i \in 1..f : (k - 1) * f + i \in 1..n * f
         /\ \A k, l \in 1..n, i, j \in 1..f :
              k < l => (k - 1) * f + i < (l - 1) * f + j
         /\ \A p \in 1..n * f : \E k \in 1..n, i \in 1..f : p = (k - 1) * f + i
<1>1. n * f \in Nat
  OBVIOUS
<1>2. ASSUME NEW k \in 1..n, NEW i \in 1..f
      PROVE  (k - 1) * f + i \in 1..n * f
  <2>1. (k - 1) * f \in Nat /\ (k - 1) * f + f = k * f
    OBVIOUS
  <2>2. k * f <= n * f
    OBVIOUS
  <2> QED BY <1>1, <2>1, <2>2
<1>3. ASSUME NEW k \in 1..n, NEW l \in 1..n, NEW i \in 1..f, NEW j \in 1..f, k < l
      PROVE  (k - 1) * f + i < (l - 1) * f + j
  <2>1. (k - 1) * f + f = k * f /\ (k - 1) * f \in Nat
    OBVIOUS
  <2>2. k * f <= (l - 1) * f /\ (l - 1) * f \in Nat
    BY <1>3
  <2> QED BY <2>1, <2>2
<1>4. ASSUME NEW p \in 1..n * f
      PROVE  \E k \in 1..n, i \in 1..f : p = (k - 1) * f + i
  <2> DEFINE q == (p - 1) \div f
             r == (p - 1) % f
  <2>1. q \in Nat /\ r \in 0..f - 1 /\ p - 1 = q * f + r
    BY <1>1
  <2>2. q < n
    <3>1. SUFFICES ASSUME q >= n PROVE FALSE
      BY <2>1
    <3>2. q * f >= n * f
      BY <2>1, <3>1
    <3> QED BY <1>1, <2>1, <3>2
  <2>3. q + 1 \in 1..n /\ r + 1 \in 1..f /\ p = ((q + 1) - 1) * f + (r + 1)
    BY <2>1, <2>2
  <2> QED BY <2>3
<1> QED BY <1>1, <1>2, <1>3, <1>4

-----------------------------------------------------------------------------
(* Sequences of audio.                                                      *)

LEMMA UnitsHaveIndexes ==
  ASSUME NEW p, NEW s \in Seq(UnitOf(p))
  PROVE  \A i \in 1..Len(s) : s[i].index \in Nat /\ s[i].pipe = p
<1>1. \A i \in 1..Len(s) : s[i] \in UnitOf(p)
  BY ElementOfSeq
<1>2. \A u \in UnitOf(p) : u.index \in Nat /\ u.pipe = p
  BY DEF UnitOf
<1> QED BY <1>1, <1>2

\* Where the border between two parts lies is no matter.
Regroups(s, t, u) == (s \o t) \o u = s \o (t \o u)

LEMMA Regrouping ==
  ASSUME NEW S
  PROVE  \A s, t, u \in Seq(S) : Regroups(s, t, u)
BY ConcatAssociative DEF Regroups

LEMMA SplitAudio ==
  ASSUME NEW p, NEW s \in Seq(UnitOf(p)), NEW t \in Seq(UnitOf(p))
  PROVE  /\ Indexes(s \o t) = Indexes(s) \cup Indexes(t)
         /\ Increasing(s \o t) <=> Increasing(s) /\ Increasing(t) /\ Precedes(s, t)
         /\ \A u : Precedes(u, s \o t) <=> Precedes(u, s) /\ Precedes(u, t)
<1>1. /\ Len(s) \in Nat /\ Len(t) \in Nat
      /\ Len(s \o t) = Len(s) + Len(t)
      /\ \A i \in 1..Len(s) : (s \o t)[i] = s[i] /\ i \in 1..Len(s \o t)
      /\ \A i \in 1..Len(t) : (s \o t)[Len(s) + i] = t[i] /\ Len(s) + i \in 1..Len(s \o t)
  OBVIOUS
<1>2. \A i \in 1..Len(s \o t) : i \in 1..Len(s) \/ i - Len(s) \in 1..Len(t)
  BY <1>1
<1>3. Indexes(s \o t) = Indexes(s) \cup Indexes(t)
  <2>1. ASSUME NEW x \in Indexes(s \o t) PROVE x \in Indexes(s) \cup Indexes(t)
    <3>1. PICK i \in 1..Len(s \o t) : x = (s \o t)[i].index
      BY <2>1 DEF Indexes
    <3>2. CASE i \in 1..Len(s)
      BY <1>1, <3>1, <3>2 DEF Indexes
    <3>3. CASE i - Len(s) \in 1..Len(t)
      <4>1. i = Len(s) + (i - Len(s))
        BY <1>1
      <4> QED BY <1>1, <3>1, <3>3, <4>1 DEF Indexes
    <3> QED BY <1>2, <3>2, <3>3
  <2>2. ASSUME NEW x \in Indexes(s) \cup Indexes(t) PROVE x \in Indexes(s \o t)
    <3>1. CASE x \in Indexes(s)
      BY <1>1, <3>1 DEF Indexes
    <3>2. CASE x \in Indexes(t)
      BY <1>1, <3>2 DEF Indexes
    <3> QED BY <2>2, <3>1, <3>2
  <2> QED BY <2>1, <2>2
<1>4. Increasing(s \o t) => Increasing(s) /\ Increasing(t) /\ Precedes(s, t)
  <2> SUFFICES ASSUME Increasing(s \o t)
               PROVE  Increasing(s) /\ Increasing(t) /\ Precedes(s, t)
    OBVIOUS
  <2>1. Increasing(s)
    BY <1>1 DEF Increasing
  <2>2. ASSUME NEW i \in 1..Len(t), NEW j \in 1..Len(t), i < j
        PROVE  t[i].index < t[j].index
    <3>1. Len(s) + i < Len(s) + j
      BY <1>1, <2>2
    <3> QED BY <1>1, <3>1 DEF Increasing
  <2>3. ASSUME NEW i \in 1..Len(s), NEW j \in 1..Len(t)
        PROVE  s[i].index < t[j].index
    <3>1. i < Len(s) + j
      BY <1>1
    <3> QED BY <1>1, <3>1 DEF Increasing
  <2> QED BY <2>1, <2>2, <2>3 DEF Increasing, Precedes
<1>5. Increasing(s) /\ Increasing(t) /\ Precedes(s, t) => Increasing(s \o t)
  <2> SUFFICES ASSUME Increasing(s), Increasing(t), Precedes(s, t),
                      NEW i \in 1..Len(s \o t), NEW j \in 1..Len(s \o t), i < j
               PROVE  (s \o t)[i].index < (s \o t)[j].index
    BY DEF Increasing
  <2>1. CASE i \in 1..Len(s) /\ j \in 1..Len(s)
    BY <1>1, <2>1 DEF Increasing
  <2>2. CASE i \in 1..Len(s) /\ j - Len(s) \in 1..Len(t)
    <3>1. j = Len(s) + (j - Len(s))
      BY <1>1
    <3>2. (s \o t)[j] = t[j - Len(s)]
      BY <1>1, <2>2, <3>1
    <3> QED BY <1>1, <2>2, <3>2 DEF Precedes
  <2>3. CASE i - Len(s) \in 1..Len(t) /\ j - Len(s) \in 1..Len(t)
    <3>1. i = Len(s) + (i - Len(s)) /\ j = Len(s) + (j - Len(s)) /\ i - Len(s) < j - Len(s)
      BY <1>1
    <3>2. (s \o t)[i] = t[i - Len(s)] /\ (s \o t)[j] = t[j - Len(s)]
      BY <1>1, <2>3, <3>1
    <3> QED BY <2>3, <3>1, <3>2 DEF Increasing
  <2>4. ~(i - Len(s) \in 1..Len(t) /\ j \in 1..Len(s))
    BY <1>1
  <2> QED BY <1>2, <2>1, <2>2, <2>3, <2>4
<1>6. ASSUME NEW u
      PROVE  Precedes(u, s \o t) <=> Precedes(u, s) /\ Precedes(u, t)
  <2>1. Precedes(u, s \o t) => Precedes(u, s) /\ Precedes(u, t)
    BY <1>1 DEF Precedes
  <2>2. ASSUME Precedes(u, s), Precedes(u, t), NEW i \in 1..Len(u), NEW j \in 1..Len(s \o t)
        PROVE  u[i].index < (s \o t)[j].index
    <3>1. CASE j \in 1..Len(s)
      BY <1>1, <2>2, <3>1 DEF Precedes
    <3>2. CASE j - Len(s) \in 1..Len(t)
      <4>1. j = Len(s) + (j - Len(s))
        BY <1>1
      <4>2. (s \o t)[j] = t[j - Len(s)]
        BY <1>1, <3>2, <4>1
      <4> QED BY <2>2, <3>2, <4>2 DEF Precedes
    <3> QED BY <1>2, <3>1, <3>2
  <2> QED BY <2>1, <2>2 DEF Precedes
<1> QED BY <1>3, <1>4, <1>5, <1>6

LEMMA SplitAt ==
  ASSUME NEW S, NEW s \in Seq(S), NEW n \in 0..Len(s)
  PROVE  /\ SubSeq(s, 1, n) \in Seq(S) /\ SubSeq(s, n + 1, Len(s)) \in Seq(S)
         /\ Len(SubSeq(s, 1, n)) = n
         /\ \A i \in 1..n : SubSeq(s, 1, n)[i] = s[i]
         /\ s = SubSeq(s, 1, n) \o SubSeq(s, n + 1, Len(s))
<1> DEFINE c == SubSeq(s, 1, n)
           d == SubSeq(s, n + 1, Len(s))
<1>1. \A i \in 1..Len(s) : s[i] \in S
  OBVIOUS
<1>2. /\ c \in Seq(S) /\ Len(c) = n
      /\ \A i \in 1..n : c[i] = s[i]
  BY <1>1, SubSeqProperties
<1>3. /\ d \in Seq(S) /\ Len(d) = Len(s) - n
      /\ \A i \in 1..Len(s) - n : d[i] = s[n + i]
  BY <1>1, SubSeqProperties
<1>4. /\ Len(c \o d) = Len(s) /\ c \o d \in Seq(S)
      /\ \A i \in 1..Len(c) + Len(d) :
           (c \o d)[i] = IF i <= Len(c) THEN c[i] ELSE d[i - Len(c)]
  <2> HIDE DEF c, d
  <2> QED BY <1>2, <1>3, ConcatProperties
<1>5. ASSUME NEW i \in 1..Len(s) PROVE (c \o d)[i] = s[i]
  <2> HIDE DEF c, d
  <2>1. CASE i <= n
    BY <1>2, <1>3, <1>4, <2>1
  <2>2. CASE i > n
    <3>1. i - n \in 1..Len(s) - n /\ n + (i - n) = i
      BY <2>2
    <3> QED BY <1>2, <1>3, <1>4, <2>2, <3>1
  <2>3. i <= n \/ i > n
    OBVIOUS
  <2> QED BY <2>1, <2>2, <2>3
<1>6. c \o d = s
  <2> HIDE DEF c, d
  <2> QED BY <1>4, <1>5, SeqEqual
<1> QED BY <1>2, <1>3, <1>6

-----------------------------------------------------------------------------
(* Frames.                                                                  *)

LEMMA Sizes == FrameSize \in Nat \ {0} /\ SequenceModulus \in Nat \ {0} /\ PacketSize \subseteq Nat
BY SizesAssumption

\* The n frames fs hold c, piece by piece, and are numbered on.
CutFrom(c, fs, n) ==
  /\ Len(c) = n * FrameSize /\ c \in Seq(UnitOf(pipes))
  /\ Len(fs) = n /\ fs \in Seq(FrameOf(pipes))
  /\ \A k \in 1..n : /\ fs[k].pipe = pipes
                     /\ fs[k].number = (sequence + k - 1) % SequenceModulus
                     /\ Len(fs[k].audio) = FrameSize
  /\ \A k \in 1..n, i \in 1..FrameSize :
       /\ (k - 1) * FrameSize + i \in 1..Len(c)
       /\ fs[k].audio[i] = c[(k - 1) * FrameSize + i]

LEMMA Pieces ==
  ASSUME pipes \in Nat, sequence \in Nat,
         NEW b \in Seq(UnitOf(pipes)), NEW n \in Nat, n * FrameSize <= Len(b),
         NEW to \in Seq(SUBSET Compression), Len(to) = n
  PROVE  CutFrom(SubSeq(b, 1, n * FrameSize), FramesOf(b, to), n)
<1> DEFINE c == SubSeq(b, 1, n * FrameSize)
           fs == FramesOf(b, to)
<1> DEFINE F == FrameSize
           audioOf(k) == SubSeq(b, (k - 1) * F + 1, k * F)
           f(k) == [pipe |-> pipes, to |-> to[k],
                    number |-> (sequence + k - 1) % SequenceModulus,
                    audio |-> audioOf(k)]
<1>1. /\ F \in Nat \ {0} /\ n * F \in Nat /\ n * F \in 0..Len(b)
      /\ \A k \in 1..n, i \in 1..F : (k - 1) * F + i \in 1..n * F
  <2>1. Len(b) \in Nat
    OBVIOUS
  <2> QED BY <2>1, Sizes, Tiles
<1>2. /\ Len(c) = n * F /\ c \in Seq(UnitOf(pipes))
      /\ \A i \in 1..n * F : c[i] = b[i]
  BY <1>1, SplitAt
<1>3. ASSUME NEW k \in 1..n
      PROVE  /\ audioOf(k) \in Seq(UnitOf(pipes)) /\ Len(audioOf(k)) = F
             /\ \A i \in 1..F : audioOf(k)[i] = b[(k - 1) * F + i]
  <2>1. (k - 1) * F \in Nat /\ k * F \in Nat /\ k * F = (k - 1) * F + F
    BY <1>1
  <2>2. \A j \in (k - 1) * F + 1..k * F : j \in 1..Len(b)
    <3>1. (k - 1) * F + F \in 1..n * F
      BY <1>1
    <3> QED BY <1>1, <2>1, <3>1
  <2>3. \A j \in (k - 1) * F + 1..k * F : b[j] \in UnitOf(pipes)
    BY <2>2, ElementOfSeq
  <2>4. /\ audioOf(k) \in Seq(UnitOf(pipes))
        /\ Len(audioOf(k)) = IF (k - 1) * F + 1 <= k * F
                             THEN k * F - ((k - 1) * F + 1) + 1 ELSE 0
        /\ \A i \in 1..k * F - ((k - 1) * F + 1) + 1 :
             audioOf(k)[i] = b[(k - 1) * F + 1 + i - 1]
    <3>1. (k - 1) * F + 1 \in Int /\ k * F \in Int
      BY <2>1
    <3> QED BY <2>3, <3>1, SubSeqProperties, SMTT(30)
  <2>5. k * F - ((k - 1) * F + 1) + 1 = F /\ (k - 1) * F + 1 <= k * F
    BY <1>1, <2>1
  <2>6. \A i \in 1..F : (k - 1) * F + 1 + i - 1 = (k - 1) * F + i
    BY <1>1, <2>1
  <2> HIDE DEF F, audioOf
  <2> QED BY <2>4, <2>5, <2>6
<1>4. \A k \in 1..n : f(k) \in FrameOf(pipes)
  <2> SUFFICES ASSUME NEW k \in 1..n PROVE f(k) \in FrameOf(pipes)
    OBVIOUS
  <2>1. sequence + k - 1 \in Nat
    OBVIOUS
  <2>2. (sequence + k - 1) % SequenceModulus \in Nat
    BY <2>1, Sizes, ModIsSmall
  <2>3. to[k] \in SUBSET Compression
    BY ElementOfSeq
  <2> HIDE DEF audioOf
  <2> QED BY <1>3, <2>2, <2>3 DEF FrameOf
<1>5. fs = [k \in 1..n |-> f(k)]
  BY DEF FramesOf
<1>6. fs \in Seq(FrameOf(pipes)) /\ Len(fs) = n /\ \A k \in 1..n : fs[k] = f(k)
  <2> HIDE DEF f
  <2> QED BY <1>4, <1>5
<1>7. \A k \in 1..n : /\ fs[k].pipe = pipes
                      /\ fs[k].number = (sequence + k - 1) % SequenceModulus
                      /\ fs[k].audio = audioOf(k)
  <2> HIDE DEF audioOf
  <2> QED BY <1>6
<1>8. \A k \in 1..n, i \in 1..F :
        /\ (k - 1) * F + i \in 1..Len(c)
        /\ audioOf(k)[i] = c[(k - 1) * F + i]
  <2> HIDE DEF audioOf, F
  <2> QED BY <1>1, <1>2, <1>3
<1> HIDE DEF audioOf, f, c, fs
<1>9. CutFrom(c, fs, n)
  <2>1. Len(c) = n * FrameSize /\ c \in Seq(UnitOf(pipes))
    BY <1>2
  <2>2. \A k \in 1..n : /\ fs[k].pipe = pipes
                        /\ fs[k].number = (sequence + k - 1) % SequenceModulus
                        /\ Len(fs[k].audio) = FrameSize
    BY <1>3, <1>7
  <2>3. \A k \in 1..n, i \in 1..FrameSize :
          /\ (k - 1) * FrameSize + i \in 1..Len(c)
          /\ fs[k].audio[i] = c[(k - 1) * FrameSize + i]
    BY <1>7, <1>8
  <2> QED BY <1>6, <2>1, <2>2, <2>3, Zenon DEF CutFrom
<1> QED BY <1>9 DEF c, fs

LEMMA PiecesInOrder ==
  ASSUME NEW n \in Nat, NEW c, NEW fs, CutFrom(c, fs, n)
  PROVE  /\ IndexesIn(fs) \cup Unsent(fs) = Indexes(c)
         /\ Increasing(c) => InOrder(fs)
         /\ \A u : Precedes(u, c) => \A k \in 1..n : Precedes(u, fs[k].audio)
         /\ \A w : Precedes(c, w) => \A k \in 1..n : Precedes(fs[k].audio, w)
<1>1. /\ Len(fs) = n /\ Len(c) = n * FrameSize
      /\ \A k \in 1..n : Len(fs[k].audio) = FrameSize
      /\ \A k \in 1..n, i \in 1..FrameSize :
           /\ (k - 1) * FrameSize + i \in 1..Len(c)
           /\ fs[k].audio[i] = c[(k - 1) * FrameSize + i]
  BY DEF CutFrom
<1>4. /\ \A k, l \in 1..n, i, j \in 1..FrameSize :
           k < l => (k - 1) * FrameSize + i < (l - 1) * FrameSize + j
      /\ \A p \in 1..n * FrameSize :
           \E k \in 1..n, i \in 1..FrameSize : p = (k - 1) * FrameSize + i
  BY Sizes, Tiles
<1>5. \A k \in 1..n, i, j \in 1..FrameSize :
        i < j => (k - 1) * FrameSize + i < (k - 1) * FrameSize + j
  BY Sizes
<1>6. IndexesIn(fs) \cup Unsent(fs) = Indexes(c)
  <2>1. ASSUME NEW x \in IndexesIn(fs) \cup Unsent(fs) PROVE x \in Indexes(c)
    <3>1. PICK k \in 1..n : x \in Indexes(fs[k].audio)
      BY <1>1, <2>1 DEF IndexesIn, Unsent
    <3>2. PICK i \in 1..FrameSize : x = fs[k].audio[i].index
      BY <1>1, <3>1 DEF Indexes
    <3> QED BY <1>1, <3>2 DEF Indexes
  <2>2. ASSUME NEW x \in Indexes(c) PROVE x \in IndexesIn(fs) \cup Unsent(fs)
    <3>1. PICK p \in 1..n * FrameSize : x = c[p].index
      BY <1>1 DEF Indexes
    <3>2. PICK k \in 1..n, i \in 1..FrameSize : p = (k - 1) * FrameSize + i
      BY <1>4
    <3>3. x = fs[k].audio[i].index
      BY <1>1, <3>1, <3>2
    <3>4. x \in Indexes(fs[k].audio)
      BY <1>1, <3>3 DEF Indexes
    <3> QED BY <1>1, <3>4 DEF IndexesIn, Unsent
  <2> QED BY <2>1, <2>2
<1>7. ASSUME Increasing(c) PROVE InOrder(fs)
  <2>1. ASSUME NEW k \in 1..n, NEW i \in 1..FrameSize, NEW j \in 1..FrameSize, i < j
        PROVE  fs[k].audio[i].index < fs[k].audio[j].index
    <3>1. (k - 1) * FrameSize + i < (k - 1) * FrameSize + j
      BY <1>5, <2>1
    <3>2. c[(k - 1) * FrameSize + i].index < c[(k - 1) * FrameSize + j].index
      BY <1>1, <1>7, <3>1 DEF Increasing
    <3> QED BY <1>1, <3>2
  <2>2. ASSUME NEW k \in 1..n, NEW l \in 1..n, k < l,
               NEW i \in 1..FrameSize, NEW j \in 1..FrameSize
        PROVE  fs[k].audio[i].index < fs[l].audio[j].index
    <3>1. (k - 1) * FrameSize + i < (l - 1) * FrameSize + j
      BY <1>4, <2>2
    <3>2. c[(k - 1) * FrameSize + i].index < c[(l - 1) * FrameSize + j].index
      BY <1>1, <1>7, <3>1 DEF Increasing
    <3> QED BY <1>1, <3>2
  <2>3. \A k \in 1..n : Increasing(fs[k].audio)
    BY <1>1, <2>1 DEF Increasing
  <2>4. \A k, l \in 1..n : k < l => Precedes(fs[k].audio, fs[l].audio)
    BY <1>1, <2>2 DEF Precedes
  <2> QED BY <1>1, <2>3, <2>4 DEF InOrder
<1>8. ASSUME NEW u, Precedes(u, c), NEW k \in 1..n PROVE Precedes(u, fs[k].audio)
  BY <1>1, <1>8 DEF Precedes
<1>9. ASSUME NEW w, Precedes(c, w), NEW k \in 1..n PROVE Precedes(fs[k].audio, w)
  <2>1. ASSUME NEW i \in 1..FrameSize, NEW j \in 1..Len(w)
        PROVE  fs[k].audio[i].index < w[j].index
    <3>1. /\ (k - 1) * FrameSize + i \in 1..Len(c)
          /\ fs[k].audio[i] = c[(k - 1) * FrameSize + i]
      BY <1>1
    <3>2. \A p \in 1..Len(c) : c[p].index < w[j].index
      BY <1>9 DEF Precedes
    <3>3. c[(k - 1) * FrameSize + i].index < w[j].index
      BY <3>1, <3>2
    <3> QED BY <3>1, <3>3
  <2> QED BY <1>1, <2>1 DEF Precedes
<1> QED BY <1>6, <1>7, <1>8, <1>9

\* Frames that follow others.
LEMMA FollowedBy ==
  ASSUME NEW S, NEW fs \in Seq(S), NEW gs \in Seq(S)
  PROVE  /\ fs \o gs \in Seq(S) /\ Len(fs \o gs) = Len(fs) + Len(gs)
         /\ Len(fs) \in Nat /\ Len(gs) \in Nat
         /\ \A k \in 1..Len(fs) : (fs \o gs)[k] = fs[k]
         /\ \A k \in 1..Len(gs) : (fs \o gs)[Len(fs) + k] = gs[k]
         /\ \A k \in 1..Len(fs \o gs) :
              \/ k \in 1..Len(fs)
              \/ \E l \in 1..Len(gs) : k = Len(fs) + l
<1>1. /\ fs \o gs \in Seq(S) /\ Len(fs \o gs) = Len(fs) + Len(gs)
      /\ \A k \in 1..Len(fs) + Len(gs) :
           (fs \o gs)[k] = IF k <= Len(fs) THEN fs[k] ELSE gs[k - Len(fs)]
  BY ConcatProperties
<1>2. Len(fs) \in Nat /\ Len(gs) \in Nat
  OBVIOUS
<1>3. \A k \in 1..Len(fs) : (fs \o gs)[k] = fs[k]
  BY <1>1, <1>2
<1>4. ASSUME NEW k \in 1..Len(gs) PROVE (fs \o gs)[Len(fs) + k] = gs[k]
  <2>1. /\ Len(fs) + k \in 1..Len(fs) + Len(gs) /\ ~(Len(fs) + k <= Len(fs))
        /\ Len(fs) + k - Len(fs) = k
    BY <1>2
  <2> QED BY <1>1, <2>1
<1>5. ASSUME NEW k \in 1..Len(fs \o gs), k \notin 1..Len(fs)
      PROVE  \E l \in 1..Len(gs) : k = Len(fs) + l
  <2>1. k - Len(fs) \in 1..Len(gs) /\ k = Len(fs) + (k - Len(fs))
    BY <1>1, <1>2, <1>5
  <2> QED BY <2>1
<1> QED BY <1>1, <1>2, <1>3, <1>4, <1>5

LEMMA AppendInOrder ==
  ASSUME NEW S, NEW fs \in Seq(S), NEW gs \in Seq(S)
  PROVE  /\ IndexesIn(fs \o gs) = IndexesIn(fs) \cup IndexesIn(gs)
         /\ Unsent(fs \o gs) = Unsent(fs) \cup Unsent(gs)
         /\ InOrder(fs) /\ InOrder(gs)
            /\ (\A k \in 1..Len(fs), l \in 1..Len(gs) : Precedes(fs[k].audio, gs[l].audio))
            => InOrder(fs \o gs)
<1> DEFINE both == fs \o gs
<1>1. /\ Len(both) = Len(fs) + Len(gs) /\ Len(fs) \in Nat /\ Len(gs) \in Nat
      /\ \A k \in 1..Len(fs) : both[k] = fs[k]
      /\ \A k \in 1..Len(gs) : both[Len(fs) + k] = gs[k]
      /\ \A k \in 1..Len(both) :
           \/ k \in 1..Len(fs)
           \/ \E l \in 1..Len(gs) : k = Len(fs) + l
  BY FollowedBy
<1> HIDE DEF both
<1>2. \A k \in 1..Len(fs) : k \in 1..Len(both)
  BY <1>1
<1>3. \A k \in 1..Len(gs) : Len(fs) + k \in 1..Len(both)
  BY <1>1
<1>4. IndexesIn(both) = IndexesIn(fs) \cup IndexesIn(gs)
  <2>1. ASSUME NEW x \in IndexesIn(both) PROVE x \in IndexesIn(fs) \cup IndexesIn(gs)
    <3>1. PICK k \in 1..Len(both) : both[k].to # {} /\ x \in Indexes(both[k].audio)
      BY DEF IndexesIn
    <3>2. CASE k \in 1..Len(fs)
      BY <1>1, <3>1, <3>2 DEF IndexesIn
    <3>3. CASE \E l \in 1..Len(gs) : k = Len(fs) + l
      BY <1>1, <3>1, <3>3 DEF IndexesIn
    <3> QED BY <1>1, <3>2, <3>3
  <2>2. ASSUME NEW x \in IndexesIn(fs) PROVE x \in IndexesIn(both)
    BY <1>1, <1>2 DEF IndexesIn
  <2>3. ASSUME NEW x \in IndexesIn(gs) PROVE x \in IndexesIn(both)
    BY <1>1, <1>3 DEF IndexesIn
  <2> QED BY <2>1, <2>2, <2>3
<1>5. Unsent(both) = Unsent(fs) \cup Unsent(gs)
  <2>1. ASSUME NEW x \in Unsent(both) PROVE x \in Unsent(fs) \cup Unsent(gs)
    <3>1. PICK k \in 1..Len(both) : both[k].to = {} /\ x \in Indexes(both[k].audio)
      BY DEF Unsent
    <3>2. CASE k \in 1..Len(fs)
      BY <1>1, <3>1, <3>2 DEF Unsent
    <3>3. CASE \E l \in 1..Len(gs) : k = Len(fs) + l
      BY <1>1, <3>1, <3>3 DEF Unsent
    <3> QED BY <1>1, <3>2, <3>3
  <2>2. ASSUME NEW x \in Unsent(fs) PROVE x \in Unsent(both)
    BY <1>1, <1>2 DEF Unsent
  <2>3. ASSUME NEW x \in Unsent(gs) PROVE x \in Unsent(both)
    BY <1>1, <1>3 DEF Unsent
  <2> QED BY <2>1, <2>2, <2>3
<1>6. ASSUME InOrder(fs), InOrder(gs),
             \A k \in 1..Len(fs), l \in 1..Len(gs) : Precedes(fs[k].audio, gs[l].audio)
      PROVE  InOrder(both)
  <2>1. ASSUME NEW k \in 1..Len(both) PROVE Increasing(both[k].audio)
    <3>1. CASE k \in 1..Len(fs)
      BY <1>1, <1>6, <3>1 DEF InOrder
    <3>2. CASE \E l \in 1..Len(gs) : k = Len(fs) + l
      BY <1>1, <1>6, <3>2 DEF InOrder
    <3> QED BY <1>1, <3>1, <3>2
  <2>2. ASSUME NEW k \in 1..Len(both), NEW l \in 1..Len(both), k < l
        PROVE  Precedes(both[k].audio, both[l].audio)
    <3>1. CASE k \in 1..Len(fs) /\ l \in 1..Len(fs)
      BY <1>1, <1>6, <2>2, <3>1 DEF InOrder
    <3>2. CASE k \in 1..Len(fs) /\ \E j \in 1..Len(gs) : l = Len(fs) + j
      BY <1>1, <1>6, <3>2
    <3>3. CASE \E i, j \in 1..Len(gs) : k = Len(fs) + i /\ l = Len(fs) + j
      <4>1. PICK i, j \in 1..Len(gs) : k = Len(fs) + i /\ l = Len(fs) + j
        BY <3>3
      <4>2. i < j
        BY <1>1, <2>2, <4>1
      <4>3. Precedes(gs[i].audio, gs[j].audio)
        BY <1>6, <4>2 DEF InOrder
      <4> QED BY <1>1, <4>1, <4>3
    <3>4. CASE (\E i \in 1..Len(gs) : k = Len(fs) + i) /\ l \in 1..Len(fs)
      BY <1>1, <2>2, <3>4
    <3> QED BY <1>1, <3>1, <3>2, <3>3, <3>4
  <2> QED BY <2>1, <2>2 DEF InOrder
<1>7. both = fs \o gs
  BY DEF both
<1> QED BY <1>4, <1>5, <1>6, <1>7

-----------------------------------------------------------------------------
(* The inductive invariant.                                                 *)

\* What there is of audio belongs to the pipe there is.
AudioOK ==
  /\ pipes \in Nat /\ captured \in Nat /\ depth \in Nat
  /\ sequence \in 0..SequenceModulus - 1
  /\ buffer \in Seq(UnitOf(pipes)) /\ inside \in Seq(UnitOf(pipes))
  /\ pcm \in Seq(UnitOf(pipes))
  /\ running # "pipe" => pcm = <<>>
  /\ running = "pipe" => depth > 0
  /\ pipe = "none" => buffer = <<>> /\ inside = <<>>
  /\ frames \in Frames
  /\ \A k \in 1..Len(frames) : frames[k].pipe <= pipes
  /\ Unsent(frames) \subseteq dropped

\* The current number is that after the last frame, or the last frame's own
\* when an encoder failed at it.  Then its pipe has ended.
NumberOK ==
  frames # <<>> =>
    LET last == frames[Len(frames)] IN
    \/ sequence = (last.number + 1) % SequenceModulus
    \/ sequence = last.number /\ (pipe # "alive" \/ last.pipe # pipes)

AInv == AudioOK /\ NumberOK /\ NumbersFollow /\ AudioInOrder

-----------------------------------------------------------------------------
(* The steps, by what they do to the audio.                                 *)

\* The control moves on and the audio stays where it is.
LEMMA SameAudio ==
  ASSUME AInv, UNCHANGED <<audio, pipes>>,
         running # "pipe", running' # "pipe", running = "error" => running' = "error",
         depth' \in Nat, pipe' = "none" => pipe = "none",
         pipe' = "alive" => pipe = "alive"
  PROVE  AInv'
<1>1. AudioOK'
  BY DEF AInv, AudioOK, audio
<1>2. NumberOK'
  BY DEF AInv, NumberOK, audio
<1>3. NumbersFollow'
  BY DEF AInv, NumbersFollow, audio
<1>4. AudioInOrder'
  BY DEF AInv, AudioInOrder, Waiting, audio
<1> QED BY <1>1, <1>2, <1>3, <1>4 DEF AInv

LEMMA SamePlace ==
  ASSUME AInv, UNCHANGED <<audio, pipes, running, pipe, depth>>
  PROVE  AInv'
<1>1. AudioOK'
  BY DEF AInv, AudioOK, audio
<1>2. NumberOK'
  BY DEF AInv, NumberOK, audio
<1>3. NumbersFollow'
  BY DEF AInv, NumbersFollow, audio
<1>4. AudioInOrder'
  BY DEF AInv, AudioInOrder, Waiting, audio
<1> QED BY <1>1, <1>2, <1>3, <1>4 DEF AInv

LEMMA FramesSent ==
  ASSUME frames \in Frames
  PROVE  /\ Len(frames) \in Nat
         /\ frames # <<>> => Len(frames) \in 1..Len(frames)
         /\ \A k \in 1..Len(frames) :
              /\ frames[k].pipe \in Nat
              /\ Len(frames[k].audio) = FrameSize
              /\ frames[k].audio \in Seq(UnitOf(frames[k].pipe))
<1>1. Len(frames) \in Nat /\ (frames # <<>> => Len(frames) \in 1..Len(frames))
  BY EmptySeq DEF Frames
<1>2. ASSUME NEW k \in 1..Len(frames)
      PROVE  /\ frames[k].pipe \in Nat
             /\ Len(frames[k].audio) = FrameSize
             /\ frames[k].audio \in Seq(UnitOf(frames[k].pipe))
  <2>1. frames[k] \in UNION {FrameOf(p) : p \in Nat}
    BY ElementOfSeq DEF Frames
  <2>2. PICK p \in Nat : frames[k] \in FrameOf(p)
    BY <2>1
  <2> QED BY <2>2 DEF FrameOf
<1> QED BY <1>1, <1>2

\* A pipe starts without any audio.
LEMMA Start ==
  ASSUME AInv, StartCapture
  PROVE  AInv'
<1>1. buffer = <<>> /\ inside = <<>> /\ pcm = <<>>
  BY DEF AInv, AudioOK, StartCapture, Runs
<1>2. AudioOK'
  <2>1. /\ pipes' \in Nat /\ captured' \in Nat /\ depth' \in Nat
        /\ sequence' \in 0..SequenceModulus - 1 /\ frames' \in Frames
        /\ running' # "pipe" /\ pipe' # "none"
    BY DEF AInv, AudioOK, StartCapture, audio, Runs
  <2>2. \A k \in 1..Len(frames') : frames'[k].pipe <= pipes'
    BY FramesSent DEF AInv, AudioOK, StartCapture, audio
  <2>3. buffer' = <<>> /\ inside' = <<>> /\ pcm' = <<>>
    BY <1>1 DEF StartCapture, audio
  <2>4. <<>> \in Seq(UnitOf(pipes'))
    OBVIOUS
  <2>5. Unsent(frames') \subseteq dropped'
    BY DEF AInv, AudioOK, StartCapture, audio
  <2> QED BY <2>1, <2>2, <2>3, <2>4, <2>5 DEF AudioOK
<1>3. NumberOK'
  <2> SUFFICES ASSUME frames # <<>> PROVE NumberOK'
    BY DEF NumberOK, StartCapture, audio
  <2>1. frames \in Frames /\ pipes \in Nat
    BY DEF AInv, AudioOK
  <2>2. Len(frames) \in 1..Len(frames)
    BY <2>1, FramesSent
  <2>3. frames[Len(frames)].pipe \in Nat /\ frames[Len(frames)].pipe <= pipes
    BY <2>1, <2>2, FramesSent DEF AInv, AudioOK
  <2>4. frames[Len(frames)].pipe # pipes + 1
    BY <2>1, <2>3
  <2> QED BY <2>4 DEF AInv, NumberOK, StartCapture, audio
<1>4. NumbersFollow'
  BY DEF AInv, NumbersFollow, StartCapture, audio
<1>5. AudioInOrder'
  BY DEF AInv, AudioInOrder, Waiting, StartCapture, Runs, audio
<1> QED BY <1>2, <1>3, <1>4, <1>5 DEF AInv

\* With the pipe goes the audio that waited in it.
LEMMA Destroy ==
  ASSUME AInv, running \in {"loop", "error"}, running' = "loop", DestroyPipe,
         UNCHANGED <<depth, pcm, sequence, captured, frames, pipes>>
  PROVE  AInv'
<1>1. /\ buffer \in Seq(UnitOf(pipes)) /\ inside \in Seq(UnitOf(pipes)) /\ pcm = <<>>
      /\ buffer' = <<>> /\ inside' = <<>> /\ pcm' = <<>>
      /\ dropped' = dropped \cup Indexes(buffer \o inside)
  BY DEF AInv, AudioOK, DestroyPipe
<1>2. AudioOK'
  BY <1>1 DEF AInv, AudioOK, DestroyPipe
<1>3. NumberOK'
  BY DEF AInv, NumberOK, DestroyPipe
<1>4. NumbersFollow'
  BY DEF AInv, NumbersFollow
<1>5. Waiting = buffer \o inside /\ Waiting' = <<>>
  BY <1>1, ConcatProperties, ConcatEmptySeq DEF Waiting
<1>6. AudioInOrder'
  <2>1. Increasing(<<>>) /\ Indexes(<<>>) = {} /\ \A s : Precedes(s, <<>>)
    BY DEF Increasing, Indexes, Precedes
  <2>2. IndexesIn(frames) \cup Indexes(<<>>) \cup dropped' = 1..captured
    BY <1>1, <1>5, <2>1 DEF AInv, AudioInOrder
  <2> QED BY <1>5, <2>1, <2>2 DEF AInv, AudioInOrder
<1> QED BY <1>2, <1>3, <1>4, <1>6 DEF AInv

\* New audio has the next indexes.
LEMMA Captured ==
  ASSUME AInv, running \in {"poll", "get"}, NEW size \in Nat, Yield(size),
         UNCHANGED <<pipe, pipes>>
  PROVE  AInv'
<1> DEFINE new == [i \in 1..size |-> [pipe |-> pipes, index |-> captured + i]]
           before == buffer \o inside
<1>1. /\ pipes \in Nat /\ captured \in Nat /\ depth \in Nat
      /\ buffer \in Seq(UnitOf(pipes)) /\ inside \in Seq(UnitOf(pipes))
      /\ pcm = <<>> /\ pcm' = new /\ captured' = captured + size
      /\ running' = "pipe" /\ depth' = depth + 1
      /\ UNCHANGED <<inside, buffer, sequence, frames, dropped>>
  BY DEF AInv, AudioOK, Yield
<1>2. /\ new \in Seq(UnitOf(pipes)) /\ Len(new) = size
      /\ \A i \in 1..size : new[i].index = captured + i
  BY <1>1 DEF UnitOf
<1> HIDE DEF new
<1>3. AudioOK'
  BY <1>1, <1>2 DEF AInv, AudioOK
<1>4. NumberOK'
  BY <1>1 DEF AInv, NumberOK
<1>5. NumbersFollow'
  BY <1>1 DEF AInv, NumbersFollow
<1>6. before \in Seq(UnitOf(pipes)) /\ Waiting = before /\ Waiting' = before \o new
  BY <1>1, ConcatProperties, ConcatEmptySeq DEF Waiting
<1> HIDE DEF before
<1>7. Increasing(new) /\ Indexes(new) = captured + 1..captured + size
  <2>1. Increasing(new)
    BY <1>1, <1>2 DEF Increasing
  <2>2. ASSUME NEW x \in captured + 1..captured + size PROVE x \in Indexes(new)
    <3>1. x - captured \in 1..size /\ x = captured + (x - captured)
      BY <1>1
    <3> QED BY <1>2, <3>1 DEF Indexes
  <2>3. Indexes(new) \subseteq captured + 1..captured + size
    BY <1>1, <1>2 DEF Indexes
  <2> QED BY <2>1, <2>2, <2>3
<1>8. ASSUME NEW s, Indexes(s) \subseteq 1..captured PROVE Precedes(s, new)
  <2>1. \A i \in 1..Len(s) : s[i].index \in 1..captured
    BY <1>8 DEF Indexes
  <2> QED BY <1>1, <1>2, <2>1 DEF Precedes
<1>9. /\ InOrder(frames) /\ Increasing(before)
      /\ \A k \in 1..Len(frames) : Precedes(frames[k].audio, before)
      /\ IndexesIn(frames) \cup Indexes(before) \cup dropped = 1..captured
  BY <1>6 DEF AInv, AudioInOrder
<1>10. /\ Precedes(before, new)
       /\ \A k \in 1..Len(frames) : Precedes(frames[k].audio, new)
  <2>1. Unsent(frames) \subseteq dropped
    BY DEF AInv, AudioOK
  <2>2. IndexesIn(frames) \subseteq 1..captured /\ Unsent(frames) \subseteq 1..captured
    BY <1>9, <2>1
  <2>3. \A k \in 1..Len(frames) :
          \/ Indexes(frames[k].audio) \subseteq IndexesIn(frames)
          \/ Indexes(frames[k].audio) \subseteq Unsent(frames)
    BY DEF IndexesIn, Unsent
  <2>4. \A k \in 1..Len(frames) : Indexes(frames[k].audio) \subseteq 1..captured
    BY <2>2, <2>3
  <2> QED BY <1>8, <1>9, <2>4
<1>11. /\ Increasing(Waiting') /\ Indexes(Waiting') = Indexes(before) \cup Indexes(new)
       /\ \A k \in 1..Len(frames) : Precedes(frames[k].audio, Waiting')
  <2>1. /\ Indexes(before \o new) = Indexes(before) \cup Indexes(new)
        /\ Increasing(before \o new) <=>
             Increasing(before) /\ Increasing(new) /\ Precedes(before, new)
        /\ \A u : Precedes(u, before \o new) <=> Precedes(u, before) /\ Precedes(u, new)
    BY <1>2, <1>6, SplitAudio, Zenon
  <2> QED BY <1>6, <1>7, <1>9, <1>10, <2>1, Zenon
<1>12. 1..captured + size = 1..captured \cup (captured + 1..captured + size)
  BY <1>1
<1>13. IndexesIn(frames) \cup Indexes(Waiting') \cup dropped = 1..captured + size
  BY <1>7, <1>9, <1>11, <1>12
<1>14. AudioInOrder'
  BY <1>1, <1>9, <1>11, <1>13 DEF AudioInOrder
<1> QED BY <1>3, <1>4, <1>5, <1>14 DEF AInv

\* A packet is skipped.
LEMMA Skip ==
  ASSUME AInv, running = "pipe", running' \notin {"pipe", "error"},
         pcm' = <<>>, dropped' = dropped \cup Indexes(pcm),
         UNCHANGED <<pipe, depth, inside, buffer, sequence, captured, frames, pipes>>
  PROVE  AInv'
<1> DEFINE before == buffer \o inside
<1>1. /\ buffer \in Seq(UnitOf(pipes)) /\ inside \in Seq(UnitOf(pipes))
      /\ pcm \in Seq(UnitOf(pipes))
  BY DEF AInv, AudioOK
<1>2. AudioOK'
  <2>1. <<>> \in Seq(UnitOf(pipes))
    OBVIOUS
  <2> QED BY <2>1 DEF AInv, AudioOK
<1>3. NumberOK' /\ NumbersFollow'
  BY DEF AInv, NumberOK, NumbersFollow
<1>4. before \in Seq(UnitOf(pipes)) /\ Waiting = before \o pcm /\ Waiting' = before
  BY <1>1, ConcatProperties, ConcatEmptySeq DEF Waiting
<1> HIDE DEF before
<1>5. /\ Increasing(before) /\ Indexes(Waiting) = Indexes(before) \cup Indexes(pcm)
      /\ \A k \in 1..Len(frames) : Precedes(frames[k].audio, before)
  BY <1>1, <1>4, SplitAudio DEF AInv, AudioInOrder
<1>6. IndexesIn(frames) \cup Indexes(Waiting') \cup dropped' = 1..captured
  BY <1>4, <1>5 DEF AInv, AudioInOrder
<1>7. AudioInOrder'
  BY <1>4, <1>5, <1>6 DEF AInv, AudioInOrder
<1> QED BY <1>2, <1>3, <1>7 DEF AInv

\* What the transform has taken in, it gives in the same order.
LEMMA Transformed ==
  ASSUME AudioOK, NEW r \in Resampled
  PROVE  /\ r.out \in Seq(UnitOf(pipes)) /\ r.inside \in Seq(UnitOf(pipes))
         /\ buffer \o r.out \in Seq(UnitOf(pipes))
         /\ (buffer \o r.out) \o r.inside = Waiting
<1> DEFINE all == inside \o pcm
<1>1. /\ buffer \in Seq(UnitOf(pipes)) /\ inside \in Seq(UnitOf(pipes))
      /\ pcm \in Seq(UnitOf(pipes)) /\ all \in Seq(UnitOf(pipes))
  BY ConcatProperties DEF AudioOK
<1>2. PICK n \in 0..Len(all) : r = [out |-> SubSeq(all, 1, n), inside |-> SubSeq(all, n + 1, Len(all))]
  BY DEF Resampled
<1>3. r.out = SubSeq(all, 1, n) /\ r.inside = SubSeq(all, n + 1, Len(all))
  BY <1>2
<1> HIDE DEF all
<1>4. /\ r.out \in Seq(UnitOf(pipes)) /\ r.inside \in Seq(UnitOf(pipes))
      /\ all = r.out \o r.inside
  BY <1>1, <1>3, SplitAt, ZenonT(30)
<1>5. buffer \o r.out \in Seq(UnitOf(pipes))
  BY <1>1, <1>4, ConcatProperties
<1>6. (buffer \o r.out) \o r.inside = buffer \o all
  <2>1. (buffer \o r.out) \o r.inside = buffer \o (r.out \o r.inside)
    <3> DEFINE o == r.out
               i == r.inside
    <3>1. o \in Seq(UnitOf(pipes)) /\ i \in Seq(UnitOf(pipes)) /\ buffer \in Seq(UnitOf(pipes))
      BY <1>1, <1>4
    <3> HIDE DEF o, i
    <3>2. Regroups(buffer, o, i)
      BY <3>1, Regrouping, Zenon
    <3>3. (buffer \o o) \o i = buffer \o (o \o i)
      BY <3>2, Zenon DEF Regroups
    <3> QED BY <3>3 DEF o, i
  <2> QED BY <1>4, <2>1
<1>7. buffer \o all = Waiting
  <2>1. Regroups(buffer, inside, pcm)
    BY <1>1, Regrouping, Zenon
  <2> QED BY <2>1, Zenon DEF Regroups, Waiting, all
<1> QED BY <1>4, <1>5, <1>6, <1>7

\* Frames with the next numbers join those sent.
LEMMA NumbersGoOn ==
  ASSUME AInv, pipe = "alive", NEW m \in Nat, NEW c, NEW fs, CutFrom(c, fs, m),
         frames' = frames \o fs
  PROVE  /\ NumbersFollow' /\ frames' \in Frames
         /\ \A k \in 1..Len(frames') : frames'[k].pipe <= pipes
         /\ m = 0 => frames' = frames
         /\ m > 0 => /\ frames'[Len(frames')].number = (sequence + m - 1) % SequenceModulus
                     /\ frames'[Len(frames')].pipe = pipes
<1>1. /\ pipes \in Nat /\ sequence \in 0..SequenceModulus - 1
      /\ frames \in Frames /\ \A k \in 1..Len(frames) : frames[k].pipe <= pipes
  BY DEF AInv, AudioOK
<1>2. /\ Len(fs) = m /\ fs \in Seq(FrameOf(pipes))
      /\ \A k \in 1..m : /\ fs[k].pipe = pipes
                         /\ fs[k].number = (sequence + k - 1) % SequenceModulus
  BY DEF CutFrom
<1>3. fs \in Frames
  BY <1>1, <1>2 DEF Frames
<1>4. /\ frames' \in Frames /\ Len(frames') = Len(frames) + m
      /\ Len(frames) \in Nat
      /\ \A k \in 1..Len(frames) : frames'[k] = frames[k]
      /\ \A k \in 1..m : frames'[Len(frames) + k] = fs[k]
      /\ \A k \in 1..Len(frames') :
           k \in 1..Len(frames) \/ \E l \in 1..m : k = Len(frames) + l
  <2> DEFINE S == UNION {FrameOf(p) : p \in Nat}
  <2>1. frames \in Seq(S) /\ fs \in Seq(S)
    BY <1>1, <1>3 DEF Frames
  <2>2. Frames = Seq(S)
    BY DEF Frames
  <2> HIDE DEF S
  <2>3. /\ frames \o fs \in Seq(S) /\ Len(frames \o fs) = Len(frames) + Len(fs)
        /\ Len(frames) \in Nat
        /\ \A k \in 1..Len(frames) : (frames \o fs)[k] = frames[k]
        /\ \A k \in 1..Len(fs) : (frames \o fs)[Len(frames) + k] = fs[k]
        /\ \A k \in 1..Len(frames \o fs) :
             \/ k \in 1..Len(frames)
             \/ \E l \in 1..Len(fs) : k = Len(frames) + l
    BY <2>1, FollowedBy
  <2> QED BY <1>2, <2>2, <2>3
<1>5. \A k \in 1..Len(frames') : frames'[k].pipe <= pipes
  <2> SUFFICES ASSUME NEW k \in 1..Len(frames') PROVE frames'[k].pipe <= pipes
    OBVIOUS
  <2>1. CASE k \in 1..Len(frames)
    BY <1>1, <1>4, <2>1
  <2>2. CASE \E l \in 1..m : k = Len(frames) + l
    BY <1>1, <1>2, <1>4, <2>2
  <2> QED BY <1>4, <2>1, <2>2
<1>6. m = 0 => frames' = frames
  <2> SUFFICES ASSUME m = 0 PROVE frames' = frames
    OBVIOUS
  <2>1. fs = <<>>
    BY <1>2, EmptySeq
  <2> QED BY <1>1, <2>1, ConcatEmptySeq DEF Frames
<1>7. m > 0 => /\ frames'[Len(frames')].number = (sequence + m - 1) % SequenceModulus
               /\ frames'[Len(frames')].pipe = pipes
  <2> SUFFICES ASSUME m > 0
               PROVE  /\ frames'[Len(frames')].number = (sequence + m - 1) % SequenceModulus
                      /\ frames'[Len(frames')].pipe = pipes
    OBVIOUS
  <2>1. m \in 1..m
    OBVIOUS
  <2> QED BY <1>2, <1>4, <2>1, ZenonT(30)
<1>8. ASSUME NEW k \in 1..Len(frames') - 1
      PROVE  \/ frames'[k + 1].number = (frames'[k].number + 1) % SequenceModulus
             \/ /\ frames'[k + 1].pipe # frames'[k].pipe
                /\ frames'[k + 1].number = frames'[k].number
  <2>1. CASE k < Len(frames)
    <3>1. k \in 1..Len(frames) - 1 /\ k \in 1..Len(frames) /\ k + 1 \in 1..Len(frames)
      BY <1>4, <2>1
    <3> QED BY <1>4, <3>1 DEF AInv, NumbersFollow
  <2>2. CASE k = Len(frames)
    <3>1. k \in 1..Len(frames) /\ 1 \in 1..m /\ frames # <<>>
      BY <1>1, <1>4, <2>2, EmptySeq DEF Frames
    <3>2. frames'[k] = frames[Len(frames)] /\ frames'[k + 1] = fs[1]
      BY <1>4, <2>2, <3>1
    <3>3. fs[1].pipe = pipes /\ fs[1].number = (sequence + 1 - 1) % SequenceModulus
      BY <1>2, <3>1
    <3>4. (sequence + 1 - 1) % SequenceModulus = sequence
      <4>1. sequence \in Nat /\ sequence < SequenceModulus /\ sequence + 1 - 1 = sequence
        BY <1>1, Sizes
      <4>2. SequenceModulus * 0 + sequence = sequence
        BY <1>1, Sizes
      <4>3. (SequenceModulus * 0 + sequence) % SequenceModulus = sequence
        BY <4>1, Sizes, Remainder
      <4> QED BY <4>1, <4>2, <4>3
    <3> QED BY <3>1, <3>2, <3>3, <3>4 DEF AInv, NumberOK
  <2>3. CASE k > Len(frames)
    <3>1. PICK l \in 1..m : k = Len(frames) + l
      <4>1. Len(frames') \in Nat /\ k \in 1..Len(frames') /\ k \notin 1..Len(frames)
        BY <1>4, <2>3
      <4> QED BY <1>4, <4>1
    <3>2. l + 1 \in 1..m /\ k + 1 = Len(frames) + (l + 1)
      BY <1>4, <3>1
    <3>3. /\ frames'[k].number = (sequence + l - 1) % SequenceModulus
          /\ frames'[k + 1].number = (sequence + (l + 1) - 1) % SequenceModulus
      BY <1>2, <1>4, <3>1, <3>2
    <3>4. sequence + l - 1 \in Nat /\ sequence + (l + 1) - 1 = (sequence + l - 1) + 1
      BY <1>1, Sizes
    <3> DEFINE a == sequence + l - 1
    <3>5. (a + 1) % SequenceModulus = ((a % SequenceModulus) + 1) % SequenceModulus
      BY <3>4, Sizes, ModSuccessor
    <3>6. /\ frames'[k].number = a % SequenceModulus
          /\ frames'[k + 1].number = (a + 1) % SequenceModulus
      BY <3>3, <3>4
    <3> HIDE DEF a
    <3>7. frames'[k + 1].number = (frames'[k].number + 1) % SequenceModulus
      BY <3>5, <3>6, Zenon
    <3> QED BY <3>7, Zenon
  <2>4. k < Len(frames) \/ k = Len(frames) \/ k > Len(frames)
    BY <1>4
  <2> QED BY <2>1, <2>2, <2>3, <2>4
<1>9. NumbersFollow'
  BY <1>8 DEF NumbersFollow
<1> QED BY <1>4, <1>5, <1>6, <1>7, <1>9

\* The numbers when n frames are counted and m are sent.
LEMMA NumberMoves ==
  ASSUME AInv, pipe = "alive", NEW n \in Nat, NEW m \in {n, n + 1},
         NEW c, NEW fs, CutFrom(c, fs, m), frames' = frames \o fs,
         sequence' = (sequence + n) % SequenceModulus,
         m = n + 1 => pipe' # "alive", UNCHANGED pipes, pipe' # "none"
  PROVE  NumberOK' /\ sequence' \in 0..SequenceModulus - 1
<1>1. sequence \in Nat /\ sequence < SequenceModulus
  BY Sizes DEF AInv, AudioOK
<1>2. sequence + n \in Nat
  BY <1>1
<1>3. sequence' \in 0..SequenceModulus - 1
  BY <1>2, Sizes, ModIsSmall
<1>4. m \in Nat
  OBVIOUS
<1>5. /\ m = 0 => frames' = frames
      /\ m > 0 => /\ frames'[Len(frames')].number = (sequence + m - 1) % SequenceModulus
                  /\ frames'[Len(frames')].pipe = pipes
  BY <1>4, NumbersGoOn
<1>6. CASE m = 0
  <2>1. n = 0 /\ frames' = frames
    BY <1>5, <1>6
  <2>2. sequence' = sequence
    <3>1. SequenceModulus * 0 + sequence = sequence + n
      BY <1>1, <2>1, Sizes
    <3>2. (SequenceModulus * 0 + sequence) % SequenceModulus = sequence
      BY <1>1, Sizes, Remainder
    <3> QED BY <3>1, <3>2
  <2> QED BY <1>3, <2>1, <2>2 DEF AInv, NumberOK
<1>7. CASE m > 0 /\ m = n
  <2>1. frames'[Len(frames')].number = (sequence + n - 1) % SequenceModulus
    BY <1>5, <1>7
  <2> DEFINE a == sequence + n - 1
  <2>2. a \in Nat /\ sequence + n = a + 1
    BY <1>1, <1>7
  <2>3. (a + 1) % SequenceModulus = ((a % SequenceModulus) + 1) % SequenceModulus
    BY <2>2, Sizes, ModSuccessor
  <2>4. /\ frames'[Len(frames')].number = a % SequenceModulus
        /\ sequence' = (a + 1) % SequenceModulus
    BY <2>1, <2>2
  <2> HIDE DEF a
  <2>5. sequence' = (frames'[Len(frames')].number + 1) % SequenceModulus
    BY <2>3, <2>4, Zenon
  <2> QED BY <1>3, <2>5 DEF NumberOK
<1>8. CASE m = n + 1
  <2>1. m > 0
    BY <1>8
  <2>2. frames'[Len(frames')].number = (sequence + m - 1) % SequenceModulus
    BY <1>5, <2>1
  <2>3. sequence + m - 1 = sequence + n
    BY <1>1, <1>8
  <2>4. frames'[Len(frames')].number = sequence' /\ pipe' # "alive"
    BY <1>8, <2>2, <2>3
  <2> QED BY <1>3, <2>4 DEF NumberOK
<1>9. m = 0 \/ (m > 0 /\ m = n) \/ m = n + 1
  OBVIOUS
<1> QED BY <1>6, <1>7, <1>8, <1>9

\* Frames cut from the start of all there is keep the order.
LEMMA FramesKeepOrder ==
  ASSUME AInv, pipe = "alive", running # "error", NEW m \in Nat,
         NEW to \in Seq(SUBSET Compression), Len(to) = m,
         NEW all \in Seq(UnitOf(pipes)), NEW rest \in Seq(UnitOf(pipes)),
         all \o rest = Waiting, m * FrameSize <= Len(all),
         frames' = frames \o FramesOf(all, to)
  PROVE  LET c == SubSeq(all, 1, m * FrameSize)
             d == SubSeq(all, m * FrameSize + 1, Len(all))
             fs == FramesOf(all, to)
         IN  /\ CutFrom(c, fs, m)
             /\ all = c \o d /\ c \in Seq(UnitOf(pipes)) /\ d \in Seq(UnitOf(pipes))
             /\ InOrder(frames')
             /\ IndexesIn(frames') \cup Unsent(fs) = IndexesIn(frames) \cup Indexes(c)
             /\ Unsent(frames') = Unsent(frames) \cup Unsent(fs)
             /\ Increasing(d \o rest)
             /\ \A k \in 1..Len(frames') : Precedes(frames'[k].audio, d \o rest)
<1> DEFINE c == SubSeq(all, 1, m * FrameSize)
           d == SubSeq(all, m * FrameSize + 1, Len(all))
           fs == FramesOf(all, to)
           left == d \o rest
<1>1. /\ pipes \in Nat /\ sequence \in Nat /\ frames \in Frames
      /\ InOrder(frames) /\ Increasing(Waiting)
      /\ \A k \in 1..Len(frames) : Precedes(frames[k].audio, Waiting)
  <2>1. pipes \in Nat /\ frames \in Frames
    BY DEF AInv, AudioOK
  <2>2. sequence \in Nat
    <3>1. sequence \in 0..SequenceModulus - 1
      BY DEF AInv, AudioOK
    <3> QED BY <3>1
  <2>3. /\ InOrder(frames) /\ Increasing(Waiting)
        /\ \A k \in 1..Len(frames) : Precedes(frames[k].audio, Waiting)
    BY DEF AInv, AudioInOrder
  <2> QED BY <2>1, <2>2, <2>3, Zenon
<1>2. CutFrom(c, fs, m)
  BY <1>1, Pieces
<1>3. /\ all = c \o d
      /\ c \in Seq(UnitOf(pipes)) /\ d \in Seq(UnitOf(pipes))
  <2>1. m * FrameSize \in 0..Len(all)
    <3>1. m * FrameSize \in Nat /\ Len(all) \in Nat
      BY Sizes, Tiles
    <3> QED BY <3>1
  <2> QED BY <2>1, SplitAt
<1> HIDE DEF c, d, fs
<1>4. left \in Seq(UnitOf(pipes)) /\ Waiting = c \o left
  <2>1. (c \o d) \o rest = c \o (d \o rest)
    <3>1. c \in Seq(UnitOf(pipes)) /\ d \in Seq(UnitOf(pipes))
      BY <1>3
    <3>2. Regroups(c, d, rest)
      BY <3>1, Regrouping, Zenon
    <3> QED BY <3>2, Zenon DEF Regroups
  <2>2. d \o rest \in Seq(UnitOf(pipes))
    BY <1>3, ConcatProperties
  <2> QED BY <1>3, <2>1, <2>2
<1> HIDE DEF left
<1>5. /\ Increasing(c) /\ Increasing(left) /\ Precedes(c, left)
      /\ \A k \in 1..Len(frames) : /\ Precedes(frames[k].audio, c)
                                   /\ Precedes(frames[k].audio, left)
  BY <1>1, <1>3, <1>4, SplitAudio
<1>6. /\ IndexesIn(fs) \cup Unsent(fs) = Indexes(c) /\ InOrder(fs) /\ Len(fs) = m
      /\ fs \in Seq(FrameOf(pipes))
      /\ \A l \in 1..m : Precedes(fs[l].audio, left)
      /\ \A k \in 1..Len(frames), l \in 1..m : Precedes(frames[k].audio, fs[l].audio)
  <2>1. Len(fs) = m /\ fs \in Seq(FrameOf(pipes))
    BY <1>2 DEF CutFrom
  <2> QED BY <1>2, <1>5, <2>1, PiecesInOrder
<1>7. /\ IndexesIn(frames') \cup Unsent(fs) = IndexesIn(frames) \cup Indexes(c)
      /\ Unsent(frames') = Unsent(frames) \cup Unsent(fs)
      /\ InOrder(frames')
      /\ \A k \in 1..Len(frames') : Precedes(frames'[k].audio, left)
  <2> DEFINE S == UNION {FrameOf(p) : p \in Nat}
  <2>1. frames \in Seq(S) /\ fs \in Seq(S) /\ frames' = frames \o fs
    BY <1>1, <1>6 DEF Frames, fs
  <2> HIDE DEF S
  <2>2. /\ IndexesIn(frames') \cup Unsent(fs) = IndexesIn(frames) \cup Indexes(c)
        /\ Unsent(frames') = Unsent(frames) \cup Unsent(fs)
        /\ InOrder(frames')
    <3>1. /\ IndexesIn(frames \o fs) = IndexesIn(frames) \cup IndexesIn(fs)
          /\ Unsent(frames \o fs) = Unsent(frames) \cup Unsent(fs)
      BY <2>1, AppendInOrder
    <3>2. \A k \in 1..Len(frames), l \in 1..Len(fs) : Precedes(frames[k].audio, fs[l].audio)
      BY <1>6
    <3>3. InOrder(frames \o fs)
      BY <1>1, <1>6, <2>1, <3>2, AppendInOrder
    <3> QED BY <1>6, <2>1, <3>1, <3>3
  <2>3. /\ \A k \in 1..Len(frames) : frames'[k] = frames[k]
        /\ \A l \in 1..Len(fs) : frames'[Len(frames) + l] = fs[l]
        /\ \A k \in 1..Len(frames') :
             k \in 1..Len(frames) \/ \E l \in 1..Len(fs) : k = Len(frames) + l
    <3>1. /\ \A k \in 1..Len(frames) : (frames \o fs)[k] = frames[k]
          /\ \A l \in 1..Len(fs) : (frames \o fs)[Len(frames) + l] = fs[l]
          /\ \A k \in 1..Len(frames \o fs) :
               k \in 1..Len(frames) \/ \E l \in 1..Len(fs) : k = Len(frames) + l
      BY <2>1, FollowedBy
    <3> QED BY <2>1, <3>1, Zenon
  <2>4. ASSUME NEW k \in 1..Len(frames') PROVE Precedes(frames'[k].audio, left)
    <3>1. CASE k \in 1..Len(frames)
      BY <1>5, <2>3, <3>1, Zenon
    <3>2. CASE \E l \in 1..Len(fs) : k = Len(frames) + l
      BY <1>6, <2>3, <3>2, Zenon
    <3> QED BY <2>3, <3>1, <3>2, Zenon
  <2> QED BY <2>2, <2>4
<1> QED BY <1>2, <1>3, <1>5, <1>7 DEF c, d, fs, left

\* For each frame, the compressions that get a packet of it.
LEMMA Packets ==
  ASSUME encoders \in SUBSET Compression, NEW n \in Nat,
         NEW to \in [1..n -> PacketsMade]
  PROVE  to \in Seq(SUBSET Compression) /\ Len(to) = n
<1>1. PacketsMade \subseteq SUBSET Compression
  BY DEF PacketsMade
<1>2. to \in Seq(PacketsMade) /\ Len(to) = n
  OBVIOUS
<1> HIDE DEF PacketsMade
<1>3. to \in Seq(SUBSET Compression)
  BY <1>1, <1>2, SeqMonotonic
<1> QED BY <1>2, <1>3

\* Frames are sent, or given up, and what is left of the audio stays.
LEMMA Send ==
  ASSUME AInv, encoders \in SUBSET Compression, pipe = "alive", Runs("pipe"),
         SendAudio
  PROVE  AInv'
<1>1. PICK r \in Resampled :
        /\ CutFrames(buffer \o r.out, Len(buffer \o r.out) \div FrameSize)
        /\ inside' = r.inside
  BY DEF SendAudio
<1> DEFINE all == buffer \o r.out
           n == Len(all) \div FrameSize
           c == SubSeq(all, 1, n * FrameSize)
<1>2. /\ all \in Seq(UnitOf(pipes)) /\ r.inside \in Seq(UnitOf(pipes))
      /\ all \o r.inside = Waiting
  BY Transformed DEF AInv
<1>3. n \in Nat /\ n * FrameSize <= Len(all)
  <2>1. Len(all) \in Nat
    BY <1>2
  <2> HIDE DEF all
  <2> QED BY <2>1, Sizes
<1>4. PICK to \in [1..n -> PacketsMade] :
        /\ frames' = frames \o FramesOf(all, to)
        /\ dropped' = dropped \cup Unsent(FramesOf(all, to))
  BY <1>1 DEF CutFrames
<1>5. to \in Seq(SUBSET Compression) /\ Len(to) = n
  BY <1>3, Packets
<1> DEFINE fs == FramesOf(all, to)
<1>6. /\ frames' = frames \o fs /\ dropped' = dropped \cup Unsent(fs)
      /\ sequence' = (sequence + n) % SequenceModulus
      /\ buffer' = SubSeq(all, n * FrameSize + 1, Len(all)) /\ inside' = r.inside
      /\ pcm' = <<>> /\ running' \in {"more", "quiet"}
      /\ UNCHANGED <<pipe, depth, captured, pipes>>
  BY <1>1, <1>4 DEF SendAudio, CutFrames, ResumeCapture, made
<1> HIDE DEF all, n
<1>7. /\ CutFrom(c, fs, n)
      /\ all = c \o buffer' /\ c \in Seq(UnitOf(pipes)) /\ buffer' \in Seq(UnitOf(pipes))
      /\ InOrder(frames')
      /\ IndexesIn(frames') \cup Unsent(fs) = IndexesIn(frames) \cup Indexes(c)
      /\ Unsent(frames') = Unsent(frames) \cup Unsent(fs)
      /\ Increasing(buffer' \o inside')
      /\ \A k \in 1..Len(frames') : Precedes(frames'[k].audio, buffer' \o inside')
  BY <1>2, <1>3, <1>6, <1>5, FramesKeepOrder DEF Runs
<1> HIDE DEF c, fs
<1>8. /\ NumbersFollow' /\ frames' \in Frames
      /\ \A k \in 1..Len(frames') : frames'[k].pipe <= pipes
  BY <1>3, <1>6, <1>7, NumbersGoOn
<1>9. NumberOK' /\ sequence' \in 0..SequenceModulus - 1
  <2>1. n \in {n, n + 1} /\ n # n + 1
    BY <1>3
  <2> QED BY <1>3, <1>6, <1>7, <2>1, NumberMoves
<1>10. AudioOK'
  <2>1. <<>> \in Seq(UnitOf(pipes))
    OBVIOUS
  <2>2. Unsent(frames') \subseteq dropped'
    BY <1>6, <1>7 DEF AInv, AudioOK
  <2> QED BY <1>2, <1>6, <1>7, <1>8, <1>9, <2>1, <2>2 DEF AInv, AudioOK
<1>11. Waiting' = buffer' \o inside'
  BY <1>2, <1>6, <1>7, ConcatProperties, ConcatEmptySeq DEF Waiting
<1>12. Indexes(Waiting) = Indexes(c) \cup Indexes(buffer' \o inside')
  <2>1. Waiting = (c \o buffer') \o inside'
    BY <1>2, <1>6, <1>7
  <2>2. (c \o buffer') \o inside' = c \o (buffer' \o inside')
    <3>1. inside' \in Seq(UnitOf(pipes)) /\ buffer' \in Seq(UnitOf(pipes))
          /\ c \in Seq(UnitOf(pipes))
      BY <1>2, <1>6, <1>7
    <3>2. Regroups(c, buffer', inside')
      BY <3>1, Regrouping, Zenon
    <3> QED BY <3>2, Zenon DEF Regroups
  <2>3. c \in Seq(UnitOf(pipes)) /\ buffer' \o inside' \in Seq(UnitOf(pipes))
    BY <1>2, <1>6, <1>7, ConcatProperties
  <2>4. Indexes(c \o (buffer' \o inside')) = Indexes(c) \cup Indexes(buffer' \o inside')
    <3> DEFINE left == buffer' \o inside'
    <3>1. left \in Seq(UnitOf(pipes))
      BY <2>3
    <3> HIDE DEF left
    <3>2. Indexes(c \o left) = Indexes(c) \cup Indexes(left)
      BY <2>3, <3>1, SplitAudio
    <3> QED BY <3>2 DEF left
  <2> QED BY <2>1, <2>2, <2>4
<1>13. AudioInOrder'
  <2>1. IndexesIn(frames') \cup Indexes(Waiting') \cup dropped' = 1..captured'
    BY <1>6, <1>7, <1>11, <1>12 DEF AInv, AudioInOrder
  <2>2. /\ InOrder(frames') /\ Increasing(Waiting')
        /\ \A k \in 1..Len(frames') : Precedes(frames'[k].audio, Waiting')
    BY <1>7, <1>11
  <2> QED BY <2>1, <2>2 DEF AudioInOrder
<1> QED BY <1>8, <1>9, <1>10, <1>13 DEF AInv

\* An exception in the pipe ends it.
LEMMA ThrowEnds ==
  ASSUME AudioOK, running = "pipe", Throw
  PROVE  /\ pcm' = <<>> /\ running' = "error" /\ depth' = 0 /\ pipe' = "ended"
<1>1. depth \in Nat /\ depth > 0
  BY DEF AudioOK
<1>2. depth # 0
  BY <1>1
<1>3. pcm' = <<>> /\ running' = "error" /\ depth' = 0
  BY DEF Throw
<1>4. pipe' = "ended"
  BY <1>2, Zenon DEF Throw
<1> QED BY <1>3, <1>4

\* Some of the audio of the failed resampler is lost.
LEMMA LoseSome ==
  ASSUME AInv, Runs("pipe"), ResamplerFails
  PROVE  AInv'
<1> DEFINE all == inside \o pcm
<1>1. PICK n \in 0..Len(all) :
        /\ buffer' = buffer \o SubSeq(all, 1, n)
        /\ dropped' = dropped \cup Indexes(SubSeq(all, n + 1, Len(all)))
  BY DEF ResamplerFails
<1> DEFINE given == SubSeq(all, 1, n)
           lost == SubSeq(all, n + 1, Len(all))
<1>2. /\ buffer' = buffer \o given /\ dropped' = dropped \cup Indexes(lost)
      /\ inside' = <<>> /\ pcm' = <<>> /\ running' = "error" /\ depth' = 0
      /\ pipe' = "ended"
      /\ UNCHANGED <<sequence, captured, frames, pipes>>
  BY <1>1, ThrowEnds DEF ResamplerFails, made, Runs, AInv
<1>3. /\ buffer \in Seq(UnitOf(pipes)) /\ inside \in Seq(UnitOf(pipes))
      /\ pcm \in Seq(UnitOf(pipes)) /\ all \in Seq(UnitOf(pipes))
  BY ConcatProperties DEF AInv, AudioOK
<1>4. Waiting = buffer \o all
  <2>1. Regroups(buffer, inside, pcm)
    BY <1>3, Regrouping, Zenon
  <2> QED BY <2>1, Zenon DEF Regroups, Waiting, all
<1> HIDE DEF all
<1>5. /\ given \in Seq(UnitOf(pipes)) /\ lost \in Seq(UnitOf(pipes))
      /\ all = given \o lost
  BY <1>3, SplitAt
<1> HIDE DEF given, lost
<1>6. /\ Indexes(Waiting) = Indexes(buffer) \cup Indexes(given) \cup Indexes(lost)
      /\ Indexes(buffer') = Indexes(buffer) \cup Indexes(given)
  <2>1. Indexes(Waiting) = Indexes(buffer) \cup Indexes(all)
    BY <1>3, <1>4, SplitAudio
  <2>2. Indexes(all) = Indexes(given) \cup Indexes(lost)
    BY <1>5, SplitAudio
  <2>3. Indexes(buffer \o given) = Indexes(buffer) \cup Indexes(given)
    BY <1>3, <1>5, SplitAudio
  <2> QED BY <1>2, <2>1, <2>2, <2>3
<1>7. buffer' \in Seq(UnitOf(pipes)) /\ Waiting' = buffer'
  BY <1>2, <1>3, <1>5, ConcatProperties, ConcatEmptySeq DEF Waiting
<1>8. AudioOK'
  <2>1. <<>> \in Seq(UnitOf(pipes))
    OBVIOUS
  <2> QED BY <1>2, <1>7, <2>1 DEF AInv, AudioOK
<1>9. NumberOK' /\ NumbersFollow'
  BY <1>2 DEF AInv, NumberOK, NumbersFollow
<1>10. AudioInOrder'
  <2>1. IndexesIn(frames') \cup Indexes(Waiting') \cup dropped' = 1..captured'
    BY <1>2, <1>6, <1>7 DEF AInv, AudioInOrder
  <2> QED BY <1>2, <2>1 DEF AInv, AudioInOrder
<1> QED BY <1>8, <1>9, <1>10 DEF AInv

\* The frames of a failed encoder are sent, and kept as well.
LEMMA SendSome ==
  ASSUME AInv, encoders \in SUBSET Compression, pipe = "alive", Runs("pipe"),
         EncodeFails
  PROVE  AInv'
<1>1. PICK failing \in encoders \ {Uncompressed}, r \in Resampled :
        \E n \in 0..(Len(buffer \o r.out) \div FrameSize) - 1 :
        \E sentTo \in [1..n -> PacketsMade], some \in SUBSET (encoders \ {failing}) :
          LET to == IF some = {} THEN sentTo ELSE Append(sentTo, some) IN
          /\ frames' = frames \o FramesOf(buffer \o r.out, to)
          /\ dropped' = dropped \cup Unsent(FramesOf(buffer \o r.out, to))
          /\ sequence' = (sequence + n) % SequenceModulus
          /\ buffer' = SubSeq(buffer \o r.out, n * FrameSize + 1, Len(buffer \o r.out))
          /\ inside' = r.inside
  BY DEF EncodeFails
<1> DEFINE all == buffer \o r.out
<1>2. PICK n \in 0..(Len(all) \div FrameSize) - 1 :
        \E sentTo \in [1..n -> PacketsMade], some \in SUBSET (encoders \ {failing}) :
        LET to == IF some = {} THEN sentTo ELSE Append(sentTo, some) IN
        /\ frames' = frames \o FramesOf(all, to)
        /\ dropped' = dropped \cup Unsent(FramesOf(all, to))
        /\ sequence' = (sequence + n) % SequenceModulus
        /\ buffer' = SubSeq(all, n * FrameSize + 1, Len(all))
        /\ inside' = r.inside
  BY <1>1
<1>3. PICK sentTo \in [1..n -> PacketsMade], some \in SUBSET (encoders \ {failing}) :
        LET to == IF some = {} THEN sentTo ELSE Append(sentTo, some) IN
        /\ frames' = frames \o FramesOf(all, to)
        /\ dropped' = dropped \cup Unsent(FramesOf(all, to))
        /\ sequence' = (sequence + n) % SequenceModulus
        /\ buffer' = SubSeq(all, n * FrameSize + 1, Len(all))
        /\ inside' = r.inside
  BY <1>2
<1> DEFINE to == IF some = {} THEN sentTo ELSE Append(sentTo, some)
           m == Len(to)
           fs == FramesOf(all, to)
           c == SubSeq(all, 1, m * FrameSize)
           d == SubSeq(all, m * FrameSize + 1, Len(all))
           sent == SubSeq(all, 1, n * FrameSize)
<1>4. /\ all \in Seq(UnitOf(pipes)) /\ r.inside \in Seq(UnitOf(pipes))
      /\ all \o r.inside = Waiting
  BY Transformed DEF AInv
<1> HIDE DEF all
<1>5. /\ pcm' = <<>> /\ running' = "error" /\ depth' = 0 /\ pipe' = "ended"
      /\ UNCHANGED <<captured, pipes>>
  BY ThrowEnds DEF EncodeFails, made, Runs, AInv
<1>6. to \in Seq(SUBSET Compression) /\ m \in {n, n + 1}
  <2>1. n \in Nat
    BY <1>4, Sizes
  <2>2. sentTo \in Seq(SUBSET Compression) /\ Len(sentTo) = n
    BY <2>1, Packets
  <2>3. some \in SUBSET Compression
    OBVIOUS
  <2> HIDE DEF all
  <2>4. CASE some = {}
    BY <2>2, <2>4
  <2>5. CASE some # {}
    <3>1. to = Append(sentTo, some)
      BY <2>5
    <3>2. Append(sentTo, some) \in Seq(SUBSET Compression) /\ Len(Append(sentTo, some)) = n + 1
      BY <2>2, <2>3, AppendProperties
    <3> QED BY <3>1, <3>2
  <2> QED BY <2>4, <2>5
<1>7. /\ frames' = frames \o fs /\ dropped' = dropped \cup Unsent(fs)
      /\ sequence' = (sequence + n) % SequenceModulus
      /\ buffer' = SubSeq(all, n * FrameSize + 1, Len(all))
      /\ inside' = r.inside
  BY <1>3, Zenon
<1> HIDE DEF to
<1>8. /\ n \in Nat /\ m \in Nat /\ m \in {n, n + 1}
      /\ n * FrameSize \in 0..m * FrameSize
      /\ m * FrameSize \in 0..Len(all)
  <2>1. Len(all) \in Nat /\ Len(all) \div FrameSize \in Nat
    BY <1>4, Sizes
  <2>2. n \in Nat /\ m \in {n, n + 1} /\ m \in Nat /\ m <= Len(all) \div FrameSize
    BY <1>6, <2>1
  <2>3. (Len(all) \div FrameSize) * FrameSize <= Len(all)
    BY <2>1, Sizes
  <2>4. n * FrameSize \in Nat /\ m * FrameSize \in Nat /\ n * FrameSize <= m * FrameSize
    BY <2>2, Sizes
  <2>5. m * FrameSize <= (Len(all) \div FrameSize) * FrameSize
    BY <2>1, <2>2, Sizes
  <2>6. n * FrameSize \in 0..m * FrameSize
    BY <2>4
  <2>7. m * FrameSize \in 0..Len(all)
    <3> DEFINE p == m * FrameSize
               q == (Len(all) \div FrameSize) * FrameSize
    <3>1. p \in Nat /\ q \in Nat /\ p <= q /\ q <= Len(all)
      BY <2>1, <2>3, <2>4, <2>5, Sizes
    <3> HIDE DEF p, q
    <3>2. p \in 0..Len(all)
      BY <2>1, <3>1
    <3> QED BY <3>2 DEF p
  <2> QED BY <2>2, <2>6, <2>7
<1> HIDE DEF m
<1>9. /\ CutFrom(c, fs, m)
      /\ all = c \o d /\ c \in Seq(UnitOf(pipes)) /\ d \in Seq(UnitOf(pipes))
      /\ InOrder(frames')
      /\ IndexesIn(frames') \cup Unsent(fs) = IndexesIn(frames) \cup Indexes(c)
      /\ Unsent(frames') = Unsent(frames) \cup Unsent(fs)
  <2>1. m * FrameSize <= Len(all)
    BY <1>4, <1>8
  <2>2. to \in Seq(SUBSET Compression) /\ Len(to) = m
    BY <1>6 DEF m
  <2> QED BY <1>4, <1>8, <1>7, <2>1, <2>2, FramesKeepOrder DEF Runs
<1> HIDE DEF fs
<1>10. /\ sent \in Seq(UnitOf(pipes)) /\ buffer' \in Seq(UnitOf(pipes))
      /\ all = sent \o buffer'
      /\ Len(sent) = n * FrameSize /\ \A i \in 1..n * FrameSize : sent[i] = all[i]
  <2>1. n * FrameSize \in 0..Len(all)
    BY <1>4, <1>8
  <2> QED BY <1>4, <1>7, <2>1, SplitAt
<1>11. Indexes(sent) \subseteq Indexes(c)
  <2>1. Len(c) = m * FrameSize /\ \A i \in 1..m * FrameSize : c[i] = all[i]
    BY <1>4, <1>8, SplitAt
  <2>2. \A i \in 1..Len(sent) : i \in 1..Len(c) /\ sent[i] = c[i]
    BY <1>8, <1>10, <2>1
  <2> HIDE DEF c, sent
  <2> QED BY <2>2 DEF Indexes
<1> HIDE DEF c, d, sent
<1>12. Indexes(all) = Indexes(c) \cup Indexes(buffer')
  <2>1. Indexes(c \o d) = Indexes(c) \cup Indexes(d)
    BY <1>9, SplitAudio
  <2>2. Indexes(sent \o buffer') = Indexes(sent) \cup Indexes(buffer')
    BY <1>10, SplitAudio
  <2> QED BY <1>9, <1>10, <1>11, <2>1, <2>2, ZenonT(30)
<1>13. Indexes(Waiting) = Indexes(all) \cup Indexes(inside')
  <2>1. Indexes(all \o r.inside) = Indexes(all) \cup Indexes(r.inside)
    BY <1>4, SplitAudio, ZenonT(30)
  <2> QED BY <1>4, <1>7, <2>1
<1>14. Indexes(Waiting') = Indexes(buffer') \cup Indexes(inside')
  <2>1. inside' \in Seq(UnitOf(pipes)) /\ buffer' \in Seq(UnitOf(pipes))
    BY <1>4, <1>7, <1>10
  <2>2. Indexes(buffer' \o inside') = Indexes(buffer') \cup Indexes(inside')
    BY <2>1, SplitAudio
  <2>3. Waiting' = buffer' \o inside'
    BY <1>5, <2>1, ConcatProperties, ConcatEmptySeq DEF Waiting
  <2> QED BY <2>2, <2>3
<1>15. /\ NumbersFollow' /\ frames' \in Frames
       /\ \A k \in 1..Len(frames') : frames'[k].pipe <= pipes
  BY <1>8, <1>7, <1>9, NumbersGoOn
<1>16. NumberOK' /\ sequence' \in 0..SequenceModulus - 1
  BY <1>5, <1>8, <1>7, <1>9, NumberMoves
<1>17. AudioOK'
  <2>1. <<>> \in Seq(UnitOf(pipes))
    OBVIOUS
  <2>2. Unsent(frames') \subseteq dropped'
    BY <1>7, <1>9 DEF AInv, AudioOK
  <2> QED BY <1>4, <1>5, <1>7, <1>10, <1>15, <1>16, <2>1, <2>2 DEF AInv, AudioOK
<1>18. AudioInOrder'
  <2>1. IndexesIn(frames') \cup Indexes(Waiting') \cup dropped' = 1..captured'
    BY <1>5, <1>7, <1>9, <1>12, <1>13, <1>14 DEF AInv, AudioInOrder
  <2> QED BY <1>5, <1>9, <2>1 DEF AudioInOrder
<1> QED BY <1>15, <1>16, <1>17, <1>18 DEF AInv

-----------------------------------------------------------------------------
LEMMA InitAInv == CaptureInit => AInv
<1> SUFFICES ASSUME CaptureInit PROVE AInv
  OBVIOUS
<1>1. AudioOK
  <2>1. sequence \in 0..SequenceModulus - 1
    BY Sizes, ModIsSmall DEF CaptureInit
  <2>2. <<>> \in Seq(UnitOf(pipes)) /\ <<>> \in Frames /\ Len(<<>>) = 0
    BY DEF Frames
  <2> QED BY <2>1, <2>2 DEF CaptureInit, AudioOK, Unsent
<1>2. NumberOK /\ NumbersFollow
  BY DEF CaptureInit, NumberOK, NumbersFollow
<1>3. AudioInOrder
  <2>1. Waiting = <<>>
    BY DEF CaptureInit, Waiting
  <2> QED BY <2>1 DEF CaptureInit, AudioInOrder, InOrder, IndexesIn, Indexes, Increasing
<1> QED BY <1>1, <1>2, <1>3 DEF AInv

LEMMA NextAInv == IInv /\ AInv /\ [CaptureNext]_vars => AInv'
<1> SUFFICES ASSUME IInv, AInv, [CaptureNext]_vars PROVE AInv'
  OBVIOUS
<1>1. /\ running \in Ticking \cup {"loop", "error"} /\ depth \in Nat
      /\ running = "pipe" => pipe = "alive"
      /\ encoders \in SUBSET Compression
  BY DEF IInv, ControlOK, TimerOK, AInv, AudioOK, Ticking
<1> USE DEF Runs, thread, made
<1>2. CASE StartCapture
  BY <1>2, Start
<1>3. CASE StopCapture
  BY <1>3, Destroy DEF StopCapture
<1>4. CASE HandleError
  BY <1>4, Destroy DEF HandleError
<1>5. CASE StartFails \/ HandleTimer \/ PollPacket \/ ReleaseBuffer \/ ResumeAfterSilence
           \/ AwaitTimer
  BY <1>1, <1>5, SameAudio
  DEF StartFails, HandleTimer, PollPacket, ReleaseBuffer, ResumeAfterSilence, AwaitTimer
<1>6. CASE Expire \/ HandleStale \/ SetMuted \/ RemoveAll \/ Record \/ TimerFails
           \/ UNCHANGED vars
  BY <1>6, SamePlace
  DEF Expire, HandleStale, SetMuted, RemoveAll, Record, TimerFails, vars
<1>7. ASSUME NEW infos \in SUBSET Compression, ClientsChange(infos) \/ EncoderFails(infos)
      PROVE  AInv'
  BY <1>7, SamePlace DEF ClientsChange, EncoderFails
<1>8. CASE PollSilence
  <2>1. CASE silent' >= BufferDuration
    BY <1>8, <2>1, Captured DEF PollSilence
  <2>2. CASE ~(silent' >= BufferDuration)
    BY <1>1, <1>8, <2>2, SameAudio DEF PollSilence
  <2> QED BY <2>1, <2>2
<1>9. ASSUME NEW size \in PacketSize, GetBuffer(size) PROVE AInv'
  BY <1>9, Sizes, Captured DEF GetBuffer
<1>10. CASE DeviceFails
  <2>1. pcm = <<>> /\ pcm' = <<>>
    BY <1>10 DEF DeviceFails, Throw, AInv, AudioOK
  <2> QED BY <1>10, <2>1, SameAudio DEF DeviceFails, Throw, audio
<1>11. CASE SkipAudio
  BY <1>11, Skip DEF SkipAudio, ResumeCapture
<1>12. CASE SendAudio
  BY <1>1, <1>12, Send DEF SendAudio
<1>13. CASE ResamplerFails
  BY <1>13, LoseSome DEF ResamplerFails
<1>14. CASE EncodeFails
  BY <1>1, <1>14, SendSome DEF EncodeFails
<1> QED
  BY <1>2, <1>3, <1>4, <1>5, <1>6, <1>7, <1>8, <1>9, <1>10, <1>11, <1>12, <1>13, <1>14
  DEF CaptureNext, Ended

LEMMA AudioInvariance == CaptureSpec => [](IInv /\ AInv)
<1>1. CaptureInit => IInv /\ AInv
  BY InitIInv, InitAInv
<1>2. (IInv /\ AInv) /\ [CaptureNext]_vars => (IInv /\ AInv)'
  BY NextIInv, NextAInv
<1> QED BY <1>1, <1>2, PTL DEF CaptureSpec

-----------------------------------------------------------------------------
\* All audio is sent once and in order, or waits, or was given up, for any
\* sizes of frames and packets and however packets are processed on top of
\* each other.
THEOREM OrderKept == CaptureSpec => []AudioInOrder
<1>1. AInv => AudioInOrder
  BY DEF AInv
<1> QED BY AudioInvariance, <1>1, PTL

\* Every frame is whole and of one device.
THEOREM FramesWhole == CaptureSpec => []FramesOfOnePipe
<1>1. AInv => FramesOfOnePipe
  <2> SUFFICES ASSUME AInv, NEW k \in 1..Len(frames)
               PROVE  /\ Len(frames[k].audio) = FrameSize
                      /\ \A i \in 1..FrameSize : frames[k].audio[i].pipe = frames[k].pipe
    BY DEF FramesOfOnePipe
  <2>1. /\ Len(frames[k].audio) = FrameSize
        /\ frames[k].audio \in Seq(UnitOf(frames[k].pipe))
    BY FramesSent DEF AInv, AudioOK
  <2> QED BY <2>1, UnitsHaveIndexes
<1> QED BY AudioInvariance, <1>1, PTL

\* The numbers count the frames cut, also those that no packet is made of and
\* those of the next pipe, for any number of values they have.
THEOREM NumbersGoOnAlways == CaptureSpec => []NumbersFollow
<1>1. AInv => NumbersFollow
  BY DEF AInv
<1> QED BY AudioInvariance, <1>1, PTL
=============================================================================
