----------------------------- MODULE App_proofs -----------------------------
(***************************************************************************)
(* The two threads, for any devices, any clients and any number of posted  *)
(* handlers, with or without suspend events.                               *)
(*                                                                         *)
(* What the threads promise between handlers says nothing of the middle of *)
(* one.  IInv says for each place of the io thread what has become of the  *)
(* pipe and its listener (PipeOK), which device is on its way              *)
(* (SelectionOK) and what the UI thread still has to tell the pipe         *)
(* (MuteOK).                                                               *)
(***************************************************************************)
EXTENDS App, SequenceTheorems, FiniteSetTheorems, TLAPS

\* The list of listeners without and with the pipe.
Without == <<"server", "window">>
With == <<"pipe", "server", "window">>

\* The places of the io thread with no pipe, with a pipe nobody tells of the
\* clients, and with one that is registered.
NoPipeYet == {"construct", "assign", "halted"}
Unregistered == {"reset", "register"}
Registered == {"tell", "start"}

ControlOK ==
  /\ status # "fatal"
  /\ dangling => UiHoldsPipe
  /\ ui = "ended" => io = "halted"
  /\ mutex = "ui" <=> ui = "notify"
  /\ mutex = "io" <=> io = "notify"
  /\ io \in {"construct", "assign"} => job.op = "start"

\* The pipe and its listener go together, but for the places between.
PipeOK ==
  /\ io \in NoPipeYet => capturePipe = NoPipe /\ listeners = Without
  /\ io \in Unregistered => capturePipe # NoPipe /\ listeners = Without
  /\ io \in Registered => capturePipe # NoPipe /\ listeners = With
  /\ io \notin NoPipeYet \cup Unregistered \cup Registered =>
       listeners = IF capturePipe = NoPipe THEN Without ELSE With

\* The last handler posted is for the device last selected; with none left to
\* run it is the one that runs, or ran.
SelectionOK ==
  /\ posted # <<>> => Last(posted).op = "shutdown" \/ Last(posted).device = target
  /\ posted = <<>> =>
       /\ io \in {"stopCapture", "reset", "construct", "assign"} /\ job.op = "start" =>
            job.device = target
       /\ io \notin {"stopCapture", "reset"} /\ capturePipe # NoPipe =>
            capturePipe.device = target

\* A pipe that the UI thread need not tell any more has what the button says.
MuteOK ==
  /\ io = "assign" /\ ~missedMute /\ ui # "muteCheck" => newMuted = muted
  /\ capturePipe # NoPipe /\ ~missedMute /\ ui # "muteCheck"
       /\ (ui = "muteUse" => dangling) =>
       capturePipe.muted = muted

IInv == AppTypeOK /\ ControlOK /\ PipeOK /\ SelectionOK /\ MuteOK

-----------------------------------------------------------------------------
(* Records and lists.                                                       *)

LEMMA PipesAreRecords ==
  /\ \A d \in Device, m \in BOOLEAN :
       /\ [device |-> d, muted |-> m] \in Pipe
       /\ [device |-> d, muted |-> m] # NoPipe
       /\ [device |-> d, muted |-> m].device = d
       /\ [device |-> d, muted |-> m].muted = m
  /\ \A p \in Pipe, m \in BOOLEAN :
       /\ [p EXCEPT !.muted = m] \in Pipe
       /\ [p EXCEPT !.muted = m] # NoPipe
       /\ [p EXCEPT !.muted = m].device = p.device
       /\ [p EXCEPT !.muted = m].muted = m
<1>1. ASSUME NEW d \in Device, NEW m \in BOOLEAN
      PROVE  /\ [device |-> d, muted |-> m] \in Pipe
             /\ [device |-> d, muted |-> m].device = d
             /\ [device |-> d, muted |-> m].muted = m
  BY DEF Pipe
<1>2. ASSUME NEW p \in Pipe, NEW m \in BOOLEAN
      PROVE  /\ [p EXCEPT !.muted = m] \in Pipe
             /\ [p EXCEPT !.muted = m].device = p.device
             /\ [p EXCEPT !.muted = m].muted = m
  BY DEF Pipe
<1> QED BY <1>1, <1>2, NoPipeAssumption

LEMMA Lists ==
  /\ With \in Seq(ListenerName) /\ Without \in Seq(ListenerName)
  /\ <<"pipe">> \o Without = With
  /\ RemoveAt(With, 1) = Without
  /\ ~Contains(Without, "pipe")
<1>1. With \in Seq(ListenerName) /\ Without \in Seq(ListenerName)
  BY DEF With, Without, ListenerName
<1>2. <<"pipe">> \o Without = With
  <2> DEFINE first == <<"pipe">>
             all == first \o Without
  <2>1. first \in Seq(ListenerName) /\ Len(first) = 1 /\ first[1] = "pipe"
    BY DEF ListenerName
  <2>2. Len(Without) = 2 /\ Without[1] = "server" /\ Without[2] = "window"
    BY DEF Without
  <2>3. Len(With) = 3 /\ With[1] = "pipe" /\ With[2] = "server" /\ With[3] = "window"
    BY DEF With
  <2> HIDE DEF first
  <2>4. /\ all \in Seq(ListenerName) /\ Len(all) = Len(first) + Len(Without)
        /\ \A i \in 1..Len(first) + Len(Without) :
             all[i] = IF i <= Len(first) THEN first[i] ELSE Without[i - Len(first)]
    BY <1>1, <2>1, ConcatProperties
  <2> HIDE DEF all
  <2>5. Len(all) = 3 /\ all[1] = "pipe" /\ all[2] = "server" /\ all[3] = "window"
    BY <2>1, <2>2, <2>4
  <2>6. \A i \in 1..Len(all) : all[i] = With[i]
    BY <2>3, <2>5
  <2>7. all = With
    BY <1>1, <2>3, <2>4, <2>5, <2>6, SeqEqual
  <2> QED BY <2>7 DEF all, first
<1>3. RemoveAt(With, 1) = Without
  <2>1. SubSeq(With, 1, 0) = <<>>
    BY SubSeqEmpty
  <2>2. /\ SubSeq(With, 2, 3) \in Seq(ListenerName) /\ Len(SubSeq(With, 2, 3)) = 2
        /\ SubSeq(With, 2, 3)[1] = "server" /\ SubSeq(With, 2, 3)[2] = "window"
    <3>1. \A i \in 2..3 : With[i] \in ListenerName
      BY DEF With, ListenerName
    <3>2. /\ SubSeq(With, 2, 3) \in Seq(ListenerName)
          /\ Len(SubSeq(With, 2, 3)) = IF 2 <= 3 THEN 3 - 2 + 1 ELSE 0
          /\ \A i \in 1..3 - 2 + 1 : SubSeq(With, 2, 3)[i] = With[2 + i - 1]
      BY <3>1, SubSeqProperties
    <3>3. With[2] = "server" /\ With[3] = "window"
      BY DEF With
    <3>4. SubSeq(With, 2, 3)[1] = With[2] /\ SubSeq(With, 2, 3)[2] = With[3]
      BY <3>2
    <3> QED BY <3>2, <3>3, <3>4
  <2>3. SubSeq(With, 2, 3) = Without
    <3>1. Len(Without) = 2 /\ Without[1] = "server" /\ Without[2] = "window"
      BY DEF Without
    <3>2. \A i \in 1..Len(SubSeq(With, 2, 3)) : SubSeq(With, 2, 3)[i] = Without[i]
      BY <2>2, <3>1
    <3> QED BY <1>1, <2>2, <3>1, <3>2, SeqEqual
  <2>4. Len(With) = 3
    BY DEF With
  <2>5. RemoveAt(With, 1) = SubSeq(With, 1, 0) \o SubSeq(With, 2, 3)
    BY <2>4 DEF RemoveAt
  <2>6. <<>> \o Without = Without
    BY <1>1, ConcatEmptySeq
  <2> QED BY <2>1, <2>3, <2>5, <2>6
<1>4. ~Contains(Without, "pipe")
  BY DEF Contains, Without
<1> QED BY <1>1, <1>2, <1>3, <1>4

LEMMA Places ==
  /\ listeners = With => PipePlaces = {1} /\ Cardinality(PipePlaces) = 1
  /\ listeners = Without => PipePlaces = {} /\ Cardinality(PipePlaces) = 0
<1>1. listeners = With => PipePlaces = {1}
  BY DEF PipePlaces, With
<1>2. listeners = Without => PipePlaces = {}
  BY DEF PipePlaces, Without
<1> QED BY <1>1, <1>2, FS_EmptySet, FS_Singleton

LEMMA Posting ==
  ASSUME NEW h \in Handler, posted \in Seq(Handler), Post(h)
  PROVE  posted' \in Seq(Handler) /\ posted' # <<>> /\ Last(posted') = h
<1>1. posted' \in Seq(Handler) /\ Len(posted') = Len(posted) + 1
      /\ Len(posted) \in Nat /\ posted'[Len(posted) + 1] = h
  BY DEF Post
<1>2. Last(posted') = h
  BY <1>1 DEF Last
<1>3. posted' # <<>>
  BY <1>1
<1> QED BY <1>1, <1>2, <1>3

LEMMA Taking ==
  ASSUME posted \in Seq(Handler), posted # <<>>
  PROVE  /\ Head(posted) \in Handler /\ Tail(posted) \in Seq(Handler)
         /\ Tail(posted) # <<>> => Last(Tail(posted)) = Last(posted)
         /\ Tail(posted) = <<>> => Last(posted) = Head(posted)
<1>1. /\ Head(posted) \in Handler /\ Tail(posted) \in Seq(Handler)
      /\ Len(Tail(posted)) = Len(posted) - 1
      /\ \A i \in 1..Len(Tail(posted)) : Tail(posted)[i] = posted[i + 1]
  BY HeadTailProperties
<1>2. Len(posted) \in Nat /\ Len(posted) > 0
  BY EmptySeq
<1>3. ASSUME Tail(posted) # <<>> PROVE Last(Tail(posted)) = Last(posted)
  <2>1. Len(posted) - 1 \in 1..Len(Tail(posted))
    BY <1>1, <1>2, <1>3, EmptySeq
  <2>2. Tail(posted)[Len(posted) - 1] = posted[Len(posted)]
    BY <1>1, <1>2, <2>1
  <2> QED BY <1>1, <2>2 DEF Last
<1>4. ASSUME Tail(posted) = <<>> PROVE Last(posted) = Head(posted)
  <2>1. Len(Tail(posted)) = 0
    BY <1>1, <1>4, EmptySeq
  <2>2. Len(posted) = 1
    <3>1. Len(posted) - 1 = 0
      BY <1>1, <2>1, Zenon
    <3> QED BY <1>2, <3>1
  <2> QED BY <2>2 DEF Last
<1> QED BY <1>1, <1>3, <1>4

-----------------------------------------------------------------------------
LEMMA NextIInv == IInv /\ [AppNext]_vars => IInv'
<1> SUFFICES ASSUME IInv, [AppNext]_vars PROVE IInv'
  OBVIOUS
<1> USE DEF threads, capture, registry, window
<1>1. ASSUME NEW d \in Device, SelectDevice(d) PROVE IInv'
  <2>1. AppTypeOK'
    <3>1. [op |-> "start", device |-> d] \in Handler
      BY DEF Handler
    <3>2. Post([op |-> "start", device |-> d])
      BY <1>1 DEF SelectDevice
    <3>3. posted' \in Seq(Handler)
      BY <3>1, <3>2, Posting DEF IInv, AppTypeOK
    <3> QED BY <1>1, <3>3 DEF SelectDevice, UiTakes, UiAt, IInv, AppTypeOK
  <2>2. ControlOK'
    BY <1>1 DEF SelectDevice, Post, UiTakes, UiAt, IInv, ControlOK, UiHoldsPipe
  <2>3. PipeOK'
    BY <1>1 DEF SelectDevice, Post, UiTakes, UiAt, IInv, PipeOK, NoPipeYet,
      Unregistered, Registered
  <2>4. SelectionOK'
    <3>1. [op |-> "start", device |-> d] \in Handler
      BY DEF Handler
    <3>2. Post([op |-> "start", device |-> d])
      BY <1>1 DEF SelectDevice
    <3>3. posted' # <<>> /\ Last(posted') = [op |-> "start", device |-> d]
      BY <3>1, <3>2, Posting DEF IInv, AppTypeOK
    <3> QED BY <1>1, <3>3 DEF SelectDevice, SelectionOK
  <2>5. MuteOK'
    BY <1>1 DEF SelectDevice, Post, UiTakes, UiAt, IInv, MuteOK
  <2> QED BY <2>1, <2>2, <2>3, <2>4, <2>5 DEF IInv
<1>2. CASE LoseDevice
  <2>1. AppTypeOK'
    <3>1. [op |-> "stop", device |-> NoDevice] \in Handler
      BY DEF Handler
    <3>2. Post([op |-> "stop", device |-> NoDevice])
      BY <1>2 DEF LoseDevice
    <3>3. posted' \in Seq(Handler)
      BY <3>1, <3>2, Posting DEF IInv, AppTypeOK
    <3> QED BY <1>2, <3>3, ZenonT(30) DEF LoseDevice, UiTakes, UiAt, IInv, AppTypeOK
  <2>2. ControlOK'
    BY <1>2 DEF LoseDevice, Post, UiTakes, UiAt, IInv, ControlOK, UiHoldsPipe
  <2>3. PipeOK'
    BY <1>2 DEF LoseDevice, Post, UiTakes, UiAt, IInv, PipeOK, NoPipeYet,
      Unregistered, Registered
  <2>4. SelectionOK'
    <3>1. [op |-> "stop", device |-> NoDevice] \in Handler
      BY DEF Handler
    <3>2. Post([op |-> "stop", device |-> NoDevice])
      BY <1>2 DEF LoseDevice
    <3>3. posted' # <<>> /\ Last(posted') = [op |-> "stop", device |-> NoDevice]
      BY <3>1, <3>2, Posting DEF IInv, AppTypeOK
    <3> QED BY <1>2, <3>3 DEF LoseDevice, SelectionOK
  <2>5. MuteOK'
    BY <1>2 DEF LoseDevice, Post, UiTakes, UiAt, IInv, MuteOK
  <2> QED BY <2>1, <2>2, <2>3, <2>4, <2>5 DEF IInv
<1>3. CASE ClickMute
  <2>1. AppTypeOK'
    BY <1>3, SMTT(30) DEF ClickMute, UiTakes, UiAt, IInv, AppTypeOK
  <2>2. ControlOK'
    BY <1>3 DEF ClickMute, UiTakes, UiAt, IInv, ControlOK, UiHoldsPipe
  <2>3. PipeOK'
    BY <1>3 DEF ClickMute, UiTakes, UiAt, IInv, PipeOK, NoPipeYet, Unregistered,
      Registered
  <2>4. SelectionOK'
    BY <1>3 DEF ClickMute, UiTakes, UiAt, IInv, SelectionOK
  <2>5. MuteOK'
    BY <1>3 DEF ClickMute, UiTakes, UiAt, IInv, MuteOK
  <2> QED BY <2>1, <2>2, <2>3, <2>4, <2>5 DEF IInv
<1>4. CASE TickMeter
  <2>1. AppTypeOK'
    BY <1>4, SMTT(30) DEF TickMeter, UiTakes, UiAt, IInv, AppTypeOK
  <2>2. ControlOK'
    BY <1>4 DEF TickMeter, UiTakes, UiAt, IInv, ControlOK, UiHoldsPipe
  <2>3. PipeOK'
    BY <1>4 DEF TickMeter, UiTakes, UiAt, IInv, PipeOK, NoPipeYet, Unregistered,
      Registered
  <2>4. SelectionOK'
    BY <1>4 DEF TickMeter, UiTakes, UiAt, IInv, SelectionOK
  <2>5. MuteOK'
    BY <1>4 DEF TickMeter, UiTakes, UiAt, IInv, MuteOK
  <2> QED BY <2>1, <2>2, <2>3, <2>4, <2>5 DEF IInv
<1>5. CASE Suspend
  <2>1. AppTypeOK'
    BY <1>5, SMTT(30) DEF Suspend, UiTakes, UiAt, IInv, AppTypeOK
  <2>2. ControlOK'
    BY <1>5 DEF Suspend, UiTakes, UiAt, IInv, ControlOK, UiHoldsPipe
  <2>3. PipeOK'
    BY <1>5 DEF Suspend, UiTakes, UiAt, IInv, PipeOK, NoPipeYet, Unregistered,
      Registered
  <2>4. SelectionOK'
    BY <1>5 DEF Suspend, UiTakes, UiAt, IInv, SelectionOK
  <2>5. MuteOK'
    BY <1>5 DEF Suspend, UiTakes, UiAt, IInv, MuteOK
  <2> QED BY <2>1, <2>2, <2>3, <2>4, <2>5 DEF IInv
<1>6. CASE Close
  <2>1. AppTypeOK'
    <3>1. [op |-> "shutdown", device |-> NoDevice] \in Handler
      BY DEF Handler
    <3>2. Post([op |-> "shutdown", device |-> NoDevice])
      BY <1>6 DEF Close
    <3>3. posted' \in Seq(Handler)
      BY <3>1, <3>2, Posting DEF IInv, AppTypeOK
    <3> QED BY <1>6, <3>3 DEF Close, UiTakes, UiAt, IInv, AppTypeOK
  <2>2. ControlOK'
    BY <1>6 DEF Close, Post, UiTakes, UiAt, IInv, ControlOK, UiHoldsPipe
  <2>3. PipeOK'
    BY <1>6 DEF Close, Post, UiTakes, UiAt, IInv, PipeOK, NoPipeYet, Unregistered,
      Registered
  <2>4. SelectionOK'
    <3>1. [op |-> "shutdown", device |-> NoDevice] \in Handler
      BY DEF Handler
    <3>2. Post([op |-> "shutdown", device |-> NoDevice])
      BY <1>6 DEF Close
    <3>3. posted' # <<>> /\ Last(posted') = [op |-> "shutdown", device |-> NoDevice]
      BY <3>1, <3>2, Posting DEF IInv, AppTypeOK
    <3> QED BY <1>6, <3>3 DEF Close, SelectionOK
  <2>5. MuteOK'
    BY <1>6 DEF Close, Post, UiTakes, UiAt, IInv, MuteOK
  <2> QED BY <2>1, <2>2, <2>3, <2>4, <2>5 DEF IInv
<1>7. CASE CheckMute
  <2>1. AppTypeOK'
    BY <1>7, SMTT(30) DEF CheckMute, UiAt, IInv, AppTypeOK
  <2>2. ControlOK'
    BY <1>7 DEF CheckMute, UiAt, IInv, ControlOK, UiHoldsPipe
  <2>3. PipeOK'
    BY <1>7 DEF CheckMute, UiAt, IInv, PipeOK, NoPipeYet, Unregistered, Registered
  <2>4. SelectionOK'
    BY <1>7 DEF CheckMute, UiAt, IInv, SelectionOK
  <2>5. MuteOK'
    <3>1. ~dangling
      BY <1>7 DEF CheckMute, UiAt, IInv, ControlOK, UiHoldsPipe
    <3>2. io = "assign" => missedMute'
      BY <1>7 DEF CheckMute
    <3>3. /\ capturePipe # NoPipe => ui' = "muteUse"
          /\ UNCHANGED <<io, capturePipe, dangling, muted, newMuted>>
      BY <1>7 DEF CheckMute, UiAt
    <3> QED BY <3>1, <3>2, <3>3, Zenon DEF MuteOK
  <2> QED BY <2>1, <2>2, <2>3, <2>4, <2>5 DEF IInv
<1>8. CASE UseMute
  <2>1. AppTypeOK'
    <3>1. /\ status' \in {"alive", "crashed"} /\ ui' = "loop" /\ dangling' = FALSE
          /\ capturePipe' \in Pipe \cup {NoPipe}
      <4>1. CASE /\ capturePipe # NoPipe
                 /\ capturePipe' = [capturePipe EXCEPT !.muted = muted]
                 /\ status' = status
        BY <1>8, <4>1, PipesAreRecords DEF UseMute, IInv, AppTypeOK
      <4>2. CASE status' \in {"alive", "crashed"} /\ capturePipe' = capturePipe
        BY <1>8, <4>2 DEF UseMute, IInv, AppTypeOK
      <4> QED BY <1>8, <4>1, <4>2 DEF UseMute
    <3>2. UNCHANGED <<io, job, posted, muted, newMuted, missedMute, newInfos, mutex,
                      clients, listeners, calls, heard, meter, target>>
      BY <1>8 DEF UseMute
    <3>3. AppTypeOK
      BY DEF IInv
    <3>4. status' \in {"alive", "fatal", "crashed"} /\ dangling' \in BOOLEAN
          /\ ui' \in {"loop", "muteCheck", "muteUse", "meterUse", "lock", "notify",
                     "joining", "ended"}
      BY <3>1
    <3> QED BY <3>1, <3>2, <3>3, <3>4, ZenonT(30) DEF AppTypeOK
  <2>2. ControlOK'
    BY <1>8 DEF UseMute, IInv, ControlOK, UiHoldsPipe
  <2>3. PipeOK'
    <3>1. \/ /\ capturePipe # NoPipe /\ capturePipe' # NoPipe
             /\ capturePipe'.device = capturePipe.device
          \/ capturePipe' = capturePipe
      <4>1. CASE capturePipe # NoPipe /\ capturePipe' = [capturePipe EXCEPT !.muted = muted]
        <5>1. capturePipe \in Pipe /\ muted \in BOOLEAN
          BY <4>1 DEF IInv, AppTypeOK
        <5> QED BY <4>1, <5>1, PipesAreRecords
      <4>2. CASE capturePipe' = capturePipe
        BY <4>2
      <4> QED BY <1>8, <4>1, <4>2 DEF UseMute
    <3>2. UNCHANGED <<io, posted, job, target, listeners>>
      BY <1>8 DEF UseMute
    <3> QED BY <3>1, <3>2 DEF IInv, PipeOK
  <2>4. SelectionOK'
    <3>1. \/ /\ capturePipe # NoPipe /\ capturePipe' # NoPipe
             /\ capturePipe'.device = capturePipe.device
          \/ capturePipe' = capturePipe
      <4>1. CASE capturePipe # NoPipe /\ capturePipe' = [capturePipe EXCEPT !.muted = muted]
        <5>1. capturePipe \in Pipe /\ muted \in BOOLEAN
          BY <4>1 DEF IInv, AppTypeOK
        <5> QED BY <4>1, <5>1, PipesAreRecords
      <4>2. CASE capturePipe' = capturePipe
        BY <4>2
      <4> QED BY <1>8, <4>1, <4>2 DEF UseMute
    <3>2. UNCHANGED <<io, posted, job, target, listeners>>
      BY <1>8 DEF UseMute
    <3> QED BY <3>1, <3>2 DEF IInv, SelectionOK
  <2>5. MuteOK'
    <3>1. /\ ui = "muteUse" /\ ui' = "loop"
          /\ UNCHANGED <<io, muted, newMuted, missedMute>>
      BY <1>8 DEF UseMute
    <3>2. io = "assign" /\ ~missedMute => newMuted = muted
      BY <3>1 DEF IInv, MuteOK
    <3>3. CASE capturePipe # NoPipe /\ capturePipe' = [capturePipe EXCEPT !.muted = muted]
      <4>1. capturePipe \in Pipe /\ muted \in BOOLEAN
        BY <3>3 DEF IInv, AppTypeOK
      <4>2. capturePipe'.muted = muted
        BY <3>3, <4>1, PipesAreRecords
      <4> QED BY <3>1, <3>2, <4>2, Zenon DEF MuteOK
    <3>4. CASE dangling /\ capturePipe' = capturePipe
      <4>1. capturePipe # NoPipe /\ ~missedMute => capturePipe.muted = muted
        BY <3>1, <3>4 DEF IInv, MuteOK
      <4> QED BY <3>1, <3>2, <3>4, <4>1, Zenon DEF MuteOK
    <3> QED BY <1>8, <3>3, <3>4 DEF UseMute
  <2> QED BY <2>1, <2>2, <2>3, <2>4, <2>5 DEF IInv
<1>9. CASE ReadMeter
  <2>1. AppTypeOK'
    <3>1. status' \in {"alive", "crashed"} /\ dangling' \in BOOLEAN
      BY <1>9 DEF ReadMeter
    <3> QED BY <1>9, <3>1 DEF ReadMeter, IInv, AppTypeOK
  <2>2. ControlOK'
    BY <1>9 DEF ReadMeter, IInv, ControlOK, UiHoldsPipe
  <2>3. PipeOK'
    BY <1>9 DEF ReadMeter, IInv, PipeOK, NoPipeYet, Unregistered, Registered
  <2>4. SelectionOK'
    BY <1>9 DEF ReadMeter, IInv, SelectionOK
  <2>5. MuteOK'
    BY <1>9 DEF ReadMeter, IInv, MuteOK
  <2> QED BY <2>1, <2>2, <2>3, <2>4, <2>5 DEF IInv
<1>10. CASE LockAndRemoveAll
  <2>1. AppTypeOK'
    BY <1>10, SMTT(30) DEF LockAndRemoveAll, UiAt, IInv, AppTypeOK
  <2>2. ControlOK'
    BY <1>10 DEF LockAndRemoveAll, UiAt, IInv, ControlOK, UiHoldsPipe
  <2>3. PipeOK'
    BY <1>10 DEF LockAndRemoveAll, UiAt, IInv, PipeOK, NoPipeYet, Unregistered,
      Registered
  <2>4. SelectionOK'
    BY <1>10 DEF LockAndRemoveAll, UiAt, IInv, SelectionOK
  <2>5. MuteOK'
    BY <1>10 DEF LockAndRemoveAll, UiAt, IInv, MuteOK
  <2> QED BY <2>1, <2>2, <2>3, <2>4, <2>5 DEF IInv
<1>11. CASE NotifyFromUi
  <2>1. AppTypeOK'
    <3>1. status' \in {"alive", "crashed"}
      BY <1>11 DEF NotifyFromUi
    <3>2. Head(calls) \in ListenerName /\ Tail(calls) \in Seq(ListenerName)
      BY <1>11, HeadTailProperties DEF NotifyFromUi, IInv, AppTypeOK
    <3>3. heard' \in [ListenerName -> SUBSET ClientId]
      BY <1>11, <3>2 DEF NotifyFromUi, IInv, AppTypeOK
    <3>4. calls' \in Seq(ListenerName)
      BY <1>11, <3>2 DEF NotifyFromUi
    <3> QED BY <1>11, <3>1, <3>3, <3>4 DEF NotifyFromUi, IInv, AppTypeOK
  <2>2. ControlOK'
    BY <1>11 DEF NotifyFromUi, IInv, ControlOK, UiHoldsPipe
  <2>3. PipeOK'
    BY <1>11 DEF NotifyFromUi, IInv, PipeOK, NoPipeYet, Unregistered, Registered
  <2>4. SelectionOK'
    BY <1>11 DEF NotifyFromUi, IInv, SelectionOK
  <2>5. MuteOK'
    BY <1>11 DEF NotifyFromUi, IInv, MuteOK
  <2> QED BY <2>1, <2>2, <2>3, <2>4, <2>5 DEF IInv
<1>12. CASE UnlockUi
  <2>1. AppTypeOK'
    BY <1>12, SMTT(30) DEF UnlockUi, UiAt, IInv, AppTypeOK
  <2>2. ControlOK'
    BY <1>12 DEF UnlockUi, UiAt, IInv, ControlOK, UiHoldsPipe
  <2>3. PipeOK'
    BY <1>12 DEF UnlockUi, UiAt, IInv, PipeOK, NoPipeYet, Unregistered, Registered
  <2>4. SelectionOK'
    BY <1>12 DEF UnlockUi, UiAt, IInv, SelectionOK
  <2>5. MuteOK'
    BY <1>12 DEF UnlockUi, UiAt, IInv, MuteOK
  <2> QED BY <2>1, <2>2, <2>3, <2>4, <2>5 DEF IInv
<1>13. CASE Join
  <2>1. AppTypeOK'
    BY <1>13, SMTT(30) DEF Join, UiAt, IInv, AppTypeOK
  <2>2. ControlOK'
    BY <1>13 DEF Join, UiAt, IInv, ControlOK, UiHoldsPipe
  <2>3. PipeOK'
    BY <1>13 DEF Join, UiAt, IInv, PipeOK, NoPipeYet, Unregistered, Registered
  <2>4. SelectionOK'
    BY <1>13 DEF Join, UiAt, IInv, SelectionOK
  <2>5. MuteOK'
    BY <1>13 DEF Join, UiAt, IInv, MuteOK
  <2> QED BY <2>1, <2>2, <2>3, <2>4, <2>5 DEF IInv
<1>14. CASE TakePosted
  <2>1. AppTypeOK'
    BY <1>14, SMTT(30) DEF TakePosted, IoAt, IInv, AppTypeOK
  <2>2. ControlOK'
    BY <1>14 DEF TakePosted, IoAt, IInv, ControlOK, UiHoldsPipe
  <2>3. PipeOK'
    BY <1>14 DEF TakePosted, IoAt, IInv, PipeOK, NoPipeYet, Unregistered, Registered
  <2>4. SelectionOK'
    <3>1. /\ posted # <<>> /\ posted \in Seq(Handler)
          /\ posted' = Tail(posted) /\ job' = Head(posted) /\ io' = "stopCapture"
          /\ UNCHANGED <<capturePipe, target>>
      BY <1>14 DEF TakePosted, IoAt, IInv, AppTypeOK
    <3>2. /\ Tail(posted) # <<>> => Last(Tail(posted)) = Last(posted)
          /\ Tail(posted) = <<>> => Last(posted) = Head(posted)
      BY <3>1, Taking
    <3>3. Last(posted).op = "shutdown" \/ Last(posted).device = target
      BY <3>1 DEF IInv, SelectionOK
    <3>4. CASE Tail(posted) # <<>>
      BY <3>1, <3>2, <3>3, <3>4 DEF SelectionOK
    <3>5. CASE Tail(posted) = <<>>
      <4>1. job'.op = "start" => job'.device = target
        BY <3>1, <3>2, <3>3, <3>5
      <4> QED BY <3>1, <3>5, <4>1 DEF SelectionOK
    <3> QED BY <3>4, <3>5
  <2>5. MuteOK'
    BY <1>14 DEF TakePosted, IoAt, IInv, MuteOK
  <2> QED BY <2>1, <2>2, <2>3, <2>4, <2>5 DEF IInv
<1>15. CASE ChangeClients
  <2>1. AppTypeOK'
    BY <1>15, SMTT(30) DEF ChangeClients, IoAt, IInv, AppTypeOK
  <2>2. ControlOK'
    BY <1>15 DEF ChangeClients, IoAt, IInv, ControlOK, UiHoldsPipe
  <2>3. PipeOK'
    BY <1>15 DEF ChangeClients, IoAt, IInv, PipeOK, NoPipeYet, Unregistered, Registered
  <2>4. SelectionOK'
    BY <1>15 DEF ChangeClients, IoAt, IInv, SelectionOK
  <2>5. MuteOK'
    BY <1>15 DEF ChangeClients, IoAt, IInv, MuteOK
  <2> QED BY <2>1, <2>2, <2>3, <2>4, <2>5 DEF IInv
<1>16. CASE WalkClients
  <2>1. AppTypeOK'
    BY <1>16, SMTT(30) DEF WalkClients, IoAt, IInv, AppTypeOK
  <2>2. ControlOK'
    BY <1>16 DEF WalkClients, IoAt, IInv, ControlOK, UiHoldsPipe
  <2>3. PipeOK'
    BY <1>16 DEF WalkClients, IoAt, IInv, PipeOK, NoPipeYet, Unregistered, Registered
  <2>4. SelectionOK'
    BY <1>16 DEF WalkClients, IoAt, IInv, SelectionOK
  <2>5. MuteOK'
    BY <1>16 DEF WalkClients, IoAt, IInv, MuteOK
  <2> QED BY <2>1, <2>2, <2>3, <2>4, <2>5 DEF IInv
<1>17. CASE ShowKeystroke
  <2>1. AppTypeOK'
    BY <1>17, SMTT(30) DEF ShowKeystroke, IoAt, IInv, AppTypeOK
  <2>2. ControlOK'
    BY <1>17 DEF ShowKeystroke, IoAt, IInv, ControlOK, UiHoldsPipe
  <2>3. PipeOK'
    BY <1>17 DEF ShowKeystroke, IoAt, IInv, PipeOK, NoPipeYet, Unregistered, Registered
  <2>4. SelectionOK'
    BY <1>17 DEF ShowKeystroke, IoAt, IInv, SelectionOK
  <2>5. MuteOK'
    BY <1>17 DEF ShowKeystroke, IoAt, IInv, MuteOK
  <2> QED BY <2>1, <2>2, <2>3, <2>4, <2>5 DEF IInv
<1>18. CASE CaptureFails
  <2>1. AppTypeOK'
    BY <1>18, SMTT(30) DEF CaptureFails, IoAt, IInv, AppTypeOK
  <2>2. ControlOK'
    BY <1>18 DEF CaptureFails, IoAt, IInv, ControlOK, UiHoldsPipe
  <2>3. PipeOK'
    BY <1>18 DEF CaptureFails, IoAt, IInv, PipeOK, NoPipeYet, Unregistered, Registered
  <2>4. SelectionOK'
    BY <1>18 DEF CaptureFails, IoAt, IInv, SelectionOK
  <2>5. MuteOK'
    BY <1>18 DEF CaptureFails, IoAt, IInv, MuteOK
  <2> QED BY <2>1, <2>2, <2>3, <2>4, <2>5 DEF IInv
<1>19. CASE NotifyFromIo
  <2>1. AppTypeOK'
    BY <1>19, SMTT(30) DEF NotifyFromIo, IInv, AppTypeOK
  <2>2. ControlOK'
    BY <1>19 DEF NotifyFromIo, IInv, ControlOK, UiHoldsPipe
  <2>3. PipeOK'
    BY <1>19 DEF NotifyFromIo, IInv, PipeOK, NoPipeYet, Unregistered, Registered
  <2>4. SelectionOK'
    BY <1>19 DEF NotifyFromIo, IInv, SelectionOK
  <2>5. MuteOK'
    BY <1>19 DEF NotifyFromIo, IInv, MuteOK
  <2> QED BY <2>1, <2>2, <2>3, <2>4, <2>5 DEF IInv
<1>20. CASE SetWindowText
  <2>1. AppTypeOK'
    BY <1>20, SMTT(30) DEF SetWindowText, IInv, AppTypeOK
  <2>2. ControlOK'
    BY <1>20 DEF SetWindowText, IInv, ControlOK, UiHoldsPipe
  <2>3. PipeOK'
    BY <1>20 DEF SetWindowText, IInv, PipeOK, NoPipeYet, Unregistered, Registered
  <2>4. SelectionOK'
    BY <1>20 DEF SetWindowText, IInv, SelectionOK
  <2>5. MuteOK'
    BY <1>20 DEF SetWindowText, IInv, MuteOK
  <2> QED BY <2>1, <2>2, <2>3, <2>4, <2>5 DEF IInv
<1>21. CASE UnlockIo
  <2>1. AppTypeOK'
    BY <1>21, SMTT(30) DEF UnlockIo, IoAt, IInv, AppTypeOK
  <2>2. ControlOK'
    BY <1>21 DEF UnlockIo, IoAt, IInv, ControlOK, UiHoldsPipe
  <2>3. PipeOK'
    BY <1>21 DEF UnlockIo, IoAt, IInv, PipeOK, NoPipeYet, Unregistered, Registered
  <2>4. SelectionOK'
    BY <1>21 DEF UnlockIo, IoAt, IInv, SelectionOK
  <2>5. MuteOK'
    BY <1>21 DEF UnlockIo, IoAt, IInv, MuteOK
  <2> QED BY <2>1, <2>2, <2>3, <2>4, <2>5 DEF IInv
<1>22. CASE WalkEnds
  <2>1. AppTypeOK'
    BY <1>22, SMTT(30) DEF WalkEnds, IoAt, IInv, AppTypeOK
  <2>2. ControlOK'
    BY <1>22 DEF WalkEnds, IoAt, IInv, ControlOK, UiHoldsPipe
  <2>3. PipeOK'
    BY <1>22 DEF WalkEnds, IoAt, IInv, PipeOK, NoPipeYet, Unregistered, Registered
  <2>4. SelectionOK'
    BY <1>22 DEF WalkEnds, IoAt, IInv, SelectionOK
  <2>5. MuteOK'
    BY <1>22 DEF WalkEnds, IoAt, IInv, MuteOK
  <2> QED BY <2>1, <2>2, <2>3, <2>4, <2>5 DEF IInv
<1>23. CASE KeystrokeShown
  <2>1. AppTypeOK'
    BY <1>23, SMTT(30) DEF KeystrokeShown, IoAt, IInv, AppTypeOK
  <2>2. ControlOK'
    BY <1>23 DEF KeystrokeShown, IoAt, IInv, ControlOK, UiHoldsPipe
  <2>3. PipeOK'
    BY <1>23 DEF KeystrokeShown, IoAt, IInv, PipeOK, NoPipeYet, Unregistered, Registered
  <2>4. SelectionOK'
    BY <1>23 DEF KeystrokeShown, IoAt, IInv, SelectionOK
  <2>5. MuteOK'
    BY <1>23 DEF KeystrokeShown, IoAt, IInv, MuteOK
  <2> QED BY <2>1, <2>2, <2>3, <2>4, <2>5 DEF IInv
<1>24. CASE DismissError
  <2>1. AppTypeOK'
    <3>1. job' \in Handler
      BY <1>24 DEF DismissError, Handler
    <3> QED BY <1>24, <3>1 DEF DismissError, IoAt, IInv, AppTypeOK
  <2>2. ControlOK'
    BY <1>24 DEF DismissError, IoAt, IInv, ControlOK, UiHoldsPipe
  <2>3. PipeOK'
    BY <1>24 DEF DismissError, IoAt, IInv, PipeOK, NoPipeYet, Unregistered, Registered
  <2>4. SelectionOK'
    BY <1>24 DEF DismissError, IoAt, IInv, SelectionOK
  <2>5. MuteOK'
    BY <1>24 DEF DismissError, IoAt, IInv, MuteOK
  <2> QED BY <2>1, <2>2, <2>3, <2>4, <2>5 DEF IInv
<1>25. CASE NothingToStop
  <2>1. AppTypeOK'
    BY <1>25, SMTT(30) DEF NothingToStop, AfterStop, IoAt, IInv, AppTypeOK
  <2>2. ControlOK'
    BY <1>25 DEF NothingToStop, AfterStop, IoAt, IInv, ControlOK, UiHoldsPipe
  <2>3. PipeOK'
    BY <1>25 DEF NothingToStop, AfterStop, IoAt, IInv, PipeOK, NoPipeYet,
      Unregistered, Registered
  <2>4. SelectionOK'
    BY <1>25 DEF NothingToStop, AfterStop, IoAt, IInv, SelectionOK
  <2>5. MuteOK'
    BY <1>25 DEF NothingToStop, AfterStop, IoAt, IInv, MuteOK
  <2> QED BY <2>1, <2>2, <2>3, <2>4, <2>5 DEF IInv
<1>26. CASE RemoveListener
  <2>1. AppTypeOK'
    <3>1. listeners = With
      BY <1>26 DEF RemoveListener, IInv, PipeOK, NoPipeYet, Unregistered, Registered
    <3>2. listeners' = Without /\ io' = "reset" /\ status' = status
      BY <1>26, <3>1, Places, Lists DEF RemoveListener
    <3> QED BY <1>26, <3>2, Lists DEF RemoveListener, IInv, AppTypeOK
  <2>2. ControlOK'
    <3>1. listeners = With
      BY <1>26 DEF RemoveListener, IInv, PipeOK, NoPipeYet, Unregistered, Registered
    <3>2. listeners' = Without /\ io' = "reset" /\ status' = status
      BY <1>26, <3>1, Places, Lists DEF RemoveListener
    <3> QED BY <1>26, <3>2 DEF RemoveListener, IInv, ControlOK, UiHoldsPipe
  <2>3. PipeOK'
    <3>1. listeners = With
      BY <1>26 DEF RemoveListener, IInv, PipeOK, NoPipeYet, Unregistered, Registered
    <3>2. listeners' = Without /\ io' = "reset" /\ status' = status
      BY <1>26, <3>1, Places, Lists DEF RemoveListener
    <3> QED BY <1>26, <3>2 DEF RemoveListener, IInv, PipeOK, NoPipeYet, Unregistered,
      Registered
  <2>4. SelectionOK'
    BY <1>26 DEF RemoveListener, IInv, SelectionOK
  <2>5. MuteOK'
    BY <1>26 DEF RemoveListener, IInv, MuteOK
  <2> QED BY <2>1, <2>2, <2>3, <2>4, <2>5 DEF IInv
<1>27. CASE ResetPipe
  <2>1. AppTypeOK'
    BY <1>27, SMTT(30) DEF ResetPipe, AfterStop, UiHoldsPipe, IoAt, IInv, AppTypeOK
  <2>2. ControlOK'
    BY <1>27 DEF ResetPipe, AfterStop, UiHoldsPipe, IoAt, IInv, ControlOK
  <2>3. PipeOK'
    BY <1>27 DEF ResetPipe, AfterStop, UiHoldsPipe, IoAt, IInv, PipeOK, NoPipeYet,
      Unregistered, Registered
  <2>4. SelectionOK'
    BY <1>27 DEF ResetPipe, AfterStop, UiHoldsPipe, IoAt, IInv, SelectionOK
  <2>5. MuteOK'
    BY <1>27 DEF ResetPipe, AfterStop, UiHoldsPipe, IoAt, IInv, MuteOK
  <2> QED BY <2>1, <2>2, <2>3, <2>4, <2>5 DEF IInv
<1>28. CASE ConstructPipe
  <2>1. AppTypeOK'
    <3>1. UNCHANGED <<status, ui, job, posted, capturePipe, dangling, muted, newInfos,
                      mutex, clients, listeners, calls, heard, meter, target>>
      BY <1>28 DEF ConstructPipe
    <3>2. /\ io' \in {"loop", "notify", "walk", "keystroke", "messageBox", "stopCapture",
                     "reset", "construct", "assign", "register", "tell", "start",
                     "halted"}
          /\ newMuted' = muted /\ missedMute' \in BOOLEAN
      BY <1>28 DEF ConstructPipe
    <3>3. AppTypeOK
      BY DEF IInv
    <3> QED BY <3>1, <3>2, <3>3, ZenonT(30) DEF AppTypeOK
  <2>2. ControlOK'
    BY <1>28 DEF ConstructPipe, IInv, ControlOK, UiHoldsPipe
  <2>3. PipeOK'
    BY <1>28 DEF ConstructPipe, IInv, PipeOK, NoPipeYet, Unregistered, Registered
  <2>4. SelectionOK'
    BY <1>28 DEF ConstructPipe, IInv, SelectionOK
  <2>5. MuteOK'
    <3>1. capturePipe = NoPipe /\ newMuted' = muted
          /\ UNCHANGED <<ui, capturePipe, muted, dangling>>
      BY <1>28 DEF ConstructPipe, IInv, PipeOK, NoPipeYet
    <3> QED BY <3>1, Zenon DEF MuteOK
  <2> QED BY <2>1, <2>2, <2>3, <2>4, <2>5 DEF IInv
<1>29. CASE AssignPipe
  <2>1. AppTypeOK'
    <3>1. /\ capturePipe' = [device |-> job.device, muted |-> newMuted]
          /\ io = "assign" /\ io' = "register"
          /\ UNCHANGED <<posted, job, target, listeners>>
      BY <1>29 DEF AssignPipe, IoAt
    <3>2. job.op = "start" /\ job.device \in Device /\ newMuted \in BOOLEAN
      BY <3>1 DEF IInv, AppTypeOK, ControlOK, Handler
    <3>3. /\ capturePipe' \in Pipe /\ capturePipe' # NoPipe
          /\ capturePipe'.device = job.device
      BY <3>1, <3>2, PipesAreRecords
    <3> QED BY <1>29, <3>3 DEF AssignPipe, IoAt, IInv, AppTypeOK
  <2>2. ControlOK'
    BY <1>29 DEF AssignPipe, IoAt, IInv, ControlOK, UiHoldsPipe
  <2>3. PipeOK'
    <3>1. /\ capturePipe' = [device |-> job.device, muted |-> newMuted]
          /\ io = "assign" /\ io' = "register"
          /\ UNCHANGED <<posted, job, target, listeners>>
      BY <1>29 DEF AssignPipe, IoAt
    <3>2. job.op = "start" /\ job.device \in Device /\ newMuted \in BOOLEAN
      BY <3>1 DEF IInv, AppTypeOK, ControlOK, Handler
    <3>3. /\ capturePipe' \in Pipe /\ capturePipe' # NoPipe
          /\ capturePipe'.device = job.device
      BY <3>1, <3>2, PipesAreRecords
    <3> QED BY <3>1, <3>3 DEF IInv, PipeOK, NoPipeYet, Unregistered, Registered
  <2>4. SelectionOK'
    <3>1. /\ capturePipe' = [device |-> job.device, muted |-> newMuted]
          /\ io = "assign" /\ io' = "register"
          /\ UNCHANGED <<posted, job, target, listeners>>
      BY <1>29 DEF AssignPipe, IoAt
    <3>2. job.op = "start" /\ job.device \in Device /\ newMuted \in BOOLEAN
      BY <3>1 DEF IInv, AppTypeOK, ControlOK, Handler
    <3>3. /\ capturePipe' \in Pipe /\ capturePipe' # NoPipe
          /\ capturePipe'.device = job.device
      BY <3>1, <3>2, PipesAreRecords
    <3> QED BY <3>1, <3>2, <3>3 DEF IInv, SelectionOK
  <2>5. MuteOK'
    BY <1>29 DEF AssignPipe, IoAt, IInv, MuteOK
  <2> QED BY <2>1, <2>2, <2>3, <2>4, <2>5 DEF IInv
<1>30. CASE RegisterPipe
  <2>1. AppTypeOK'
    <3>1. listeners = Without
      BY <1>30 DEF RegisterPipe, IoAt, IInv, PipeOK, Unregistered
    <3>2. listeners' = With
      BY <1>30, <3>1, Lists DEF RegisterPipe
    <3> QED BY <1>30, <3>2, Lists DEF RegisterPipe, IoAt, IInv, AppTypeOK
  <2>2. ControlOK'
    BY <1>30 DEF RegisterPipe, IoAt, IInv, ControlOK, UiHoldsPipe
  <2>3. PipeOK'
    <3>1. listeners = Without
      BY <1>30 DEF RegisterPipe, IoAt, IInv, PipeOK, Unregistered
    <3>2. listeners' = With
      BY <1>30, <3>1, Lists DEF RegisterPipe
    <3> QED BY <1>30, <3>2 DEF RegisterPipe, IoAt, IInv, PipeOK, NoPipeYet,
      Unregistered, Registered
  <2>4. SelectionOK'
    BY <1>30 DEF RegisterPipe, IoAt, IInv, SelectionOK
  <2>5. MuteOK'
    BY <1>30 DEF RegisterPipe, IoAt, IInv, MuteOK
  <2> QED BY <2>1, <2>2, <2>3, <2>4, <2>5 DEF IInv
<1>31. CASE TellPipe
  <2>1. AppTypeOK'
    <3>1. heard' \in [ListenerName -> SUBSET ClientId]
      BY <1>31 DEF TellPipe, IInv, AppTypeOK, ListenerName
    <3> QED BY <1>31, <3>1 DEF TellPipe, IInv, AppTypeOK
  <2>2. ControlOK'
    BY <1>31 DEF TellPipe, IInv, ControlOK, UiHoldsPipe
  <2>3. PipeOK'
    BY <1>31 DEF TellPipe, IInv, PipeOK, NoPipeYet, Unregistered, Registered
  <2>4. SelectionOK'
    BY <1>31 DEF TellPipe, IInv, SelectionOK
  <2>5. MuteOK'
    BY <1>31 DEF TellPipe, IInv, MuteOK
  <2> QED BY <2>1, <2>2, <2>3, <2>4, <2>5 DEF IInv
<1>32. CASE StartPipe
  <2>1. AppTypeOK'
    BY <1>32, SMTT(30) DEF StartPipe, IInv, AppTypeOK
  <2>2. ControlOK'
    BY <1>32 DEF StartPipe, IInv, ControlOK, UiHoldsPipe
  <2>3. PipeOK'
    BY <1>32 DEF StartPipe, IInv, PipeOK, NoPipeYet, Unregistered, Registered
  <2>4. SelectionOK'
    BY <1>32 DEF StartPipe, IInv, SelectionOK
  <2>5. MuteOK'
    BY <1>32 DEF StartPipe, IInv, MuteOK
  <2> QED BY <2>1, <2>2, <2>3, <2>4, <2>5 DEF IInv
<1>33. CASE UNCHANGED vars
  BY <1>33 DEF vars, IInv, AppTypeOK, ControlOK, UiHoldsPipe, PipeOK, SelectionOK,
    MuteOK
<1> QED
  BY <1>1, <1>2, <1>3, <1>4, <1>5, <1>6, <1>7, <1>8, <1>9, <1>10, <1>11, <1>12, <1>13,
    <1>14, <1>15, <1>16, <1>17, <1>18, <1>19, <1>20, <1>21, <1>22, <1>23, <1>24,
    <1>25, <1>26, <1>27, <1>28, <1>29, <1>30, <1>31, <1>32, <1>33
  DEF AppNext, UiStarts, UiContinues, IoStarts, IoContinues, Ended

LEMMA InitIInv == AppInit => IInv
<1> SUFFICES ASSUME AppInit PROVE IInv
  OBVIOUS
<1>1. listeners = Without
  BY DEF AppInit, Without
<1>2. AppTypeOK
  <2>1. NoJob \in Handler
    BY DEF NoJob, Handler
  <2>2. posted \in Seq(Handler) /\ calls \in Seq(ListenerName)
    BY DEF AppInit
  <2>3. heard \in [ListenerName -> SUBSET ClientId]
    BY DEF AppInit
  <2> QED BY <1>1, <2>1, <2>2, <2>3, Lists DEF AppInit, AppTypeOK
<1>3. ControlOK
  BY DEF AppInit, ControlOK
<1>4. PipeOK
  BY <1>1 DEF AppInit, PipeOK, NoPipeYet, Unregistered, Registered
<1>5. SelectionOK
  BY DEF AppInit, SelectionOK
<1>6. MuteOK
  BY DEF AppInit, MuteOK
<1> QED BY <1>2, <1>3, <1>4, <1>5, <1>6 DEF IInv

LEMMA Invariance == AppSpec => []IInv
<1>1. AppInit => IInv
  BY InitIInv
<1>2. IInv /\ [AppNext]_vars => IInv'
  BY NextIInv
<1> QED
  BY <1>1, <1>2, PTL DEF AppSpec

-----------------------------------------------------------------------------
(* What the threads promise.                                                *)

\* Whichever of the capture's steps failed, and whatever the UI thread did in
\* between, the io thread gets back to its queue with the pipe's listener
\* registered once if there is a pipe and not at all otherwise; so
\* stopCapture's fatal error is never reached.
THEOREM OneListener == AppSpec => []OneListenerPerPipe
<1>1. IInv => OneListenerPerPipe
  <2> SUFFICES ASSUME IInv PROVE OneListenerPerPipe
    OBVIOUS
  <2>1. status # "fatal"
    BY DEF IInv, ControlOK
  <2>2. ASSUME io \in {"loop", "halted"}
        PROVE  Cardinality(PipePlaces) = IF capturePipe = NoPipe THEN 0 ELSE 1
    <3>1. CASE capturePipe = NoPipe
      <4>1. listeners = Without
        BY <2>2, <3>1 DEF IInv, PipeOK, NoPipeYet, Unregistered, Registered
      <4> QED BY <3>1, <4>1, Places
    <3>2. CASE capturePipe # NoPipe
      <4>1. listeners = With
        BY <2>2, <3>2 DEF IInv, PipeOK, NoPipeYet, Unregistered, Registered
      <4> QED BY <3>2, <4>1, Places
    <3> QED BY <3>1, <3>2
  <2> QED BY <2>1, <2>2 DEF OneListenerPerPipe
<1> QED
  BY <1>1, Invariance, PTL

\* However many handlers are posted, once they have run, what is captured, if
\* anything, is the device that onDeviceIdUpdated was last called with.
THEOREM SelectionWins == AppSpec => []LastSelectionWins
<1>1. IInv => LastSelectionWins
  BY DEF IInv, SelectionOK, LastSelectionWins
<1> QED
  BY <1>1, Invariance, PTL

\* The pipe is muted when the button says so, but for a click that startCapture
\* missed, however often the pipe was replaced and the pointer was stale.
THEOREM MuteFollows == AppSpec => []MuteFollowsButton
<1>1. IInv => MuteFollowsButton
  BY DEF IInv, MuteOK, MuteFollowsButton
<1> QED
  BY <1>1, Invariance, PTL

\* When ~SoundRemoteApp has joined the io thread there is no pipe, no listener
\* of one, and nobody holds the registry's mutex.
THEOREM NothingLeft == AppSpec => []NothingLeftAtExit
<1>1. IInv => NothingLeftAtExit
  <2> SUFFICES ASSUME IInv, ui = "ended" PROVE NothingLeftAtExit
    BY DEF NothingLeftAtExit
  <2>1. io = "halted" /\ mutex = "nobody"
    BY DEF IInv, ControlOK, AppTypeOK
  <2>2. capturePipe = NoPipe /\ listeners = Without
    BY <2>1 DEF IInv, PipeOK, NoPipeYet
  <2> QED BY <2>1, <2>2, Lists DEF NothingLeftAtExit
<1> QED
  BY <1>1, Invariance, PTL

-----------------------------------------------------------------------------
(* Who knows the clients, as long as the machine is not suspended: then the *)
(* io thread alone changes the registry, and tells everybody before it does *)
(* anything else.                                                           *)

\* A listener knows the clients, or is about to be told of them.
Knows(listener) ==
  \/ heard[listener] = clients
  \/ io = "notify" /\ Contains(calls, listener)
  \/ io = "tell" /\ listener = "pipe"

KnowInv ==
  /\ ui \notin {"lock", "notify"}
  /\ io = "tell" => newInfos = clients
  /\ \A i \in 1..Len(listeners) : Knows(listeners[i])

LEMMA Contents ==
  /\ \A i \in 1..Len(Without) : Without[i] \in {"server", "window"}
  /\ \A i \in 1..Len(With) : With[i] \in {"pipe", "server", "window"}
  /\ \A l \in {"server", "window"} :
       /\ \E i \in 1..Len(Without) : Without[i] = l
       /\ \E i \in 1..Len(With) : With[i] = l
<1>1. Len(Without) = 2 /\ Without[1] = "server" /\ Without[2] = "window"
  BY DEF Without
<1>2. /\ Len(With) = 3
      /\ With[1] = "pipe" /\ With[2] = "server" /\ With[3] = "window"
  BY DEF With
<1>3. 1..2 = {1, 2} /\ 1..3 = {1, 2, 3}
  OBVIOUS
<1> QED BY <1>1, <1>2, <1>3

LEMMA Called ==
  ASSUME AppTypeOK, calls # <<>>
  PROVE  /\ Head(calls) \in ListenerName
         /\ \A l : Contains(calls, l) => l = Head(calls) \/ Contains(Tail(calls), l)
<1>1. /\ calls \in Seq(ListenerName) /\ Head(calls) = calls[1]
      /\ Len(Tail(calls)) = Len(calls) - 1 /\ Len(calls) \in Nat /\ Len(calls) > 0
      /\ \A i \in 1..Len(Tail(calls)) : Tail(calls)[i] = calls[i + 1]
      /\ Head(calls) \in ListenerName
  BY HeadTailProperties, EmptySeq DEF AppTypeOK
<1>2. ASSUME NEW l, Contains(calls, l), l # Head(calls) PROVE Contains(Tail(calls), l)
  <2>1. PICK i \in 1..Len(calls) : calls[i] = l
    BY <1>2 DEF Contains
  <2>2. i - 1 \in 1..Len(Tail(calls)) /\ Tail(calls)[i - 1] = l
    BY <1>1, <1>2, <2>1
  <2> QED BY <2>2 DEF Contains
<1> QED BY <1>1, <1>2

\* A step that leaves the registry alone, and ends no telling.
LEMMA KnowingRest ==
  ASSUME KnowInv, UNCHANGED registry, ui' \notin {"lock", "notify"},
         io' # io => io \notin {"notify", "tell"} /\ io' \notin {"notify", "tell"}
  PROVE  KnowInv'
<1>1. UNCHANGED <<newInfos, clients, listeners, calls, heard>>
  BY DEF registry
<1>2. \A l : Knows(l) => Knows(l)'
  BY <1>1 DEF Knows
<1> QED BY <1>1, <1>2 DEF KnowInv

LEMMA NextKnowInv ==
  ASSUME PowerEvents = FALSE, IInv, KnowInv, [AppNext]_vars
  PROVE  KnowInv'
<1> USE DEF threads, capture, window
<1>1. CASE UiStarts
  <2>1. UNCHANGED <<registry, io>> /\ ui' \notin {"lock", "notify"}
    BY <1>1 DEF UiStarts, SelectDevice, LoseDevice, ClickMute, TickMeter, Suspend, Close,
      UiTakes, UiAt
  <2> QED BY <2>1, KnowingRest DEF KnowInv
<1>2. CASE CheckMute \/ UseMute \/ ReadMeter \/ Join
  <2>1. UNCHANGED <<registry, io>> /\ ui' \notin {"lock", "notify"}
    BY <1>2 DEF CheckMute, UseMute, ReadMeter, Join, UiAt
  <2> QED BY <2>1, KnowingRest DEF KnowInv
<1>3. ~LockAndRemoveAll /\ ~NotifyFromUi /\ ~UnlockUi
  BY DEF KnowInv, LockAndRemoveAll, NotifyFromUi, UnlockUi, UiAt
<1>4. CASE TakePosted \/ WalkClients \/ WalkEnds \/ ShowKeystroke \/ KeystrokeShown
  <2>1. /\ UNCHANGED <<registry, ui>>
        /\ io \notin {"notify", "tell"} /\ io' \notin {"notify", "tell"}
    BY <1>4 DEF TakePosted, WalkClients, WalkEnds, ShowKeystroke, KeystrokeShown, IoAt
  <2> QED BY <2>1, KnowingRest DEF KnowInv
<1>5. CASE CaptureFails \/ DismissError \/ ConstructPipe \/ AssignPipe \/ StartPipe
  <2>1. /\ UNCHANGED <<registry, ui>>
        /\ io \notin {"notify", "tell"} /\ io' \notin {"notify", "tell"}
    BY <1>5 DEF CaptureFails, DismissError, ConstructPipe, AssignPipe, StartPipe, IoAt
  <2> QED BY <2>1, KnowingRest DEF KnowInv
<1>6. CASE NothingToStop \/ ResetPipe
  <2>1. /\ UNCHANGED <<registry, ui>>
        /\ io \notin {"notify", "tell"} /\ io' \notin {"notify", "tell"}
    BY <1>6 DEF NothingToStop, ResetPipe, AfterStop, IoAt
  <2> QED BY <2>1, KnowingRest DEF KnowInv
<1>7. CASE ChangeClients
  <2>1. io' = "notify" /\ calls' = listeners /\ UNCHANGED <<ui, listeners>>
    BY <1>7 DEF ChangeClients, IoAt
  <2>2. \A i \in 1..Len(listeners) : Contains(listeners, listeners[i])
    BY DEF Contains
  <2> QED BY <2>1, <2>2 DEF KnowInv, Knows
<1>8. CASE NotifyFromIo \/ SetWindowText
  <2>1. /\ io = "notify" /\ calls # <<>> /\ calls' = Tail(calls)
        /\ heard' = [heard EXCEPT ![Head(calls)] = clients]
        /\ UNCHANGED <<ui, io, clients, listeners, newInfos>>
    BY <1>8 DEF NotifyFromIo, SetWindowText
  <2>2. AppTypeOK
    BY DEF IInv
  <2>3. /\ heard'[Head(calls)] = clients
        /\ \A l : l # Head(calls) => heard'[l] = heard[l]
    BY <2>1, <2>2, Called DEF AppTypeOK
  <2>4. \A l : Knows(l) => Knows(l)'
    BY <2>1, <2>2, <2>3, Called DEF Knows
  <2> QED BY <2>1, <2>4 DEF KnowInv
<1>9. CASE UnlockIo
  <2>1. /\ io = "notify" /\ io' = "loop" /\ calls = <<>>
        /\ UNCHANGED <<ui, clients, listeners, heard>>
    BY <1>9 DEF UnlockIo, IoAt
  <2>2. \A l : ~Contains(calls, l)
    BY <2>1 DEF Contains
  <2> QED BY <2>1, <2>2 DEF KnowInv, Knows
<1>10. CASE RemoveListener
  <2>1. io = "stopCapture" /\ UNCHANGED <<ui, newInfos, clients, calls, heard>>
    BY <1>10 DEF RemoveListener
  <2>2. status # "fatal" /\ status' # "fatal"
    BY <1>10, NextIInv DEF IInv, ControlOK
  <2>3. io' = "reset" /\ listeners' = Without
    <3>1. listeners = With
      BY <1>10 DEF RemoveListener, IInv, PipeOK, NoPipeYet, Unregistered, Registered
    <3>2. PICK i \in PipePlaces : listeners' = RemoveAt(listeners, i) /\ io' = "reset"
      BY <1>10, <2>2 DEF RemoveListener
    <3>3. i = 1
      BY <3>1, <3>2, Places
    <3> QED BY <3>1, <3>2, <3>3, Lists
  <2>4. listeners = With
    BY <1>10 DEF RemoveListener, IInv, PipeOK, NoPipeYet, Unregistered, Registered
  <2>5. \A l \in {"server", "window"} : heard[l] = clients
    BY <2>1, <2>4, Contents DEF KnowInv, Knows
  <2> QED BY <2>1, <2>3, <2>5, Contents DEF KnowInv, Knows
<1>11. CASE RegisterPipe
  <2>1. /\ io = "register" /\ io' = "tell" /\ newInfos' = clients
        /\ listeners' = <<"pipe">> \o listeners
        /\ UNCHANGED <<ui, clients, calls, heard>>
    BY <1>11 DEF RegisterPipe, IoAt
  <2>2. listeners = Without
    BY <2>1 DEF IInv, PipeOK, Unregistered
  <2>3. listeners' = With
    BY <2>1, <2>2, Lists
  <2>4. \A l \in {"server", "window"} : heard[l] = clients
    BY <2>1, <2>2, Contents DEF KnowInv, Knows
  <2> QED BY <2>1, <2>3, <2>4, Contents DEF KnowInv, Knows
<1>12. CASE TellPipe
  <2>1. /\ io = "tell" /\ io' \in {"start", "messageBox"}
        /\ heard' = [heard EXCEPT !["pipe"] = newInfos] /\ newInfos = clients
        /\ UNCHANGED <<ui, newInfos, clients, listeners, calls>>
    BY <1>12 DEF TellPipe, KnowInv
  <2>2. heard'["pipe"] = clients /\ \A l : l # "pipe" => heard'[l] = heard[l]
    BY <2>1 DEF IInv, AppTypeOK, ListenerName
  <2>3. \A l : Knows(l) => Knows(l)'
    BY <2>1, <2>2 DEF Knows
  <2> QED BY <2>1, <2>3 DEF KnowInv
<1>13. CASE UNCHANGED vars
  <2>1. UNCHANGED <<registry, ui, io>>
    BY <1>13 DEF vars
  <2> QED BY <2>1, KnowingRest DEF KnowInv
<1>14. CASE Ended
  <2>1. UNCHANGED <<registry, ui, io>>
    BY <1>14 DEF Ended, vars
  <2> QED BY <2>1, KnowingRest DEF KnowInv
<1> QED
  BY <1>1, <1>2, <1>3, <1>4, <1>5, <1>6, <1>7, <1>8, <1>9, <1>10, <1>11, <1>12, <1>13,
    <1>14
  DEF AppNext, UiContinues, IoStarts, IoContinues

\* As long as the machine is not suspended, every listener knows the clients
\* whenever the io thread is back in its loop and nobody changes the registry,
\* the pipe that was registered without the lock included.  With a suspend the
\* UI thread empties the registry, and a pipe that is being registered can be
\* told of the clients there were.
THEOREM ListenersKnow ==
  ASSUME PowerEvents = FALSE
  PROVE  AppSpec => []ListenersKnowClients
<1>1. AppInit => KnowInv
  <2> SUFFICES ASSUME AppInit PROVE KnowInv
    OBVIOUS
  <2>1. ui = "loop" /\ io = "loop" /\ clients = {} /\ listeners = Without
    BY DEF AppInit, Without
  <2>2. \A l \in {"server", "window"} : heard[l] = {}
    BY DEF AppInit, ListenerName
  <2> QED BY <2>1, <2>2, Contents DEF KnowInv, Knows
<1>2. IInv /\ KnowInv /\ [AppNext]_vars => KnowInv'
  BY NextKnowInv
<1>3. KnowInv => ListenersKnowClients
  BY DEF KnowInv, Knows, ListenersKnowClients
<1> QED
  BY <1>1, <1>2, <1>3, Invariance, PTL DEF AppSpec
=============================================================================
