--------------------------- MODULE UpdateChecker ---------------------------
(***************************************************************************)
(* The update checker: every check is a detached thread that gives up when *)
(* another one holds checkMutex_, and otherwise asks for the latest        *)
(* release, any call of which may fail, and posts its result to the        *)
(* window, which shows it in a message box.                                *)
(***************************************************************************)
EXTENDS Version, FiniteSets

CONSTANTS
  Check,        \* bound of a run: the checks there can be
  Release,      \* the versions there can be, Unparsable among them
  NoCheck,      \* checkMutex_ is free
  BodySize      \* the blocks in which the body of an answer is read

ASSUME NoCheckAssumption == NoCheck \notin Check
ASSUME ReleaseAssumption == Release \subseteq ParsedVersion \cup {Unparsable}
ASSUME BodySizeAssumption == BodySize \in Nat \ {0}

Found == 0
NotFound == 1
CheckError == 2

\* What getLatestRelease calls before it reads; the first three open a handle.
Call == <<"Open", "Connect", "OpenRequest", "SendRequest", "ReceiveResponse">>
Handle == {"Open", "Connect", "OpenRequest"}

VARIABLES
  version,      \* what getVersion finds in this program
  latest,       \* the tag of the latest release
  state,        \* each check: "none", "started", "version", "release", "tag",
                \* "posted", "done"
  called,       \* the calls that have succeeded in getLatestRelease
  handles,      \* the WinHTTP handles each check has open
  body,         \* the blocks read of the answer
  quiet,        \* the checks that inform only if there is an update
  checkMutex,   \* checkMutex_
  messages,     \* UPDATE_CHECK messages posted to the window
  boxes,        \* the message boxes open
  turnedAway,   \* history: the checks that found the mutex taken
  answered      \* history: the checks whose result was shown

request == <<called, handles, body>>
worker == <<state, quiet, checkMutex, turnedAway>>
window == <<messages, boxes, answered>>
vars == <<version, latest, worker, request, window>>

CheckerInit ==
  /\ version \in Release /\ latest \in Release
  /\ state = [c \in Check |-> "none"]
  /\ called = 0 /\ body = 0
  /\ handles = [c \in Check |-> {}]
  /\ quiet = {} /\ checkMutex = NoCheck
  /\ messages = <<>> /\ boxes = {}
  /\ turnedAway = {} /\ answered = {}

Goto(c, s) == state' = [state EXCEPT ![c] = s]

-----------------------------------------------------------------------------
\* checkUpdates, quiet when the program starts and not from the menu, which a
\* message box disables.
CheckUpdates(c, isQuiet) ==
  /\ state[c] = "none" /\ boxes = {}
  /\ isQuiet => \A other \in Check : state[other] = "none"
  /\ Goto(c, "started")
  /\ quiet' = IF isQuiet THEN quiet \cup {c} ELSE quiet
  /\ UNCHANGED <<version, latest, checkMutex, turnedAway, request, window>>

\* checkWorker: try_to_lock.
TryLock(c) ==
  /\ state[c] = "started"
  /\ IF checkMutex = NoCheck
     THEN Goto(c, "version") /\ checkMutex' = c /\ UNCHANGED turnedAway
     ELSE /\ Goto(c, "done")
          /\ turnedAway' = turnedAway \cup {c}
          /\ UNCHANGED checkMutex
  /\ UNCHANGED <<version, latest, quiet, request, window>>

\* showResult.
ShowResult(c, result) ==
  /\ Goto(c, "posted")
  /\ messages' = IF result = Found \/ c \notin quiet
                 THEN Append(messages, [result |-> result, check |-> c])
                 ELSE messages
  /\ UNCHANGED <<boxes, answered>>

GetVersion(c) ==
  /\ state[c] = "version"
  /\ \/ Goto(c, "release") /\ UNCHANGED window
     \/ ShowResult(c, CheckError)
  /\ called' = 0 /\ body' = 0
  /\ UNCHANGED <<version, latest, quiet, checkMutex, turnedAway, handles>>

\* (A slip: the handles are closed at the end, past the early returns.)
LeaveEarly(c) == UNCHANGED handles

\* getLatestRelease returns: HttpHandleCloser.
Leave(c) == handles' = [handles EXCEPT ![c] = {}]

\* It returns nothing.
GiveUp(c) ==
  /\ state[c] = "release"
  /\ Leave(c) /\ ShowResult(c, CheckError)
  /\ UNCHANGED <<version, latest, quiet, checkMutex, turnedAway, called, body>>

\* A call before the reading succeeds; one that fails is GiveUp.
CallSucceeds(c) ==
  /\ state[c] = "release" /\ called < Len(Call)
  /\ called' = called + 1
  /\ handles' = [handles EXCEPT ![c] = @ \cup ({Call[called']} \cap Handle)]
  /\ UNCHANGED <<version, latest, worker, body, window>>

\* (A slip: the end of the data does not end the loop, which starts over.)
ReadUntilError(c) ==
  /\ state[c] = "release" /\ called = Len(Call)
  /\ body' = IF body < BodySize THEN body + 1 ELSE 0
  /\ UNCHANGED <<version, latest, worker, called, handles, window>>

\* The loop: there is another block, or no data is available any more, be it
\* that the answer ended or that the connection did.
ReadData(c) ==
  /\ state[c] = "release" /\ called = Len(Call)
  /\ \/ /\ body < BodySize /\ body' = body + 1
        /\ UNCHANGED <<worker, called, handles, window>>
     \/ /\ body > 0 /\ Goto(c, "tag") /\ Leave(c)
        /\ UNCHANGED <<quiet, checkMutex, turnedAway, called, body, window>>
     \/ /\ body = 0 /\ Leave(c) /\ ShowResult(c, CheckError)
        /\ UNCHANGED <<quiet, checkMutex, turnedAway, called, body>>
  /\ UNCHANGED <<version, latest>>

Compared ==
  CASE IsNewerVersion(version, latest) = 0 -> NotFound
    [] IsNewerVersion(version, latest) = 1 -> Found
    [] OTHER -> CheckError

\* parseReleaseTag, which finds no tag in an answer that was cut or that is
\* not a release, and the comparison.
ParseReleaseTag(c) ==
  /\ state[c] = "tag"
  /\ \/ body = BodySize /\ ShowResult(c, Compared)
     \/ ShowResult(c, CheckError)
  /\ UNCHANGED <<version, latest, quiet, checkMutex, turnedAway, request>>

\* (A slip: the worker ends with the mutex locked.)
EndLocked(c) ==
  /\ state[c] = "posted" /\ Goto(c, "done")
  /\ UNCHANGED <<version, latest, quiet, checkMutex, turnedAway, request, window>>

\* The worker returns: its lock goes after the message was posted.
Unlock(c) ==
  /\ state[c] = "posted" /\ Goto(c, "done")
  /\ checkMutex' = NoCheck
  /\ UNCHANGED <<version, latest, quiet, turnedAway, request, window>>

Work(c) ==
  \/ TryLock(c) \/ GetVersion(c)
  \/ CallSucceeds(c) \/ ReadData(c) \/ GiveUp(c)
  \/ ParseReleaseTag(c) \/ Unlock(c)

-----------------------------------------------------------------------------
\* onUpdateCheckFinish: a box opens, over another one if there is one, which
\* goes on dispatching messages.
OnUpdateCheckFinish ==
  /\ messages # <<>>
  /\ messages' = Tail(messages)
  /\ boxes' = boxes \cup {Head(messages)}
  /\ answered' = answered \cup {Head(messages).check}
  /\ UNCHANGED <<version, latest, worker, request>>

Dismiss(box) ==
  /\ box \in boxes /\ boxes' = boxes \ {box}
  /\ UNCHANGED <<version, latest, worker, request, messages, answered>>

CheckerNext ==
  \/ \E c \in Check, isQuiet \in BOOLEAN : CheckUpdates(c, isQuiet)
  \/ \E c \in Check : Work(c)
  \/ OnUpdateCheckFinish
  \/ \E box \in boxes : Dismiss(box)

CheckerSpec == CheckerInit /\ [][CheckerNext]_vars

\* The threads are scheduled, WinHTTP's calls return, by their timeouts if
\* nothing else, and the window, also under a box, gets its messages.
FairCheckerSpec ==
  /\ CheckerSpec
  /\ \A c \in Check : WF_vars(Work(c))
  /\ WF_vars(OnUpdateCheckFinish)

-----------------------------------------------------------------------------
Settled == (\A c \in Check : state[c] \in {"none", "done"}) /\ messages = <<>>
Truth(result) ==
  CASE result = Found -> Before(version, latest)
    [] result = NotFound -> ~Before(version, latest)
    [] OTHER -> TRUE

\* A box tells the truth about the versions, in the order Util.h describes,
\* whatever their lengths and suffixes; but for two equal versions of three
\* numbers.
BoxesTellTheTruth ==
  (Legible(version) /\ Legible(latest) /\ ~SameThreeParts(version, latest)) =>
    \A box \in boxes : Truth(box.result)

\* The same without the exception, as Util.h has it.
ComparesAsDocumented ==
  (Legible(version) /\ Legible(latest)) => \A box \in boxes : Truth(box.result)

\* A check from the menu goes unanswered only if another one was under way,
\* and the mutex is free again once every check has ended.
BusyIsTheOnlyExcuse ==
  Settled => /\ checkMutex = NoCheck
             /\ {c \in Check : state[c] = "done"} \subseteq
                  answered \cup quiet \cup turnedAway

\* Whichever call fails, a check has given back its handles by the time it
\* informs the window, and never has one whose parent is not open.
HandlesGivenBack ==
  \A c \in Check :
    /\ handles[c] # {} => checkMutex = c /\ state[c] = "release"
    /\ \A i \in 2..3 : Call[i] \in handles[c] => Call[i - 1] \in handles[c]

\* Every check comes to an end, however the calls and the answer go, and one
\* that asked for it is answered unless it was turned away.
ChecksEnd ==
  \A c \in Check :
    (state[c] = "started") ~>
      (state[c] = "done" /\ c \in answered \cup quiet \cup turnedAway)
=============================================================================
