------------------------ MODULE UpdateChecker_proofs ------------------------
(***************************************************************************)
(* The safety properties of the update checker, for any checks, any        *)
(* versions and any length of an answer.                                   *)
(*                                                                         *)
(* BoxesTellTheTruth rests on a lemma about the comparison alone, which    *)
(* says where it agrees with the order Util.h describes.  The rest is      *)
(* about the life of a check: CheckerInv says for each of its states       *)
(* whether it has the mutex, which handles it has open, and who knows of   *)
(* its result.                                                             *)
(***************************************************************************)
EXTENDS UpdateChecker, TLAPS

Result == {Found, NotFound, CheckError}
Message == [result : Result, check : Check]
Working == {"version", "release", "tag", "posted"}

CheckerTypeOK ==
  /\ version \in Release /\ latest \in Release
  /\ state \in [Check -> {"none", "started", "done"} \cup Working]
  /\ called \in 0..Len(Call)
  /\ handles \in [Check -> SUBSET Handle]
  /\ checkMutex \in Check \cup {NoCheck}
  /\ messages \in Seq(Message)

\* A check has the mutex while it works, and only then.
OwnerWorks == \A c \in Check : state[c] \in Working <=> checkMutex = c

\* The handles open are those of the calls made, and are gone afterwards.
HandlesOfCalls ==
  \A c \in Check : handles[c] =
    IF state[c] = "release" THEN {Call[i] : i \in 1..called} \cap Handle ELSE {}

\* A result is on its way to the window, or was shown, or need not be.
ResultKnown ==
  \A c \in Check : state[c] \in {"posted", "done"} =>
    \/ c \in answered \cup quiet \cup turnedAway
    \/ \E i \in 1..Len(messages) : messages[i].check = c

\* What the window is told, and not only what it shows, is true.
Comparable ==
  Legible(version) /\ Legible(latest) /\ ~SameThreeParts(version, latest)
MessagesTellTheTruth ==
  Comparable => \A i \in 1..Len(messages) : Truth(messages[i].result)

CheckerInv ==
  /\ CheckerTypeOK
  /\ OwnerWorks
  /\ HandlesOfCalls
  /\ ResultKnown
  /\ MessagesTellTheTruth
  /\ BoxesTellTheTruth

-----------------------------------------------------------------------------
(***************************************************************************)
(* The comparison.                                                         *)
(***************************************************************************)

LEMMA Numbers ==
  ASSUME NEW n \in Nat, NEW f \in [1..n -> Nat]
  PROVE  /\ Len(f) = n
         /\ \A i \in 1..n : f[i] \in Nat
         /\ f = [i \in 1..n |-> f[i]]
<1>1. f \in Seq(Nat) /\ DOMAIN f = 1..n
  OBVIOUS
<1> QED
  BY <1>1

LEMMA Parts ==
  ASSUME NEW v \in ParsedVersion
  PROVE  /\ Len(v.parts) \in {3, 4}
         /\ \A i \in 1..Len(v.parts) : v.parts[i] \in Nat
         /\ v.parts = [i \in 1..Len(v.parts) |-> v.parts[i]]
<1>1. v.parts \in [1..3 -> Nat] \cup [1..4 -> Nat]
  BY DEF ParsedVersion
<1>2. CASE v.parts \in [1..3 -> Nat]
  BY <1>2, Numbers, Zenon
<1>3. CASE v.parts \in [1..4 -> Nat]
  BY <1>3, Numbers
<1> QED
  BY <1>1, <1>2, <1>3

\* The first turn that returns.
LEMMA FirstTurn ==
  ASSUME NEW S \in SUBSET (1..4), S # {}
  PROVE  \E i \in S : /\ \A j \in S : i <= j
                      /\ i = CHOOSE k \in S : \A j \in S : k <= j
<1>1. \E i \in S : \A j \in S : i <= j
  <2>1. 1 \in S \/ 2 \in S \/ 3 \in S \/ 4 \in S
    <3>1. \A j \in S : j = 1 \/ j = 2 \/ j = 3 \/ j = 4
      BY SMT
    <3> QED
      BY <3>1, Zenon
  <2>2. \A j \in S : j \in Nat /\ (j # 1 => 2 <= j) /\ (j \notin {1, 2} => 3 <= j)
                     /\ (j \notin {1, 2, 3} => 4 <= j) /\ 1 <= j
    BY SMT
  <2>3. CASE 1 \in S
    BY <2>2, <2>3
  <2>4. CASE 1 \notin S /\ 2 \in S
    BY <2>2, <2>4
  <2>5. CASE 1 \notin S /\ 2 \notin S /\ 3 \in S
    BY <2>2, <2>5
  <2>6. CASE 1 \notin S /\ 2 \notin S /\ 3 \notin S
    BY <2>1, <2>2, <2>6
  <2> QED
    BY <2>3, <2>4, <2>5, <2>6
<1> QED
  BY <1>1

\* Between two versions whose numbers can be read, but for two that agree in
\* three numbers, isNewerVersion is the order Util.h describes.
LEMMA ComparisonIsBefore ==
  ASSUME NEW v \in ParsedVersion, NEW w \in ParsedVersion,
         Legible(v), Legible(w), ~SameThreeParts(v, w)
  PROVE  IsNewerVersion(v, w) = IF Before(v, w) THEN 1 ELSE 0
<1> DEFINE n == Len(v.parts)
           m == Len(w.parts)
           common == {i \in 1..4 : Matched(v, i) /\ Matched(w, i)}
           differs == {i \in common : v.parts[i] # w.parts[i]}
           D == Decisive(v, w)
<1>1. Before(v, w) <=>
        \/ \E i \in differs : v.parts[i] < w.parts[i] /\ \A j \in differs : i <= j
        \/ differs = {} /\ n < m
        \/ v.parts = w.parts /\ v.suffix /\ ~w.suffix
  BY Zenon DEF Before
<1>2. v # Unparsable /\ w # Unparsable
  BY DEF Legible
<1>3. n \in {3, 4} /\ m \in {3, 4}
  BY Parts, Zenon
<1>4. \A i \in 1..4 : i \in common <=> i <= n /\ i <= m
  BY DEF Matched
<1>5. \A i \in common : /\ v.parts[i] \in Nat /\ w.parts[i] \in Nat
                        /\ ~TooLarge(v, i) /\ ~TooLarge(w, i)
  <2> SUFFICES ASSUME NEW i \in common
               PROVE  /\ v.parts[i] \in Nat /\ w.parts[i] \in Nat
                      /\ ~TooLarge(v, i) /\ ~TooLarge(w, i)
    OBVIOUS
  <2>1. i \in 1..n /\ i \in 1..m
    BY <1>3 DEF Matched
  <2> QED
    BY <2>1, Parts, Zenon DEF Legible
<1>6. \A i \in 1..4 : i \in D <=> i \notin common \/ i \in differs
  BY <1>5, Zenon DEF Decisive
<1>7. D \subseteq 1..4 /\ differs \subseteq common /\ common \subseteq 1..4
  BY Zenon DEF Decisive
<1>8. v.parts = [i \in 1..n |-> v.parts[i]] /\ w.parts = [i \in 1..m |-> w.parts[i]]
  BY Parts, Zenon
<1>9. ASSUME differs = {}, n = m PROVE v.parts = w.parts
  <2>1. \A i \in 1..n : i \in common
    <3> HIDE DEF n, m, common
    <3>1. \A i \in 1..n : i \in 1..4 /\ i <= n /\ i <= m
      BY <1>3, <1>9
    <3> QED
      BY <1>4, <3>1, Zenon
  <2>2. \A i \in 1..n : v.parts[i] = w.parts[i]
    BY <1>9, <2>1, Zenon
  <2> QED
    BY <1>8, <1>9, <2>2
<1>10. v.parts = w.parts => n = m /\ differs = {}
  OBVIOUS
<1>11. v.parts = w.parts => n = 4
  BY <1>3 DEF SameThreeParts
<1>12. \A i \in differs : v.parts[i] # w.parts[i]
  OBVIOUS
<1>13. Matched(v, 4) <=> n = 4
  <2>1. Matched(v, 4) <=> 4 <= n
    BY Zenon DEF Matched
  <2> HIDE DEF n
  <2> QED
    BY <1>3, <2>1
<1>14. \A i \in common : Matched(v, i) /\ Matched(w, i)
  OBVIOUS
<1>15. \A i \in 1..4 : i \notin common => ~(Matched(v, i) /\ Matched(w, i))
  OBVIOUS
<1>16. CASE D = {}
  <2>1. IsNewerVersion(v, w) = IF v.suffix /\ ~w.suffix THEN 1 ELSE 0
    BY <1>2, <1>16, Zenon DEF IsNewerVersion
  <2> HIDE DEF n, m, common, differs, D
  <2>2. differs = {} /\ n = m
    BY <1>3, <1>4, <1>6, <1>7, <1>16
  <2>3. Before(v, w) <=> (v.suffix /\ ~w.suffix)
    <3>1. ~(n < m)
      BY <1>3, <2>2
    <3> QED
      BY <1>1, <1>9, <2>2, <3>1, Zenon
  <2> QED
    BY <2>1, <2>3, Zenon
<1>17. CASE D # {}
  <2>1. PICK i \in D : (\A j \in D : i <= j) /\ i = CHOOSE k \in D : \A j \in D : k <= j
    <3> HIDE DEF D
    <3> QED
      BY <1>7, <1>17, FirstTurn, Zenon
  <2>2. IsNewerVersion(v, w) = ResultAt(v, w, i)
    BY <1>2, <1>17, <2>1, Zenon DEF IsNewerVersion
  <2> HIDE DEF n, m, common, differs, D
  <2>3. i \in 1..4
    BY <1>7
  <2>4. CASE i \in common
    <3>1. ResultAt(v, w, i) = IF v.parts[i] < w.parts[i] THEN 1 ELSE 0
      BY <1>5, <1>14, <2>4, Zenon DEF ResultAt
    <3>2. i \in differs /\ \A j \in differs : i <= j
      BY <1>6, <1>7, <2>1, <2>3, <2>4
    <3>3. \A k \in differs : (\A j \in differs : k <= j) => k = i
      BY <1>7, <2>3, <3>2
    <3>4. v.parts # w.parts /\ differs # {}
      BY <1>12, <3>2
    <3>5. Before(v, w) <=> v.parts[i] < w.parts[i]
      BY <1>1, <3>2, <3>3, <3>4, Zenon
    <3> QED
      BY <2>2, <3>1, <3>5, Zenon
  <2>5. CASE i \notin common
    <3>1. ResultAt(v, w, i) = IF Matched(v, i) THEN 0 ELSE 1
      <4>1. ~(Matched(v, i) /\ Matched(w, i))
        BY <1>15, <2>3, <2>5, Zenon
      <4> QED
        BY <4>1, Zenon DEF ResultAt
    <3>2. i = 4 /\ (n = 3 \/ m = 3)
      BY <1>3, <1>4, <2>3, <2>5
    <3>3. differs = {}
      <4> SUFFICES ASSUME NEW j \in differs PROVE FALSE
        OBVIOUS
      <4>1. j \in common /\ j \in 1..4 /\ j \in D
        BY <1>6, <1>7
      <4>2. j # 4 /\ 4 <= j
        BY <2>1, <2>5, <3>2, <4>1
      <4> QED
        BY <4>1, <4>2
    <3>4. v.parts # w.parts
      BY <1>10, <1>11, <3>2
    <3>5. n < m <=> n # 4
      BY <1>3, <1>9, <3>2, <3>3, <3>4
    <3>6. Before(v, w) <=> n # 4
      BY <1>1, <3>3, <3>4, <3>5, Zenon
    <3> QED
      BY <1>13, <2>2, <3>1, <3>2, <3>6, Zenon
  <2> QED
    BY <2>4, <2>5
<1> QED
  BY <1>16, <1>17

-----------------------------------------------------------------------------
(***************************************************************************)
(* The steps.                                                              *)
(***************************************************************************)

LEMMA CallsAreFive == Len(Call) = 5
BY DEF Call

LEMMA ComparedTells ==
  ASSUME version \in Release, latest \in Release
  PROVE  Compared \in Result /\ (Comparable => Truth(Compared))
<1> DEFINE n == IsNewerVersion(version, latest)
<1>1. Compared = IF n = 0 THEN NotFound ELSE IF n = 1 THEN Found ELSE CheckError
  BY DEF Compared
<1> HIDE DEF n
<1>2. Compared \in Result
  BY <1>1 DEF Result
<1>3. ASSUME Comparable PROVE Truth(Compared)
  <2>1. version \in ParsedVersion /\ latest \in ParsedVersion
    BY <1>3, ReleaseAssumption DEF Comparable, Legible
  <2>2. n = IF Before(version, latest) THEN 1 ELSE 0
    BY <1>3, <2>1, ComparisonIsBefore, Zenon DEF Comparable, n
  <2>3. CASE Before(version, latest)
    <3>1. Compared = Found
      BY <1>1, <2>2, <2>3
    <3> QED
      BY <2>3, <3>1 DEF Truth, Found, NotFound
  <2>4. CASE ~Before(version, latest)
    <3>1. Compared = NotFound
      BY <1>1, <2>2, <2>4
    <3> QED
      BY <2>4, <3>1 DEF Truth, Found, NotFound
  <2> QED
    BY <2>3, <2>4
<1> QED
  BY <1>2, <1>3

LEMMA ErrorsTellNothing == CheckError \in Result /\ Truth(CheckError)
BY DEF Result, Truth, Found, NotFound, CheckError

\* The queue once a result was posted: it has grown by that result, or not
\* at all when the check is quiet.
Posted(c, result) ==
  /\ messages' \in Seq(Message)
  /\ \A i \in 1..Len(messages) :
       i \in 1..Len(messages') /\ messages'[i] = messages[i]
  /\ \A i \in 1..Len(messages') :
       \/ i \in 1..Len(messages) /\ messages'[i] = messages[i]
       \/ messages'[i].result = result
  /\ c \in quiet \/ \E i \in 1..Len(messages') : messages'[i].check = c

LEMMA ShowResultPosts ==
  ASSUME messages \in Seq(Message), NEW c \in Check, NEW result \in Result,
         ShowResult(c, result)
  PROVE  Posted(c, result)
<1> DEFINE m == [result |-> result, check |-> c]
<1>1. m \in Message
  BY DEF Message
<1>2. CASE messages' = Append(messages, m)
  <2>1. /\ messages' \in Seq(Message)
        /\ Len(messages') = Len(messages) + 1
        /\ messages'[Len(messages) + 1] = m
        /\ \A i \in 1..Len(messages) : messages'[i] = messages[i]
    <3> HIDE DEF m
    <3> QED
      BY <1>1, <1>2
  <2>2. Len(messages) + 1 \in 1..Len(messages')
    BY <2>1
  <2>3. m.result = result /\ m.check = c
    OBVIOUS
  <2> HIDE DEF m
  <2>4. \A i \in 1..Len(messages) :
          i \in 1..Len(messages') /\ messages'[i] = messages[i]
    BY <2>1
  <2>5. \A i \in 1..Len(messages') : i \in 1..Len(messages) \/ i = Len(messages) + 1
    BY <2>1
  <2>6. \A i \in 1..Len(messages') :
          \/ i \in 1..Len(messages) /\ messages'[i] = messages[i]
          \/ messages'[i].result = result
    BY <2>1, <2>3, <2>5
  <2>7. \E i \in 1..Len(messages') : messages'[i].check = c
    BY <2>1, <2>2, <2>3
  <2> QED
    BY <2>1, <2>4, <2>6, <2>7, Zenon DEF Posted
<1>3. CASE messages' = messages /\ c \in quiet
  BY <1>3, Zenon DEF Posted
<1> QED
  BY <1>2, <1>3 DEF ShowResult

\* A check that posts a result and gives up the handles it may have.
LEMMA PostKeepsMessages ==
  ASSUME CheckerInv, NEW c \in Check, NEW result \in Result, Posted(c, result),
         state' = [state EXCEPT ![c] = "posted"],
         Comparable => Truth(result),
         UNCHANGED <<version, latest, quiet, turnedAway, answered>>
  PROVE  ResultKnown' /\ MessagesTellTheTruth'
<1>1. ResultKnown'
  <2> SUFFICES ASSUME NEW d \in Check, state'[d] \in {"posted", "done"}
               PROVE  \/ d \in answered \cup quiet \cup turnedAway
                      \/ \E i \in 1..Len(messages') : messages'[i].check = d
    BY DEF ResultKnown
  <2>1. CASE d = c
    BY <2>1 DEF Posted
  <2>2. CASE d # c
    <3>1. state[d] \in {"posted", "done"}
      BY <2>2 DEF CheckerInv, CheckerTypeOK
    <3> QED
      BY <3>1 DEF Posted, CheckerInv, ResultKnown
  <2> QED
    BY <2>1, <2>2
<1>2. MessagesTellTheTruth'
  <2>1. Comparable' = Comparable
    BY DEF Comparable
  <2>2. \A r : Truth(r)' = Truth(r)
    BY DEF Truth
  <2> QED
    BY <2>1, <2>2 DEF Posted, CheckerInv, MessagesTellTheTruth
<1> QED
  BY <1>1, <1>2

\* Every step keeps the invariant.
LEMMA CheckerStep == CheckerInv /\ [CheckerNext]_vars => CheckerInv'
<1> SUFFICES ASSUME CheckerInv, [CheckerNext]_vars PROVE CheckerInv'
  OBVIOUS
<1> USE CallsAreFive, NoCheckAssumption
<1>0. /\ Comparable' = Comparable
      /\ \A r : Truth(r)' = Truth(r)
  <2>1. UNCHANGED <<version, latest>>
    BY DEF CheckerNext, CheckUpdates, Work, TryLock, GetVersion, CallSucceeds,
      ReadData, GiveUp, ParseReleaseTag, Unlock, OnUpdateCheckFinish, Dismiss, vars
  <2> QED
    BY <2>1 DEF Comparable, Truth
<1>1. ASSUME NEW c \in Check, NEW isQuiet \in BOOLEAN, CheckUpdates(c, isQuiet) PROVE CheckerInv'
  <2>1. CheckerTypeOK'
    BY <1>1
    DEF CheckerInv, CheckerTypeOK, Working, CheckUpdates, Goto, request, window
  <2>2. OwnerWorks'
    BY <1>1
    DEF CheckerInv, CheckerTypeOK, Working, OwnerWorks, CheckUpdates, Goto,
      request, window
  <2>3. HandlesOfCalls'
    BY <1>1
    DEF CheckerInv, CheckerTypeOK, HandlesOfCalls, CheckUpdates, Goto, request,
      window
  <2>4. ResultKnown'
    BY <1>1
    DEF CheckerInv, CheckerTypeOK, ResultKnown, CheckUpdates, Goto, request,
      window
  <2>5. MessagesTellTheTruth'
    BY <1>1, <1>0
    DEF CheckerInv, MessagesTellTheTruth, CheckUpdates, Goto, request, window
  <2>6. BoxesTellTheTruth'
    BY <1>1, <1>0
    DEF CheckerInv, BoxesTellTheTruth, CheckUpdates, Goto, request, window
  <2> QED
    BY <2>1, <2>2, <2>3, <2>4, <2>5, <2>6 DEF CheckerInv
<1>2. ASSUME NEW c \in Check, TryLock(c) PROVE CheckerInv'
  <2>1. CheckerTypeOK'
    BY <1>2
    DEF CheckerInv, CheckerTypeOK, Working, TryLock, Goto, request, window
  <2>2. OwnerWorks'
    BY <1>2
    DEF CheckerInv, CheckerTypeOK, Working, OwnerWorks, TryLock, Goto, request,
      window
  <2>3. HandlesOfCalls'
    BY <1>2
    DEF CheckerInv, CheckerTypeOK, HandlesOfCalls, TryLock, Goto, request,
      window
  <2>4. ResultKnown'
    BY <1>2
    DEF CheckerInv, CheckerTypeOK, ResultKnown, TryLock, Goto, request, window
  <2>5. MessagesTellTheTruth'
    BY <1>2, <1>0
    DEF CheckerInv, MessagesTellTheTruth, TryLock, Goto, request, window
  <2>6. BoxesTellTheTruth'
    BY <1>2, <1>0
    DEF CheckerInv, BoxesTellTheTruth, TryLock, Goto, request, window
  <2> QED
    BY <2>1, <2>2, <2>3, <2>4, <2>5, <2>6 DEF CheckerInv
<1>3. ASSUME NEW c \in Check, GetVersion(c), UNCHANGED window PROVE CheckerInv'
  <2>1. CheckerTypeOK'
    BY <1>3
    DEF CheckerInv, CheckerTypeOK, Working, GetVersion, ShowResult, Goto,
      request, window
  <2>2. OwnerWorks'
    BY <1>3
    DEF CheckerInv, CheckerTypeOK, Working, OwnerWorks, GetVersion, ShowResult,
      Goto, request, window
  <2>3. HandlesOfCalls'
    <3>1. \A d \in Check : d # c => state[d] # "release"
      BY <1>3 DEF CheckerInv, OwnerWorks, Working, GetVersion
    <3>2. state[c] # "release"
      BY <1>3 DEF GetVersion
    <3>3. \A d \in Check : handles'[d] = {} /\ (d # c => state'[d] = state[d])
      BY <1>3, <3>1, <3>2
      DEF CheckerInv, CheckerTypeOK, HandlesOfCalls, GetVersion, ShowResult,
        Goto, request
    <3>4. {Call[i] : i \in 1..called'} \cap Handle = {}
      <4>1. called' = 0
        BY <1>3 DEF GetVersion
      <4> QED
        BY <4>1
    <3> QED
      BY <3>1, <3>3, <3>4, Zenon DEF HandlesOfCalls
  <2>4. ResultKnown'
    BY <1>3
    DEF CheckerInv, CheckerTypeOK, ResultKnown, GetVersion, ShowResult, Goto,
      request, window
  <2>5. MessagesTellTheTruth'
    BY <1>3, <1>0
    DEF CheckerInv, MessagesTellTheTruth, GetVersion, ShowResult, Goto, request,
      window
  <2>6. BoxesTellTheTruth'
    BY <1>3, <1>0
    DEF CheckerInv, BoxesTellTheTruth, GetVersion, ShowResult, Goto, request,
      window
  <2> QED
    BY <2>1, <2>2, <2>3, <2>4, <2>5, <2>6 DEF CheckerInv
<1>4. ASSUME NEW c \in Check, GetVersion(c), ShowResult(c, CheckError) PROVE CheckerInv'
  <2>a. CheckError \in Result /\ (Comparable => Truth(CheckError))
    BY ErrorsTellNothing
  <2>b. Posted(c, CheckError)
    BY <1>4, <2>a, ShowResultPosts DEF CheckerInv, CheckerTypeOK
  <2>1. CheckerTypeOK'
    BY <1>4, <2>b
    DEF CheckerInv, CheckerTypeOK, Working, Posted, GetVersion, ShowResult,
      Goto, Leave, worker, request, window
  <2>2. OwnerWorks'
    BY <1>4
    DEF CheckerInv, CheckerTypeOK, Working, OwnerWorks, GetVersion, ShowResult,
      Goto, Leave, worker, request, window
  <2>3. HandlesOfCalls'
    <3>1. \A d \in Check : d # c => state[d] # "release"
      BY <1>4 DEF CheckerInv, OwnerWorks, Working, GetVersion
    <3>2. state[c] # "release"
      BY <1>4 DEF GetVersion
    <3>3. \A d \in Check : handles'[d] = {} /\ (d # c => state'[d] = state[d])
      BY <1>4, <3>1, <3>2
      DEF CheckerInv, CheckerTypeOK, HandlesOfCalls, GetVersion, ShowResult,
        Goto, request
    <3>4. {Call[i] : i \in 1..called'} \cap Handle = {}
      <4>1. called' = 0
        BY <1>4 DEF GetVersion
      <4> QED
        BY <4>1
    <3> QED
      BY <3>1, <3>3, <3>4, Zenon DEF HandlesOfCalls
  <2>4. ResultKnown'
    BY <1>4, <2>a, <2>b, PostKeepsMessages
    DEF GetVersion, ShowResult, Goto, worker, request, window
  <2>5. MessagesTellTheTruth'
    BY <1>4, <2>a, <2>b, PostKeepsMessages
    DEF GetVersion, ShowResult, Goto, worker, request, window
  <2>6. BoxesTellTheTruth'
    BY <1>4, <1>0
    DEF CheckerInv, BoxesTellTheTruth, GetVersion, ShowResult, Goto, Leave,
      worker, request, window
  <2> QED
    BY <2>1, <2>2, <2>3, <2>4, <2>5, <2>6 DEF CheckerInv
<1>5. ASSUME NEW c \in Check, GiveUp(c) PROVE CheckerInv'
  <2>a. CheckError \in Result /\ (Comparable => Truth(CheckError))
    BY ErrorsTellNothing
  <2>b. Posted(c, CheckError)
    BY <1>5, <2>a, ShowResultPosts DEF GiveUp, CheckerInv, CheckerTypeOK
  <2>1. CheckerTypeOK'
    BY <1>5, <2>b
    DEF CheckerInv, CheckerTypeOK, Working, Posted, GiveUp, ShowResult, Goto,
      Leave, worker, request, window
  <2>2. OwnerWorks'
    BY <1>5
    DEF CheckerInv, CheckerTypeOK, Working, OwnerWorks, GiveUp, ShowResult,
      Goto, Leave, worker, request, window
  <2>3. HandlesOfCalls'
    BY <1>5
    DEF CheckerInv, CheckerTypeOK, HandlesOfCalls, GiveUp, ShowResult, Goto,
      Leave, worker, request, window
  <2>4. ResultKnown'
    BY <1>5, <2>a, <2>b, PostKeepsMessages
    DEF GiveUp, ShowResult, Goto, worker, request, window
  <2>5. MessagesTellTheTruth'
    BY <1>5, <2>a, <2>b, PostKeepsMessages
    DEF GiveUp, ShowResult, Goto, worker, request, window
  <2>6. BoxesTellTheTruth'
    BY <1>5, <1>0
    DEF CheckerInv, BoxesTellTheTruth, GiveUp, ShowResult, Goto, Leave, worker,
      request, window
  <2> QED
    BY <2>1, <2>2, <2>3, <2>4, <2>5, <2>6 DEF CheckerInv
<1>6. ASSUME NEW c \in Check, CallSucceeds(c) PROVE CheckerInv'
  <2>1. CheckerTypeOK'
    BY <1>6 DEF CheckerInv, CheckerTypeOK, Working, CallSucceeds, worker, window
  <2>2. OwnerWorks'
    BY <1>6
    DEF CheckerInv, CheckerTypeOK, Working, OwnerWorks, CallSucceeds, worker,
      window
  <2>3. HandlesOfCalls'
    <3>1. \A d \in Check : d # c => state[d] # "release" /\ handles[d] = {}
      BY <1>6 DEF CheckerInv, OwnerWorks, Working, HandlesOfCalls, CallSucceeds
    <3>2. /\ state' = state /\ called' = called + 1 /\ called \in Nat
          /\ handles' = [handles EXCEPT ![c] = @ \cup ({Call[called']} \cap Handle)]
          /\ handles[c] = {Call[i] : i \in 1..called} \cap Handle
      BY <1>6
      DEF CheckerInv, CheckerTypeOK, HandlesOfCalls, CallSucceeds, worker
    <3>3. handles'[c] = handles[c] \cup ({Call[called']} \cap Handle)
      BY <3>2 DEF CheckerInv, CheckerTypeOK
    <3>4. 1..called' = 1..called \cup {called'}
      BY <3>2
    <3>5. {Call[i] : i \in 1..called'} = {Call[i] : i \in 1..called} \cup {Call[called']}
      BY <3>4, Zenon
    <3>6. handles'[c] = {Call[i] : i \in 1..called'} \cap Handle
      BY <3>2, <3>3, <3>5
    <3>7. \A d \in Check : d # c => state'[d] # "release" /\ handles'[d] = {}
      BY <3>1, <3>2 DEF CheckerInv, CheckerTypeOK
    <3>8. state'[c] = "release"
      BY <1>6, <3>2 DEF CallSucceeds
    <3> QED
      BY <3>6, <3>7, <3>8, Zenon DEF HandlesOfCalls
  <2>4. ResultKnown'
    BY <1>6
    DEF CheckerInv, CheckerTypeOK, ResultKnown, CallSucceeds, worker, window
  <2>5. MessagesTellTheTruth'
    BY <1>6, <1>0
    DEF CheckerInv, MessagesTellTheTruth, CallSucceeds, worker, window
  <2>6. BoxesTellTheTruth'
    BY <1>6, <1>0
    DEF CheckerInv, BoxesTellTheTruth, CallSucceeds, worker, window
  <2> QED
    BY <2>1, <2>2, <2>3, <2>4, <2>5, <2>6 DEF CheckerInv
<1>7. ASSUME NEW c \in Check, ReadData(c), UNCHANGED window PROVE CheckerInv'
  <2>1. CheckerTypeOK'
    BY <1>7
    DEF CheckerInv, CheckerTypeOK, Working, ReadData, ShowResult, Goto, Leave,
      worker, window
  <2>2. OwnerWorks'
    BY <1>7
    DEF CheckerInv, CheckerTypeOK, Working, OwnerWorks, ReadData, ShowResult,
      Goto, Leave, worker, window
  <2>3. HandlesOfCalls'
    BY <1>7
    DEF CheckerInv, CheckerTypeOK, HandlesOfCalls, ReadData, ShowResult, Goto,
      Leave, worker, window
  <2>4. ResultKnown'
    BY <1>7
    DEF CheckerInv, CheckerTypeOK, ResultKnown, ReadData, ShowResult, Goto,
      Leave, worker, window
  <2>5. MessagesTellTheTruth'
    BY <1>7, <1>0
    DEF CheckerInv, MessagesTellTheTruth, ReadData, ShowResult, Goto, Leave,
      worker, window
  <2>6. BoxesTellTheTruth'
    BY <1>7, <1>0
    DEF CheckerInv, BoxesTellTheTruth, ReadData, ShowResult, Goto, Leave,
      worker, window
  <2> QED
    BY <2>1, <2>2, <2>3, <2>4, <2>5, <2>6 DEF CheckerInv
<1>8. ASSUME NEW c \in Check, ReadData(c), ShowResult(c, CheckError), Leave(c), body = 0
      PROVE CheckerInv'
  <2>a. CheckError \in Result /\ (Comparable => Truth(CheckError))
    BY ErrorsTellNothing
  <2>b. Posted(c, CheckError)
    BY <1>8, <2>a, ShowResultPosts DEF CheckerInv, CheckerTypeOK
  <2>1. CheckerTypeOK'
    BY <1>8, <2>b
    DEF CheckerInv, CheckerTypeOK, Working, Posted, ReadData, ShowResult, Goto,
      Leave, worker, request, window
  <2>2. OwnerWorks'
    BY <1>8
    DEF CheckerInv, CheckerTypeOK, Working, OwnerWorks, ReadData, ShowResult,
      Goto, Leave, worker, request, window
  <2>3. HandlesOfCalls'
    BY <1>8
    DEF CheckerInv, CheckerTypeOK, HandlesOfCalls, ReadData, ShowResult, Goto,
      Leave, worker, request, window
  <2>4. ResultKnown'
    BY <1>8, <2>a, <2>b, PostKeepsMessages
    DEF ReadData, ShowResult, Goto, worker, request, window
  <2>5. MessagesTellTheTruth'
    BY <1>8, <2>a, <2>b, PostKeepsMessages
    DEF ReadData, ShowResult, Goto, worker, request, window
  <2>6. BoxesTellTheTruth'
    BY <1>8, <1>0
    DEF CheckerInv, BoxesTellTheTruth, ReadData, ShowResult, Goto, Leave,
      worker, request, window
  <2> QED
    BY <2>1, <2>2, <2>3, <2>4, <2>5, <2>6 DEF CheckerInv
<1>9. ASSUME NEW c \in Check, ParseReleaseTag(c), ShowResult(c, CheckError) PROVE CheckerInv'
  <2>a. CheckError \in Result /\ (Comparable => Truth(CheckError))
    BY ErrorsTellNothing
  <2>b. Posted(c, CheckError)
    BY <1>9, <2>a, ShowResultPosts DEF CheckerInv, CheckerTypeOK
  <2>1. CheckerTypeOK'
    BY <1>9, <2>b
    DEF CheckerInv, CheckerTypeOK, Working, Posted, ParseReleaseTag, ShowResult,
      Goto, Leave, worker, request, window
  <2>2. OwnerWorks'
    BY <1>9
    DEF CheckerInv, CheckerTypeOK, Working, OwnerWorks, ParseReleaseTag,
      ShowResult, Goto, Leave, worker, request, window
  <2>3. HandlesOfCalls'
    BY <1>9
    DEF CheckerInv, CheckerTypeOK, HandlesOfCalls, ParseReleaseTag, ShowResult,
      Goto, Leave, worker, request, window
  <2>4. ResultKnown'
    BY <1>9, <2>a, <2>b, PostKeepsMessages
    DEF ParseReleaseTag, ShowResult, Goto, worker, request, window
  <2>5. MessagesTellTheTruth'
    BY <1>9, <2>a, <2>b, PostKeepsMessages
    DEF ParseReleaseTag, ShowResult, Goto, worker, request, window
  <2>6. BoxesTellTheTruth'
    BY <1>9, <1>0
    DEF CheckerInv, BoxesTellTheTruth, ParseReleaseTag, ShowResult, Goto, Leave,
      worker, request, window
  <2> QED
    BY <2>1, <2>2, <2>3, <2>4, <2>5, <2>6 DEF CheckerInv
<1>10. ASSUME NEW c \in Check, ParseReleaseTag(c), ShowResult(c, Compared) PROVE CheckerInv'
  <2>a. Compared \in Result /\ (Comparable => Truth(Compared))
    BY ComparedTells DEF CheckerInv, CheckerTypeOK
  <2>b. Posted(c, Compared)
    BY <1>10, <2>a, ShowResultPosts DEF CheckerInv, CheckerTypeOK
  <2>1. CheckerTypeOK'
    BY <1>10, <2>b
    DEF CheckerInv, CheckerTypeOK, Working, Posted, ParseReleaseTag, ShowResult,
      Goto, Leave, worker, request, window
  <2>2. OwnerWorks'
    BY <1>10
    DEF CheckerInv, CheckerTypeOK, Working, OwnerWorks, ParseReleaseTag,
      ShowResult, Goto, Leave, worker, request, window
  <2>3. HandlesOfCalls'
    BY <1>10
    DEF CheckerInv, CheckerTypeOK, HandlesOfCalls, ParseReleaseTag, ShowResult,
      Goto, Leave, worker, request, window
  <2>4. ResultKnown'
    BY <1>10, <2>a, <2>b, PostKeepsMessages
    DEF ParseReleaseTag, ShowResult, Goto, worker, request, window
  <2>5. MessagesTellTheTruth'
    BY <1>10, <2>a, <2>b, PostKeepsMessages
    DEF ParseReleaseTag, ShowResult, Goto, worker, request, window
  <2>6. BoxesTellTheTruth'
    BY <1>10, <1>0
    DEF CheckerInv, BoxesTellTheTruth, ParseReleaseTag, ShowResult, Goto, Leave,
      worker, request, window
  <2> QED
    BY <2>1, <2>2, <2>3, <2>4, <2>5, <2>6 DEF CheckerInv
<1>11. ASSUME NEW c \in Check, Unlock(c) PROVE CheckerInv'
  <2>1. CheckerTypeOK'
    BY <1>11
    DEF CheckerInv, CheckerTypeOK, Working, Unlock, Goto, request, window
  <2>2. OwnerWorks'
    BY <1>11
    DEF CheckerInv, CheckerTypeOK, Working, OwnerWorks, Unlock, Goto, request,
      window
  <2>3. HandlesOfCalls'
    BY <1>11
    DEF CheckerInv, CheckerTypeOK, HandlesOfCalls, Unlock, Goto, request, window
  <2>4. ResultKnown'
    BY <1>11
    DEF CheckerInv, CheckerTypeOK, ResultKnown, Unlock, Goto, request, window
  <2>5. MessagesTellTheTruth'
    BY <1>11, <1>0
    DEF CheckerInv, MessagesTellTheTruth, Unlock, Goto, request, window
  <2>6. BoxesTellTheTruth'
    BY <1>11, <1>0
    DEF CheckerInv, BoxesTellTheTruth, Unlock, Goto, request, window
  <2> QED
    BY <2>1, <2>2, <2>3, <2>4, <2>5, <2>6 DEF CheckerInv
<1>12. ASSUME OnUpdateCheckFinish PROVE CheckerInv'
  <2>a. /\ messages \in Seq(Message) /\ messages # <<>>
        /\ messages' = Tail(messages) /\ boxes' = boxes \cup {messages[1]}
        /\ answered' = answered \cup {messages[1].check}
        /\ UNCHANGED <<state, quiet, turnedAway>>
    BY <1>12 DEF CheckerInv, CheckerTypeOK, OnUpdateCheckFinish, worker
  <2>b. /\ \A i \in 1..Len(messages') :
             i + 1 \in 1..Len(messages) /\ messages'[i] = messages[i + 1]
        /\ \A i \in 1..Len(messages) :
             i = 1 \/ (i - 1 \in 1..Len(messages') /\ messages'[i - 1] = messages[i])
        /\ 1 \in 1..Len(messages)
    BY <2>a
  <2>1. CheckerTypeOK'
    BY <1>12
    DEF CheckerInv, CheckerTypeOK, Working, OnUpdateCheckFinish, worker, request
  <2>2. OwnerWorks'
    BY <1>12
    DEF CheckerInv, CheckerTypeOK, Working, OwnerWorks, OnUpdateCheckFinish,
      worker, request
  <2>3. HandlesOfCalls'
    BY <1>12
    DEF CheckerInv, CheckerTypeOK, HandlesOfCalls, OnUpdateCheckFinish, worker,
      request
  <2>4. ResultKnown'
    <3> SUFFICES ASSUME NEW d \in Check, state'[d] \in {"posted", "done"}
                 PROVE  \/ d \in (answered \cup quiet \cup turnedAway)'
                        \/ \E i \in 1..Len(messages') : messages'[i].check = d
      BY DEF ResultKnown
    <3>1. \/ d \in answered \cup quiet \cup turnedAway
          \/ \E i \in 1..Len(messages) : messages[i].check = d
      BY <2>a DEF CheckerInv, ResultKnown
    <3>2. CASE d \in answered \cup quiet \cup turnedAway
      BY <2>a, <3>2
    <3>3. ASSUME NEW i \in 1..Len(messages), messages[i].check = d
          PROVE  \/ d \in answered'
                 \/ \E j \in 1..Len(messages') : messages'[j].check = d
      BY <2>a, <2>b, <3>3, Zenon
    <3> QED
      BY <3>1, <3>2, <3>3
  <2>5. MessagesTellTheTruth'
    BY <1>0, <2>b DEF CheckerInv, MessagesTellTheTruth
  <2>6. BoxesTellTheTruth'
    <3>1. Comparable => Truth(messages[1].result)
      BY <2>b DEF CheckerInv, MessagesTellTheTruth
    <3>2. Comparable => \A box \in boxes : Truth(box.result)
      BY DEF CheckerInv, BoxesTellTheTruth, Comparable
    <3>3. Comparable' => \A box \in boxes' : Truth(box.result)'
      BY <1>0, <2>a, <3>1, <3>2, Zenon
    <3> QED
      BY <3>3, Zenon DEF BoxesTellTheTruth, Comparable
  <2> QED
    BY <2>1, <2>2, <2>3, <2>4, <2>5, <2>6 DEF CheckerInv
<1>13. ASSUME NEW box \in boxes, Dismiss(box) PROVE CheckerInv'
  <2>1. CheckerTypeOK'
    BY <1>13 DEF CheckerInv, CheckerTypeOK, Working, Dismiss, worker, request
  <2>2. OwnerWorks'
    BY <1>13
    DEF CheckerInv, CheckerTypeOK, Working, OwnerWorks, Dismiss, worker, request
  <2>3. HandlesOfCalls'
    BY <1>13
    DEF CheckerInv, CheckerTypeOK, HandlesOfCalls, Dismiss, worker, request
  <2>4. ResultKnown'
    BY <1>13
    DEF CheckerInv, CheckerTypeOK, ResultKnown, Dismiss, worker, request
  <2>5. MessagesTellTheTruth'
    BY <1>13, <1>0
    DEF CheckerInv, MessagesTellTheTruth, Dismiss, worker, request
  <2>6. BoxesTellTheTruth'
    BY <1>13, <1>0 DEF CheckerInv, BoxesTellTheTruth, Dismiss, worker, request
  <2> QED
    BY <2>1, <2>2, <2>3, <2>4, <2>5, <2>6 DEF CheckerInv
<1>14. ASSUME UNCHANGED vars PROVE CheckerInv'
  <2>1. CheckerTypeOK'
    BY <1>14
    DEF CheckerInv, CheckerTypeOK, Working, vars, worker, request, window
  <2>2. OwnerWorks'
    BY <1>14
    DEF CheckerInv, CheckerTypeOK, Working, OwnerWorks, vars, worker, request,
      window
  <2>3. HandlesOfCalls'
    BY <1>14
    DEF CheckerInv, CheckerTypeOK, HandlesOfCalls, vars, worker, request, window
  <2>4. ResultKnown'
    BY <1>14
    DEF CheckerInv, CheckerTypeOK, ResultKnown, vars, worker, request, window
  <2>5. MessagesTellTheTruth'
    BY <1>14, <1>0
    DEF CheckerInv, MessagesTellTheTruth, vars, worker, request, window
  <2>6. BoxesTellTheTruth'
    BY <1>14, <1>0
    DEF CheckerInv, BoxesTellTheTruth, vars, worker, request, window
  <2> QED
    BY <2>1, <2>2, <2>3, <2>4, <2>5, <2>6 DEF CheckerInv
<1> QED
  <2>1. ASSUME NEW c \in Check, Work(c) PROVE CheckerInv'
    BY <2>1, <1>2, <1>3, <1>4, <1>5, <1>6, <1>7, <1>8, <1>9, <1>10, <1>11
    DEF Work, GetVersion, ReadData, ParseReleaseTag
  <2> QED
    BY <2>1, <1>1, <1>12, <1>13, <1>14 DEF CheckerNext

LEMMA CheckerInvariance == CheckerSpec => []CheckerInv
<1>1. CheckerInit => CheckerInv
  BY CallsAreFive, NoCheckAssumption
  DEF CheckerInit, CheckerInv, CheckerTypeOK, OwnerWorks, HandlesOfCalls,
    ResultKnown, MessagesTellTheTruth, BoxesTellTheTruth, Working
<1> QED
  BY <1>1, CheckerStep, PTL DEF CheckerSpec

\* What a message box says of the two versions is so, whatever they are, with
\* the exception BoxesTellTheTruth names (Util::isNewerVersion and what
\* checkWorker makes of its result).
THEOREM BoxesAreTrue == CheckerSpec => []BoxesTellTheTruth
<1>1. CheckerInv => BoxesTellTheTruth
  BY DEF CheckerInv
<1> QED
  BY <1>1, CheckerInvariance, PTL

\* When every check has ended, checkMutex_ is free, and a check without an
\* answer was a quiet one or found another one under way.
THEOREM NobodyIsForgotten == CheckerSpec => []BusyIsTheOnlyExcuse
<1>1. ASSUME CheckerInv PROVE BusyIsTheOnlyExcuse
  <2> SUFFICES ASSUME Settled
               PROVE  /\ checkMutex = NoCheck
                      /\ {c \in Check : state[c] = "done"} \subseteq
                           answered \cup quiet \cup turnedAway
    BY DEF BusyIsTheOnlyExcuse
  <2>1. \A c \in Check : state[c] \notin Working
    BY DEF Settled, Working
  <2>2. checkMutex = NoCheck
    BY <1>1, <2>1 DEF CheckerInv, CheckerTypeOK, OwnerWorks
  <2>3. messages = <<>>
    BY DEF Settled
  <2>4. ASSUME NEW c \in Check, state[c] = "done"
        PROVE  c \in answered \cup quiet \cup turnedAway
    BY <1>1, <2>3, <2>4 DEF CheckerInv, ResultKnown
  <2> QED
    BY <2>2, <2>4
<1> QED
  BY <1>1, CheckerInvariance, PTL

\* getLatestRelease gives its handles back on each of its ways out, and never
\* has one open whose parent is not.
THEOREM HandlesAreGivenBack == CheckerSpec => []HandlesGivenBack
<1>1. ASSUME CheckerInv PROVE HandlesGivenBack
  <2> SUFFICES ASSUME NEW c \in Check
               PROVE  /\ handles[c] # {} => checkMutex = c /\ state[c] = "release"
                      /\ \A i \in 2..3 : Call[i] \in handles[c] => Call[i - 1] \in handles[c]
    BY DEF HandlesGivenBack
  <2>1. CASE state[c] # "release"
    BY <1>1, <2>1 DEF CheckerInv, HandlesOfCalls
  <2>2. CASE state[c] = "release"
    <3>1. handles[c] = {Call[i] : i \in 1..called} \cap Handle
      BY <1>1, <2>2 DEF CheckerInv, HandlesOfCalls
    <3>2. checkMutex = c
      BY <1>1, <2>2 DEF CheckerInv, OwnerWorks, Working
    <3>3. called \in 0..5
      BY <1>1, CallsAreFive DEF CheckerInv, CheckerTypeOK
    <3>4. ASSUME NEW i \in 2..3, Call[i] \in handles[c]
          PROVE  Call[i - 1] \in handles[c]
      <4>1. PICK j \in 1..called : Call[j] = Call[i]
        BY <3>1, <3>4
      <4>2. j = i
        <5>1. j \in {1, 2, 3, 4, 5} /\ i \in {2, 3}
          BY <3>3
        <5> QED
          BY <4>1, <5>1 DEF Call
      <4>3. i - 1 \in 1..called /\ i - 1 \in {1, 2}
        BY <3>3, <4>2
      <4>4. Call[i - 1] \in Handle
        BY <4>3 DEF Call, Handle
      <4> QED
        BY <3>1, <4>3, <4>4
    <3> QED
      BY <2>2, <3>2, <3>4
  <2> QED
    BY <2>1, <2>2
<1> QED
  BY <1>1, CheckerInvariance, PTL
=============================================================================
