------------------------------ MODULE Version ------------------------------
(***************************************************************************)
(* Util::isNewerVersion, on what its regular expression makes of a text:   *)
(* three or four numbers, and whether text follows them.                   *)
(***************************************************************************)
EXTENDS Integers, Sequences

CONSTANTS
  MaxPart,      \* the largest number std::stoul returns
  Unparsable    \* a text the regular expression does not match

ParsedVersion == [parts : [1..3 -> Nat] \cup [1..4 -> Nat], suffix : BOOLEAN]

ASSUME MaxPartAssumption == MaxPart \in Nat
ASSUME UnparsableAssumption == Unparsable \notin ParsedVersion

Matched(v, i) == i <= Len(v.parts)
TooLarge(v, i) == v.parts[i] > MaxPart

\* (A slip: the shorter of two versions is the newer one.)
ShorterIsNewer(current, latest, i) ==
  IF ~(Matched(current, i) /\ Matched(latest, i))
  THEN IF Matched(latest, i) THEN 0 ELSE 1
  ELSE IF TooLarge(current, i) \/ TooLarge(latest, i) THEN -3
  ELSE IF current.parts[i] < latest.parts[i] THEN 1 ELSE 0

\* One turn of the loop that returns.
ResultAt(current, latest, i) ==
  IF ~(Matched(current, i) /\ Matched(latest, i))
  THEN IF Matched(current, i) THEN 0 ELSE 1
  ELSE IF TooLarge(current, i) \/ TooLarge(latest, i) THEN -3
  ELSE IF current.parts[i] < latest.parts[i] THEN 1 ELSE 0

\* The turns that do return.
Decisive(current, latest) ==
  {i \in 1..4 :
     \/ ~(Matched(current, i) /\ Matched(latest, i))
     \/ TooLarge(current, i) \/ TooLarge(latest, i)
     \/ current.parts[i] # latest.parts[i]}

IsNewerVersion(current, latest) ==
  IF current = Unparsable THEN -1
  ELSE IF latest = Unparsable THEN -2
  ELSE LET decisive == Decisive(current, latest) IN
       IF decisive # {}
       THEN ResultAt(current, latest, CHOOSE i \in decisive : \A j \in decisive : i <= j)
       ELSE IF current.suffix /\ ~latest.suffix THEN 1 ELSE 0

-----------------------------------------------------------------------------
(* The order Util.h describes: number by number, a longer version after the *)
(* shorter one it continues, and a version with a suffix before the same    *)
(* one without it.                                                          *)

Before(v, w) ==
  LET common == {i \in 1..4 : Matched(v, i) /\ Matched(w, i)}
      differs == {i \in common : v.parts[i] # w.parts[i]} IN
  \/ \E i \in differs : v.parts[i] < w.parts[i] /\ \A j \in differs : i <= j
  \/ differs = {} /\ Len(v.parts) < Len(w.parts)
  \/ v.parts = w.parts /\ v.suffix /\ ~w.suffix

Legible(v) == v # Unparsable /\ \A i \in 1..Len(v.parts) : ~TooLarge(v, i)

\* Two versions of three numbers, which agree in all of them.
SameThreeParts(v, w) == v.parts = w.parts /\ Len(v.parts) = 3
=============================================================================
