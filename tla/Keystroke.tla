----------------------------- MODULE Keystroke -----------------------------
(***************************************************************************)
(* The keystrokes a client asks for (domain/Keystroke.cpp): a key and its  *)
(* modifiers are pressed and released again by one call of SendInput,      *)
(* which may insert only the first few of the events it is given.          *)
(*                                                                         *)
(* What matters is which keys the system takes for pressed; the extended   *)
(* flag of the main key and the texts shown for keys are left out.         *)
(***************************************************************************)
EXTENDS Integers, FiniteSets, Functions

Modifier == {"Win", "Ctrl", "Shift", "Alt"}
ModKey == [m \in Modifier |->
  CASE m = "Win" -> 1 [] m = "Ctrl" -> 2 [] m = "Shift" -> 4 [] m = "Alt" -> 8]
ModKeyVk == [m \in Modifier |->
  CASE m = "Win" -> 91 [] m = "Ctrl" -> 17 [] m = "Shift" -> 16 [] m = "Alt" -> 18]

VARIABLES
  keyboard,       \* the keys the system takes for pressed
  mistyped,       \* history: modifiers that were missing when a main key was
                  \* pressed, and keys pressed with it that nothing explains
  cut             \* history: the keys of injections cut short, until an
                  \* injection with the same key is complete

keys == <<keyboard, mistyped, cut>>

KeystrokeInit ==
  /\ keyboard = {}
  /\ mistyped = {}
  /\ cut = {}

-----------------------------------------------------------------------------
\* The constructor: the virtual keys of the bits that are set.
Mods(mods) ==
  {ModKeyVk[m] : m \in {n \in Modifier : (mods \div ModKey[n]) % 2 = 1}}

\* (Slips: the first modifier is pressed instead of released, and the main
\* key goes first.)
InputsReleasedLate(key, held, order) ==
  LET keyCount == Cardinality(held) + 1
  IN  [i \in 1..2 * keyCount |->
         [wVk |-> IF i < keyCount THEN order[i]
                  ELSE IF i <= keyCount + 1 THEN key
                  ELSE order[2 * keyCount + 1 - i],
          dwFlags |-> IF i > keyCount /\ i < 2 * keyCount THEN "KEYUP" ELSE "KEYDOWN"]]

InputsKeyFirst(key, held, order) ==
  LET keyCount == Cardinality(held) + 1
  IN  [i \in 1..2 * keyCount |->
         [wVk |-> IF i \in {1, 2 * keyCount} THEN key
                  ELSE IF i <= keyCount THEN order[i - 1]
                  ELSE order[2 * keyCount - i],
          dwFlags |-> IF i > keyCount THEN "KEYUP" ELSE "KEYDOWN"]]

\* The events: the modifiers held, in the order the unordered set has them,
\* and the key; then the key again, and the modifiers in reverse.
Inputs(key, held, order) ==
  LET keyCount == Cardinality(held) + 1
  IN  [i \in 1..2 * keyCount |->
         [wVk |-> IF i < keyCount THEN order[i]
                  ELSE IF i <= keyCount + 1 THEN key
                  ELSE order[2 * keyCount + 1 - i],
          dwFlags |-> IF i > keyCount THEN "KEYUP" ELSE "KEYDOWN"]]

\* The keys pressed after the first n of the events: the last event of a key
\* decides, and a key without events stays as it was.
After(pressed, inputs, n) ==
  {k \in pressed \cup {inputs[i].wVk : i \in 1..n} :
     LET events == {i \in 1..n : inputs[i].wVk = k}
     IN  events = {} \/ \E i \in events :
           inputs[i].dwFlags = "KEYDOWN" /\ \A j \in events : j <= i}

\* emulate.  The result of SendInput is not looked at.
Inject(key, held, order, inserted) ==
  LET inputs == Inputs(key, held, order)
      under == After(keyboard, inputs, Cardinality(held))
  IN  /\ keyboard' = After(keyboard, inputs, inserted)
      /\ IF inserted > Cardinality(held)
         THEN mistyped' = mistyped \cup (held \ under) \cup (under \ (held \cup cut))
         ELSE UNCHANGED mistyped
      /\ cut' = IF inserted < 2 * (Cardinality(held) + 1)
                THEN cut \cup held \cup {key}
                ELSE cut \ (held \cup {key})

Emulate(key, mods) ==
  LET held == Mods(mods)
  IN  \E order \in Bijection(1..Cardinality(held), held) :
        \E inserted \in 0..2 * (Cardinality(held) + 1) :
          Inject(key, held, order, inserted)

-----------------------------------------------------------------------------
\* Whatever was injected, and cut short, before: a key is left pressed only
\* by an injection cut short, and only until a keystroke that uses the same
\* key gets through.
KeysComeUp == keyboard \subseteq cut

\* The system sees a key under all the modifiers asked for, and under other
\* keys only if injections cut short before it have left those pressed.
TypedAsAsked == mistyped = {}
=============================================================================
