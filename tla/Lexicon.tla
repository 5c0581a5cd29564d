------------------------------ MODULE Lexicon -------------------------------
(* What the user is promised of the words that can be typed.  A word reported *)
(* as learned is there, the way it is kept; one reported as forgotten is not; *)
(* no other word is touched, and a refused call changes nothing.  An accident *)
(* while saving may lose words the user added, bring back words of the table  *)
(* and bring one word that never was; another table changes the words of the  *)
(* two tables.  After either, a word of the table may outlive its being       *)
(* forgotten.                                                                 *)
CONSTANTS
  Word,
  Kept       \* the word that a word is kept as, or none: blanks around it are not
VARIABLES
  shown,     \* the words that can be typed
  listed,    \* the words of the main table
  intact,    \* no accident or change of table has left its trace
  answer     \* what the user was told of the last call

Init ==
  /\ shown \subseteq Word
  /\ listed \subseteq shown
  /\ intact = TRUE
  /\ answer = [op |-> "none", ok |-> TRUE, whole |-> TRUE]

Told(op, ok) == answer' = [op |-> op, ok |-> ok, whole |-> TRUE]

Learn(w) ==
  /\ shown' = shown \cup ({Kept[w]} \cap Word)
  /\ intact /\ Kept[w] = w => intact'
  /\ Told("add", TRUE)
  /\ UNCHANGED listed

Forget(w) ==
  /\ shown' \in {shown, shown \ {w}}
  /\ intact \/ w \notin listed => w \notin shown'
  /\ intact => intact'
  /\ Told("delete", TRUE)
  /\ UNCHANGED listed

Refuse ==
  /\ \E op \in {"add", "delete"} : Told(op, FALSE)
  /\ UNCHANGED <<shown, listed, intact>>

Damage(w) ==
  /\ \E stray \in Word : shown' \subseteq shown \cup listed \cup {Kept[w], stray}
  /\ ~answer'.whole
  /\ UNCHANGED listed

Replace ==
  /\ shown' \ (listed \cup listed') = shown \ (listed \cup listed')
  /\ UNCHANGED answer

Next ==
  \/ \E w \in Word : Learn(w) \/ Forget(w) \/ Damage(w)
  \/ Refuse
  \/ Replace

Spec == Init /\ [][Next]_<<shown, listed, intact, answer>>
=============================================================================
