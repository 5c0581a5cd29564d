------------------------------ MODULE UserDict ------------------------------
(* The user's words as the Wubi engine keeps them: the words the user added, *)
(* the words of the main table the user deleted, and the file              *)
(* ~/.local/freewb/data/user_word.txt that carries both over a restart.      *)
(* A word is a pair of code and text, written as one line of the file, from  *)
(* which blanks around the text do not come back.                            *)
(*                                                                           *)
(* WbzxEngine::addUserWord and deleteUserWord edit the copy in memory, write *)
(* all of it over the file, and read the file back whatever became of the    *)
(* write: the file may not open (it is left alone), or the write may stop    *)
(* half way (the file then holds a first part of what was written, whose     *)
(* last line may be cut short and read back as another word).                *)
EXTENDS Naturals, FiniteSets

CONSTANTS
  Word,      \* pairs of a code and a text, both non-empty
  Line,      \* where the word's line comes in the sorted file
  Read,      \* the word its line is read back as, or Empty when it is skipped
  Stub,      \* the words its line may be read back as when it is cut short
  Tables,    \* the main tables a load can end with, {} when the file is bad
  Empty      \* what a caller passes when the code or the text is empty

ASSUME UserDictAssumption ==
  /\ Empty \notin Word
  /\ Line \in [Word -> Nat]
  /\ Read \in [Word -> Word \cup {Empty}]
  /\ Stub \in [Word -> SUBSET Word]
  /\ Tables \subseteq SUBSET Word

\* A word that was read once is read back as itself, and so are those of a
\* main table, whose source separates the words by blanks.
Plain == {w \in Word : Read[w] = w}

ASSUME ReadAssumption ==
  /\ \A w \in Word : Read[w] \in Plain \cup {Empty} /\ Stub[w] \subseteq Plain
  /\ \A t \in Tables : t \subseteq Plain

VARIABLES
  main,      \* mbTable_: the words of the main table
  mem,       \* userEntries_ and deletedEntries_
  file,      \* the two sections of user_word.txt
  answer     \* the last call, what it returned, whether it wrote all it meant to

vars == <<main, mem, file, answer>>

Dict == [user : SUBSET Word, deleted : SUBSET Word]

\* The words the candidates are taken from: the user's own, and those of the
\* main table not marked deleted.
VisibleOf(d, t) == d.user \cup (t \ d.deleted)
Visible == VisibleOf(mem, main)

Init ==
  /\ main \in Tables
  /\ \E own \in SUBSET (Plain \ main) : mem = [user |-> own, deleted |-> {}]
  /\ file = mem
  /\ answer = [op |-> "none", ok |-> TRUE, whole |-> TRUE]

-----------------------------------------------------------------------------
(* What a call makes of the copy in memory.                                  *)

\* A slip: a word of the main table is added to the user's own like any other.
MutAddedToBoth(w) == [user |-> mem.user \cup {w}, deleted |-> mem.deleted]

\* addUserWord: a word of the main table is only taken off both lists.
Added(w) ==
  [user    |-> IF w \in main THEN mem.user \ {w} ELSE mem.user \cup {w},
   deleted |-> mem.deleted \ {w}]

\* deleteUserWord of a word the user added.
Removed(w) == [user |-> mem.user \ {w}, deleted |-> mem.deleted \ {w}]

\* A slip: the deleted list is written anew instead of extended.
MutMarked(w) == [mem EXCEPT !.deleted = {w}]

\* deleteUserWord of a word of the main table.
Marked(w) == [mem EXCEPT !.deleted = @ \cup {w}]

\* What a call on w may be about to write.
Edits(w) ==
  ({Added(w)} \ {mem})
    \cup (IF w \in mem.user THEN {Removed(w)} ELSE {})
    \cup (IF w \in main \ (mem.user \cup mem.deleted) THEN {Marked(w)} ELSE {})

\* What parseFile makes of lists that were written.
Stored(d) ==
  [user    |-> {Read[w] : w \in d.user} \ {Empty},
   deleted |-> {Read[w] : w \in d.deleted} \ {Empty}]

(* What a write that stops early can leave: lines go out sorted, the user's  *)
(* section first; the first lines are there and perhaps a part of the next.  *)
FirstLines(words, n) == {w \in words : Line[w] < n}

Cut(words, n) ==
  {FirstLines(words, n)}
    \cup {FirstLines(words, n) \cup {v} : v \in UNION {Stub[u] : u \in {w \in words : Line[w] = n}}}

TornFiles(d) ==
  LET cuts == {Line[w] : w \in Word}
  IN  {Stored([user |-> first, deleted |-> {}]) : first \in UNION {Cut(d.user, n) : n \in cuts}}
        \cup {Stored([user |-> d.user, deleted |-> first]) : first \in UNION {Cut(d.deleted, n) : n \in cuts}}

\* A slip: the save is not followed by a reload.
MutSave(op, d) ==
  /\ \/ /\ file' = Stored(d)
        /\ answer' = [op |-> op, ok |-> TRUE, whole |-> TRUE]
     \/ /\ UNCHANGED file
        /\ answer' = [op |-> op, ok |-> FALSE, whole |-> TRUE]
     \/ /\ file' \in TornFiles(d)
        /\ \E ok \in BOOLEAN : answer' = [op |-> op, ok |-> ok, whole |-> FALSE]
  /\ mem' = d
  /\ UNCHANGED main

(* UserDict::save and the reload() that follows it, good or bad.  Part of a  *)
(* cut write may go unnoticed, the stream being tested before its last block *)
(* is flushed: either answer is then possible.                               *)
Save(op, d) ==
  /\ \/ /\ file' = Stored(d)
        /\ answer' = [op |-> op, ok |-> TRUE, whole |-> TRUE]
     \/ /\ UNCHANGED file
        /\ answer' = [op |-> op, ok |-> FALSE, whole |-> TRUE]
     \/ /\ file' \in TornFiles(d)
        /\ \E ok \in BOOLEAN : answer' = [op |-> op, ok |-> ok, whole |-> FALSE]
  /\ mem' = file'
  /\ UNCHANGED main

Return(op, ok) ==
  /\ answer' = [op |-> op, ok |-> ok, whole |-> TRUE]
  /\ UNCHANGED <<main, mem, file>>

-----------------------------------------------------------------------------
(* The calls.                                                                *)

AddUserWord(w) ==
  \/ /\ w = Empty
     /\ Return("add", FALSE)
  \/ /\ w \in Word
     /\ IF Added(w) = mem THEN Return("add", TRUE) ELSE Save("add", Added(w))

DeleteUserWord(w) ==
  \/ /\ w = Empty
     /\ Return("delete", FALSE)
  \/ /\ w \in mem.user
     /\ Save("delete", Removed(w))
  \/ /\ w \in mem.deleted \ mem.user
     /\ Return("delete", TRUE)
  \/ /\ w \in Word \ (mem.user \cup mem.deleted \cup main)
     /\ Return("delete", FALSE)
  \/ /\ w \in main \ (mem.user \cup mem.deleted)
     /\ Save("delete", Marked(w))

\* The process dies in the middle of a save and the next one loads what is left.
DieInSave(w) ==
  /\ \E d \in Edits(w) : file' \in TornFiles(d)
  /\ mem' = file'
  /\ answer' = [op |-> "die", ok |-> FALSE, whole |-> FALSE]
  /\ UNCHANGED main

\* reloadMainDictionary: another lexicon was chosen or compiled in the panel.
ReloadMainDictionary ==
  /\ main' \in Tables
  /\ UNCHANGED <<mem, file, answer>>

Next ==
  \/ \E w \in Word \cup {Empty} : AddUserWord(w) \/ DeleteUserWord(w)
  \/ \E w \in Word : DieInSave(w)
  \/ ReloadMainDictionary

Spec == Init /\ [][Next]_vars

-----------------------------------------------------------------------------
(* Properties.                                                               *)

\* The two sections are sets of words, in memory and in the file.
TypeOK ==
  /\ main \in Tables
  /\ mem \in Dict
  /\ file \in Dict
  /\ answer \in [op : {"none", "add", "delete", "die"}, ok : BOOLEAN, whole : BOOLEAN]

\* What the engine works from is what a restart would load: after every call,
\* also one whose save failed or stopped half way (wbzx.cpp reloads the file
\* after every save), the copy in memory is the file's.
CopyIsFile == mem = file

\* A call that wrote all it meant to touches its own word, or the one that is
\* read back for it, and no other; one that returned false touches nothing.
OnlyItsWord ==
  [][\A w \in Word :
        (AddUserWord(w) \/ DeleteUserWord(w)) /\ answer'.whole =>
          /\ Visible' \ {w, Read[w]} = Visible \ {w, Read[w]}
          /\ ~answer'.ok => Visible' = Visible]_vars

\* A word addUserWord reports as added can be typed from then on, also when the
\* user deleted it before or a table has it, if no blanks are around it.
AddedIsShown ==
  [][\A w \in Plain :
        AddUserWord(w) /\ answer' = [op |-> "add", ok |-> TRUE, whole |-> TRUE]
          => w \in Visible']_vars

\* The lists fit the main table: the words the user added are new to it and
\* the words the user deleted are in it, so that taking a word off one list
\* never uncovers it in the other.
ListsFitTable ==
  /\ mem.user \cap main = {}
  /\ mem.deleted \subseteq main

\* The calls give the user what Lexicon promises, through every change of the
\* table and every save that fails or is cut short.
L == INSTANCE Lexicon WITH Kept <- Read, shown <- Visible, listed <- main, intact <- ListsFitTable
ImplementsLexicon == L!Spec
=============================================================================
