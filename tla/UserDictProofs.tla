--------------------------- MODULE UserDictProofs ---------------------------
(* Proofs about UserDict, for every set of words, every family of tables,    *)
(* every order of the lines in the file, and whatever lines read as; about    *)
(* UserWordFile, for any default words and number of signals; and about       *)
(* WubiLookup, for every finite set of words whose codes are ordered as the   *)
(* records of the tables are, and any limit that no single code exceeds.      *)
EXTENDS UserWordFile, WubiLookup, SequenceTheorems, FiniteSetTheorems, TLAPS

MergeSteps  == INSTANCE SequenceFacts WITH After <- AppendRow
FilterSteps == INSTANCE SequenceFacts WITH After <- Filtered

\* What was read before is read back as itself.
Lists   == [user : SUBSET Plain, deleted : SUBSET Plain]
Settled == mem \in Lists

\* The inductive invariant.  CopyIsFile is part of it because a refused save
\* reads back the old file: without it nothing ties what comes back to what
\* was there.  Settled is, because a save writes all words out again: without
\* it the call on one word could change others.
Inv == TypeOK /\ CopyIsFile /\ Settled

LEMMA PlainFacts ==
  /\ Plain \subseteq Word
  /\ \A w \in Plain : Read[w] = w /\ w # Empty
  /\ \A w \in Word : Read[w] # Empty => Read[w] \in Plain
  /\ \A w \in Word : Stub[w] \subseteq Plain
  /\ \A t \in Tables : t \subseteq Plain
  /\ Lists \subseteq Dict
  BY UserDictAssumption, ReadAssumption DEF Plain, Lists, Dict

(* What lists are read back as holds words that were read; such lists are    *)
(* read back as they are.                                                    *)
LEMMA StoredLists ==
  ASSUME NEW d \in Dict
  PROVE  Stored(d) \in Lists
  BY PlainFacts DEF Stored, Lists, Dict

LEMMA StoredAgain ==
  ASSUME NEW d \in Lists
  PROVE  Stored(d) = d
<1>1. ASSUME NEW S \in SUBSET Plain PROVE {Read[w] : w \in S} \ {Empty} = S
  BY PlainFacts
<1>2. d = [user |-> d.user, deleted |-> d.deleted]
  BY DEF Lists
<1> QED
  BY <1>1, <1>2 DEF Stored, Lists

(* A file cut short holds less of both lists, and at most one word more.      *)
LEMMA CutHoldsLess ==
  ASSUME NEW words \in SUBSET Word, NEW n, NEW first \in Cut(words, n), NEW u \in Word
  PROVE  \E stray \in Plain \cup {u} : first \subseteq words \cup {stray} /\ first \subseteq Word
<1>1. CASE first = FirstLines(words, n)
  BY <1>1 DEF FirstLines
<1>2. CASE first \in {FirstLines(words, n) \cup {v} : v \in UNION {Stub[x] : x \in {w \in words : Line[w] = n}}}
  <2>1. PICK v \in UNION {Stub[x] : x \in {w \in words : Line[w] = n}} : first = FirstLines(words, n) \cup {v}
    BY <1>2
  <2>2. v \in Plain
    BY <2>1, PlainFacts
  <2> QED
    BY <2>1, <2>2, PlainFacts DEF FirstLines
<1> QED
  BY <1>1, <1>2 DEF Cut

LEMMA TornFilesHoldLess ==
  ASSUME NEW d \in Dict, NEW f \in TornFiles(d)
  PROVE  f \in Lists /\ \E stray \in Word : f.user \subseteq Stored(d).user \cup {stray}
<1>0. PICK u \in Word : TRUE
  BY DEF TornFiles
<1>1. CASE \E n, first : first \in Cut(d.user, n) /\ f = Stored([user |-> first, deleted |-> {}])
  <2>1. PICK n, first : first \in Cut(d.user, n) /\ f = Stored([user |-> first, deleted |-> {}])
    BY <1>1
  <2>2. d.user \in SUBSET Word
    BY DEF Dict
  <2>3. PICK stray \in Plain \cup {u} : first \subseteq d.user \cup {stray} /\ first \subseteq Word
    BY <1>0, <2>1, <2>2, CutHoldsLess
  <2>4. [user |-> first, deleted |-> {}] \in Dict
    BY <2>3 DEF Dict
  <2>5. f \in Lists /\ f.user = {Read[w] : w \in first} \ {Empty}
    BY <2>1, <2>4, StoredLists DEF Stored
  <2>6. f.user \subseteq Stored(d).user \cup {Read[stray]}
    BY <2>3, <2>5 DEF Stored
  <2>7. f.user \subseteq Stored(d).user \cup {IF Read[stray] = Empty THEN stray ELSE Read[stray]}
    BY <2>5, <2>6
  <2>8. (IF Read[stray] = Empty THEN stray ELSE Read[stray]) \in Word
    BY <1>0, PlainFacts
  <2> QED
    BY <2>5, <2>7, <2>8
<1>2. CASE \E n, first : first \in Cut(d.deleted, n) /\ f = Stored([user |-> d.user, deleted |-> first])
  <2>1. PICK n, first : first \in Cut(d.deleted, n) /\ f = Stored([user |-> d.user, deleted |-> first])
    BY <1>2
  <2>2. d.user \in SUBSET Word /\ d.deleted \in SUBSET Word
    BY DEF Dict
  <2>3. first \subseteq Word
    BY <1>0, <2>1, <2>2, CutHoldsLess
  <2>4. [user |-> d.user, deleted |-> first] \in Dict
    BY <2>2, <2>3 DEF Dict
  <2>5. f \in Lists /\ f.user = Stored(d).user
    BY <2>1, <2>4, StoredLists DEF Stored
  <2> QED
    BY <1>0, <2>5
<1> QED
  BY <1>1, <1>2 DEF TornFiles

(* Whatever becomes of a save, memory and file agree afterwards, on what the  *)
(* new lists are read back as, on the old ones, or on a part of the new ones. *)
LEMMA SaveOutcome ==
  ASSUME Inv, NEW op \in {"add", "delete"}, NEW d \in Dict, Save(op, d)
  PROVE  /\ Inv'
         /\ main' = main
         /\ \/ mem' = Stored(d) /\ answer' = [op |-> op, ok |-> TRUE, whole |-> TRUE]
            \/ mem' = mem /\ answer' = [op |-> op, ok |-> FALSE, whole |-> TRUE]
            \/ /\ \E stray \in Word : mem'.user \subseteq Stored(d).user \cup {stray}
               /\ ~answer'.whole
<1>1. main' = main /\ mem' = file'
  BY DEF Save
<1>2. CASE file' = Stored(d) /\ answer' = [op |-> op, ok |-> TRUE, whole |-> TRUE]
  BY <1>1, <1>2, StoredLists, PlainFacts DEF Inv, TypeOK, CopyIsFile, Settled
<1>3. CASE file' = file /\ answer' = [op |-> op, ok |-> FALSE, whole |-> TRUE]
  BY <1>1, <1>3 DEF Inv, TypeOK, CopyIsFile, Settled
<1>4. CASE /\ file' \in TornFiles(d)
           /\ \E ok \in BOOLEAN : answer' = [op |-> op, ok |-> ok, whole |-> FALSE]
  <2>1. file' \in Lists /\ \E stray \in Word : file'.user \subseteq Stored(d).user \cup {stray}
    BY <1>4, TornFilesHoldLess
  <2>2. answer' \in [op : {"add", "delete"}, ok : BOOLEAN, whole : BOOLEAN]
        /\ ~answer'.whole
    BY <1>4
  <2> QED
    BY <1>1, <2>1, <2>2, PlainFacts DEF Inv, TypeOK, CopyIsFile, Settled
<1> QED
  BY <1>2, <1>3, <1>4 DEF Save

(* A call that does not save leaves the words alone.                         *)
LEMMA ReturnOutcome ==
  ASSUME Inv, NEW op \in {"add", "delete"}, NEW ok \in BOOLEAN, Return(op, ok)
  PROVE  /\ Inv'
         /\ UNCHANGED <<main, mem>>
         /\ answer' = [op |-> op, ok |-> ok, whole |-> TRUE]
  BY DEF Return, Inv, TypeOK, CopyIsFile, Settled

LEMMA EditsAreDicts ==
  ASSUME mem \in Lists, NEW w \in Word
  PROVE  Added(w) \in Dict /\ Removed(w) \in Dict /\ Marked(w) \in Dict
  BY PlainFacts DEF Added, Removed, Marked, Dict, Lists

(* What the edits are read back as: only a new word can be read as another.  *)
LEMMA EditsStored ==
  ASSUME Inv, NEW w \in Word
  PROVE  /\ Added(w) \in Dict /\ Removed(w) \in Dict /\ Marked(w) \in Dict
         /\ Stored(Added(w)) =
              [user    |-> IF w \in main THEN mem.user \ {w} ELSE mem.user \cup ({Read[w]} \ {Empty}),
               deleted |-> mem.deleted \ {w}]
         /\ Stored(Removed(w)) = Removed(w)
         /\ w \in main => Stored(Marked(w)) = Marked(w)
<1>1. mem \in Lists /\ mem.user \in SUBSET Plain /\ mem.deleted \in SUBSET Plain
  BY DEF Inv, Settled, Lists
<1>2. main \subseteq Plain
  BY PlainFacts DEF Inv, TypeOK
<1>3. Added(w) \in Dict /\ Removed(w) \in Dict /\ Marked(w) \in Dict
  BY <1>1, EditsAreDicts
<1>4. ASSUME NEW S \in SUBSET Plain PROVE {Read[x] : x \in S} \ {Empty} = S
  BY PlainFacts
<1>5. Stored(Removed(w)) = Removed(w)
  BY <1>1, StoredAgain DEF Removed, Lists
<1>6. w \in main => Stored(Marked(w)) = Marked(w)
  BY <1>1, <1>2, StoredAgain DEF Marked, Lists
<1>7. {Read[x] : x \in mem.user \cup {w}} \ {Empty} = mem.user \cup ({Read[w]} \ {Empty})
  <2>1. {Read[x] : x \in mem.user \cup {w}} = {Read[x] : x \in mem.user} \cup {Read[w]}
    OBVIOUS
  <2> QED
    BY <1>1, <1>4, <2>1
<1>8. {Read[x] : x \in mem.user \ {w}} \ {Empty} = mem.user \ {w}
  <2>1. mem.user \ {w} \in SUBSET Plain
    BY <1>1
  <2> QED
    BY <2>1, <1>4
<1>9. {Read[x] : x \in mem.deleted \ {w}} \ {Empty} = mem.deleted \ {w}
  <2>1. mem.deleted \ {w} \in SUBSET Plain
    BY <1>1
  <2> QED
    BY <2>1, <1>4
<1>10. CASE w \in main
  BY <1>3, <1>5, <1>6, <1>8, <1>9, <1>10 DEF Stored, Added
<1>11. CASE w \notin main
  BY <1>3, <1>5, <1>7, <1>9, <1>11 DEF Stored, Added
<1> QED
  BY <1>10, <1>11

LEMMA InitInv == Init => Inv
  BY PlainFacts DEF Init, Inv, TypeOK, CopyIsFile, Settled, Dict, Lists

LEMMA AddInv ==
  ASSUME Inv, NEW w \in Word \cup {Empty}, AddUserWord(w)
  PROVE  Inv'
<1>1. CASE w = Empty /\ Return("add", FALSE)
  BY <1>1, ReturnOutcome
<1>2. CASE w \in Word /\ Added(w) = mem /\ Return("add", TRUE)
  BY <1>2, ReturnOutcome
<1>3. CASE w \in Word /\ Save("add", Added(w))
  BY <1>3, EditsStored, SaveOutcome
<1> QED
  BY <1>1, <1>2, <1>3 DEF AddUserWord

LEMMA DeleteInv ==
  ASSUME Inv, NEW w \in Word \cup {Empty}, DeleteUserWord(w)
  PROVE  Inv'
<1>1. CASE \E ok \in BOOLEAN : Return("delete", ok)
  BY <1>1, ReturnOutcome
<1>2. CASE w \in mem.user /\ Save("delete", Removed(w))
  <2>1. w \in Word
    BY <1>2 DEF Inv, TypeOK, Dict
  <2> QED
    BY <1>2, <2>1, EditsStored, SaveOutcome
<1>3. CASE w \in main \ (mem.user \cup mem.deleted) /\ Save("delete", Marked(w))
  <2>1. w \in Word
    BY <1>3, UserDictAssumption DEF Inv, TypeOK
  <2> QED
    BY <1>3, <2>1, EditsStored, SaveOutcome
<1> QED
  BY <1>1, <1>2, <1>3 DEF DeleteUserWord

(* What a process that died in a save leaves.                                *)
LEMMA DieOutcome ==
  ASSUME Inv, NEW w \in Word, DieInSave(w)
  PROVE  /\ Inv'
         /\ main' = main /\ ~answer'.whole
         /\ \E stray \in Word : mem'.user \subseteq mem.user \cup {Read[w], stray}
<1>1. PICK d \in Edits(w) : file' \in TornFiles(d)
  BY DEF DieInSave
<1>2. d \in Dict /\ Stored(d).user \subseteq mem.user \cup {Read[w]}
  <2>1. CASE d = Added(w)
    BY <2>1, EditsStored
  <2>2. CASE d = Removed(w)
    BY <2>2, EditsStored DEF Removed
  <2>3. CASE d = Marked(w) /\ w \in main
    BY <2>3, EditsStored DEF Marked, Inv, TypeOK, Dict
  <2> QED
    BY <1>1, <2>1, <2>2, <2>3 DEF Edits
<1>3. file' \in Lists /\ \E stray \in Word : file'.user \subseteq Stored(d).user \cup {stray}
  BY <1>1, <1>2, TornFilesHoldLess
<1>4. mem' = file' /\ main' = main /\ answer' = [op |-> "die", ok |-> FALSE, whole |-> FALSE]
  BY DEF DieInSave
<1>5. Inv'
  BY <1>3, <1>4, PlainFacts DEF Inv, TypeOK, CopyIsFile, Settled
<1> QED
  BY <1>2, <1>3, <1>4, <1>5

LEMMA NextInv == Inv /\ [Next]_vars => Inv'
<1> SUFFICES ASSUME Inv, [Next]_vars PROVE Inv'
  OBVIOUS
<1>1. CASE \E w \in Word \cup {Empty} : AddUserWord(w)
  BY <1>1, AddInv
<1>2. CASE \E w \in Word \cup {Empty} : DeleteUserWord(w)
  BY <1>2, DeleteInv
<1>3. CASE \E w \in Word : DieInSave(w)
  BY <1>3, DieOutcome
<1>4. CASE ReloadMainDictionary
  BY <1>4 DEF ReloadMainDictionary, Inv, TypeOK, CopyIsFile, Settled
<1>5. CASE UNCHANGED vars
  BY <1>5 DEF vars, Inv, TypeOK, CopyIsFile, Settled
<1> QED
  BY <1>1, <1>2, <1>3, <1>4, <1>5 DEF Next

(* Inv holds in every state the dictionary reaches.                          *)
THEOREM DictInvariant == Spec => []Inv
<1>1. Init => Inv
  BY InitInv
<1>2. Inv /\ [Next]_vars => Inv'
  BY NextInv
<1> QED
  BY <1>1, <1>2, PTL DEF Spec

(* The sections are sets of words, in memory and in the file.                *)
THEOREM DictTypeCorrect == Spec => []TypeOK
<1>1. Inv => TypeOK
  BY DEF Inv
<1> QED
  BY <1>1, DictInvariant, PTL

(* The copy the engine works from is the one a restart would load, after     *)
(* saves that succeed, that are refused and that are cut short alike.        *)
THEOREM CopyCorrect == Spec => []CopyIsFile
<1>1. Inv => CopyIsFile
  BY DEF Inv
<1> QED
  BY <1>1, DictInvariant, PTL

-----------------------------------------------------------------------------
(* What a call does to the words that can be typed.                          *)

LEMMA AddEffect ==
  ASSUME Inv, NEW w \in Word, AddUserWord(w)
  PROVE  /\ main' = main
         /\ \/ /\ Visible' = Visible \cup ({Read[w]} \ {Empty})
               /\ answer' = [op |-> "add", ok |-> TRUE, whole |-> TRUE]
            \/ /\ Visible' = Visible
               /\ answer' = [op |-> "add", ok |-> FALSE, whole |-> TRUE]
            \/ /\ \E stray \in Word : Visible' \subseteq Visible \cup main \cup {Read[w], stray}
               /\ ~answer'.whole
<1>1. mem \in Lists /\ mem \in Dict /\ main \subseteq Plain
  BY PlainFacts DEF Inv, TypeOK, Settled
<1>2. VisibleOf(Stored(Added(w)), main) = Visible \cup ({Read[w]} \ {Empty})
  <2>1. CASE w \in main
    <3>1. Read[w] = w /\ w # Empty
      BY <1>1, <2>1, PlainFacts
    <3> QED
      BY <2>1, <3>1, EditsStored DEF VisibleOf, Visible
  <2>2. CASE w \notin main
    BY <2>2, EditsStored DEF VisibleOf, Visible
  <2> QED
    BY <2>1, <2>2
<1>3. w # Empty
  BY UserDictAssumption
<1>4. CASE Added(w) = mem /\ Return("add", TRUE)
  <2>1. main' = main /\ mem' = mem /\ answer' = [op |-> "add", ok |-> TRUE, whole |-> TRUE]
    BY <1>4, ReturnOutcome
  <2>2. Visible' = Visible
    BY <2>1 DEF Visible, VisibleOf
  <2>3. Stored(Added(w)) = mem
    BY <1>1, <1>4, StoredAgain
  <2>4. Visible = Visible \cup ({Read[w]} \ {Empty})
    BY <1>2, <2>3 DEF Visible
  <2> QED
    BY <2>1, <2>2, <2>4
<1>5. CASE Save("add", Added(w))
  <2>1. /\ main' = main
        /\ \/ mem' = Stored(Added(w)) /\ answer' = [op |-> "add", ok |-> TRUE, whole |-> TRUE]
           \/ mem' = mem /\ answer' = [op |-> "add", ok |-> FALSE, whole |-> TRUE]
           \/ /\ \E stray \in Word : mem'.user \subseteq Stored(Added(w)).user \cup {stray}
              /\ ~answer'.whole
    BY <1>5, EditsStored, SaveOutcome
  <2>2. Visible' = VisibleOf(mem', main)
    BY <2>1 DEF Visible, VisibleOf
  <2>3. Stored(Added(w)).user \subseteq mem.user \cup {Read[w]}
    BY EditsStored
  <2>4. ASSUME NEW stray \in Word, mem'.user \subseteq Stored(Added(w)).user \cup {stray}
        PROVE  Visible' \subseteq Visible \cup main \cup {Read[w], stray}
    BY <2>2, <2>3, <2>4 DEF Visible, VisibleOf
  <2> QED
    BY <1>2, <2>1, <2>2, <2>4 DEF Visible
<1> QED
  BY <1>3, <1>4, <1>5 DEF AddUserWord

(* Taking a word off the user's list uncovers it when it is in the table.    *)
LEMMA DeleteEffect ==
  ASSUME Inv, NEW w \in Word, DeleteUserWord(w)
  PROVE  /\ main' = main
         /\ \/ /\ Visible' = IF w \in mem.user /\ w \in main THEN Visible ELSE Visible \ {w}
               /\ answer' = [op |-> "delete", ok |-> TRUE, whole |-> TRUE]
            \/ /\ Visible' = Visible
               /\ answer' = [op |-> "delete", ok |-> FALSE, whole |-> TRUE]
            \/ /\ \E stray \in Word : Visible' \subseteq Visible \cup main \cup {stray}
               /\ ~answer'.whole
<1>1. mem \in Dict
  BY DEF Inv, TypeOK
<1>2. w # Empty
  BY UserDictAssumption
<1>3. ASSUME NEW stray \in Word, main' = main, mem'.user \subseteq mem.user \cup {stray}
      PROVE  Visible' \subseteq Visible \cup main \cup {stray}
  BY <1>3 DEF Visible, VisibleOf
<1>4. CASE w \in mem.user /\ Save("delete", Removed(w))
  <2>1. /\ main' = main
        /\ \/ mem' = Removed(w) /\ answer' = [op |-> "delete", ok |-> TRUE, whole |-> TRUE]
           \/ mem' = mem /\ answer' = [op |-> "delete", ok |-> FALSE, whole |-> TRUE]
           \/ /\ \E stray \in Word : mem'.user \subseteq Removed(w).user \cup {stray}
              /\ ~answer'.whole
    BY <1>4, EditsStored, SaveOutcome
  <2>2. Visible' = VisibleOf(mem', main)
    BY <2>1 DEF Visible, VisibleOf
  <2>3. VisibleOf(Removed(w), main) = IF w \in main THEN Visible ELSE Visible \ {w}
    BY <1>1, <1>4 DEF Visible, VisibleOf, Removed, Dict
  <2>4. Removed(w).user \subseteq mem.user
    BY DEF Removed
  <2> QED
    BY <1>3, <1>4, <2>1, <2>2, <2>3, <2>4 DEF Visible
<1>5. CASE w \in mem.deleted \ mem.user /\ Return("delete", TRUE)
  <2>1. main' = main /\ mem' = mem /\ answer' = [op |-> "delete", ok |-> TRUE, whole |-> TRUE]
    BY <1>5, ReturnOutcome
  <2>2. Visible' = Visible /\ w \notin Visible
    BY <1>5, <2>1 DEF Visible, VisibleOf
  <2> QED
    BY <1>5, <2>1, <2>2
<1>6. CASE Return("delete", FALSE)
  <2>1. main' = main /\ mem' = mem /\ answer' = [op |-> "delete", ok |-> FALSE, whole |-> TRUE]
    BY <1>6, ReturnOutcome
  <2> QED
    BY <2>1 DEF Visible, VisibleOf
<1>7. CASE w \in main \ (mem.user \cup mem.deleted) /\ Save("delete", Marked(w))
  <2>1. /\ main' = main
        /\ \/ mem' = Marked(w) /\ answer' = [op |-> "delete", ok |-> TRUE, whole |-> TRUE]
           \/ mem' = mem /\ answer' = [op |-> "delete", ok |-> FALSE, whole |-> TRUE]
           \/ /\ \E stray \in Word : mem'.user \subseteq Marked(w).user \cup {stray}
              /\ ~answer'.whole
    BY <1>7, EditsStored, SaveOutcome
  <2>2. Visible' = VisibleOf(mem', main)
    BY <2>1 DEF Visible, VisibleOf
  <2>3. VisibleOf(Marked(w), main) = Visible \ {w}
    BY <1>1, <1>7 DEF Visible, VisibleOf, Marked, Dict
  <2>4. Marked(w).user \subseteq mem.user
    BY <1>1 DEF Marked, Dict
  <2> QED
    BY <1>3, <1>7, <2>1, <2>2, <2>3, <2>4 DEF Visible
<1> QED
  BY <1>2, <1>4, <1>5, <1>6, <1>7 DEF DeleteUserWord

(* A call that is not cut short touches its own word and no other.           *)
THEOREM OnlyItsWordCorrect == Spec => OnlyItsWord
<1> DEFINE Claim(w) ==
      (AddUserWord(w) \/ DeleteUserWord(w)) /\ answer'.whole =>
         /\ Visible' \ {w, Read[w]} = Visible \ {w, Read[w]}
         /\ ~answer'.ok => Visible' = Visible
<1>1. Inv /\ [Next]_vars => [\A w \in Word : Claim(w)]_vars
  <2> SUFFICES ASSUME Inv, NEW w \in Word PROVE Claim(w)
    OBVIOUS
  <2>1. AddUserWord(w) => Claim(w)
    BY AddEffect
  <2>2. DeleteUserWord(w) => Claim(w)
    BY DeleteEffect
  <2> QED
    BY <2>1, <2>2
<1> QED
  BY <1>1, DictInvariant, PTL DEF Spec, OnlyItsWord

(* A word reported as added can be typed, if it has no blanks around it.     *)
THEOREM AddedIsShownCorrect == Spec => AddedIsShown
<1> DEFINE Claim(w) ==
      AddUserWord(w) /\ answer' = [op |-> "add", ok |-> TRUE, whole |-> TRUE]
        => w \in Visible'
<1>1. Inv /\ [Next]_vars => [\A w \in Plain : Claim(w)]_vars
  <2> SUFFICES ASSUME Inv, NEW w \in Plain PROVE Claim(w)
    OBVIOUS
  <2>1. w \in Word /\ Read[w] = w /\ w # Empty
    BY PlainFacts
  <2> QED
    BY <2>1, AddEffect
<1> QED
  BY <1>1, DictInvariant, PTL DEF Spec, AddedIsShown

-----------------------------------------------------------------------------
(* The promise of Lexicon.                                                   *)

\* Lists that fit the table.
Fits(d) == d.user \cap main = {} /\ d.deleted \subseteq main

LEMMA AddFits ==
  ASSUME Inv, ListsFitTable, NEW w \in Word, Read[w] = w, AddUserWord(w), answer'.whole
  PROVE  ListsFitTable'
<1>1. Read[w] = w /\ w # Empty
  BY UserDictAssumption
<1>2. Fits(Stored(Added(w)))
  BY <1>1, EditsStored DEF Fits, ListsFitTable
<1>3. CASE Return("add", TRUE)
  BY <1>3 DEF Return, ListsFitTable
<1>4. CASE Save("add", Added(w))
  <2>1. main' = main /\ mem' \in {mem, Stored(Added(w))}
    BY <1>4, EditsStored, SaveOutcome
  <2> QED
    BY <1>2, <2>1 DEF Fits, ListsFitTable
<1> QED
  BY <1>1, <1>3, <1>4 DEF AddUserWord

LEMMA DeleteFits ==
  ASSUME Inv, ListsFitTable, NEW w \in Word, DeleteUserWord(w), answer'.whole
  PROVE  ListsFitTable'
<1>1. Fits(Removed(w)) /\ (w \in main => Fits(Marked(w)))
  BY DEF Inv, TypeOK, Dict, ListsFitTable, Fits, Removed, Marked
<1>2. CASE \E ok \in BOOLEAN : Return("delete", ok)
  BY <1>2 DEF Return, ListsFitTable
<1>3. CASE Save("delete", Removed(w))
  <2>1. main' = main /\ mem' \in {mem, Removed(w)}
    BY <1>3, EditsStored, SaveOutcome
  <2> QED
    BY <1>1, <2>1 DEF Fits, ListsFitTable
<1>4. CASE w \in main /\ Save("delete", Marked(w))
  <2>1. main' = main /\ mem' \in {mem, Marked(w)}
    BY <1>4, EditsStored, SaveOutcome
  <2> QED
    BY <1>1, <1>4, <2>1 DEF Fits, ListsFitTable
<1> QED
  BY <1>2, <1>3, <1>4, UserDictAssumption DEF DeleteUserWord

LEMMA InitLexicon == Init => L!Init
  BY UserDictAssumption, PlainFacts DEF Init, L!Init, Visible, VisibleOf, ListsFitTable

LEMMA RefusedIsRefused ==
  ASSUME NEW op \in {"add", "delete"}, Return(op, FALSE)
  PROVE  L!Refuse
  BY DEF Return, L!Refuse, L!Told, Visible, VisibleOf, ListsFitTable

LEMMA AddLexicon ==
  ASSUME Inv, NEW w \in Word, AddUserWord(w)
  PROVE  L!Next \/ UNCHANGED <<Visible, main, ListsFitTable, answer>>
<1>1. w # Empty /\ {Read[w]} \ {Empty} = {Read[w]} \cap Word
  BY UserDictAssumption
<1>2. main' = main
  BY AddEffect
<1>3. CASE /\ Visible' = Visible \cup ({Read[w]} \ {Empty})
           /\ answer' = [op |-> "add", ok |-> TRUE, whole |-> TRUE]
  <2>1. ListsFitTable /\ Read[w] = w => ListsFitTable'
    BY <1>3, AddFits
  <2>2. L!Learn(w)
    BY <1>1, <1>2, <1>3, <2>1 DEF L!Learn, L!Told
  <2> QED
    BY <2>2 DEF L!Next
<1>4. CASE Visible' = Visible /\ answer' = [op |-> "add", ok |-> FALSE, whole |-> TRUE]
  <2>1. CASE Save("add", Added(w))
    <3>1. mem' = mem
      BY <1>4, <2>1, EditsStored, SaveOutcome
    <3>2. L!Refuse
      BY <1>2, <1>4, <3>1 DEF L!Refuse, L!Told, ListsFitTable
    <3> QED
      BY <3>2 DEF L!Next
  <2>2. CASE Return("add", TRUE)
    BY <1>4, <2>2 DEF Return
  <2> QED
    BY <1>1, <2>1, <2>2 DEF AddUserWord
<1>5. CASE /\ \E stray \in Word : Visible' \subseteq Visible \cup main \cup {Read[w], stray}
           /\ ~answer'.whole
  <2>1. L!Damage(w)
    BY <1>2, <1>5 DEF L!Damage
  <2> QED
    BY <2>1 DEF L!Next
<1> QED
  BY <1>1, <1>3, <1>4, <1>5, AddEffect

LEMMA DeleteLexicon ==
  ASSUME Inv, NEW w \in Word, DeleteUserWord(w)
  PROVE  L!Next
<1>1. main' = main
  BY DeleteEffect
<1>2. CASE /\ Visible' = IF w \in mem.user /\ w \in main THEN Visible ELSE Visible \ {w}
           /\ answer' = [op |-> "delete", ok |-> TRUE, whole |-> TRUE]
  <2>1. ListsFitTable => ListsFitTable'
    BY <1>2, DeleteFits
  <2>2. ListsFitTable => ~(w \in mem.user /\ w \in main)
    BY DEF ListsFitTable
  <2>3. L!Forget(w)
    BY <1>1, <1>2, <2>1, <2>2 DEF L!Forget, L!Told
  <2> QED
    BY <2>3 DEF L!Next
<1>3. CASE Visible' = Visible /\ answer' = [op |-> "delete", ok |-> FALSE, whole |-> TRUE]
  <2>1. CASE Save("delete", Removed(w))
    <3>1. mem' = mem
      BY <1>3, <2>1, EditsStored, SaveOutcome
    <3>2. L!Refuse
      BY <1>1, <1>3, <3>1 DEF L!Refuse, L!Told, ListsFitTable
    <3> QED
      BY <3>2 DEF L!Next
  <2>2. CASE Save("delete", Marked(w))
    <3>1. mem' = mem
      BY <1>3, <2>2, EditsStored, SaveOutcome
    <3>2. L!Refuse
      BY <1>1, <1>3, <3>1 DEF L!Refuse, L!Told, ListsFitTable
    <3> QED
      BY <3>2 DEF L!Next
  <2>3. CASE Return("delete", TRUE)
    BY <1>3, <2>3 DEF Return
  <2>4. CASE Return("delete", FALSE)
    BY <2>4, RefusedIsRefused DEF L!Next
  <2> QED
    BY <2>1, <2>2, <2>3, <2>4 DEF DeleteUserWord
<1>4. CASE /\ \E stray \in Word : Visible' \subseteq Visible \cup main \cup {stray}
           /\ ~answer'.whole
  <2>1. L!Damage(w)
    BY <1>1, <1>4 DEF L!Damage
  <2> QED
    BY <2>1 DEF L!Next
<1> QED
  BY <1>2, <1>3, <1>4, DeleteEffect

LEMMA DieLexicon ==
  ASSUME Inv, NEW w \in Word, DieInSave(w)
  PROVE  L!Next
<1>1. PICK stray \in Word : mem'.user \subseteq mem.user \cup {Read[w], stray}
  BY DieOutcome
<1>2. main' = main /\ ~answer'.whole
  BY DieOutcome
<1>3. Visible' \subseteq Visible \cup main \cup {Read[w], stray}
  BY <1>1, <1>2 DEF Visible, VisibleOf
<1>4. L!Damage(w)
  BY <1>2, <1>3 DEF L!Damage
<1> QED
  BY <1>4 DEF L!Next

LEMMA NextLexicon ==
  ASSUME Inv, [Next]_vars
  PROVE  [L!Next]_<<Visible, main, ListsFitTable, answer>>
<1>1. CASE \E w \in Word \cup {Empty} : AddUserWord(w)
  <2>1. PICK w \in Word \cup {Empty} : AddUserWord(w)
    BY <1>1
  <2>2. CASE w \in Word
    BY <2>1, <2>2, AddLexicon
  <2>3. CASE w = Empty
    BY <2>1, <2>3, RefusedIsRefused, UserDictAssumption DEF AddUserWord, L!Next
  <2> QED
    BY <2>2, <2>3
<1>2. CASE \E w \in Word \cup {Empty} : DeleteUserWord(w)
  <2>1. PICK w \in Word \cup {Empty} : DeleteUserWord(w)
    BY <1>2
  <2>2. CASE w \in Word
    BY <2>1, <2>2, DeleteLexicon
  <2>3. CASE w = Empty
    <3>1. w \notin mem.user \cup mem.deleted \cup main
      BY <2>3, UserDictAssumption DEF Inv, TypeOK, Dict
    <3> QED
      BY <2>1, <2>3, <3>1, RefusedIsRefused, UserDictAssumption DEF DeleteUserWord, L!Next
  <2> QED
    BY <2>2, <2>3
<1>3. CASE \E w \in Word : DieInSave(w)
  BY <1>3, DieLexicon
<1>4. CASE ReloadMainDictionary
  <2>1. Visible' \ (main \cup main') = Visible \ (main \cup main')
    BY <1>4 DEF ReloadMainDictionary, Visible, VisibleOf
  <2>2. L!Replace
    BY <1>4, <2>1 DEF ReloadMainDictionary, L!Replace
  <2> QED
    BY <2>2 DEF L!Next
<1>5. CASE UNCHANGED vars
  BY <1>5 DEF vars, Visible, VisibleOf, ListsFitTable
<1> QED
  BY <1>1, <1>2, <1>3, <1>4, <1>5 DEF Next

(* The user gets what Lexicon promises, through every save that is refused or *)
(* cut short, every death of the process and every change of the table.      *)
THEOREM LexiconCorrect == Spec => ImplementsLexicon
<1>1. Inv /\ [Next]_vars => [L!Next]_<<Visible, main, ListsFitTable, answer>>
  BY NextLexicon
<1> QED
  BY <1>1, InitLexicon, DictInvariant, PTL DEF Spec, ImplementsLexicon, L!Spec

-----------------------------------------------------------------------------
(* Two writers of the file without a lock (UserWordFile).                    *)

\* The inductive invariant.  A difference between the engine and the file means
\* a signal on its way or due, or one that was lost: each write of the panel
\* owes one, and the engine always ends with what it reads back, so that no
\* write of its own makes a difference.  What either works from are lists of
\* words that were read before.
FileTypes ==
  /\ main \in Tables /\ mem \in Lists /\ file \in Lists
  /\ answer \in [op : {"none", "add", "delete", "die"}, ok : BOOLEAN, whole : BOOLEAN]
  /\ text \in Dict \cup {Closed}
  /\ owed \in Nat /\ signals \in Nat

QuietInv == FileTypes /\ InStepWhenQuiet

\* What the engine saves it reads back: no signal is needed for it.
LEMMA SaveReadsBack ==
  ASSUME file \in Lists, NEW op \in {"add", "delete"}, NEW d \in Dict, Save(op, d)
  PROVE  /\ mem' = file' /\ file' \in Lists /\ main' = main
         /\ answer' \in [op : {"add", "delete"}, ok : BOOLEAN, whole : BOOLEAN]
<1>1. CASE file' = Stored(d) /\ answer' = [op |-> op, ok |-> TRUE, whole |-> TRUE]
  BY <1>1, StoredLists DEF Save
<1>2. CASE file' = file /\ answer' = [op |-> op, ok |-> FALSE, whole |-> TRUE]
  BY <1>2 DEF Save
<1>3. CASE /\ file' \in TornFiles(d)
           /\ \E ok \in BOOLEAN : answer' = [op |-> op, ok |-> ok, whole |-> FALSE]
  BY <1>3, TornFilesHoldLess DEF Save
<1> QED
  BY <1>1, <1>2, <1>3 DEF Save

\* A call of the engine leaves both as they are, or makes them agree.
LEMMA CallKeepsStep ==
  ASSUME FileTypes, NEW w \in Word \cup {Empty}, AddUserWord(w) \/ DeleteUserWord(w)
  PROVE  /\ \/ mem' = file' /\ file' \in Lists
            \/ UNCHANGED <<mem, file>>
         /\ main' = main
         /\ answer' \in [op : {"none", "add", "delete", "die"}, ok : BOOLEAN, whole : BOOLEAN]
<1>0. mem \in Lists /\ file \in Lists /\ mem.user \subseteq Word /\ main \subseteq Word
  BY PlainFacts DEF FileTypes, Lists
<1>1. ASSUME NEW op \in {"add", "delete"}, NEW ok \in BOOLEAN, Return(op, ok)
      PROVE  /\ UNCHANGED <<main, mem, file>>
             /\ answer' \in [op : {"add", "delete"}, ok : BOOLEAN, whole : BOOLEAN]
  BY <1>1 DEF Return
<1>2. CASE w \in Word /\ Save("add", Added(w))
  BY <1>0, <1>2, EditsAreDicts, SaveReadsBack
<1>3. CASE w \in mem.user /\ Save("delete", Removed(w))
  <2>1. w \in Word
    BY <1>0, <1>3
  <2> QED
    BY <1>0, <1>3, <2>1, EditsAreDicts, SaveReadsBack
<1>4. CASE w \in main /\ Save("delete", Marked(w))
  <2>1. w \in Word
    BY <1>0, <1>4
  <2> QED
    BY <1>0, <1>4, <2>1, EditsAreDicts, SaveReadsBack
<1>5. CASE \E op \in {"add", "delete"}, ok \in BOOLEAN : Return(op, ok)
  BY <1>1, <1>5
<1> QED
  BY <1>2, <1>3, <1>4, <1>5 DEF AddUserWord, DeleteUserWord

\* So does a death in a save.
LEMMA DeathReadsBack ==
  ASSUME FileTypes, NEW w \in Word, DieInSave(w)
  PROVE  /\ mem' = file' /\ file' \in Lists /\ main' = main
         /\ answer' \in [op : {"die"}, ok : BOOLEAN, whole : BOOLEAN]
<1>1. PICK d \in Edits(w) : file' \in TornFiles(d)
  BY DEF DieInSave
<1>2. d \in Dict
  BY <1>1, EditsAreDicts DEF Edits, FileTypes
<1> QED
  BY <1>1, <1>2, TornFilesHoldLess DEF DieInSave

\* Whatever the panel writes, it owes a signal for it.
LEMMA WriteOwes ==
  ASSUME QuietInv, NEW d \in Dict, NEW n \in Nat \ {0}, PanelWrites(d, n),
         text' \in Dict \cup {Closed}
  PROVE  QuietInv'
<1>1. file' \in Lists
  BY StoredLists DEF PanelWrites
<1>2. owed' \in Nat \ {0} /\ UNCHANGED <<main, mem, answer, signals>>
  BY DEF PanelWrites, busVars, QuietInv, FileTypes
<1> QED
  BY <1>1, <1>2 DEF QuietInv, FileTypes, InStepWhenQuiet, Quiet

\* The panel's steps: a write owes, what is owed is sent, or is lost.
LEMMA PanelKeepsQuiet == QuietInv /\ PanelNext => QuietInv'
<1> SUFFICES ASSUME QuietInv, PanelNext PROVE QuietInv'
  OBVIOUS
<1>0. file \in Dict /\ file.user \subseteq Word /\ file.deleted \subseteq Word
  BY PlainFacts DEF QuietInv, FileTypes, Dict
<1>1. CASE OpenUserWordFile
  BY <1>0, <1>1 DEF OpenUserWordFile, busVars, QuietInv, FileTypes, InStepWhenQuiet, Quiet
<1>2. ASSUME NEW w \in Word, EditText(w) PROVE QuietInv'
  <2>1. text \in Dict
    BY <1>2 DEF EditText, QuietInv, FileTypes
  <2>2. text' \in Dict
    BY <1>2, <2>1 DEF EditText, Dict
  <2> QED
    BY <1>2, <2>2 DEF EditText, busVars, QuietInv, FileTypes, InStepWhenQuiet, Quiet
<1>3. CASE SaveTextToFile
  BY <1>3, WriteOwes DEF SaveTextToFile, QuietInv, FileTypes
<1>4. ASSUME NEW d \in Dict, PanelWrites(d, 1), text' = text \/ text' = Closed PROVE QuietInv'
  BY <1>4, WriteOwes DEF QuietInv, FileTypes
<1>5. ASSUME NEW words \in SUBSET Word
      PROVE  /\ [file EXCEPT !.user = @ \cup words] \in Dict
             /\ [file EXCEPT !.user = @ \ words] \in Dict
  BY <1>0 DEF Dict
<1>6. ASSUME NEW w \in Word, AddToFile(w) PROVE QuietInv'
  BY <1>0, <1>4, <1>5, <1>6 DEF AddToFile
<1>7. ASSUME NEW words \in SUBSET Plain, BatchAdd(words) \/ BatchDelete(words) PROVE QuietInv'
  <2>1. words \in SUBSET Word
    BY PlainFacts
  <2> QED
    BY <1>4, <1>5, <1>7, <2>1 DEF BatchAdd, BatchDelete
<1>8. ASSUME NEW d \in Dict, RestoreBackup(d) PROVE QuietInv'
  BY <1>4, <1>8 DEF RestoreBackup
<1>9. CASE PanelStarts
  <2>1. [user |-> DefaultWords, deleted |-> {}] \in Dict
    BY UserWordFileAssumption DEF Dict
  <2> QED
    BY <1>0, <1>4, <1>9, <2>1 DEF PanelStarts, InitFile
<1>10. CASE SendSignal
  <2>1. owed' \in Nat /\ UNCHANGED <<main, mem, file, answer, text>>
    BY <1>10 DEF SendSignal, QuietInv, FileTypes
  <2>2. CASE listening
    <3>1. signals' \in Nat /\ signals' # 0
      BY <1>10, <2>2 DEF SendSignal, QuietInv, FileTypes
    <3> QED
      BY <2>1, <3>1 DEF QuietInv, FileTypes, InStepWhenQuiet, Quiet
  <2>3. CASE ~listening
    <3>1. lost' = (mem # file) /\ signals' = signals
      BY <1>10, <2>3 DEF SendSignal
    <3> QED
      BY <2>1, <3>1 DEF QuietInv, FileTypes, InStepWhenQuiet, Quiet
  <2> QED
    BY <2>2, <2>3
<1>11. CASE PanelDies
  <2>1. FileTypes'
    BY <1>11 DEF PanelDies, QuietInv, FileTypes
  <2>2. UNCHANGED <<mem, file, signals>>
    BY <1>11 DEF PanelDies
  <2>3. (owed \in Nat /\ owed > 0) \/ owed = 0
    BY DEF QuietInv, FileTypes
  <2>4. mem # file /\ signals = 0 => lost \/ owed > 0
    BY <2>3 DEF QuietInv, InStepWhenQuiet, Quiet
  <2>5. mem # file /\ signals = 0 => lost'
    BY <1>11, <2>4 DEF PanelDies
  <2> QED
    BY <2>1, <2>2, <2>5 DEF QuietInv, InStepWhenQuiet, Quiet
<1>12. CASE \E w \in Word : EditText(w) \/ AddToFile(w)
  BY <1>2, <1>6, <1>12
<1>13. CASE \E words \in SUBSET Plain : BatchAdd(words) \/ BatchDelete(words)
  BY <1>7, <1>13
<1>14. CASE \E d \in Dict : RestoreBackup(d)
  BY <1>8, <1>14
<1> QED
  BY <1>1, <1>3, <1>9, <1>10, <1>11, <1>12, <1>13, <1>14 DEF PanelNext

\* The engine's steps: each leaves memory and file as they are, or makes them
\* agree.
LEMMA EngineKeepsQuiet == QuietInv /\ EngineNext => QuietInv'
<1> SUFFICES ASSUME QuietInv, EngineNext PROVE QuietInv'
  OBVIOUS
<1> USE DEF QuietInv, FileTypes, InStepWhenQuiet, Quiet
<1>1. CASE EngineCalls
  <2>1. UNCHANGED <<text, owed, signals>> /\ lost' = (lost /\ mem' # file')
    BY <1>1 DEF EngineCalls, panelVars
  <2>2. ASSUME NEW w \in Word \cup {Empty}, AddUserWord(w) \/ DeleteUserWord(w)
        PROVE  QuietInv'
    <3>1. /\ \/ mem' = file' /\ file' \in Lists
             \/ UNCHANGED <<mem, file>>
          /\ main' = main
          /\ answer' \in [op : {"none", "add", "delete", "die"}, ok : BOOLEAN, whole : BOOLEAN]
      BY <2>2, CallKeepsStep
    <3> QED
      BY <2>1, <3>1
  <2>3. CASE ReloadMainDictionary
    BY <2>1, <2>3 DEF ReloadMainDictionary
  <2> QED
    BY <1>1, <2>2, <2>3 DEF EngineCalls
<1>2. ASSUME NEW w \in Word, DieInSave(w), Started PROVE QuietInv'
  BY <1>2, DeathReadsBack DEF Started, panelVars
<1>3. CASE ReloadDictionaries
  BY <1>3 DEF ReloadDictionaries, panelVars
<1>4. CASE Restart
  BY <1>4 DEF Restart, Started, panelVars
<1>5. CASE EngineListens
  BY <1>5 DEF EngineListens, panelVars
<1> QED
  BY <1>1, <1>2, <1>3, <1>4, <1>5 DEF EngineNext

LEMMA FileInitQuiet == FileInit => QuietInv
<1> SUFFICES ASSUME FileInit PROVE QuietInv
  OBVIOUS
<1>1. Inv /\ text = Closed /\ owed = 0 /\ signals = 0
  BY InitInv DEF FileInit
<1>2. main \in Tables /\ mem \in Lists /\ mem = file
        /\ answer \in [op : {"none", "add", "delete", "die"}, ok : BOOLEAN, whole : BOOLEAN]
  BY <1>1 DEF Inv, TypeOK, CopyIsFile, Settled
<1> QED
  BY <1>1, <1>2 DEF QuietInv, FileTypes, InStepWhenQuiet

LEMMA StepKeepsQuiet == QuietInv /\ [FileNext]_allVars => QuietInv'
<1>1. QuietInv /\ UNCHANGED allVars => QuietInv'
  BY DEF allVars, QuietInv, FileTypes, InStepWhenQuiet, Quiet
<1> QED
  BY <1>1, PanelKeepsQuiet, EngineKeepsQuiet DEF FileNext

\* Whatever order engine and panel write user_word.txt in, and whoever dies when,
\* the engine works from what is in the file once no signal is on its way, due
\* after a write, or lost with its sender or at the engine's start.
THEOREM QuietCorrect == FileSpec => []InStepWhenQuiet
<1>1. QuietInv => InStepWhenQuiet
  BY DEF QuietInv
<1> QED
  BY <1>1, FileInitQuiet, StepKeepsQuiet, PTL DEF FileSpec

\* A whole call that starts from the words in the file writes them back, but
\* for its own.
LEMMA CallKeepsOthers ==
  ASSUME Inv, NEW w \in Word, AddUserWord(w) \/ DeleteUserWord(w), answer'.whole
  PROVE  /\ file'.user \ {w, Read[w]} = file.user \ {w, Read[w]}
         /\ file'.deleted \ {w, Read[w]} = file.deleted \ {w, Read[w]}
<1> DEFINE SameOthers(d) == /\ d.user \ {w, Read[w]} = mem.user \ {w, Read[w]}
                       /\ d.deleted \ {w, Read[w]} = mem.deleted \ {w, Read[w]}
<1>1. mem = file /\ mem' = file' /\ mem \in Dict
  <2>1. Inv'
    BY AddInv, DeleteInv
  <2> QED
    BY <2>1 DEF Inv, CopyIsFile, TypeOK
<1>2. ASSUME NEW op, NEW ok, Return(op, ok) PROVE SameOthers(mem')
  BY <1>2 DEF Return
<1>3. ASSUME NEW op \in {"add", "delete"}, NEW d \in Dict, Save(op, d), SameOthers(Stored(d))
      PROVE  SameOthers(mem')
  BY <1>3, SaveOutcome
<1>4. w # Empty /\ Added(w) \in Dict /\ Removed(w) \in Dict /\ Marked(w) \in Dict
  BY UserDictAssumption, EditsStored
<1>5. ASSUME Save("add", Added(w)) PROVE SameOthers(mem')
  <2>1. SameOthers(Stored(Added(w)))
    BY EditsStored
  <2> QED
    BY <1>3, <1>4, <1>5, <2>1
<1>6. ASSUME Save("delete", Removed(w)) PROVE SameOthers(mem')
  <2>1. SameOthers(Stored(Removed(w)))
    BY EditsStored DEF Removed
  <2> QED
    BY <1>3, <1>4, <1>6, <2>1
<1>7. ASSUME w \in main, Save("delete", Marked(w)) PROVE SameOthers(mem')
  <2>1. SameOthers(Stored(Marked(w)))
    BY <1>1, <1>7, EditsStored DEF Marked, Dict
  <2> QED
    BY <1>3, <1>4, <1>7, <2>1
<1>8. ASSUME \E op \in {"add", "delete"}, ok \in BOOLEAN : Return(op, ok) PROVE SameOthers(mem')
  BY <1>2, <1>8
<1>9. SameOthers(mem')
  <2> HIDE DEF SameOthers
  <2> QED
    BY <1>4, <1>5, <1>6, <1>7, <1>8 DEF AddUserWord, DeleteUserWord
<1> QED
  BY <1>1, <1>9

\* Once the panel's signals have come through, no call of the engine undoes what
\* the panel wrote: the words of both sections stay, but for the call's own.
THEOREM OthersKeptCorrect == FileSpec => EngineKeepsOthers
<1> DEFINE Claim(w) ==
      Quiet /\ (AddUserWord(w) \/ DeleteUserWord(w)) /\ answer'.whole =>
        /\ file'.user \ {w, Read[w]} = file.user \ {w, Read[w]}
        /\ file'.deleted \ {w, Read[w]} = file.deleted \ {w, Read[w]}
<1>1. QuietInv /\ [FileNext]_allVars => [\A w \in Word : Claim(w)]_allVars
  <2> SUFFICES ASSUME QuietInv, NEW w \in Word PROVE Claim(w)
    OBVIOUS
  <2>1. Quiet => Inv
    BY PlainFacts DEF QuietInv, FileTypes, InStepWhenQuiet, Inv, TypeOK, CopyIsFile, Settled
  <2> QED
    BY <2>1, CallKeepsOthers
<1> QED
  BY <1>1, FileInitQuiet, StepKeepsQuiet, PTL DEF FileSpec, EngineKeepsOthers

-----------------------------------------------------------------------------
(* What is looked up (WubiLookup): the order of codes.                       *)

\* Two codes that are each not behind the other are the same.
LEMMA SameCode ==
  ASSUME NEW c \in Seq(Nat), NEW d \in Seq(Nat), CodeLeq(c, d), CodeLeq(d, c)
  PROVE  c = d
<1>1. /\ Len(c) \in Nat /\ Len(d) \in Nat /\ DOMAIN c = 1 .. Len(c) /\ DOMAIN d = 1 .. Len(d)
      /\ (\A i \in 1 .. Len(c) : c[i] \in Nat) /\ \A i \in 1 .. Len(d) : d[i] \in Nat
  BY LenProperties, ElementOfSeq
<1>2. ASSUME NEW x \in Seq(Nat), NEW y \in Seq(Nat), IsPrefix(x, y)
      PROVE  Len(x) <= Len(y) /\ \A i \in 1 .. Len(x) : x[i] = y[i]
  <2>1. Len(x) \in Nat /\ Len(y) \in Nat /\ Len(x) <= Len(y) /\ SubSeq(x, 1, Len(x)) = SubSeq(y, 1, Len(x))
    BY <1>2, LenProperties DEF IsPrefix
  <2>2. \A i \in 1 .. Len(x) : x[i] \in Nat /\ y[i] \in Nat
    BY <2>1, ElementOfSeq
  <2>3. \A i \in 1 .. Len(x) : SubSeq(x, 1, Len(x))[i] = x[i] /\ SubSeq(y, 1, Len(x))[i] = y[i]
    BY <2>1, <2>2, SubSeqProperties
  <2> QED BY <2>1, <2>3
<1>3. CASE IsPrefix(c, d) /\ IsPrefix(d, c)
  <2>1. Len(c) <= Len(d) /\ \A i \in 1 .. Len(c) : c[i] = d[i]
    BY <1>2, <1>3
  <2>2. Len(d) <= Len(c)
    BY <1>2, <1>3
  <2>3. Len(c) = Len(d)
    <3>1. \A m, n \in Nat : m <= n /\ n <= m => m = n
      OBVIOUS
    <3> QED BY <1>1, <2>1, <2>2, <3>1
  <2> QED BY <2>1, <2>3, SeqEqual
<1>4. ASSUME NEW i \in DOMAIN c \cap DOMAIN d, c[i] < d[i] \/ d[i] < c[i], \A j \in 1 .. i - 1 : c[j] = d[j]
      PROVE  ~IsPrefix(c, d) /\ ~IsPrefix(d, c)
  <2>1. i \in 1 .. Len(c) /\ i \in 1 .. Len(d) /\ c[i] # d[i]
    BY <1>1, <1>4
  <2>2. IsPrefix(c, d) => c[i] = d[i]
    BY <1>2, <2>1
  <2>3. IsPrefix(d, c) => d[i] = c[i]
    BY <1>2, <2>1
  <2> QED BY <2>1, <2>2, <2>3
<1>5. ASSUME NEW i \in DOMAIN c \cap DOMAIN d, c[i] < d[i], \A j \in 1 .. i - 1 : c[j] = d[j]
      PROVE  FALSE
  <2>1. PICK k \in DOMAIN c \cap DOMAIN d : d[k] < c[k] /\ \A j \in 1 .. k - 1 : d[j] = c[j]
    BY <1>4, <1>5 DEF CodeLeq
  <2>2. i \in 1 .. Len(c) /\ k \in 1 .. Len(c) /\ c[i] \in Nat /\ d[i] \in Nat /\ c[k] \in Nat /\ d[k] \in Nat
    BY <1>1
  <2>3. CASE i = k
    BY <1>5, <2>1, <2>2, <2>3
  <2>4. CASE i < k
    <3>1. i \in 1 .. k - 1
      BY <1>1, <2>2, <2>4
    <3> QED BY <1>5, <2>1, <2>2, <3>1
  <2>5. CASE k < i
    <3>1. k \in 1 .. i - 1
      BY <1>1, <2>2, <2>5
    <3> QED BY <1>5, <2>1, <2>2, <3>1
  <2>6. i \in Int /\ k \in Int
    BY <1>1, <2>2
  <2> QED BY <2>3, <2>4, <2>5, <2>6
<1> QED BY <1>3, <1>4, <1>5 DEF CodeLeq

\* The words' codes are ordered.
LEMMA CodeOrder ==
  /\ \A v, w \in Word : CodeLeq(v.code, w.code) \/ CodeLeq(w.code, v.code)
  /\ \A v, w \in Word : v.code = w.code => CodeLeq(v.code, w.code)
  /\ \A v, w \in Word : CodeLeq(v.code, w.code) /\ CodeLeq(w.code, v.code) => v.code = w.code
  /\ \A u, v, w \in Word : CodeLeq(u.code, v.code) /\ CodeLeq(v.code, w.code) => CodeLeq(u.code, w.code)
<1>1. ASSUME NEW v \in Word, NEW w \in Word, v.code = w.code PROVE CodeLeq(v.code, w.code)
  <2>1. Len(w.code) \in Nat
    BY WubiLookupAssumption, LenProperties
  <2> QED BY <1>1, <2>1 DEF CodeLeq, IsPrefix
<1>2. ASSUME NEW v \in Word, NEW w \in Word, Place[v] < Place[w] PROVE CodeLeq(v.code, w.code)
  BY <1>2, WubiLookupAssumption
<1>3. ASSUME NEW v \in Word, NEW w \in Word PROVE v = w \/ Place[v] < Place[w] \/ Place[w] < Place[v]
  <2>1. Place[v] \in Nat /\ Place[w] \in Nat /\ (v # w => Place[v] # Place[w])
    BY WubiLookupAssumption
  <2> QED BY <2>1
<1>4. ASSUME NEW v \in Word, NEW w \in Word, CodeLeq(v.code, w.code), CodeLeq(w.code, v.code) PROVE v.code = w.code
  BY <1>4, SameCode, WubiLookupAssumption
<1>5. ASSUME NEW v \in Word, NEW w \in Word, CodeLeq(v.code, w.code), v.code # w.code PROVE Place[v] < Place[w]
  BY <1>2, <1>3, <1>4, <1>5
<1>6. ASSUME NEW u \in Word, NEW v \in Word, NEW w \in Word, CodeLeq(u.code, v.code), CodeLeq(v.code, w.code)
      PROVE  CodeLeq(u.code, w.code)
  <2>1. CASE u.code = v.code \/ v.code = w.code
    BY <1>6, <2>1
  <2>2. CASE u.code # v.code /\ v.code # w.code
    <3>1. Place[u] < Place[v] /\ Place[v] < Place[w]
      BY <1>5, <1>6, <2>2
    <3>2. Place[u] < Place[w]
      BY <3>1, WubiLookupAssumption
    <3> QED BY <1>2, <3>2
  <2> QED BY <2>1, <2>2
<1> QED BY <1>1, <1>2, <1>3, <1>4, <1>6

-----------------------------------------------------------------------------
(* Sets of words made into sequences. *)

Numbering(at) == at \in [Word -> Nat] /\ \A v, w \in Word : v # w => at[v] # at[w]

\* Words arranged by a numbering: all of them, each once, by rising numbers.
LEMMA ArrangedFacts ==
  ASSUME NEW S \in SUBSET Word, NEW at, Numbering(at)
  PROVE  /\ Arranged(S, at) \in Seq(S)
         /\ \A i, j \in 1 .. Len(Arranged(S, at)) : i < j => at[Arranged(S, at)[i]] < at[Arranged(S, at)[j]]
         /\ \A w \in S : \E i \in 1 .. Len(Arranged(S, at)) : Arranged(S, at)[i] = w
<1> DEFINE n == Cardinality(S)
           Before(w) == {v \in S : at[v] < at[w]}
           rank == [w \in S |-> Cardinality(Before(w)) + 1]
           seq == Arranged(S, at)
<1>1. IsFiniteSet(S) /\ n \in Nat /\ at \in [Word -> Nat]
  BY FS_Subset, FS_CardinalityType, WubiLookupAssumption DEF Numbering
<1>2. ASSUME NEW w \in S PROVE rank[w] \in 1 .. n
  <2>1. Before(w) \in SUBSET S /\ w \notin Before(w)
    BY <1>1
  <2> HIDE DEF Before
  <2>2. IsFiniteSet(Before(w)) /\ Cardinality(Before(w)) <= n /\ Cardinality(Before(w)) # n
    BY <1>1, <2>1, FS_Subset
  <2>3. Cardinality(Before(w)) \in Nat
    BY <2>2, FS_CardinalityType
  <2> QED BY <1>1, <2>2, <2>3
<1>3. ASSUME NEW v \in S, NEW w \in S, at[v] < at[w] PROVE rank[v] < rank[w]
  <2>1. Before(v) \in SUBSET Before(w) /\ v \in Before(w) \ Before(v) /\ Before(w) \in SUBSET S
    BY <1>1, <1>3
  <2> HIDE DEF Before
  <2>2. IsFiniteSet(Before(w))
    BY <1>1, <2>1, FS_Subset
  <2>3. Cardinality(Before(v)) <= Cardinality(Before(w)) /\ Cardinality(Before(v)) # Cardinality(Before(w))
    BY <2>1, <2>2, FS_Subset
  <2>4. Cardinality(Before(v)) \in Nat /\ Cardinality(Before(w)) \in Nat
    BY <2>1, <2>2, FS_Subset, FS_CardinalityType
  <2> QED BY <2>3, <2>4
<1>4. ASSUME NEW v \in S, NEW w \in S PROVE v = w \/ at[v] < at[w] \/ at[w] < at[v]
  <2>1. v # w => at[v] # at[w]
    BY DEF Numbering
  <2> QED BY <1>1, <2>1
<1>5. \A k \in 1 .. n : \E w \in S : rank[w] = k
  <2>1. rank \in Injection(S, 1 .. n)
    <3>1. rank \in [S -> 1 .. n]
      BY <1>2
    <3>2. ASSUME NEW v \in S, NEW w \in S, rank[v] = rank[w] PROVE v = w
      <4>1. rank[v] \in Int /\ rank[w] \in Int
        BY <1>2
      <4> HIDE DEF rank
      <4> QED BY <1>3, <1>4, <3>2, <4>1
    <3> HIDE DEF rank
    <3> QED BY <3>1, <3>2 DEF Injection, IsInjective
  <2>2. IsFiniteSet(1 .. n) /\ Cardinality(1 .. n) = n
    BY <1>1, FS_Interval
  <2> HIDE DEF rank
  <2>3. rank \in Surjection(S, 1 .. n)
    BY <2>1, <2>2, FS_Injection
  <2> QED BY <2>3 DEF Surjection
<1>6. \A k \in 1 .. n : seq[k] \in S /\ rank[seq[k]] = k
  <2> SUFFICES ASSUME NEW k \in 1 .. n PROVE seq[k] \in S /\ rank[seq[k]] = k
    OBVIOUS
  <2>1. seq[k] = CHOOSE w \in S : Cardinality(Before(w)) = k - 1
    BY DEF Arranged
  <2>2. PICK w \in S : rank[w] = k
    BY <1>5
  <2>3. \A v \in S : Cardinality(Before(v)) \in Nat
    <3>1. \A v \in S : Before(v) \in SUBSET S
      OBVIOUS
    <3> HIDE DEF Before
    <3> QED BY <1>1, <3>1, FS_Subset, FS_CardinalityType
  <2>4. Cardinality(Before(w)) = k - 1
    BY <2>2, <2>3
  <2>5. seq[k] \in S /\ Cardinality(Before(seq[k])) = k - 1
    BY <2>1, <2>4
  <2> QED BY <2>5
<1>7. seq \in Seq(S) /\ Len(seq) = n
  <2> DEFINE Pick(k) == CHOOSE w \in S : Cardinality(Before(w)) = k - 1
  <2>1. seq = [k \in 1 .. n |-> Pick(k)]
    BY DEF Arranged
  <2>2. seq \in [1 .. n -> S]
    <3>1. \A k \in 1 .. n : Pick(k) \in S
      <4> HIDE DEF Pick, seq
      <4> QED BY <1>6, <2>1
    <3> HIDE DEF Pick, seq
    <3> QED BY <2>1, <3>1
  <2>3. seq \in Seq(S)
    BY <1>1, <2>2, SeqDef
  <2> HIDE DEF seq
  <2> QED BY <1>1, <2>2, <2>3, LenProperties
<1> HIDE DEF seq, rank
<1>8. ASSUME NEW i \in 1 .. n, NEW j \in 1 .. n, i < j PROVE at[seq[i]] < at[seq[j]]
  BY <1>1, <1>3, <1>4, <1>6, <1>8
<1>9. ASSUME NEW w \in S PROVE \E i \in 1 .. n : seq[i] = w
  <2>1. rank[w] \in 1 .. n /\ seq[rank[w]] \in S /\ rank[seq[rank[w]]] = rank[w]
    BY <1>2, <1>6
  <2>2. seq[rank[w]] = w
    BY <1>3, <1>4, <2>1
  <2> QED BY <2>1, <2>2
<1> QED BY <1>7, <1>8, <1>9 DEF seq

-----------------------------------------------------------------------------
(* The search in a table. *)

\* Where something is found first.
LEMMA FoundFirst ==
  ASSUME NEW n \in Nat, NEW I, I \subseteq 1 .. n, NEW f, f = IF I # {} THEN Min(I) ELSE 0
  PROVE  /\ f \in 0 .. n
         /\ f = 0 => I = {}
         /\ f # 0 => f \in I /\ \A i \in I : f <= i
<1>1. CASE I = {}
  BY <1>1
<1>2. CASE I # {}
  <2>1. I \subseteq Nat
    OBVIOUS
  <2>2. \E i \in I : \A j \in I : i <= j
    BY <1>2, <2>1, MergeSteps!LeastMember
  <2>3. f \in I /\ \A i \in I : f <= i
    BY <1>2, <2>2 DEF Min
  <2> QED BY <2>3
<1> QED BY <1>1, <1>2

\* What a query yields of a table: records that the code begins, in their order;
\* among them all of the code itself.
LEMMA HitsFacts ==
  ASSUME NEW t \in Tables, NEW code
  PROVE  LET s == AppendCandidatesForPrefix(Records(t), code)
         IN  /\ s \in Seq(t)
             /\ \A i, j \in 1 .. Len(s) : i < j => Place[s[i]] < Place[s[j]]
             /\ \A i \in 1 .. Len(s) : IsPrefix(code, s[i].code)
             /\ \A w \in t : w.code = code /\ code # <<>> => \E i \in 1 .. Len(s) : s[i] = w
<1> DEFINE r     == Records(t)
           len   == Len(r)
           below == {i \in 1 .. Len(r) : CodeLeq(code, r[i].code)}
           begin == LowerBound(r, code)
           from  == SubSeq(r, begin, Len(r))
           out   == {i \in 1 .. Len(from) : ~IsPrefix(code, from[i].code)}
           over  == SelectInSeq(from, LAMBDA w : ~IsPrefix(code, w.code))
           hits  == IF over = 0 THEN Len(from) ELSE over - 1
           size  == IF hits < MaxCandidates THEN hits ELSE MaxCandidates
           s     == AppendCandidatesForPrefix(r, code)
<1>1. t \in SUBSET Word /\ Numbering(Place) /\ MaxCandidates \in Nat
  BY UserDictAssumption, WubiLookupAssumption DEF Numbering
<1>2. r \in Seq(t) /\ (\A i, j \in 1 .. len : i < j => Place[r[i]] < Place[r[j]])
      /\ \A w \in t : \E i \in 1 .. len : r[i] = w
  BY <1>1, ArrangedFacts DEF Records
<1>3. len \in Nat /\ \A i \in 1 .. len : r[i] \in t
  BY <1>2, LenProperties, ElementOfSeq
<1>4. begin = IF below # {} THEN Min(below) ELSE 0
  BY DEF LowerBound, SelectInSeq
<1>5. over = IF out # {} THEN Min(out) ELSE 0
  BY DEF SelectInSeq
<1>6. s = IF code = <<>> \/ begin = 0 THEN <<>> ELSE SubSeq(from, 1, size)
  BY DEF AppendCandidatesForPrefix
<1>7. below \subseteq 1 .. len
  OBVIOUS
<1> HIDE DEF s, r, begin, over, len
<1>8. /\ begin \in 0 .. len
      /\ begin = 0 => below = {}
      /\ begin # 0 => begin \in below /\ \A i \in below : begin <= i
  <2> HIDE DEF below
  <2> QED BY <1>3, <1>4, <1>7, FoundFirst
<1>9. CASE code = <<>> \/ begin = 0
  <2>1. s = <<>>
    BY <1>6, <1>9
  <2>2. <<>> \in Seq(t) /\ Len(<<>>) = 0
    OBVIOUS
  <2>3. ASSUME NEW w \in t, w.code = code, code # <<>> PROVE FALSE
    <3>1. PICK i \in 1 .. len : r[i] = w
      BY <1>2
    <3>2. CodeLeq(code, w.code)
      BY <1>1, <2>3, CodeOrder
    <3>3. i \in below
      BY <3>1, <3>2 DEF len
    <3> QED BY <1>8, <1>9, <2>3, <3>3
  <2> QED BY <2>1, <2>2, <2>3 DEF s, r
<1>10. CASE code # <<>> /\ begin # 0
  <2>1. begin \in 1 .. len /\ begin \in Int /\ len \in Int /\ (\A i \in begin .. len : r[i] \in t)
    BY <1>3, <1>8, <1>10
  <2>2. /\ from \in Seq(t) /\ Len(from) = len - begin + 1
        /\ \A i \in 1 .. len - begin + 1 : from[i] = r[begin + i - 1]
    BY <2>1, SubSeqProperties DEF len
  <2>3. /\ over \in 0 .. Len(from)
        /\ over = 0 => out = {}
        /\ over # 0 => over \in out /\ \A i \in out : over <= i
    <3>1. out \subseteq 1 .. Len(from) /\ Len(from) \in Nat
      BY <2>1, <2>2
    <3> HIDE DEF out, from
    <3> QED BY <1>5, <3>1, FoundFirst
  <2>4. hits \in Nat /\ hits <= Len(from) /\ (\A i \in 1 .. hits : IsPrefix(code, from[i].code))
        /\ \A i \in 1 .. Len(from) : (\A k \in 1 .. i : IsPrefix(code, from[k].code)) => i <= hits
    <3>1. Len(from) \in Nat
      BY <2>1, <2>2
    <3> HIDE DEF from
    <3>2. CASE over = 0
      BY <2>3, <3>1, <3>2
    <3>3. CASE over # 0
      <4>1. over \in 1 .. Len(from) /\ ~IsPrefix(code, from[over].code) /\ hits = over - 1
        BY <2>3, <3>1, <3>3
      <4>2. ASSUME NEW i \in 1 .. hits PROVE IsPrefix(code, from[i].code)
        <5>1. i \in 1 .. Len(from) /\ ~(over <= i)
          BY <3>1, <4>1
        <5>2. i \notin out
          BY <2>3, <3>3, <5>1
        <5> QED BY <5>1, <5>2
      <4>3. ASSUME NEW i \in 1 .. Len(from), \A k \in 1 .. i : IsPrefix(code, from[k].code) PROVE i <= hits
        <5>1. ~(over <= i)
          BY <3>1, <4>1, <4>3
        <5> QED BY <3>1, <4>1, <5>1
      <4> QED BY <3>1, <4>1, <4>2, <4>3
    <3> QED BY <3>2, <3>3
  <2> HIDE DEF from, hits, out
  <2>5. size \in Nat /\ size <= hits /\ size <= Len(from)
    BY <1>1, <2>1, <2>2, <2>4
  <2>6. s \in Seq(t) /\ Len(s) = size /\ \A i \in 1 .. size : s[i] = from[i]
    <3>1. \A i \in 1 .. size : from[i] \in t
      BY <2>1, <2>2, <2>5, ElementOfSeq
    <3>2. s = SubSeq(from, 1, size) /\ 1 \in Int /\ size \in Int
      BY <1>6, <1>10, <2>5
    <3> HIDE DEF size
    <3>3. s \in Seq(t) /\ Len(s) = (IF 1 <= size THEN size - 1 + 1 ELSE 0) /\ \A i \in 1 .. size - 1 + 1 : s[i] = from[1 + i - 1]
      BY <3>1, <3>2, SubSeqProperties
    <3>4. \A i \in 1 .. size : i \in 1 .. size - 1 + 1 /\ 1 + i - 1 = i
      BY <2>5
    <3> QED BY <2>5, <3>3, <3>4
  <2> HIDE DEF size
  <2>7. \A i \in 1 .. size : i \in 1 .. len - begin + 1 /\ begin + i - 1 \in 1 .. len /\ s[i] = r[begin + i - 1]
    BY <2>1, <2>2, <2>5, <2>6
  <2>8. ASSUME NEW i \in 1 .. Len(s), NEW j \in 1 .. Len(s), i < j PROVE Place[s[i]] < Place[s[j]]
    <3>1. begin + i - 1 < begin + j - 1
      BY <2>1, <2>5, <2>6, <2>8
    <3> QED BY <1>2, <2>6, <2>7, <2>8, <3>1
  <2>9. ASSUME NEW i \in 1 .. Len(s) PROVE IsPrefix(code, s[i].code)
    BY <2>4, <2>5, <2>6
  <2>10. ASSUME NEW w \in t, w.code = code PROVE \E i \in 1 .. Len(s) : s[i] = w
    <3>1. PICK p \in 1 .. len : r[p] = w
      BY <1>2
    <3>2. w \in Word /\ CodeLeq(code, w.code)
      BY <1>1, <2>10, CodeOrder
    <3>3. p \in below
      BY <3>1, <3>2 DEF len
    <3>4. begin <= p /\ CodeLeq(code, r[begin].code)
      BY <1>8, <1>10, <3>3
    <3> HIDE DEF below
    <3>5. \A k \in begin .. p : r[k] \in Word /\ r[k].code = code
      <4>1. ASSUME NEW i \in 1 .. len, NEW j \in 1 .. len, i <= j PROVE CodeLeq(r[i].code, r[j].code)
        <5>1. r[i] \in Word /\ r[j] \in Word
          BY <1>1, <1>3
        <5>2. CASE i = j
          BY <5>1, <5>2, CodeOrder
        <5>3. CASE i < j
          BY <1>2, <5>1, <5>3, WubiLookupAssumption
        <5> QED BY <1>3, <4>1, <5>2, <5>3
      <4> SUFFICES ASSUME NEW k \in begin .. p PROVE r[k] \in Word /\ r[k].code = code
        OBVIOUS
      <4>2. k \in 1 .. len /\ begin <= k /\ k <= p
        BY <1>3, <2>1, <3>1
      <4>3. r[k] \in Word /\ r[begin] \in Word
        BY <1>1, <1>3, <2>1, <4>2
      <4>4. CodeLeq(r[begin].code, w.code) /\ CodeLeq(w.code, r[begin].code)
        BY <2>1, <2>10, <3>1, <3>4, <4>1
      <4>5. r[begin].code = w.code
        BY <3>2, <4>3, <4>4, CodeOrder
      <4>6. CodeLeq(r[begin].code, r[k].code) /\ CodeLeq(r[k].code, w.code)
        BY <2>1, <3>1, <4>1, <4>2
      <4>7. r[k].code = w.code
        BY <3>2, <4>3, <4>5, <4>6, CodeOrder
      <4> QED BY <2>10, <4>3, <4>7
    <3> DEFINE q == p - begin + 1
               same == {v \in t : v.code = w.code}
    <3>6. q \in 1 .. len - begin + 1 /\ q \in Nat /\ begin + q - 1 = p
      BY <1>3, <2>1, <3>1, <3>4
    <3>7. \A k \in 1 .. q : begin + k - 1 \in begin .. p /\ k \in 1 .. len - begin + 1 /\ from[k] = r[begin + k - 1]
      BY <1>3, <2>1, <2>2, <3>1, <3>6
    <3> HIDE DEF q
    <3>8. q <= hits
      <4>1. \A k \in 1 .. q : IsPrefix(code, from[k].code)
        <5>1. Len(code) \in Nat
          BY <2>10, <3>2, LenProperties, WubiLookupAssumption
        <5> QED BY <3>5, <3>7, <5>1 DEF IsPrefix
      <4> QED BY <2>2, <2>4, <3>6, <4>1
    <3>9. q <= MaxCandidates
      <4> DEFINE g == [k \in 1 .. q |-> from[k]]
      <4>1. g \in [1 .. q -> same]
        <5>1. \A k \in 1 .. q : from[k] \in t /\ from[k].code = w.code
          BY <1>3, <2>1, <2>10, <3>5, <3>7
        <5> QED BY <5>1
      <4>2. ASSUME NEW i \in 1 .. q, NEW j \in 1 .. q, g[i] = g[j] PROVE i = j
        <5>1. begin + i - 1 \in 1 .. len /\ begin + j - 1 \in 1 .. len /\ r[begin + i - 1] = r[begin + j - 1]
          BY <1>3, <2>1, <3>1, <3>7, <4>2
        <5>2. \A x, y \in 1 .. len : r[x] = r[y] => ~(x < y)
          <6>1. \A x \in 1 .. len : Place[r[x]] \in Nat
            BY <1>1, <1>3 DEF Numbering
          <6> QED BY <1>2, <6>1
        <5>3. ~(begin + i - 1 < begin + j - 1) /\ ~(begin + j - 1 < begin + i - 1)
          BY <5>1, <5>2
        <5> QED BY <2>1, <3>6, <5>3
      <4>3. g \in Injection(1 .. q, same)
        <5> HIDE DEF g, same
        <5> QED BY <4>1, <4>2 DEF Injection, IsInjective
      <4>4. IsFiniteSet(same) /\ Cardinality(same) <= MaxCandidates
        <5>1. same \in SUBSET Word
          BY <1>1
        <5>2. Cardinality(same) <= MaxCandidates
          BY <3>2, WubiLookupAssumption
        <5> HIDE DEF same
        <5> QED BY <5>1, <5>2, FS_Subset, WubiLookupAssumption
      <4>5. Cardinality(1 .. q) = q
        BY <3>6, FS_Interval
      <4> HIDE DEF g, same
      <4>6. Cardinality(1 .. q) <= Cardinality(same) /\ Cardinality(same) \in Nat
        BY <4>3, <4>4, FS_Injection, FS_CardinalityType
      <4> QED BY <1>1, <3>6, <4>4, <4>5, <4>6
    <3>10. q \in 1 .. size
      BY <1>1, <2>4, <3>6, <3>8, <3>9 DEF size
    <3>11. s[q] = w
      BY <2>7, <3>1, <3>6, <3>10
    <3> QED BY <2>6, <3>10, <3>11
  <2> QED BY <2>6, <2>8, <2>9, <2>10 DEF s, r
<1> QED BY <1>9, <1>10

-----------------------------------------------------------------------------
(* The filter and the merge. *)

\* The filter drops what is deleted or rare, and nothing else.
LEMMA FilteredFacts ==
  ASSUME NEW t \in SUBSET Word, NEW s \in Seq(t),
         \A i, j \in 1 .. Len(s) : i < j => Place[s[i]] < Place[s[j]]
  PROVE  LET f == FilterMainDictCandidates(s)
         IN  /\ f \in Seq(t)
             /\ \A i, j \in 1 .. Len(f) : i < j => Place[f[i]] < Place[f[j]]
             /\ \A w : (\E i \in 1 .. Len(f) : f[i] = w)
                         <=> w \notin mem.deleted /\ ~NeedFilt(w) /\ \E i \in 1 .. Len(s) : s[i] = w
<1> DEFINE Stays(w) == w \notin mem.deleted /\ ~NeedFilt(w)
           Done(n, out) ==
             /\ \A i, j \in 1 .. Len(out) : i < j => Place[out[i]] < Place[out[j]]
             /\ \A i \in 1 .. Len(out) : Stays(out[i]) /\ \E k \in 1 .. n : out[i] = s[k]
             /\ \A k \in 1 .. n : Stays(s[k]) => \E i \in 1 .. Len(out) : out[i] = s[k]
           R == [n \in 0 .. Len(s) |-> {out \in Seq(t) : Done(n, out)}]
<1>1. Len(s) \in Nat /\ \A i \in 1 .. Len(s) : s[i] \in t
  BY LenProperties, ElementOfSeq
<1>2. \A n \in 0 .. Len(s) : \A out : out \in R[n] <=> out \in Seq(t) /\ Done(n, out)
  <2> HIDE DEF Done
  <2> QED OBVIOUS
<1> HIDE DEF R
<1>3. ASSUME NEW n \in 1 .. Len(s), NEW out \in R[n - 1] PROVE Filtered(out, s[n]) \in R[n]
  <2>1. /\ out \in Seq(t) /\ Len(out) \in Nat /\ n \in 0 .. Len(s) /\ s[n] \in t
        /\ Done(n - 1, out)
    <3>1. n \in 0 .. Len(s) /\ n - 1 \in 0 .. Len(s) /\ s[n] \in t
      BY <1>1
    <3> HIDE DEF Done
    <3> QED BY <1>2, <1>3, <3>1, LenProperties
  <2>2. \A k \in 1 .. n : k = n \/ k \in 1 .. n - 1
    BY <1>1
  <2>3. CASE ~Stays(s[n])
    <3>1. Filtered(out, s[n]) = out
      BY <2>3 DEF Filtered
    <3>2. \A i \in 1 .. Len(out) : Stays(out[i]) /\ \E k \in 1 .. n : out[i] = s[k]
      BY <1>1, <2>1
    <3>3. Done(n, out)
      BY <2>1, <2>2, <2>3, <3>2
    <3> HIDE DEF Done
    <3> QED BY <1>2, <2>1, <3>1, <3>3
  <2>4. CASE Stays(s[n])
    <3> DEFINE new == Append(out, s[n])
    <3>1. Filtered(out, s[n]) = new
      BY <2>4 DEF Filtered
    <3>2. /\ new \in Seq(t) /\ Len(new) = Len(out) + 1
          /\ \A i \in 1 .. Len(out) : new[i] = out[i]
          /\ new[Len(out) + 1] = s[n]
      BY <2>1, AppendProperties
    <3> HIDE DEF new
    <3>3. \A i \in 1 .. Len(new) : i \in 1 .. Len(out) \/ i = Len(out) + 1
      BY <2>1, <3>2
    <3>4. ASSUME NEW i \in 1 .. Len(new), NEW j \in 1 .. Len(new), i < j PROVE Place[new[i]] < Place[new[j]]
      <4>1. i \in 1 .. Len(out)
        BY <2>1, <3>2, <3>4
      <4>2. CASE j \in 1 .. Len(out)
        BY <2>1, <3>2, <3>4, <4>1, <4>2
      <4>3. CASE j = Len(out) + 1
        <5>1. PICK k \in 1 .. n - 1 : out[i] = s[k]
          BY <2>1, <4>1
        <5>2. k \in 1 .. Len(s) /\ k < n
          BY <1>1
        <5> QED BY <3>2, <4>1, <4>3, <5>1, <5>2
      <4> QED BY <3>3, <4>2, <4>3
    <3>5. ASSUME NEW i \in 1 .. Len(new) PROVE Stays(new[i]) /\ \E k \in 1 .. n : new[i] = s[k]
      <4>1. CASE i \in 1 .. Len(out)
        <5>1. new[i] = out[i] /\ Stays(out[i])
          BY <2>1, <3>2, <4>1
        <5>2. PICK k \in 1 .. n - 1 : out[i] = s[k]
          BY <2>1, <4>1
        <5>3. k \in 1 .. n
          BY <1>1
        <5> QED BY <5>1, <5>2, <5>3
      <4>2. CASE i = Len(out) + 1
        <5>1. n \in 1 .. n
          BY <1>1
        <5> QED BY <2>4, <3>2, <4>2, <5>1
      <4> QED BY <3>3, <4>1, <4>2
    <3>6. ASSUME NEW k \in 1 .. n, Stays(s[k]) PROVE \E i \in 1 .. Len(new) : new[i] = s[k]
      <4>1. CASE k \in 1 .. n - 1
        <5>1. PICK i \in 1 .. Len(out) : out[i] = s[k]
          BY <2>1, <3>6, <4>1
        <5>2. i \in 1 .. Len(new)
          BY <2>1, <3>2
        <5> QED BY <3>2, <5>1, <5>2
      <4>2. CASE k = n
        <5>1. Len(out) + 1 \in 1 .. Len(new)
          BY <2>1, <3>2
        <5> QED BY <3>2, <4>2, <5>1
      <4> QED BY <2>2, <4>1, <4>2
    <3>7. Done(n, new)
      BY <3>4, <3>5, <3>6
    <3> HIDE DEF Done
    <3> QED BY <1>2, <2>1, <3>1, <3>2, <3>7
  <2> QED BY <2>3, <2>4
<1>4. Filtering!Outcome(<<>>, s) \in R[Len(s)]
  <2> DEFINE none == <<>>
  <2>1. none \in Seq(t) /\ Len(none) = 0
    OBVIOUS
  <2> HIDE DEF none
  <2>2. Done(0, none)
    BY <2>1
  <2>3. none \in R[0]
    <3>1. 0 \in 0 .. Len(s)
      BY <1>1
    <3> HIDE DEF Done
    <3> QED BY <1>2, <2>1, <2>2, <3>1
  <2>4. FilterSteps!Outcome(none, s) \in R[Len(s)]
    BY <1>3, <2>3, FilterSteps!OutcomeFollows
  <2> QED BY <2>4 DEF none, FilterSteps!Outcome, Filtering!Outcome
<1>5. Len(s) \in 0 .. Len(s)
  BY <1>1
<1>6. FilterMainDictCandidates(s) \in Seq(t) /\ Done(Len(s), FilterMainDictCandidates(s))
  BY <1>2, <1>4, <1>5 DEF FilterMainDictCandidates
<1>7. Len(FilterMainDictCandidates(s)) \in Nat
  BY <1>6, LenProperties
<1> QED BY <1>1, <1>6, <1>7

\* The first row of a sorted list.
LEMMA HeadFacts ==
  ASSUME NEW l \in Seq(Word), l # <<>>, InCodeOrder(l)
  PROVE  /\ Head(l) \in Word /\ Tail(l) \in Seq(Word) /\ Len(l) \in Nat /\ Len(Tail(l)) = Len(l) - 1
         /\ ToSet(l) = {Head(l)} \cup ToSet(Tail(l))
         /\ \A w \in ToSet(l) : w \in Word /\ CodeLeq(Head(l).code, w.code)
         /\ InCodeOrder(Tail(l))
         /\ IsInjective(l) => IsInjective(Tail(l)) /\ Head(l) \notin ToSet(Tail(l))
<1> DEFINE t == Tail(l)
<1>1. /\ Head(l) \in Word /\ t \in Seq(Word) /\ Len(l) \in Nat /\ Len(t) = Len(l) - 1
      /\ \A i \in 1 .. Len(t) : t[i] = l[i + 1]
      /\ DOMAIN l = 1 .. Len(l) /\ DOMAIN t = 1 .. Len(t)
      /\ Head(l) = l[1] /\ 1 \in 1 .. Len(l)
  <2>1. Head(l) \in Word /\ t \in Seq(Word) /\ Len(t) = Len(l) - 1 /\ \A i \in 1 .. Len(t) : t[i] = l[i + 1]
    BY HeadTailProperties
  <2>2. Len(l) \in Nat /\ Len(t) \in Nat /\ DOMAIN l = 1 .. Len(l) /\ DOMAIN t = 1 .. Len(t)
    BY <2>1, LenProperties
  <2> HIDE DEF t
  <2>3. Len(l) > 0
    BY <2>1, <2>2
  <2> QED BY <2>1, <2>2, <2>3
<1>2. ToSet(l) = {Head(l)} \cup ToSet(t)
  BY MergeSteps!MembersOfTail DEF ToSet, MergeSteps!ToSet
<1> HIDE DEF t
<1>3. \A i \in 1 .. Len(t) : i + 1 \in 1 .. Len(l) /\ 1 < i + 1
  BY <1>1
<1>4. InCodeOrder(t)
  <2>1. ASSUME NEW i \in 1 .. Len(t), NEW j \in 1 .. Len(t), i < j PROVE CodeLeq(t[i].code, t[j].code)
    <3>1. i + 1 < j + 1 /\ i + 1 \in DOMAIN l /\ j + 1 \in DOMAIN l
      BY <1>1, <1>3, <2>1
    <3>2. CodeLeq(l[i + 1].code, l[j + 1].code)
      BY <3>1 DEF InCodeOrder
    <3> QED BY <1>1, <3>2
  <2> QED BY <1>1, <2>1 DEF InCodeOrder
<1>5. ASSUME NEW w \in ToSet(l) PROVE w \in Word /\ CodeLeq(Head(l).code, w.code)
  <2>1. PICK i \in 1 .. Len(l) : w = l[i]
    BY <1>1 DEF ToSet
  <2>2. w \in Word
    BY <2>1, ElementOfSeq
  <2>3. CASE i = 1
    BY <1>1, <2>1, <2>2, <2>3, CodeOrder
  <2>4. CASE 1 < i
    BY <1>1, <2>1, <2>2, <2>4 DEF InCodeOrder
  <2> QED BY <1>1, <2>2, <2>3, <2>4
<1>6. ASSUME IsInjective(l) PROVE IsInjective(t) /\ Head(l) \notin ToSet(t)
  <2>1. ASSUME NEW i \in 1 .. Len(t), NEW j \in 1 .. Len(t), t[i] = t[j] PROVE i = j
    <3>1. i + 1 = j + 1
      BY <1>1, <1>3, <1>6, <2>1 DEF IsInjective
    <3> QED BY <1>1, <3>1
  <2>2. ASSUME NEW i \in 1 .. Len(t), t[i] = Head(l) PROVE FALSE
    <3>1. i + 1 = 1
      BY <1>1, <1>3, <1>6, <2>2 DEF IsInjective
    <3> QED BY <1>3, <3>1
  <2> QED BY <1>1, <2>1, <2>2 DEF IsInjective, ToSet
<1> QED BY <1>1, <1>2, <1>4, <1>5, <1>6 DEF t

\* A row at the end of a list.
LEMMA EndFacts ==
  ASSUME NEW l \in Seq(Word), NEW w \in Word
  PROVE  LET new == Append(l, w)
         IN  /\ new \in Seq(Word) /\ ToSet(new) = ToSet(l) \cup {w}
             /\ DOMAIN new = DOMAIN l \cup {Len(l) + 1} /\ new[Len(l) + 1] = w
             /\ \A i \in DOMAIN l : new[i] = l[i] /\ i < Len(l) + 1 /\ i \in Nat
             /\ InCodeOrder(l) /\ (\A v \in ToSet(l) : CodeLeq(v.code, w.code)) => InCodeOrder(new)
             /\ IsInjective(l) /\ w \notin ToSet(l) => IsInjective(new)
<1> DEFINE new == Append(l, w)
<1>1. /\ new \in Seq(Word) /\ Len(new) = Len(l) + 1 /\ Len(l) \in Nat
      /\ (\A i \in 1 .. Len(l) : new[i] = l[i]) /\ new[Len(l) + 1] = w
      /\ DOMAIN l = 1 .. Len(l)
  BY AppendProperties, LenProperties
<1>2. ToSet(new) = ToSet(l) \cup {w}
  BY MergeSteps!MembersOfAppend DEF ToSet, MergeSteps!ToSet
<1>3. DOMAIN new = DOMAIN l \cup {Len(l) + 1}
  <2>1. DOMAIN new = 1 .. Len(l) + 1
    BY <1>1, LenProperties
  <2> HIDE DEF new
  <2> QED BY <1>1, <2>1
<1> HIDE DEF new
<1>4. \A i \in DOMAIN l : i < Len(l) + 1 /\ i \in Nat
  BY <1>1
<1>5. ASSUME InCodeOrder(l), \A v \in ToSet(l) : CodeLeq(v.code, w.code) PROVE InCodeOrder(new)
  <2> SUFFICES ASSUME NEW i \in DOMAIN new, NEW j \in DOMAIN new, i < j PROVE CodeLeq(new[i].code, new[j].code)
    BY DEF InCodeOrder
  <2>1. i \in DOMAIN l
    BY <1>1, <1>3, <1>4
  <2>2. CASE j \in DOMAIN l
    BY <1>1, <1>5, <2>1, <2>2 DEF InCodeOrder
  <2>3. CASE j = Len(l) + 1
    BY <1>1, <1>5, <2>1, <2>3 DEF ToSet
  <2> QED BY <1>3, <2>2, <2>3
<1>6. ASSUME IsInjective(l), w \notin ToSet(l) PROVE IsInjective(new)
  <2>1. \A i \in DOMAIN l : new[i] = l[i] /\ l[i] # w
    BY <1>1, <1>6 DEF ToSet
  <2> QED BY <1>1, <1>3, <1>6, <2>1 DEF IsInjective
<1> QED BY <1>1, <1>2, <1>3, <1>4, <1>5, <1>6 DEF new

Rows == [first : Seq(Word), second : Seq(Word), out : Seq(Word)]

\* What holds of the rows between two steps of a merge, A being the words of the
\* first list and B those of the second.
Between(rows, A, B) ==
  LET first == ToSet(rows.first)  second == ToSet(rows.second)  out == ToSet(rows.out)
  IN  /\ rows \in Rows
      /\ InCodeOrder(rows.first) /\ InCodeOrder(rows.second) /\ InCodeOrder(rows.out)
      /\ first \subseteq A /\ second \subseteq B /\ out \cup first \cup second = A \cup B
      /\ \A v \in out, w \in first \cup second : CodeLeq(v.code, w.code)
      /\ \A v \in out \ A, w \in first : v.code # w.code
      /\ \A i, j \in DOMAIN rows.out :
           i < j /\ rows.out[i].code = rows.out[j].code /\ rows.out[j] \notin B => rows.out[i] \in A

\* So far no row is there twice.
Single(rows) ==
  /\ IsInjective(rows.first) /\ IsInjective(rows.second) /\ IsInjective(rows.out)
  /\ ToSet(rows.out) \cap (ToSet(rows.first) \cup ToSet(rows.second)) = {}

\* A row taken keeps what is between two lists and what they are merged into.
LEMMA AppendRowFacts ==
  ASSUME NEW A, NEW B, NEW rows, Between(rows, A, B), rows.first # <<>> \/ rows.second # <<>>
  PROVE  LET next == AppendRow(rows, 0)
         IN  /\ Between(next, A, B)
             /\ Len(next.first) + Len(next.second) = Len(rows.first) + Len(rows.second) - 1
             /\ A \cap B = {} /\ Single(rows) => Single(next)
<1> DEFINE first == rows.first
           second == rows.second
           out == rows.out
           next == AppendRow(rows, 0)
<1>1. /\ first \in Seq(Word) /\ second \in Seq(Word) /\ out \in Seq(Word)
      /\ rows = [first |-> first, second |-> second, out |-> out]
      /\ InCodeOrder(first) /\ InCodeOrder(second) /\ InCodeOrder(out)
  BY DEF Between, Rows
<1>2. /\ ToSet(first) \subseteq A /\ ToSet(second) \subseteq B /\ ToSet(out) \cup ToSet(first) \cup ToSet(second) = A \cup B
      /\ \A v \in ToSet(out), w \in ToSet(first) \cup ToSet(second) : CodeLeq(v.code, w.code)
      /\ \A v \in ToSet(out) \ A, w \in ToSet(first) : v.code # w.code
      /\ \A i, j \in DOMAIN out : i < j /\ out[i].code = out[j].code /\ out[j] \notin B => out[i] \in A
  BY DEF Between
<1>3. \A l \in Seq(Word) : Len(l) \in Nat /\ ToSet(l) \subseteq Word
  BY LenProperties, ElementOfSeq DEF ToSet
<1>4. CASE FirstIsNext(rows)
  <2> DEFINE h == Head(first)
             t == Tail(first)
             new == Append(out, h)
  <2>1. first # <<>>
    BY <1>4 DEF FirstIsNext
  <2>2. next = [first |-> t, second |-> second, out |-> new]
    BY <1>1, <1>4 DEF AppendRow
  <2>3. /\ h \in Word /\ t \in Seq(Word) /\ Len(t) = Len(first) - 1 /\ ToSet(first) = {h} \cup ToSet(t)
        /\ InCodeOrder(t) /\ \A w \in ToSet(first) : CodeLeq(h.code, w.code)
        /\ IsInjective(first) => IsInjective(t) /\ h \notin ToSet(t)
    BY <1>1, <2>1, HeadFacts
  <2>4. \A w \in ToSet(second) : CodeLeq(h.code, w.code)
    <3>1. CASE second = <<>>
      BY <3>1 DEF ToSet
    <3>2. CASE second # <<>>
      <4>1. CodeLeq(h.code, Head(second).code)
        BY <1>4, <3>2 DEF FirstIsNext
      <4>2. Head(second) \in Word /\ \A w \in ToSet(second) : w \in Word /\ CodeLeq(Head(second).code, w.code)
        BY <1>1, <3>2, HeadFacts
      <4> QED BY <2>3, <4>1, <4>2, CodeOrder
    <3> QED BY <3>1, <3>2
  <2> HIDE DEF h, t
  <2>5. /\ new \in Seq(Word) /\ ToSet(new) = ToSet(out) \cup {h}
        /\ DOMAIN new = DOMAIN out \cup {Len(out) + 1} /\ new[Len(out) + 1] = h
        /\ \A i \in DOMAIN out : new[i] = out[i] /\ i < Len(out) + 1 /\ i \in Nat
        /\ InCodeOrder(new)
        /\ IsInjective(out) /\ h \notin ToSet(out) => IsInjective(new)
    <3>1. \A v \in ToSet(out) : CodeLeq(v.code, h.code)
      BY <1>2, <2>3
    <3> QED BY <1>1, <2>3, <3>1, EndFacts
  <2> HIDE DEF new, first, second, out, next
  <2>6. \A v \in ToSet(new), w \in ToSet(t) \cup ToSet(second) : CodeLeq(v.code, w.code)
    BY <1>2, <2>3, <2>4, <2>5
  <2>7. \A v \in ToSet(new) \ A, w \in ToSet(t) : v.code # w.code
    BY <1>2, <2>3, <2>5
  <2>8. ASSUME NEW i \in DOMAIN new, NEW j \in DOMAIN new, i < j, new[i].code = new[j].code, new[j] \notin B
        PROVE  new[i] \in A
    <3>1. i \in DOMAIN out
      BY <1>1, <1>3, <2>5, <2>8
    <3>2. CASE j \in DOMAIN out
      BY <1>2, <2>5, <2>8, <3>1, <3>2
    <3>3. CASE j = Len(out) + 1
      <4>1. new[i] \in ToSet(out) /\ h \in ToSet(first) /\ new[i].code = h.code
        BY <2>3, <2>5, <2>8, <3>1, <3>3 DEF ToSet
      <4> QED BY <1>2, <4>1
    <3> QED BY <2>5, <3>2, <3>3
  <2>9. Between(next, A, B)
    <3>1. next \in Rows /\ next.first = t /\ next.second = second /\ next.out = new
      BY <1>1, <2>2, <2>3, <2>5 DEF Rows
    <3>2. ToSet(t) \subseteq A /\ ToSet(new) \cup ToSet(t) \cup ToSet(second) = A \cup B
      BY <1>2, <2>3, <2>5
    <3> QED BY <1>1, <1>2, <2>3, <2>5, <2>6, <2>7, <2>8, <3>1, <3>2 DEF Between
  <2>10. ASSUME A \cap B = {}, Single(rows) PROVE Single(next)
    <3>1. /\ IsInjective(first) /\ IsInjective(second) /\ IsInjective(out)
          /\ ToSet(out) \cap (ToSet(first) \cup ToSet(second)) = {}
      BY <2>10 DEF Single, first, second, out
    <3>2. h \notin ToSet(out) /\ h \notin ToSet(t) /\ h \notin ToSet(second)
      BY <1>2, <2>3, <2>10, <3>1
    <3>3. IsInjective(t) /\ IsInjective(new) /\ ToSet(new) \cap (ToSet(t) \cup ToSet(second)) = {}
      BY <2>3, <2>5, <3>1, <3>2
    <3> QED BY <2>2, <3>1, <3>3 DEF Single
  <2>11. Len(next.first) + Len(next.second) = Len(first) + Len(second) - 1
    <3>1. Len(next.first) = Len(first) - 1 /\ Len(next.second) = Len(second)
      BY <2>2, <2>3
    <3>2. Len(first) \in Nat /\ Len(second) \in Nat
      BY <1>1, <1>3
    <3> QED BY <3>1, <3>2
  <2> QED BY <2>9, <2>10, <2>11 DEF next, first, second
<1>5. CASE ~FirstIsNext(rows)
  <2> DEFINE h == Head(second)
             t == Tail(second)
             new == Append(out, h)
  <2>1. second # <<>> /\ (first # <<>> => ~CodeLeq(Head(first).code, h.code))
    BY <1>5 DEF FirstIsNext
  <2>2. next = [first |-> first, second |-> t, out |-> new]
    BY <1>1, <1>5 DEF AppendRow
  <2>3. /\ h \in Word /\ t \in Seq(Word) /\ Len(t) = Len(second) - 1 /\ ToSet(second) = {h} \cup ToSet(t)
        /\ InCodeOrder(t) /\ \A w \in ToSet(second) : CodeLeq(h.code, w.code)
        /\ IsInjective(second) => IsInjective(t) /\ h \notin ToSet(t)
    BY <1>1, <2>1, HeadFacts
  <2>4. \A w \in ToSet(first) : CodeLeq(h.code, w.code) /\ h.code # w.code
    <3>1. CASE first = <<>>
      BY <3>1 DEF ToSet
    <3>2. CASE first # <<>>
      <4>1. Head(first) \in Word /\ \A w \in ToSet(first) : w \in Word /\ CodeLeq(Head(first).code, w.code)
        BY <1>1, <3>2, HeadFacts
      <4>2. CodeLeq(h.code, Head(first).code) /\ ~CodeLeq(Head(first).code, h.code)
        BY <2>1, <2>3, <3>2, <4>1, CodeOrder
      <4> QED BY <2>3, <4>1, <4>2, CodeOrder
    <3> QED BY <3>1, <3>2
  <2> HIDE DEF h, t
  <2>5. /\ new \in Seq(Word) /\ ToSet(new) = ToSet(out) \cup {h}
        /\ DOMAIN new = DOMAIN out \cup {Len(out) + 1} /\ new[Len(out) + 1] = h
        /\ \A i \in DOMAIN out : new[i] = out[i] /\ i < Len(out) + 1 /\ i \in Nat
        /\ InCodeOrder(new)
        /\ IsInjective(out) /\ h \notin ToSet(out) => IsInjective(new)
    <3>1. \A v \in ToSet(out) : CodeLeq(v.code, h.code)
      BY <1>2, <2>3
    <3> QED BY <1>1, <2>3, <3>1, EndFacts
  <2> HIDE DEF new, first, second, out, next
  <2>6. \A v \in ToSet(new), w \in ToSet(first) \cup ToSet(t) : CodeLeq(v.code, w.code)
    BY <1>2, <2>3, <2>4, <2>5
  <2>7. \A v \in ToSet(new) \ A, w \in ToSet(first) : v.code # w.code
    BY <1>2, <2>4, <2>5
  <2>8. ASSUME NEW i \in DOMAIN new, NEW j \in DOMAIN new, i < j, new[i].code = new[j].code, new[j] \notin B
        PROVE  new[i] \in A
    <3>1. i \in DOMAIN out
      BY <1>1, <1>3, <2>5, <2>8
    <3>2. h \in B
      BY <1>2, <2>3
    <3> QED BY <1>2, <2>5, <2>8, <3>1, <3>2
  <2>9. Between(next, A, B)
    <3>1. next \in Rows /\ next.first = first /\ next.second = t /\ next.out = new
      BY <1>1, <2>2, <2>3, <2>5 DEF Rows
    <3>2. ToSet(t) \subseteq B /\ ToSet(new) \cup ToSet(first) \cup ToSet(t) = A \cup B
      BY <1>2, <2>3, <2>5
    <3> QED BY <1>1, <1>2, <2>3, <2>5, <2>6, <2>7, <2>8, <3>1, <3>2 DEF Between
  <2>10. ASSUME A \cap B = {}, Single(rows) PROVE Single(next)
    <3>1. /\ IsInjective(first) /\ IsInjective(second) /\ IsInjective(out)
          /\ ToSet(out) \cap (ToSet(first) \cup ToSet(second)) = {}
      BY <2>10 DEF Single, first, second, out
    <3>2. h \notin ToSet(out) /\ h \notin ToSet(t) /\ h \notin ToSet(first)
      BY <1>2, <2>3, <2>10, <3>1
    <3>3. IsInjective(t) /\ IsInjective(new) /\ ToSet(new) \cap (ToSet(first) \cup ToSet(t)) = {}
      BY <2>3, <2>5, <3>1, <3>2
    <3> QED BY <2>2, <3>1, <3>3 DEF Single
  <2>11. Len(next.first) + Len(next.second) = Len(first) + Len(second) - 1
    BY <1>1, <1>3, <2>2, <2>3
  <2> QED BY <2>9, <2>10, <2>11 DEF next, first, second
<1> QED BY <1>4, <1>5

\* The merge of two sorted lists has their rows, sorted, with those of the first
\* in front where codes are equal, and none twice if none was in both.
LEMMA MergeFacts ==
  ASSUME NEW first \in Seq(Word), NEW second \in Seq(Word), InCodeOrder(first), InCodeOrder(second)
  PROVE  LET s == Merge(first, second)
         IN  /\ s \in Seq(Word) /\ ToSet(s) = ToSet(first) \cup ToSet(second) /\ InCodeOrder(s)
             /\ \A i, j \in DOMAIN s :
                  i < j /\ s[i].code = s[j].code /\ s[j] \notin ToSet(second) => s[i] \in ToSet(first)
             /\ IsInjective(first) /\ IsInjective(second) /\ ToSet(first) \cap ToSet(second) = {} => IsInjective(s)
<1> DEFINE A == ToSet(first)
           B == ToSet(second)
           n == Len(first) + Len(second)
           steps == [k \in 1 .. Len(first) + Len(second) |-> k]
           none == <<>>
           begin == [first |-> first, second |-> second, out |-> none]
           Once == A \cap B = {} /\ IsInjective(first) /\ IsInjective(second)
           Done(k, rows) == /\ Between(rows, A, B)
                            /\ Len(rows.first) + Len(rows.second) = n - k
                            /\ Once => Single(rows)
           R == [k \in 0 .. n |-> {rows \in Rows : Done(k, rows)}]
           end == Merging!Outcome(begin, steps)
<1>1. n \in Nat /\ Len(first) \in Nat /\ Len(second) \in Nat
  BY LenProperties
<1>2. steps \in Seq(Nat) /\ Len(steps) = n
  <2> HIDE DEF n
  <2>1. steps = [k \in 1 .. n |-> k]
    BY DEF n
  <2>2. steps \in [1 .. n -> Nat]
    BY <2>1
  <2> HIDE DEF steps
  <2> QED BY <1>1, <2>1, <2>2, SeqDef, LenProperties
<1>3. none \in Seq(Word) /\ Len(none) = 0 /\ ToSet(none) = {} /\ DOMAIN none = {}
  BY DEF ToSet
<1>4. \A k \in 0 .. n : \A rows : rows \in R[k] <=> Done(k, rows)
  <2>1. \A k, rows : Done(k, rows) => rows \in Rows
    BY DEF Between
  <2> HIDE DEF Done
  <2> QED BY <2>1
<1> HIDE DEF none, R, steps
<1>5. begin \in R[0]
  <2>1. begin \in Rows /\ begin.first = first /\ begin.second = second /\ begin.out = none
    BY <1>3 DEF Rows
  <2> HIDE DEF begin
  <2>2. Between(begin, A, B)
    BY <1>3, <2>1 DEF Between, InCodeOrder
  <2>3. Once => Single(begin)
    BY <1>3, <2>1 DEF Single, IsInjective
  <2>4. Len(begin.first) + Len(begin.second) = n - 0
    BY <1>1, <2>1
  <2>5. 0 \in 0 .. n
    BY <1>1
  <2> QED BY <1>4, <2>2, <2>3, <2>4, <2>5
<1>6. ASSUME NEW k \in 1 .. Len(steps), NEW rows \in R[k - 1] PROVE AppendRow(rows, steps[k]) \in R[k]
  <2>1. k \in 0 .. n /\ k - 1 \in 0 .. n
    BY <1>1, <1>2
  <2>2. Done(k - 1, rows)
    <3> HIDE DEF Done
    <3> QED BY <1>4, <1>6, <2>1
  <2>3. rows.first # <<>> \/ rows.second # <<>>
    <3>1. Len(rows.first) + Len(rows.second) = n - (k - 1)
      BY <2>2
    <3>2. n - (k - 1) # 0
      BY <1>1, <1>2
    <3> HIDE DEF n
    <3>3. ASSUME rows.first = <<>>, rows.second = <<>> PROVE FALSE
      BY <3>1, <3>2, <3>3
    <3> QED BY <3>3
  <2> DEFINE next == AppendRow(rows, steps[k])
  <2>4. AppendRow(rows, 0) = next
    BY DEF AppendRow
  <2>5. /\ Between(next, A, B)
        /\ Len(next.first) + Len(next.second) = Len(rows.first) + Len(rows.second) - 1
        /\ A \cap B = {} /\ Single(rows) => Single(next)
    BY <2>2, <2>3, <2>4, AppendRowFacts
  <2> HIDE DEF next
  <2>6. Len(next.first) + Len(next.second) = n - k
    <3>1. rows \in Rows /\ next \in Rows
      BY <2>2, <2>5 DEF Between
    <3>2. Len(rows.first) \in Nat /\ Len(rows.second) \in Nat /\ Len(next.first) \in Nat /\ Len(next.second) \in Nat
      BY <3>1, LenProperties DEF Rows
    <3>3. Len(rows.first) + Len(rows.second) = n - (k - 1)
      BY <2>2
    <3> HIDE DEF n, Done
    <3>4. Len(next.first) + Len(next.second) = Len(rows.first) + Len(rows.second) - 1
      BY <2>5, Zenon
    <3> DEFINE a == Len(rows.first)
               b == Len(rows.second)
               c == Len(next.first)
               d == Len(next.second)
    <3>5. a \in Nat /\ b \in Nat /\ c \in Nat /\ d \in Nat /\ n \in Nat /\ k \in Nat
      BY <1>1, <2>1, <3>2
    <3>6. a + b = n - (k - 1)
      BY <3>3
    <3>7. c + d = a + b - 1
      BY <3>4
    <3> HIDE DEF a, b, c, d
    <3>8. c + d = n - k
      BY <3>5, <3>6, <3>7
    <3> QED BY <3>8 DEF c, d
  <2>7. Done(k, next)
    BY <2>2, <2>5, <2>6
  <2> HIDE DEF Done
  <2> QED BY <1>4, <2>1, <2>7 DEF next
<1>7. end \in R[n]
  <2> HIDE DEF begin, n
  <2>1. MergeSteps!Outcome(begin, steps) \in R[Len(steps)]
    BY <1>2, <1>5, <1>6, MergeSteps!OutcomeFollows
  <2> QED BY <1>2, <2>1 DEF MergeSteps!Outcome, Merging!Outcome
<1>8. Done(n, end)
  <2>1. n \in 0 .. n
    BY <1>1
  <2> HIDE DEF Done, end, n
  <2> QED BY <1>4, <1>7, <2>1
<1>9. Merge(first, second) = end.out
  BY DEF Merge, none, steps
<1> HIDE DEF end
<1>10. end.first = <<>> /\ end.second = <<>>
  <2>1. end.first \in Seq(Word) /\ end.second \in Seq(Word) /\ Len(end.first) + Len(end.second) = n - n
    BY <1>8 DEF Between, Rows
  <2>2. Len(end.first) \in Nat /\ Len(end.second) \in Nat
    BY <2>1, LenProperties
  <2>3. n - n = 0
    BY <1>1
  <2> HIDE DEF n
  <2>4. Len(end.first) = 0 /\ Len(end.second) = 0
    <3>1. \A x, y \in Nat : x + y = 0 => x = 0 /\ y = 0
      OBVIOUS
    <3>2. Len(end.first) + Len(end.second) = 0
      BY <2>1, <2>3
    <3> QED BY <2>2, <3>1, <3>2
  <2> QED BY <2>1, <2>4, EmptySeq
<1>11. ToSet(end.first) = {} /\ ToSet(end.second) = {}
  BY <1>10 DEF ToSet
<1>12. Between(end, A, B) /\ (Once => Single(end))
  BY <1>8
<1> HIDE DEF Done
<1> QED BY <1>9, <1>11, <1>12 DEF Between, Single, Rows

\* A finite set made into a sequence.
LEMMA SetToSeqFacts ==
  ASSUME NEW S, IsFiniteSet(S)
  PROVE  SetToSeq(S) \in Seq(S) /\ IsInjective(SetToSeq(S)) /\ ToSet(SetToSeq(S)) = S
<1> DEFINE n == Cardinality(S)
           s == SetToSeq(S)
<1>1. n \in Nat /\ ExistsBijection(1 .. n, S)
  BY FS_CardinalityType
<1>2. \E f \in [1 .. n -> S] : IsInjective(f)
  BY <1>1 DEF ExistsBijection, Bijection, Injection
<1>3. s \in [1 .. n -> S] /\ IsInjective(s)
  BY <1>2 DEF SetToSeq
<1>4. IsFiniteSet(1 .. n) /\ Cardinality(1 .. n) = n
  BY <1>1, FS_Interval
<1> HIDE DEF s
<1>5. s \in Surjection(1 .. n, S)
  <2>1. s \in Injection(1 .. n, S)
    BY <1>3 DEF Injection
  <2> QED BY <1>4, <2>1, FS_Injection
<1>6. s \in Seq(S)
  BY <1>1, <1>3, SeqDef
<1>7. ToSet(s) = S
  BY <1>3, <1>5 DEF Surjection, ToSet
<1> QED BY <1>3, <1>6, <1>7 DEF s

-----------------------------------------------------------------------------
(* What is offered. *)

LookupTypes == TypeOK /\ auto \subseteq Phrases

\* The user's words and the table's, before the automatic phrases are appended.
Merged(code) ==
  Merge(UserHits(code), FilterMainDictCandidates(AppendCandidatesForPrefix(Records(main), code)))

FromTable == {w \in main \ mem.deleted : ~NeedFilt(w)}

\* The two lists that are merged hold the user's words and the table's: in the
\* order of codes, the user's in front, and once if the lists fit the table.
LEMMA MergedFacts ==
  ASSUME LookupTypes, NEW code
  PROVE  LET s == Merged(code)
         IN  /\ s \in Seq(Word) /\ InCodeOrder(s)
             /\ \A w \in ToSet(s) : w \in mem.user \cup FromTable /\ IsPrefix(code, w.code)
             /\ \A w \in mem.user \cup FromTable : w.code = code /\ code # <<>> => w \in ToSet(s)
             /\ \A i, j \in DOMAIN s :
                  i < j /\ s[i].code = s[j].code /\ s[j] \in mem.user \ main => s[i] \in mem.user
             /\ mem.user \cap main = {} => IsInjective(s)
<1> DEFINE own   == {w \in mem.user : code # <<>> /\ IsPrefix(code, w.code)}
           first == UserHits(code)
           hits  == AppendCandidatesForPrefix(Records(main), code)
           second == FilterMainDictCandidates(hits)
           s     == Merged(code)
<1>1. /\ main \in Tables /\ main \in SUBSET Word /\ mem.user \subseteq Word /\ own \in SUBSET Word
      /\ Numbering(Place) /\ Numbering(Line)
      /\ \A at \in {Place, Line} : \A v, w \in Word : at[v] < at[w] => CodeLeq(v.code, w.code)
  BY UserDictAssumption, WubiLookupAssumption DEF LookupTypes, TypeOK, Dict, Numbering
<1>2. ASSUME NEW S \in SUBSET Word, NEW l \in Seq(S), NEW at \in {Place, Line},
             \A i, j \in 1 .. Len(l) : i < j => at[l[i]] < at[l[j]]
      PROVE  l \in Seq(Word) /\ InCodeOrder(l) /\ IsInjective(l)
  <2>1. Len(l) \in Nat /\ DOMAIN l = 1 .. Len(l) /\ \A i \in 1 .. Len(l) : l[i] \in Word
    BY <1>2, LenProperties, ElementOfSeq
  <2>2. l \in Seq(Word)
    BY <1>2, SeqMonotonic
  <2>3. InCodeOrder(l)
    BY <1>1, <1>2, <2>1 DEF InCodeOrder
  <2>4. ASSUME NEW i \in 1 .. Len(l), NEW j \in 1 .. Len(l), l[i] = l[j] PROVE i = j
    <3>1. at[l[i]] \in Nat
      BY <1>1, <2>1 DEF Numbering
    <3>2. ~(i < j) /\ ~(j < i)
      BY <1>2, <2>4, <3>1
    <3> QED BY <2>1, <3>2
  <2> QED BY <2>1, <2>2, <2>3, <2>4 DEF IsInjective
<1>3. /\ first \in Seq(Word) /\ InCodeOrder(first) /\ IsInjective(first) /\ ToSet(first) = own
  <2>1. first = Arranged(own, Line)
    BY DEF UserHits
  <2>2. own \in SUBSET Word /\ Numbering(Line)
    BY <1>1
  <2> HIDE DEF own
  <2>3. LET l == Arranged(own, Line)
        IN  /\ l \in Seq(own)
            /\ \A i, j \in 1 .. Len(l) : i < j => Line[l[i]] < Line[l[j]]
            /\ \A w \in own : \E i \in 1 .. Len(l) : l[i] = w
    BY <2>2, ArrangedFacts
  <2> HIDE DEF first
  <2>4. /\ first \in Seq(own)
        /\ \A i, j \in 1 .. Len(first) : i < j => Line[first[i]] < Line[first[j]]
        /\ \A w \in own : \E i \in 1 .. Len(first) : first[i] = w
    BY <2>1, <2>3
  <2>5. first \in Seq(Word) /\ InCodeOrder(first) /\ IsInjective(first)
    BY <1>1, <1>2, <2>2, <2>4
  <2>6. ToSet(first) = own
    <3>1. DOMAIN first = 1 .. Len(first) /\ \A i \in 1 .. Len(first) : first[i] \in own
      BY <2>4, LenProperties, ElementOfSeq
    <3> QED BY <2>4, <3>1 DEF ToSet
  <2> QED BY <2>5, <2>6
<1>4. /\ hits \in Seq(main)
      /\ \A i, j \in 1 .. Len(hits) : i < j => Place[hits[i]] < Place[hits[j]]
      /\ \A i \in 1 .. Len(hits) : IsPrefix(code, hits[i].code)
      /\ \A w \in main : w.code = code /\ code # <<>> => \E i \in 1 .. Len(hits) : hits[i] = w
  BY <1>1, HitsFacts
<1>5. /\ second \in Seq(Word) /\ InCodeOrder(second) /\ IsInjective(second)
      /\ \A w \in ToSet(second) : w \in FromTable /\ IsPrefix(code, w.code)
      /\ \A w \in FromTable : w.code = code /\ code # <<>> => w \in ToSet(second)
  <2> HIDE DEF hits
  <2>1. /\ second \in Seq(main)
        /\ \A i, j \in 1 .. Len(second) : i < j => Place[second[i]] < Place[second[j]]
        /\ \A w : (\E i \in 1 .. Len(second) : second[i] = w)
                    <=> w \notin mem.deleted /\ ~NeedFilt(w) /\ \E i \in 1 .. Len(hits) : hits[i] = w
    BY <1>1, <1>4, FilteredFacts
  <2> HIDE DEF second
  <2>2. second \in Seq(Word) /\ InCodeOrder(second) /\ IsInjective(second)
    BY <1>1, <1>2, <2>1
  <2>3. /\ DOMAIN second = 1 .. Len(second) /\ \A i \in 1 .. Len(hits) : hits[i] \in main
    BY <1>4, <2>1, LenProperties, ElementOfSeq
  <2>4. \A w : w \in ToSet(second) <=> w \notin mem.deleted /\ ~NeedFilt(w) /\ \E i \in 1 .. Len(hits) : hits[i] = w
    BY <2>1, <2>3 DEF ToSet
  <2>5. \A w \in ToSet(second) : w \in FromTable /\ IsPrefix(code, w.code)
    BY <1>4, <2>3, <2>4 DEF FromTable
  <2>6. \A w \in FromTable : w.code = code /\ code # <<>> => w \in ToSet(second)
    BY <1>4, <2>4 DEF FromTable
  <2> QED BY <2>2, <2>5, <2>6
<1> HIDE DEF first, hits, second
<1>6. /\ s \in Seq(Word) /\ ToSet(s) = ToSet(first) \cup ToSet(second) /\ InCodeOrder(s)
      /\ \A i, j \in DOMAIN s :
           i < j /\ s[i].code = s[j].code /\ s[j] \notin ToSet(second) => s[i] \in ToSet(first)
      /\ ToSet(first) \cap ToSet(second) = {} => IsInjective(s)
  <2>1. s = Merge(first, second)
    BY DEF Merged, first, second, hits
  <2> QED BY <1>3, <1>5, <2>1, MergeFacts
<1> HIDE DEF s
<1>7. \A w \in ToSet(s) : w \in mem.user \cup FromTable /\ IsPrefix(code, w.code)
  BY <1>3, <1>5, <1>6
<1>8. ASSUME NEW w \in mem.user \cup FromTable, w.code = code, code # <<>> PROVE w \in ToSet(s)
  <2>1. CASE w \in mem.user
    <3>1. w \in Word
      BY <1>1, <2>1
    <3>2. Len(w.code) \in Nat
      BY <3>1, WubiLookupAssumption, LenProperties
    <3>3. IsPrefix(code, w.code)
      BY <1>8, <3>2 DEF IsPrefix
    <3> QED BY <1>3, <1>6, <1>8, <2>1, <3>3
  <2>2. CASE w \in FromTable
    BY <1>5, <1>6, <1>8, <2>2
  <2> QED BY <2>1, <2>2
<1>9. ASSUME NEW i \in DOMAIN s, NEW j \in DOMAIN s, i < j, s[i].code = s[j].code, s[j] \in mem.user \ main
      PROVE  s[i] \in mem.user
  <2>1. s[j] \notin ToSet(second)
    BY <1>5, <1>9 DEF FromTable
  <2> QED BY <1>3, <1>6, <1>9, <2>1
<1>10. ASSUME mem.user \cap main = {} PROVE IsInjective(s)
  <2>1. ToSet(first) \cap ToSet(second) = {}
    BY <1>3, <1>5, <1>10 DEF FromTable
  <2> QED BY <1>6, <2>1
<1> QED BY <1>6, <1>7, <1>8, <1>9, <1>10 DEF s

\* Behind them come the automatic phrases of the code that are not there yet.
LEMMA ResultFacts ==
  ASSUME LookupTypes, NEW code
  PROVE  LET s == WubiResult(code)
             m == Merged(code)
             new == {w \in auto : autoOn /\ w.code = code} \ ToSet(m)
         IN  /\ Len(m) \in Nat /\ DOMAIN m = 1 .. Len(m)
             /\ s \in Seq(Word) /\ ToSet(s) = ToSet(m) \cup new
             /\ \A i \in DOMAIN s : IF i \in DOMAIN m THEN s[i] = m[i] ELSE i > Len(m) /\ s[i] \in new
             /\ IsInjective(m) => IsInjective(s)
<1> DEFINE m == Merged(code)
           new == {w \in auto : autoOn /\ w.code = code} \ ToSet(m)
           e == SetToSeq(new)
           s == WubiResult(code)
<1>1. m \in Seq(Word)
  BY MergedFacts
<1>2. s = m \o e
  BY DEF WubiResult, AppendPhrases, Merged
<1>3. new \in SUBSET Word /\ IsFiniteSet(new)
  <2>1. new \in SUBSET Word
    BY WubiLookupAssumption DEF LookupTypes, Plain
  <2> HIDE DEF new
  <2> QED BY <2>1, FS_Subset, WubiLookupAssumption
<1> HIDE DEF m, new, s
<1>4. e \in Seq(new) /\ IsInjective(e) /\ ToSet(e) = new
  BY <1>3, SetToSeqFacts
<1>5. e \in Seq(Word)
  BY <1>3, <1>4, SeqMonotonic
<1> HIDE DEF e
<1>6. /\ Len(m) \in Nat /\ Len(e) \in Nat /\ DOMAIN m = 1 .. Len(m) /\ DOMAIN e = 1 .. Len(e)
      /\ \A i \in 1 .. Len(e) : e[i] \in new
  BY <1>1, <1>4, LenProperties, ElementOfSeq
<1>7. /\ s \in Seq(Word) /\ Len(s) = Len(m) + Len(e)
      /\ \A i \in 1 .. Len(m) + Len(e) : s[i] = IF i <= Len(m) THEN m[i] ELSE e[i - Len(m)]
  BY <1>1, <1>2, <1>5, ConcatProperties
<1>8. DOMAIN s = 1 .. Len(m) + Len(e)
  BY <1>7, LenProperties
<1>9. /\ \A i \in 1 .. Len(m) : i \in DOMAIN s /\ s[i] = m[i]
      /\ \A i \in 1 .. Len(e) : Len(m) + i \in DOMAIN s /\ s[Len(m) + i] = e[i]
      /\ \A i \in DOMAIN s : i \in 1 .. Len(m) \/ (i > Len(m) /\ i - Len(m) \in 1 .. Len(e) /\ s[i] = e[i - Len(m)])
  BY <1>6, <1>7, <1>8
<1>10. ToSet(s) = ToSet(m) \cup new
  <2>1. \A w \in ToSet(s) : w \in ToSet(m) \cup new
    BY <1>6, <1>9 DEF ToSet
  <2>2. \A w \in ToSet(m) : w \in ToSet(s)
    BY <1>6, <1>9 DEF ToSet
  <2>3. \A w \in new : w \in ToSet(s)
    BY <1>4, <1>6, <1>9 DEF ToSet
  <2> QED BY <2>1, <2>2, <2>3
<1>11. ASSUME NEW i \in DOMAIN s PROVE IF i \in DOMAIN m THEN s[i] = m[i] ELSE i > Len(m) /\ s[i] \in new
  BY <1>6, <1>9
<1>12. ASSUME IsInjective(m) PROVE IsInjective(s)
  <2> SUFFICES ASSUME NEW i \in DOMAIN s, NEW j \in DOMAIN s, s[i] = s[j] PROVE i = j
    BY DEF IsInjective
  <2>1. CASE i \in 1 .. Len(m) /\ j \in 1 .. Len(m)
    BY <1>6, <1>9, <1>12, <2>1 DEF IsInjective
  <2>2. CASE i \notin 1 .. Len(m) /\ j \notin 1 .. Len(m)
    <3>1. i - Len(m) = j - Len(m)
      BY <1>4, <1>6, <1>9, <2>2 DEF IsInjective
    <3> QED BY <1>6, <1>8, <3>1
  <2>3. \A x \in 1 .. Len(m), y \in DOMAIN s : y \notin 1 .. Len(m) => s[x] # s[y]
    <3>1. \A w \in new : w \notin ToSet(m)
      BY DEF new
    <3>2. \A x \in 1 .. Len(m) : s[x] \in ToSet(m)
      BY <1>6, <1>9 DEF ToSet
    <3> QED BY <1>6, <1>9, <3>1, <3>2
  <2> QED BY <2>1, <2>2, <2>3
<1> QED BY <1>6, <1>7, <1>10, <1>11, <1>12 DEF m, new, s

\* No code is empty.
LEMMA CodesFacts == \A c \in Codes : c # <<>>
<1> SUFFICES ASSUME NEW w \in Word \cup ToSet(PyTable), NEW n \in 1 .. Len(w.code)
             PROVE  SubSeq(w.code, 1, n) # <<>>
  BY DEF Codes
<1>1. w.code \in Seq(Nat) /\ Len(w.code) \in Nat
  BY WubiLookupAssumption, LenProperties
<1>2. n \in Int /\ 1 \in Int /\ n >= 1 /\ \A i \in 1 .. n : w.code[i] \in Nat
  BY <1>1, ElementOfSeq
<1>3. Len(SubSeq(w.code, 1, n)) = IF 1 <= n THEN n - 1 + 1 ELSE 0
  BY <1>2, SubSeqProperties
<1> DEFINE c == SubSeq(w.code, 1, n)
<1>4. Len(c) # 0
  BY <1>2, <1>3
<1> HIDE DEF c
<1>5. c # <<>>
  BY <1>4
<1> QED BY <1>5 DEF c

\* What can be typed without the automatic phrases comes from the two lists.
LEMMA KeptIs == Kept = mem.user \cup FromTable
BY DEF Kept, FromTable

\* Types are enough for each of the three properties of a look-up.
LEMMA LookupOffers == LookupTypes => TypedIsOffered
<1> SUFFICES ASSUME LookupTypes, NEW c \in Codes
             PROVE  /\ \A w \in ToSet(WubiResult(c)) : w \in Offered /\ IsPrefix(c, w.code)
                    /\ \A w \in Offered : w.code = c => w \in ToSet(WubiResult(c))
  BY DEF TypedIsOffered
<1> DEFINE m == Merged(c)
           new == {w \in auto : autoOn /\ w.code = c} \ ToSet(m)
<1>1. ToSet(WubiResult(c)) = ToSet(m) \cup new
  BY ResultFacts
<1>2. /\ \A w \in ToSet(m) : w \in Kept /\ IsPrefix(c, w.code)
      /\ \A w \in Kept : w.code = c => w \in ToSet(m)
  BY MergedFacts, KeptIs, CodesFacts
<1>3. \A w \in new : w \in Offered /\ IsPrefix(c, w.code)
  <2>1. \A w \in new : w \in Word /\ w.code = c /\ w \in Offered
    BY WubiLookupAssumption DEF LookupTypes, Plain, Offered
  <2>2. \A w \in Word : Len(w.code) \in Nat
    BY WubiLookupAssumption, LenProperties
  <2> HIDE DEF new
  <2> QED BY <2>1, <2>2 DEF IsPrefix
<1>4. \A w \in Offered : w.code = c => w \in ToSet(m) \cup new
  BY <1>2 DEF Offered
<1>5. \A w \in Kept : w \in Offered
  BY DEF Offered
<1> HIDE DEF m, new
<1> QED BY <1>1, <1>2, <1>3, <1>4, <1>5

\* What is merged is in order, and what is appended is not in it.
LEMMA LookupSorts == LookupTypes => OfferedInOrder
<1> SUFFICES ASSUME LookupTypes, NEW c \in Codes,
                    NEW i \in DOMAIN WubiResult(c), NEW j \in DOMAIN WubiResult(c), i < j
             PROVE  LET hits == WubiResult(c)
                    IN  /\ hits[i] \in Kept \/ hits[j] \notin Kept
                        /\ hits[j] \in Kept => CodeLeq(hits[i].code, hits[j].code)
                        /\ hits[i].code = hits[j].code /\ hits[j] \in mem.user \ main => hits[i] \in mem.user
  BY DEF OfferedInOrder
<1> DEFINE m == Merged(c)
           new == {w \in auto : autoOn /\ w.code = c} \ ToSet(m)
           s == WubiResult(c)
<1>1. /\ Len(m) \in Nat /\ DOMAIN m = 1 .. Len(m) /\ s \in Seq(Word)
      /\ \A k \in DOMAIN s : IF k \in DOMAIN m THEN s[k] = m[k] ELSE k > Len(m) /\ s[k] \in new
  BY ResultFacts
<1>2. /\ InCodeOrder(m)
      /\ \A w \in ToSet(m) : w \in Kept
      /\ \A w \in Kept : w.code = c => w \in ToSet(m)
      /\ \A k, l \in DOMAIN m : k < l /\ m[k].code = m[l].code /\ m[l] \in mem.user \ main => m[k] \in mem.user
  BY MergedFacts, KeptIs, CodesFacts
<1>3. \A w \in new : w \notin Kept
  BY <1>2
<1>4. \A w \in mem.user : w \in Kept
  BY DEF Kept
<1>5. i \in Int /\ j \in Int
  BY <1>1, LenProperties
<1> HIDE DEF m, new, s
<1>6. CASE j \in DOMAIN m
  <2>1. i \in DOMAIN m
    BY <1>1, <1>5, <1>6 DEF s
  <2>2. s[i] = m[i] /\ s[j] = m[j] /\ m[i] \in Kept
    BY <1>1, <1>2, <1>6, <2>1 DEF s, ToSet
  <2>3. CodeLeq(m[i].code, m[j].code)
    BY <1>2, <1>6, <2>1 DEF InCodeOrder
  <2> QED BY <1>2, <1>6, <2>1, <2>2, <2>3 DEF s
<1>7. CASE j \notin DOMAIN m
  <2>1. s[j] \notin Kept
    BY <1>1, <1>3, <1>7 DEF s
  <2> QED BY <1>4, <2>1 DEF s
<1> QED BY <1>6, <1>7

\* What is merged holds each word once, and what is appended is not in it.
LEMMA LookupOnce == LookupTypes => OfferedOnce
BY MergedFacts, ResultFacts DEF OfferedOnce, ListsFitTable

-----------------------------------------------------------------------------
(* A look-up changes no word, and words change under it as UserDict says.    *)

\* The inductive invariant: the dictionary's, and phrases are made of words.
LookupInv == Inv /\ auto \subseteq Phrases

\* Every step is one of the dictionary, or leaves it alone.
LEMMA LookupStep == [LookupNext]_lookupVars => [Next]_vars
BY DEF LookupNext, lookupVars, vars, ToggleCharset, SwitchAutoPhrase, LearnPhrase, ForgetPhrases

\* Only learning adds a phrase.
LEMMA LookupKeepsInv == LookupInv /\ [LookupNext]_lookupVars => LookupInv'
<1> SUFFICES ASSUME LookupInv, [LookupNext]_lookupVars PROVE LookupInv'
  OBVIOUS
<1>1. Inv'
  BY LookupStep, NextInv DEF LookupInv
<1>2. (auto \subseteq Phrases)'
  <2>1. CASE UNCHANGED auto
    BY <2>1 DEF LookupInv
  <2>2. CASE ForgetPhrases
    BY <2>2 DEF ForgetPhrases
  <2>3. ASSUME NEW w \in Phrases, LearnPhrase(w) PROVE (auto \subseteq Phrases)'
    BY <2>3 DEF LookupInv, LearnPhrase
  <2> QED
    BY <2>1, <2>2, <2>3 DEF LookupNext, lookupVars, ToggleCharset, SwitchAutoPhrase
<1> QED
  BY <1>1, <1>2 DEF LookupInv

\* LookupInv holds in every state.
THEOREM LookupInvariant == LookupSpec => []LookupInv
<1>1. LookupInit => LookupInv
  BY InitInv DEF LookupInit, LookupInv
<1> QED
  BY <1>1, LookupKeepsInv, PTL DEF LookupSpec

\* The words under a look-up are those of UserDict, and all that holds of them
\* there holds here.
THEOREM LookupRefines == LookupSpec => Spec
<1>1. LookupInit => Init
  BY DEF LookupInit
<1> QED
  BY <1>1, LookupStep, PTL DEF LookupSpec, Spec

\* What is offered for a code can be typed and goes on from the code, and the
\* limit of a query cuts off no word whose code was typed in full
\* (WbzxEngine::putKey and all it calls).
THEOREM OfferedCorrect == LookupSpec => []TypedIsOffered
<1>1. LookupInv => TypedIsOffered
  BY LookupOffers DEF LookupInv, LookupTypes, Inv
<1> QED
  BY <1>1, LookupInvariant, PTL

\* The merge puts words in the order of their codes, the user's own in front of
\* the table's, the automatic phrases last (mergeCandidatesInCodeOrder,
\* appendCandidatesForExactCode).
THEOREM SortedCorrect == LookupSpec => []OfferedInOrder
<1>1. LookupInv => OfferedInOrder
  BY LookupSorts DEF LookupInv, LookupTypes, Inv
<1> QED
  BY <1>1, LookupInvariant, PTL

\* No word is offered twice while the user's lists fit the table.
THEOREM OnceCorrect == LookupSpec => []OfferedOnce
<1>1. LookupInv => OfferedOnce
  BY LookupOnce DEF LookupInv, LookupTypes, Inv
<1> QED
  BY <1>1, LookupInvariant, PTL
=============================================================================
