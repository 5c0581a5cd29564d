----------------------------- MODULE AutoPhrase -----------------------------
(* Automatic phrases of the Wubi engine (engine/autophrase.cpp): single      *)
(* characters committed one after the other make phrases the session offers; *)
(* a phrase the user picks is inserted into the automatic table, which is    *)
(* written over autophrase.mb each time.  The option "autoPhrase" is read    *)
(* where it is needed, the dictionary only when a reload is asked for.        *)
EXTENDS Naturals, SequencesExt

CONSTANTS
  Hanzi,       \* single characters
  CodeOf,      \* calculateWubiPhraseCode: [Run -> codes], None where it gives ""
  Main,        \* the entries [hz, code] of the main table with several characters
  MaxRun,      \* bound: single characters committed since the ring was cleared
  None,        \* no code, no character
  Bad          \* a file that does not load

\* Two to four characters: what the ring can spell.
Run == UNION {[1..n -> Hanzi] : n \in 2..4}

ASSUME AutoPhraseAssumption ==
  /\ DOMAIN CodeOf = Run
  /\ None \notin Hanzi
  /\ MaxRun \in Nat

VARIABLES
  enabled,     \* the option
  ring,        \* ring_: the last four single characters
  recordIndex, \* recordIndex_: single characters since the ring was cleared
  phrases,     \* phrases_: what this session made up, oldest first
  table,       \* table_: the entries loaded or inserted
  file,        \* autophrase.mb
  typed,       \* history: the single characters since the ring was cleared
  loadedOn     \* history: whether the option was on at the last load

vars == <<enabled, ring, recordIndex, phrases, table, file, typed, loadedOn>>

Entry == [hz : Run, code : {CodeOf[r] : r \in Run} \ {None}]
Blank == [i \in 0..3 |-> None]

\* What a load makes of the file; a missing file is an empty one.
Loaded(on) == IF on /\ file # Bad THEN file ELSE {}

Init ==
  /\ enabled \in BOOLEAN
  /\ ring = Blank
  /\ recordIndex = 0
  /\ phrases = <<>>
  /\ table = {}
  /\ file = {}
  /\ typed = <<>>
  /\ loadedOn = enabled

-----------------------------------------------------------------------------
(* A single character.                                                       *)

KnownInTables(hz) == \E e \in Main \cup table : e.hz = hz

\* A slip: only the text is looked up, not the code.
MutLearn(ps, hz) ==
  IF CodeOf[hz] = None \/ KnownInTables(hz) \/ \E i \in DOMAIN ps : ps[i].hz = hz
  THEN ps
  ELSE Append(ps, [hz |-> hz, code |-> CodeOf[hz]])

\* One span becomes a phrase unless it is known, has no code, or its code is
\* already that of a phrase of this session.
Learn(ps, hz) ==
  IF \/ CodeOf[hz] = None
     \/ KnownInTables(hz)
     \/ \E i \in DOMAIN ps : ps[i].hz = hz \/ ps[i].code = CodeOf[hz]
  THEN ps
  ELSE Append(ps, [hz |-> hz, code |-> CodeOf[hz]])

Learned == INSTANCE InOrder WITH After <- Learn

\* A slip: the ring is taken to hold one character less.
MutSpans(r, n) ==
  LET first == IF n < 3 THEN 0 ELSE n - 2
  IN  [k \in 1..(n - first) |-> [j \in 1..(n - first - k + 2) |-> r[(first + k + j - 2) % 4]]]

\* The spans of ring r that end with its character n, longest first.
Spans(r, n) ==
  LET first == IF n < 3 THEN 0 ELSE n - 3
  IN  [k \in 1..(n - first) |-> [j \in 1..(n - first - k + 2) |-> r[(first + k + j - 2) % 4]]]

\* What Pinyin and English commit in between does not come here, and leaves the
\* ring as it is (EngineManager::addAutoPhrase).
CommitChar(h) ==
  /\ recordIndex < MaxRun
  /\ IF enabled
     THEN /\ ring' = [ring EXCEPT ![recordIndex % 4] = h]
          /\ phrases' = Learned!Outcome(phrases, Spans(ring', recordIndex))
          /\ recordIndex' = recordIndex + 1
          /\ typed' = Append(typed, h)
     ELSE UNCHANGED <<ring, phrases, recordIndex, typed>>
  /\ UNCHANGED <<enabled, table, file, loadedOn>>

-----------------------------------------------------------------------------
(* A phrase.                                                                 *)

\* saveDictionary: written, not opened (or the main table has no letters to
\* describe the new one with), or cut short, when the file loads no more.
Save(t) == file' \in {t, file, Bad}

ClearRing == ring' = Blank /\ recordIndex' = 0 /\ typed' = <<>>

\* An entry with several characters is picked; one made up by this session and
\* not saved yet is inserted and the table written.
CommitPhrase(e) ==
  /\ e \in Main \cup IF enabled THEN table \cup Range(phrases) ELSE {}
  /\ IF enabled
     THEN /\ IF e \in Range(phrases) \ table
             THEN table' = table \cup {e} /\ Save(table')
             ELSE UNCHANGED <<table, file>>
          /\ ClearRing
     ELSE UNCHANGED <<table, file, ring, recordIndex, typed>>
  /\ UNCHANGED <<enabled, phrases, loadedOn>>

-----------------------------------------------------------------------------
(* The option, the reloads, the process.                                     *)

\* reloadConfig: the option is read anew, no dictionary is.
ReloadConfig ==
  /\ enabled' \in BOOLEAN
  /\ UNCHANGED <<ring, recordIndex, phrases, table, file, typed, loadedOn>>

\* A slip: the table is emptied and not loaded again.
MutReloadDictionary ==
  /\ table' = {}
  /\ loadedOn' = enabled
  /\ UNCHANGED <<enabled, ring, recordIndex, phrases, file, typed>>

ReloadDictionary ==
  /\ table' = Loaded(enabled)
  /\ loadedOn' = enabled
  /\ UNCHANGED <<enabled, ring, recordIndex, phrases, file, typed>>

\* The session ends, perhaps in the middle of a save, and another begins.
Restart ==
  /\ \/ UNCHANGED file
     \/ enabled /\ Range(phrases) \ table # {} /\ file' = Bad
  /\ table' = IF enabled /\ file' # Bad THEN file' ELSE {}
  /\ phrases' = <<>>
  /\ ClearRing
  /\ loadedOn' = enabled
  /\ UNCHANGED enabled

Next ==
  \/ \E h \in Hanzi : CommitChar(h)
  \/ \E e \in Main \cup table \cup Range(phrases) : CommitPhrase(e)
  \/ ReloadConfig
  \/ ReloadDictionary
  \/ Restart

Spec == Init /\ [][Next]_vars

-----------------------------------------------------------------------------
(* Properties.                                                               *)

\* hasExactCode ends a composition when a code is complete: no two phrases of
\* the session claim the same code, and none occurs twice.
OnePhrasePerCode ==
  \A i, j \in DOMAIN phrases :
     i # j => phrases[i].code # phrases[j].code /\ phrases[i].hz # phrases[j].hz

\* The last two, three and four characters of a sequence.
Tails(s) == {SubSeq(s, Len(s) - n + 1, Len(s)) : n \in {m \in 2..4 : m <= Len(s)}}

\* What a character adds to the phrases are tails of what was typed, and no
\* tail with a code is passed over unless it, or its code, is already taken.
TailsAreLearned ==
  [][typed' # typed /\ typed' # <<>> =>
       LET new == Range(phrases') \ Range(phrases)
       IN  /\ \A e \in new : e.hz \in Tails(typed') /\ e.code = CodeOf[e.hz]
           /\ \A hz \in Tails(typed') :
                \/ CodeOf[hz] = None
                \/ KnownInTables(hz)
                \/ \E e \in Range(phrases') : e.hz = hz \/ e.code = CodeOf[hz]]_vars

\* Once the dictionary was loaded with the option on, no save drops an entry
\* from a file that loads, however the option is switched and the dictionary
\* reloaded since, and whichever saves failed or were cut short.
LoadedPhrasesStay ==
  [][loadedOn /\ file # Bad /\ file' # Bad => file \subseteq file']_vars

\* "Selected auto phrases are saved to the auto phrase lexicon"
\* (settingwin.cpp): as long as the file loads, no save drops an entry of it.
SavedPhrasesStay ==
  [][file # Bad /\ file' # Bad => file \subseteq file']_vars
=============================================================================
