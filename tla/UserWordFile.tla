---------------------------- MODULE UserWordFile ----------------------------
(* user_word.txt between its two writers.  The engine (UserDict) rewrites it *)
(* from its copy in memory; the panel, another process, rewrites it from a   *)
(* text editor opened some time ago (TextEditWin), from the word dialog      *)
(* (UsrGenWordDialog), from the batch tool (LexiconToolWin) and from a backup *)
(* (BackupDialog).  No lock and no version number protects the file.         *)
(*                                                                           *)
(* The panel writes first and sends its ReloadDictionaries signals later: the *)
(* batch tool after its message box was answered, the backup when its worker *)
(* thread has reported.  The engine handles a signal later still, and one    *)
(* that is sent while the engine starts is gone: it loads the file before it *)
(* registers with the bus.                                                   *)
EXTENDS UserDict

CONSTANTS
  DefaultWords, \* the words the panel puts into a file it takes for a new one
  MaxSignals,   \* bound: signals due or on their way at once
  Closed        \* the text editor holds no text

ASSUME UserWordFileAssumption == DefaultWords \subseteq Word /\ MaxSignals \in Nat

VARIABLES
  up,           \* the panel runs
  text,         \* the text in its editor, or Closed
  owed,         \* the signals it has still to send for what it wrote
  listening,    \* the engine has registered its handlers with the bus
  signals,      \* ReloadDictionaries signals on their way to the engine
  lost          \* history: of a change the engine does not know and that no
                \* signal will tell it of, as its sender died or it started

panelVars == <<up, text, owed>>
busVars   == <<listening, signals, lost>>
allVars   == <<main, mem, file, answer, up, text, owed, listening, signals, lost>>

FileInit ==
  /\ Init
  /\ up = TRUE /\ text = Closed /\ owed = 0
  /\ listening = TRUE /\ signals = 0 /\ lost = FALSE

-----------------------------------------------------------------------------
(* The panel.                                                                *)

\* The panel writes d over the file; n more signals are then due.  A message box
\* that keeps one back runs the event loop: other windows may open and write.
PanelWrites(d, n) ==
  /\ owed + signals + n <= MaxSignals
  /\ file' = Stored(d)
  /\ owed' = owed + n
  /\ UNCHANGED <<main, mem, answer, busVars>>

\* The message box is answered, the worker reports, or nothing stood in between.
SendSignal ==
  /\ owed > 0
  /\ owed' = owed - 1
  /\ IF listening
     THEN signals' = signals + 1 /\ lost' = FALSE
     ELSE lost' = (mem # file) /\ UNCHANGED signals
  /\ UNCHANGED <<main, mem, file, answer, up, text, listening>>

\* The editor can be opened from the engine's menu at any time.
OpenUserWordFile ==
  /\ up
  /\ text' = file
  /\ UNCHANGED <<main, mem, file, answer, up, owed, busVars>>

\* The user adds a line to the user's section of the text or removes one.  The
\* deleted section the user leaves alone, so that no change of it is asked for.
EditText(w) ==
  /\ text # Closed
  /\ text' = [text EXCEPT !.user = IF w \in @ THEN @ \ {w} ELSE @ \cup {w}]
  /\ UNCHANGED <<main, mem, file, answer, up, owed, busVars>>

\* One signal is the editor's own, one goes by way of the word dialog.
SaveTextToFile ==
  /\ text # Closed
  /\ PanelWrites(text, 2)
  /\ UNCHANGED <<up, text>>

\* add_user_word of the dialog, which signals even when the file did not open.
AddToFile(w) ==
  /\ up
  /\ \E d \in {file, [file EXCEPT !.user = @ \cup {w}]} : PanelWrites(d, 1)
  /\ UNCHANGED <<up, text>>

\* A batch of words, each read from between blanks, is added or deleted.  When
\* no line to delete was found nothing is written and nothing sent.
BatchAdd(words) ==
  /\ up
  /\ words # {}
  /\ PanelWrites([file EXCEPT !.user = @ \cup words], 1)
  /\ UNCHANGED <<up, text>>

BatchDelete(words) ==
  /\ up
  /\ words \cap file.user # {}
  /\ PanelWrites([file EXCEPT !.user = @ \ words], 1)
  /\ UNCHANGED <<up, text>>

\* start_restore: the file becomes what some backup holds.
RestoreBackup(d) ==
  /\ up
  /\ PanelWrites(d, 1)
  /\ UNCHANGED <<up, text>>

\* The files that may be shorter than 15 bytes, or missing: no word, or one that
\* was cut short.
Tiny(d) ==
  /\ d.deleted = {}
  /\ d.user = {} \/ \E w \in Word, v \in Word : v \in Stub[w] /\ d.user = {v}

\* init_user_word_file: a file that short is taken for a new one.
InitFile(d) == {d} \cup (IF Tiny(d) THEN {[user |-> DefaultWords, deleted |-> {}]} ELSE {})

\* A slip: the panel starts without telling the engine.
MutPanelStarts ==
  /\ ~up /\ up' = TRUE
  /\ \E d \in InitFile(file) : PanelWrites(d, 0)
  /\ UNCHANGED text

\* The panel is started again; MainProgram() ends by having the engine load
\* everything.
PanelStarts ==
  /\ ~up /\ up' = TRUE
  /\ \E d \in InitFile(file) : PanelWrites(d, 1)
  /\ UNCHANGED text

\* The panel dies, with its editor or its message box open.
PanelDies ==
  /\ up /\ up' = FALSE
  /\ text' = Closed
  /\ owed' = 0
  /\ lost' = (mem # file /\ (lost \/ (owed > 0 /\ signals = 0)))
  /\ UNCHANGED <<main, mem, file, answer, listening, signals>>

PanelNext ==
  \/ OpenUserWordFile
  \/ \E w \in Word : EditText(w) \/ AddToFile(w)
  \/ SaveTextToFile
  \/ \E words \in SUBSET Plain : BatchAdd(words) \/ BatchDelete(words)
  \/ \E d \in Dict : RestoreBackup(d)
  \/ SendSignal
  \/ PanelStarts
  \/ PanelDies

-----------------------------------------------------------------------------
(* The engine.                                                               *)

\* A slip: the mask is tested against the wrong bit.
MutReloadDictionaries ==
  /\ signals > 0
  /\ signals' = signals - 1
  /\ UNCHANGED <<main, mem, file, answer, panelVars, listening, lost>>

\* A slip: of the file only the user's section is loaded again.
MutReloadUserOnly ==
  /\ signals > 0
  /\ mem' = [mem EXCEPT !.user = file.user]
  /\ signals' = signals - 1
  /\ lost' = FALSE
  /\ UNCHANGED <<main, file, answer, panelVars, listening>>

ReloadDictionaries ==
  /\ signals > 0
  /\ mem' = file
  /\ signals' = signals - 1
  /\ lost' = FALSE
  /\ UNCHANGED <<main, file, answer, panelVars, listening>>

\* The input method was started again: Freewb() loads the dictionaries, and what
\* was sent to the old process is gone.
Started ==
  /\ mem' = file'
  /\ listening' = FALSE
  /\ signals' = 0
  /\ lost' = FALSE
  /\ UNCHANGED panelVars

Restart == UNCHANGED <<main, file, answer>> /\ Started

\* Freewb() ends with connectDBusCallback().
EngineListens ==
  /\ ~listening /\ listening' = TRUE
  /\ UNCHANGED <<main, mem, file, answer, panelVars, signals, lost>>

EngineCalls ==
  /\ listening
  /\ \/ \E w \in Word \cup {Empty} : AddUserWord(w) \/ DeleteUserWord(w)
     \/ ReloadMainDictionary
  /\ lost' = (lost /\ mem' # file')
  /\ UNCHANGED <<panelVars, listening, signals>>

EngineNext ==
  \/ EngineCalls
  \/ \E w \in Word : listening /\ DieInSave(w) /\ Started
  \/ ReloadDictionaries
  \/ Restart
  \/ EngineListens

FileNext == PanelNext \/ EngineNext

(* The engine's process handles the messages of its bus as long as it lives; *)
(* nobody has to answer a message box, or to start the panel again.          *)
FileSpec == FileInit /\ [][FileNext]_allVars /\ WF_allVars(ReloadDictionaries)

-----------------------------------------------------------------------------
(* Properties.                                                               *)

\* What the panel wrote has reached the engine: no signal is on its way or due,
\* and none was lost.
Quiet == signals = 0 /\ owed = 0 /\ ~lost

\* Then the engine works from the words in the file, whichever process wrote it
\* last.
InStepWhenQuiet == Quiet => mem = file

\* And a call that adds or deletes a word, which writes the engine's copy over
\* the file, changes no line but its own: nothing the panel wrote is undone.
EngineKeepsOthers ==
  [][\A w \in Word :
        Quiet /\ (AddUserWord(w) \/ DeleteUserWord(w)) /\ answer'.whole =>
          /\ file'.user \ {w, Read[w]} = file.user \ {w, Read[w]}
          /\ file'.deleted \ {w, Read[w]} = file.deleted \ {w, Read[w]}]_allVars

\* A change for which the panel sent its signals in time reaches the engine, or
\* is overwritten.
PanelReachesEngine == (mem # file /\ owed = 0 /\ ~lost) ~> (mem = file)
=============================================================================
