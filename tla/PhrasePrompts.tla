---------------------------- MODULE PhrasePrompts ----------------------------
(***************************************************************************)
(* The committer's history of what was typed, and the two prompts made     *)
(* from it: adding a phrase (state/adduserphrase.cpp) and deleting one     *)
(* (state/deleteuserphrase.cpp), with the panel that shows them and its    *)
(* dialog for a code of one's own.  Session says how the states of the     *)
(* session follow one another; here is what is in the two prompts.         *)
(*                                                                         *)
(* A text is a sequence of characters.  The prompt's calls to the panel    *)
(* are one-way messages on one connection; they are lost while no panel    *)
(* runs and with a panel that dies.  A prompt is entered from any state of *)
(* the session that Session allows; they are one here, "idle".             *)
(***************************************************************************)
EXTENDS Integers, Sequences, SequencesExt

CONSTANTS
  HanziChars,   \* what filterNonHanziContent keeps
  OtherChars,   \* marks, letters and other characters that may be committed
  Candidates,   \* what may be picked: a set of [text, code]
  Clips,        \* texts the clipboard may hold
  Tables,       \* the main tables that may be chosen
  PhraseCode,   \* calculateWubiPhraseCode: table -> text -> code or NoCode
  NoCode,       \* the empty code
  MaxRecords,   \* kMaxCommittedTextRecords, 128
  MaxPhrase,    \* kPhraseMaxLength, 128
  DefaultLen,   \* kDefaultPhraseLen, 2
  MaxTyped,     \* bound: characters in front of the caret
  MaxQueue      \* bound: messages on their way to the panel

Chars == HanziChars \cup OtherChars
AllHanzi(text) == ToSet(text) \subseteq HanziChars

ASSUME PromptBoundsAssumption ==
  /\ MaxRecords \in Nat \ {0} /\ MaxPhrase \in Nat
  /\ DefaultLen = 2 /\ DefaultLen < MaxPhrase
ASSUME PromptDataAssumption ==
  /\ HanziChars \cap OtherChars = {}
  /\ \A c \in Candidates : c.text \in Seq(Chars) /\ c.text # <<>>
  /\ Clips \subseteq Seq(Chars)

VARIABLES
  history,      \* committedTexts_
  lastCommit,   \* [text, code]: lastCommitString_, lastCommitCode_
  state,        \* StateManager::current_: "idle", "add" or "del"
  add,          \* the fields of AddUserPhraseState while it is current
  del,          \* the fields of DeleteUserPhraseState while it is current
  table,        \* the main table of the wubi engine
  request,      \* what the last step asked of the user's dictionary
  toPanel,      \* prompt messages on their way to the panel
  panel,        \* [up, prompt, dialog]: what the panel shows
  typed,        \* history: the text in front of the caret in the application
  seen,         \* history: how much of it freewb committed: "all", "tail"
                \* once records were dropped, "other" once it was edited
  picked,       \* history: the candidate of the last commit
  coded,        \* history: the table the phrase's code was computed with
  informed      \* history: the panel has run ever since the state was entered

engineVars == <<history, lastCommit, state, add, del, table, request>>
ghostVars  == <<typed, seen, picked, coded, informed>>
vars == <<engineVars, toPanel, panel, ghostVars>>

NoPhrase  == [source |-> <<>>, len |-> 0, text |-> <<>>, code |-> NoCode, clip |-> FALSE]
NoWord    == [text |-> <<>>, code |-> NoCode]
NoRequest == [op |-> "none", text |-> <<>>, code |-> NoCode]
NoPrompt  == [kind |-> "none", text |-> <<>>, code |-> NoCode]
NoDialog  == [open |-> FALSE, online |-> FALSE]

-----------------------------------------------------------------------------
(* Texts. *)

LastOf(n, text) == IF Len(text) <= n THEN text ELSE SubSeq(text, Len(text) - n + 1, Len(text))

\* filterNonHanziContent(): one character after the other.
WithHanzi(text, ch) == IF ch \in HanziChars THEN Append(text, ch) ELSE text
HanziTaken          == INSTANCE InOrder WITH After <- WithHanzi
Hanzi(text)         == HanziTaken!Outcome(<<>>, text)

\* appendCommittedText(): one character after the other, the oldest dropped.
Appended(h, text) == LastOf(MaxRecords, h \o text)

\* Mutant of WithLen: the first characters of the source instead of the last.
MutWithLenFirst(phrase, n) ==
  LET text == SubSeq(phrase.source, 1, n)
  IN  [phrase EXCEPT !.len = n, !.text = text, !.code = PhraseCode[table][text]]

\* refreshPhrase(): the last n characters of the source and their code.
WithLen(phrase, n) ==
  LET text == LastOf(n, phrase.source)
  IN  [phrase EXCEPT !.len = n, !.text = text, !.code = PhraseCode[table][text]]

-----------------------------------------------------------------------------
(* Messages to the panel.  flg 0 shows a prompt, 2 closes it, 3 closes it  *)
(* and opens the dialog.                                                   *)

Message(flg, kind, word) == [flg |-> flg, kind |-> kind, text |-> word.text, code |-> word.code]

\* updatePhraseInfoToUI()
PhraseMessage(phrase) ==
  Message(IF phrase.code = NoCode /\ ~phrase.clip THEN 3 ELSE 0, "add", phrase)

Send(msg) ==
  /\ Len(toPanel) < MaxQueue
  /\ toPanel' = IF panel.up THEN Append(toPanel, msg) ELSE toPanel

\* What the panel's prompt is after it took msg.
PromptAfter(msg) ==
  IF msg.flg = 0 THEN [kind |-> msg.kind, text |-> msg.text, code |-> msg.code] ELSE NoPrompt

Init ==
  /\ history = <<>> /\ lastCommit = NoWord
  /\ state = "idle" /\ add = NoPhrase /\ del = NoWord
  /\ table \in Tables /\ request = NoRequest
  /\ toPanel = <<>>
  /\ panel \in {[up |-> up, prompt |-> NoPrompt, dialog |-> NoDialog] : up \in BOOLEAN}
  /\ typed = <<>> /\ seen = "all" /\ picked = NoWord /\ coded = table /\ informed = panel.up

-----------------------------------------------------------------------------
(* Typing. *)

LeaveState(msgs) ==
  /\ state' = "idle" /\ add' = NoPhrase /\ del' = NoWord
  /\ IF msgs = {} THEN UNCHANGED toPanel ELSE \E msg \in msgs : Send(msg)

\* cancel() of the current state, if there is one.
Cancelling == IF state = "idle" THEN {} ELSE {Message(2, state, NoWord)}

\* Committer::commit() of a candidate, with the mark that pushed it out, if
\* any (Punc).  A click of the panel may come while a prompt is open:
\* SelectCandidate commits and then resets the state machine.
Commit(c, mark) ==
  LET text == c.text \o mark
  IN  /\ Len(typed) + Len(text) <= MaxTyped
      /\ state # "idle" => mark = <<>>
      /\ history' = Appended(history, text)
      /\ lastCommit' = [text |-> text, code |-> c.code]
      /\ picked' = c
      /\ typed' = typed \o text
      /\ seen' = IF seen = "all" /\ Len(history) + Len(text) > MaxRecords THEN "tail" ELSE seen
      /\ request' = NoRequest
      /\ LeaveState(Cancelling)
      /\ UNCHANGED <<table, panel, coded, informed>>

\* handleCommittedBackspace()
CommittedBackspace(h) == IF h = <<>> THEN h ELSE Front(h)

\* BackSpace with nothing composed: the key goes on to the application.
BackSpace ==
  /\ state = "idle"
  /\ history' = CommittedBackspace(history)
  /\ typed' = IF typed = <<>> THEN typed ELSE Front(typed)
  /\ request' = NoRequest
  /\ UNCHANGED <<lastCommit, state, add, del, table, toPanel, panel,
                 seen, picked, coded, informed>>

\* Text that freewb does not commit, a caret that moves, another window.
AppEdits ==
  /\ state = "idle"
  /\ typed' = <<>> /\ seen' = "other" /\ request' = NoRequest
  /\ UNCHANGED <<history, lastCommit, state, add, del, table, toPanel, panel,
                 picked, coded, informed>>

-----------------------------------------------------------------------------
(* The prompt for adding. *)

Entered(newState, msg) ==
  /\ state' = newState
  /\ Send(msg)
  /\ informed' = panel.up
  /\ request' = NoRequest
  /\ UNCHANGED <<history, lastCommit, table, panel, typed, seen, picked>>

\* committedText() without its other characters.
HistorySource == Hanzi(LastOf(MaxPhrase, history))

\* Ctrl+= : beginFromHistory() with two characters at least.
AddFromHistory ==
  /\ state = "idle"
  /\ Len(HistorySource) > 1
  /\ add' = WithLen([NoPhrase EXCEPT !.source = HistorySource], DefaultLen)
  /\ coded' = table
  /\ Entered("add", PhraseMessage(add'))
  /\ UNCHANGED del

\* Ctrl+Alt+= : beginFromClipboard(); what the panel answers is cut to its
\* Chinese characters and must be neither one nor too many.
AddFromClipboard ==
  /\ state = "idle"
  /\ \E clip \in Clips :
       LET source == Hanzi(clip)
       IN  /\ Len(source) > 1 /\ Len(source) < MaxPhrase
           /\ add' = WithLen([NoPhrase EXCEPT !.source = source, !.clip = TRUE], Len(source))
  /\ coded' = table
  /\ Entered("add", PhraseMessage(add'))
  /\ UNCHANGED del

\* Mutant of MayGrow: the limit of the source is forgotten.
MutMayGrow == add.len < MaxPhrase - 1

MayGrow   == add.len < Len(add.source) /\ add.len < MaxPhrase - 1
MayShrink == add.len > DefaultLen

\* Mutant of Resize: the panel is not told.
MutResize(n) ==
  /\ add' = WithLen(add, n)
  /\ coded' = table
  /\ request' = NoRequest
  /\ UNCHANGED <<history, lastCommit, state, del, table, toPanel, panel,
                 typed, seen, picked, informed>>

Resize(n) ==
  /\ add' = WithLen(add, n)
  /\ coded' = table
  /\ Send(PhraseMessage(add'))
  /\ request' = NoRequest
  /\ UNCHANGED <<history, lastCommit, state, del, table, panel,
                 typed, seen, picked, informed>>

Left  == state = "add" /\ MayGrow /\ Resize(add.len + 1)
Right == state = "add" /\ MayShrink /\ Resize(add.len - 1)

\* Ctrl+Return: the dialog for a code of one's own; the state stays.
AskForCode ==
  /\ state = "add"
  /\ Send(Message(3, "add", add))
  /\ request' = NoRequest
  /\ UNCHANGED <<history, lastCommit, state, add, del, table, panel, ghostVars>>

\* Return in either prompt: the word goes to the user's dictionary, the
\* prompt is closed whatever came of it.
Confirm ==
  /\ state # "idle"
  /\ LET word == IF state = "add" THEN add ELSE del
     IN  request' = [op |-> state, text |-> word.text, code |-> word.code]
  /\ LeaveState({Message(2, state, NoWord)})
  /\ UNCHANGED <<history, lastCommit, table, panel, ghostVars>>

\* Mutant of Reset: the prompt stays on the panel.
MutReset ==
  /\ state # "idle"
  /\ LeaveState({})
  /\ request' = NoRequest
  /\ UNCHANGED <<history, lastCommit, table, panel, ghostVars>>

\* Esc, or the input context loses the focus: StateManager::reset().
Reset ==
  /\ state # "idle"
  /\ LeaveState(Cancelling)
  /\ request' = NoRequest
  /\ UNCHANGED <<history, lastCommit, table, panel, ghostVars>>

-----------------------------------------------------------------------------
(* The prompt for deleting. *)

\* Mutant of DeleteText: the marks around the word are not taken off.
MutDeleteText == lastCommit.text

DeleteText == Hanzi(lastCommit.text)

\* Ctrl+- : begin() with the last commit.
DeleteLast ==
  /\ state = "idle"
  /\ DeleteText # <<>>
  /\ del' = [text |-> DeleteText, code |-> lastCommit.code]
  /\ Entered("del", Message(0, "del", del'))
  /\ UNCHANGED <<add, coded>>

-----------------------------------------------------------------------------
(* A signal of the panel that the engine takes, whatever its state. *)

\* ReloadDictionaries: another main table, while a prompt may be open.
ReloadTable ==
  /\ \E t \in Tables \ {table} : table' = t
  /\ request' = NoRequest
  /\ UNCHANGED <<history, lastCommit, state, add, del, toPanel, panel, ghostVars>>

-----------------------------------------------------------------------------
(* The panel. *)

EngineRests == request' = NoRequest /\ UNCHANGED <<history, lastCommit, state, add, del, table>>

\* showDialog(): exec() of a dialog that is open already returns at once, and
\* the dialog on the screen is then no longer online.
DialogAfter(msg) ==
  IF msg.flg = 3 THEN [open |-> TRUE, online |-> ~panel.dialog.open] ELSE panel.dialog

\* slot_dbus_generate_usr_word, slot_dbus_delete_usr_word; exec() runs the
\* event loop, so messages are taken while the dialog is open.
PanelTakes ==
  /\ toPanel # <<>>
  /\ panel' = [panel EXCEPT !.prompt = PromptAfter(Head(toPanel)),
                            !.dialog = DialogAfter(Head(toPanel))]
  /\ toPanel' = Tail(toPanel)
  /\ EngineRests
  /\ UNCHANGED ghostVars

\* on_btnOk_clicked(), with whatever the two fields hold by then: online the
\* engine is asked to add the word (CommitUserWordAdd, which it takes in any
\* state and with no regard to the prompt), else the panel writes the file
\* (UserWordFile).
DialogOk ==
  /\ panel.dialog.open
  /\ \E word \in Candidates \cup {NoWord} :
       request' = IF panel.dialog.online
                  THEN [op |-> "add", text |-> word.text, code |-> word.code]
                  ELSE NoRequest
  /\ panel' = [panel EXCEPT !.dialog = NoDialog]
  /\ UNCHANGED <<history, lastCommit, state, add, del, table, toPanel, ghostVars>>

\* on_btnExit_clicked()
DialogExit ==
  /\ panel.dialog.open
  /\ panel' = [panel EXCEPT !.dialog = NoDialog]
  /\ EngineRests
  /\ UNCHANGED <<toPanel, ghostVars>>

\* The panel dies with what it was sent, and starts without a prompt.
PanelDies ==
  /\ panel.up
  /\ panel' = [up |-> FALSE, prompt |-> NoPrompt, dialog |-> NoDialog]
  /\ toPanel' = <<>>
  /\ informed' = FALSE
  /\ EngineRests
  /\ UNCHANGED <<typed, seen, picked, coded>>

PanelStarts ==
  /\ ~panel.up
  /\ panel' = [panel EXCEPT !.up = TRUE]
  /\ EngineRests
  /\ UNCHANGED <<toPanel, ghostVars>>

Next ==
  \/ \E c \in Candidates, mark \in {<<>>} \cup {<<ch>> : ch \in OtherChars} : Commit(c, mark)
  \/ BackSpace \/ AppEdits
  \/ AddFromHistory \/ AddFromClipboard \/ Left \/ Right \/ AskForCode
  \/ DeleteLast
  \/ Confirm \/ Reset
  \/ ReloadTable
  \/ PanelTakes \/ DialogOk \/ DialogExit \/ PanelDies \/ PanelStarts

\* The panel takes its messages as long as it runs.
Spec == Init /\ [][Next]_vars /\ WF_vars(PanelTakes)

-----------------------------------------------------------------------------
\* The prompt once the messages on their way are taken: each replaces it.
PromptToBe == IF toPanel = <<>> THEN panel.prompt ELSE PromptAfter(Last(toPanel))

ShownAs(kind, word) == [kind |-> kind, text |-> word.text, code |-> word.code]

\* Every field keeps the kind of value the code gives it; the history never
\* grows beyond its limit and the phrase stays within the lengths allowed.
TypeOK ==
  /\ history \in Seq(Chars) /\ Len(history) <= MaxRecords
  /\ lastCommit.text \in Seq(Chars) /\ del.text \in Seq(HanziChars)
  /\ state \in {"idle", "add", "del"}
  /\ add.source \in Seq(HanziChars)
  /\ state = "add" => add.len \in DefaultLen .. MaxPhrase - 1 /\ add.len <= Len(add.source)
  /\ state # "add" => add = NoPhrase
  /\ table \in Tables
  /\ panel.up \in BOOLEAN /\ panel.dialog.open \in BOOLEAN

\* What the add prompt offers is right.  The history is what stands in front of
\* the caret as long as freewb wrote all of it, though characters leave it at the
\* limit of records on one side and by BackSpace on the other; the phrase taken
\* from it is always the end of what was typed with its other characters taken
\* out, however its length was changed; and the code is that of the phrase, but
\* for a table loaded while the prompt is open, until the length changes
\* (appendCommittedText, handleCommittedBackspace, refreshPhrase).
PhraseIsTyped ==
  /\ seen = "all"  => history = typed
  /\ seen = "tail" => IsSuffix(history, typed)
  /\ state = "add" /\ ~add.clip /\ seen # "other" =>
       add.text = LastOf(add.len, Hanzi(typed)) /\ Len(add.text) = add.len
  /\ state = "add" /\ coded = table => add.code = PhraseCode[table][add.text]

\* Panel and engine agree on the prompt once the messages are taken: none is
\* open in another state, and one that is open shows the word that Return
\* would send (updatePhraseInfoToUI, cancel, begin), also when the panel died
\* and came back meanwhile.  The delete prompt is there while a panel was.
PromptInStep ==
  /\ state = "idle" => PromptToBe = NoPrompt
  /\ state = "add"  => PromptToBe \in {NoPrompt, ShownAs("add", add)}
  /\ state = "del"  => PromptToBe = ShownAs("del", del) \/ (~informed /\ PromptToBe = NoPrompt)

\* What Return hands to the dictionary is what the panel shows or is about to:
\* nothing is learned or forgotten that the user was not asked about.
ConfirmedWasShown ==
  [][state # "idle" /\ state' = "idle" /\ request' # NoRequest =>
       PromptToBe \in {NoPrompt, ShownAs(request'.op, request')}]_vars

\* The word asked to be forgotten is the candidate last picked, with its code,
\* though a mark that pushed it out was committed with it: for words of
\* Chinese characters the filter takes off just what Punc put around them.
ForgetsTheWordPicked ==
  [][request'.op = "del" /\ AllHanzi(picked.text) =>
       request'.text = picked.text /\ request'.code = picked.code]_vars

\* A prompt that the engine has left does not stay on the panel.
PromptGoesAway == (state = "idle") ~> (state # "idle" \/ panel.prompt = NoPrompt)
=============================================================================
