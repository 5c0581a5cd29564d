------------------------------- MODULE Session -------------------------------
(***************************************************************************)
(* One input session of freewb: the key chain of core/freewb.cpp, the      *)
(* engine manager, the state machine of auxiliary inputs (core/state/),    *)
(* the committer and the candidate list they share.  A step is one key     *)
(* press, one key release, one signal of the panel or one reset by the     *)
(* frontend; the code runs all of them to completion on one thread.        *)
(*                                                                         *)
(* The virtual keyboard is closed and the character width is half (their   *)
(* defaults), the shortcut keys are enabled and have their default         *)
(* bindings, and the user dictionary and the commit history are left to    *)
(* their own modules: whether the history holds enough Chinese characters  *)
(* for a new phrase is left open here.                                     *)
(***************************************************************************)
EXTENDS CandidateOps

CONSTANTS
  EngineSeq,   \* engines_: the configured engines in mode order, without "en"
  Letter,      \* the letter keys
  Key,         \* the keys that are pressed; "arrow" stands for those that are
               \* neither printable nor bound
  MaxCode,     \* bound: a code is not typed longer than this
  FullCode,    \* the length of a complete Wubi code, 4 in the code
  WordCount,   \* candidates per page
  Text,        \* the candidate texts, each with a Chinese character
  Lookup,      \* what an engine answers: [engine, code] to sequences of entries
  Quick,       \* what the quick formats answer to a temporary English code
  AddCommand,  \* the quick commands, as codes: "aa.",
  DelCommand,  \*   "dd.",
  OtherCommand,\*   and those that change nothing in a session
  None,        \* no engine, the null pointer or the empty name
  Raw          \* a committed text that is not a candidate: a code, a mark, ""

Configured == ToSet(EngineSeq)
EngineName == Configured \cup {"en"}

Digits == <<"1", "2", "3", "4", "5", "6", "7", "8", "9", "0">>
Digit  == ToSet(Digits)
Mark   == {"-", "=", ";", "'", "grave", ".", ","}
Mute   == {"return", "backspace", "arrow"}
Printable == Key \ Mute

Code  == UNION {[1 .. n -> Printable] : n \in 0 .. MaxCode}
Entry == [text : Text, full : Code]
List  == [lead : {NoLead, ";", "grave"}, code : Code, all : Seq(Entry), shown : Seq(Text),
          page : Nat, total : Nat]

ASSUME BoundsAssumption ==
  MaxCode \in Nat \ {0} /\ FullCode \in Nat \ {0} /\ WordCount \in Nat \ {0}

\* A key is of one kind, and no text stands for two things.
ASSUME KeyAssumption ==
  /\ Letter \cap (Digit \cup Mark \cup Mute \cup {"space", NoLead}) = {}
  /\ Letter \subseteq Key
  /\ Key \subseteq Letter \cup Digit \cup Mark \cup Mute \cup {"space"}
  /\ Raw \notin Text

\* At least one engine is configured, each once.
ASSUME EngineAssumption ==
  /\ EngineSeq \in Seq({"wbzx", "py", "wbpy"}) /\ EngineSeq # <<>>
  /\ \A i, j \in DOMAIN EngineSeq : EngineSeq[i] = EngineSeq[j] => i = j
  /\ None \notin {"wbzx", "py", "wbpy", "en"}

\* An engine asked about no code, or the formats about an empty one, have nothing.
ASSUME TableAssumption ==
  /\ Lookup \in [Configured \X Code -> Seq(Entry)]
  /\ \A e \in Configured : Lookup[e, <<>>] = <<>>
  /\ Quick \in [Code -> Seq([text : Text, full : {<<>>}])]
  /\ Quick[<<>>] = <<>>

\* A code is one command.
ASSUME CommandAssumption == (AddCommand \cup DelCommand) \cap OtherCommand = {}

VARIABLES
  state,       \* StateManager::current_
  engines,     \* EngineManager: [current |-> currentEngine_, last |-> lastEngine_]
  restoreEngineName, \* TempPinyinState::restoreEngineName_
  cl,          \* CandidateList
  lastCommit,  \* Committer: lastCommitString_ and lastCommitCode_; mark tells
               \* that punctuation was committed along with the text
  cnEnSwitchKeyPending,
  prompt,      \* the add or delete prompt the panel was told to show
  panelMode,   \* the input mode the panel was told
  lastKey      \* history: whether the last key event was the switch key's press

vars == <<state, engines, restoreEngineName, cl, lastCommit, cnEnSwitchKeyPending,
          prompt, panelMode, lastKey>>

TempState == {"tempEnglish", "tempPinyin"}
PromptState == {"add", "del"}

\* uninterestedEngines() of each state.
Uninterested(s) ==
  CASE s \in PromptState   -> {"py", "en"}
    [] s = "tempEnglish"   -> {"en"}
    [] s = "tempPinyin"    -> {"py", "wbpy", "en"}
    [] OTHER               -> {}

-----------------------------------------------------------------------------
(* EngineManager.  g is the value of `engines'. *)

\* Mutant of ChangeEngine: lastEngine_ is kept.
MutChangeEngine(g, name) == IF name \in Configured THEN [g EXCEPT !.current = name] ELSE g

\* changeEngine(): a name that is not configured changes nothing; the list
\* keeps its composition.
ChangeEngine(g, name) ==
  IF name \in Configured THEN [current |-> name, last |-> None] ELSE g

\* restoreLastEngine(), without the clearing of the list.
RestoreLastEngine(g) ==
  [current |-> IF g.last = None THEN EngineSeq[1] ELSE g.last, last |-> None]

ToggleEnglishEngine(g) ==
  IF g.current = "en" THEN RestoreLastEngine(g)
  ELSE [current |-> "en", last |-> g.current]

Successor(name) ==
  LET i == CHOOSE j \in DOMAIN EngineSeq : EngineSeq[j] = name
  IN  EngineSeq[(i % Len(EngineSeq)) + 1]

NextEngine(g) ==
  IF g.current = "en" THEN RestoreLastEngine(g)
  ELSE [current |-> Successor(g.current), last |-> None]

\* putKey() and getResult(): the candidates engine e has for a code.
Candidates(e, code) == IF e = "en" THEN <<>> ELSE Lookup[e, code]

\* minTopScreenPreeditLength()
MinTop(e) == IF e \in {"wbzx", "wbpy"} THEN FullCode ELSE 0

\* refreshEngineResult(): an empty code asks nothing.
Refresh(e, l) ==
  IF l.code = <<>> THEN l ELSE SetCandidates(l, Candidates(e, l.code), WordCount)

Typed(e, l, code) == Refresh(e, SetInputCode(l, code, WordCount))

-----------------------------------------------------------------------------
(* Committer *)

\* commit(): the list is cleared, whatever it held.
Commit(l, text, code, mark) ==
  /\ lastCommit' = [text |-> text, code |-> code, mark |-> mark]
  /\ cl' = Clear(l)

CommitShown(l, i) ==
  Commit(l, SelectText(l, i, Raw), SelectFullCode(l, i, WordCount), FALSE)

NotCommitted(l) == cl' = l /\ UNCHANGED lastCommit

\* selectCandidate(): an index past the page takes the first candidate, or
\* the code if there is none.  Neither the digits nor the panel give an index
\* below 0.
SelectAt(l, i) == CommitShown(l, IF i >= Len(l.shown) THEN 0 ELSE i)

Composing(l) == l.shown # <<>> \/ l.code # <<>>

\* Punc::processKey() for a mark that reaches the end of the chain: it pushes
\* the first candidate or the code out before it.
PuncKey(l) == Commit(l, SelectText(l, 0, Raw), SelectFullCode(l, 0, WordCount), TRUE)

-----------------------------------------------------------------------------
(* EngineManager::processKey(): a letter of the code under engine e. *)

LetterKey(k, e, l) ==
  LET pre   == l.code
      first == IF Len(l.shown) > 0 /\ SelectFullCode(l, 0, WordCount) = pre
               THEN SelectText(l, 0, Raw) ELSE Raw
      now   == Append(pre, k)
      next  == Typed(e, l, now)
      exact == FirstTextForFullCode(next, now, WordCount, Raw)
  IN  IF e = "en" THEN NotCommitted(l)
      ELSE IF l.all = <<>> /\ pre # <<>>
      THEN NotCommitted(Typed(e, Clear(l), <<k>>))
      ELSE /\ Len(pre) < MaxCode
           /\ IF next.all = <<>> /\ Len(pre) >= MinTop(e) /\ first # Raw
              THEN /\ lastCommit' = [text |-> first, code |-> pre, mark |-> FALSE]
                   /\ cl' = Typed(e, Clear(next), <<k>>)
              ELSE IF /\ Len(now) >= FullCode /\ Len(next.all) = 1
                      /\ IsTerminalExactCode(next, now) /\ exact # Raw
              THEN Commit(next, exact, now, FALSE)
              ELSE NotCommitted(next)

-----------------------------------------------------------------------------
(* The key chain behind the state machine, for a key without modifiers:    *)
(* handleSingleKey(), the engine, the committer, the punctuation.  It runs *)
(* in state idle with the engines g, the name r to restore and the list l, *)
(* which a temporary state may just have left behind.                      *)

Idle(g, r) == state' = "idle" /\ engines' = g /\ restoreEngineName' = r

\* '-' and '=': a page key is swallowed as long as there is a composition.
PageKey(l, has, turned) ==
  IF has THEN NotCommitted(turned)
  ELSE IF l.all # <<>> \/ ~NoPreedit(l) THEN NotCommitted(l) ELSE PuncKey(l)

\* A recode key commits candidate i if there is one, and is a mark otherwise.
RecodeKey(l, i) == IF Len(l.shown) > i THEN CommitShown(l, i) ELSE PuncKey(l)

\* Nothing composed: begin() of both temporary states insists on it.
NothingComposed(l) == NoPreedit(l) /\ l.all = <<>>

\* enterTempEnglishState(), or the recode key it is otherwise.
SemicolonKey(g, r, l) ==
  IF g.current \notin Uninterested("tempEnglish") /\ NothingComposed(l)
  THEN /\ state' = "tempEnglish" /\ engines' = g /\ restoreEngineName' = r
       /\ NotCommitted(SetLead(Clear(l), ";"))
  ELSE Idle(g, r) /\ RecodeKey(l, 1)

\* enterTempPinyinState(): it switches to the Pinyin engine if there is one.
GraveKey(g, r, l) ==
  IF /\ g.current \notin Uninterested("tempPinyin") /\ NothingComposed(l)
     /\ "py" \in Configured
  THEN /\ state' = "tempPinyin" /\ engines' = ChangeEngine(g, "py")
       /\ restoreEngineName' = g.current
       /\ NotCommitted(SetLead(l, "grave"))
  ELSE Idle(g, r) /\ PuncKey(l)

\* The candidate a digit key asks for, counted from 0; "0" is the tenth.
DigitIndex(k) == (CHOOSE i \in DOMAIN Digits : Digits[i] = k) - 1

PlainKey(k, g, l) ==
  \/ k \in Letter /\ LetterKey(k, g.current, l)
  \/ k = "-" /\ PageKey(l, HasPrev(l), Prev(l, WordCount))
  \/ k = "=" /\ PageKey(l, HasNext(l), Next(l, WordCount))
  \/ k = "backspace" /\ NotCommitted(Refresh(g.current, PopInputCode(l, WordCount)))
  \/ k \in Digit /\ IF Composing(l)
                    THEN SelectAt(l, DigitIndex(k))
                    ELSE Commit(l, Raw, <<>>, FALSE)
  \/ k = "'" /\ RecodeKey(l, 2)
  \/ k \in {".", ","} /\ PuncKey(l)
  \/ k = "space" /\ IF Composing(l) THEN CommitShown(l, 0) ELSE NotCommitted(l)
  \/ k = "return" /\ IF Composing(l) THEN Commit(l, Raw, <<>>, FALSE) ELSE NotCommitted(l)
  \/ k = "arrow" /\ NotCommitted(l)

IdleKey(k, g, r, l) ==
  CASE k = ";" -> SemicolonKey(g, r, l)
    [] k = "grave" -> GraveKey(g, r, l)
    [] OTHER   -> Idle(g, r) /\ PlainKey(k, g, l)

-----------------------------------------------------------------------------
(* The states *)

\* TempPinyinState::restoreEngine(), without setLead(""): nothing to restore
\* changes nothing.
Restored == IF restoreEngineName = None THEN engines ELSE ChangeEngine(engines, restoreEngineName)

\* Mutants of StateReset: the prompt stays open; the engine is not given back.
MutStateResetPrompt ==
  /\ state' = "idle" /\ UNCHANGED prompt
  /\ engines' = IF state = "tempPinyin" THEN Restored ELSE engines
  /\ restoreEngineName' = IF state = "tempPinyin" THEN None ELSE restoreEngineName

MutStateResetEngine ==
  /\ state' = "idle"
  /\ prompt' = IF state \in PromptState THEN "none" ELSE prompt
  /\ UNCHANGED <<engines, restoreEngineName>>

\* StateManager::reset(): cancel() of the current state, which closes its
\* prompt or gives the engine back, and idle again.
StateReset ==
  /\ state' = "idle"
  /\ prompt' = IF state \in PromptState THEN "none" ELSE prompt
  /\ engines' = IF state = "tempPinyin" THEN Restored ELSE engines
  /\ restoreEngineName' = IF state = "tempPinyin" THEN None ELSE restoreEngineName

\* The list after that reset; the prompts leave it alone.
ListAfterReset(l) == IF state \in TempState THEN Clear(l) ELSE l

\* enterAddPhraseState(), enterDeletePhraseState(): the deleted word is what
\* was committed last, and must have a Chinese character in it.
MayEnter(s) ==
  /\ engines.current \notin Uninterested(s)
  /\ s = "del" => lastCommit.text # Raw

-----------------------------------------------------------------------------
(* Key presses without modifiers, by state. *)

\* Mutant of Pressed: only the release looks at the switch key.
MutPressed == UNCHANGED cnEnSwitchKeyPending /\ lastKey' = "other"

\* updateCnEnSwitchPending(): any other press makes the switch key part of a
\* combination.
Pressed == cnEnSwitchKeyPending' = FALSE /\ lastKey' = "other"

\* The guide character alone: pressed again it is committed as a mark, and
\* Return gives up; both leave the state.
LeadOnlyKey(k) ==
  /\ StateReset
  /\ IF k = cl.lead THEN Commit(cl, Raw, <<>>, TRUE) ELSE NotCommitted(ListAfterReset(cl))

LeadOnly == cl.lead # NoLead /\ cl.code = <<>>

\* The quick command a code completes, if any; one that cannot be carried out
\* is typed like any other code.
CommandState(code) ==
  CASE code \in AddCommand -> "add"
    [] code \in DelCommand -> "del"
    [] OTHER               -> "idle"

MayRun(code) ==
  \/ code \in OtherCommand
  \/ code \in AddCommand \cup DelCommand /\ MayEnter(CommandState(code))

\* The history may be too short for a new phrase.
MustRun(code) == MayRun(code) /\ code \notin AddCommand

QuickCommand(code) ==
  /\ NotCommitted(Clear(cl))
  /\ state' = CommandState(code)
  /\ IF code \in OtherCommand THEN UNCHANGED prompt ELSE prompt' = CommandState(code)
  /\ UNCHANGED <<engines, restoreEngineName>>

TypeEnglish(code) ==
  /\ Len(code) <= MaxCode
  /\ LET coded == SetInputCode(cl, code, WordCount)
     IN  NotCommitted(SetCandidates(coded, Quick[code], WordCount))
  /\ UNCHANGED <<state, engines, restoreEngineName, prompt>>

\* The keys with which TempEnglishState hands over to the committer.
HandsOver(k) ==
  \/ k = "return"
  \/ k = "space" /\ Len(cl.shown) > 0
  \/ k = ";" /\ Len(cl.shown) > 1
  \/ k = "'" /\ Len(cl.shown) > 2

TempEnglishKey(k) ==
  LET code == Append(cl.code, k)
  IN
  \/ k = "backspace" /\ cl.code = <<>> /\ StateReset /\ NotCommitted(Clear(cl))
  \/ k = "backspace" /\ cl.code # <<>> /\ TypeEnglish(SubSeq(cl.code, 1, Len(cl.code) - 1))
  \/ HandsOver(k) /\ IdleKey(k, engines, restoreEngineName, SetLead(cl, NoLead)) /\ UNCHANGED prompt
  \/ k \in Printable /\ ~HandsOver(k) /\ ~(k = "." /\ MustRun(code)) /\ TypeEnglish(code)
  \/ k = "." /\ MayRun(code) /\ QuickCommand(code)
  \/ k = "arrow" /\ NotCommitted(cl) /\ UNCHANGED <<state, engines, restoreEngineName, prompt>>

TempPinyinKey(k) ==
  LET e == engines.current IN
  \/ k = "backspace" /\ cl.code = <<>> /\ StateReset /\ NotCommitted(Clear(cl))
  \/ /\ k = "backspace" /\ cl.code # <<>>
     /\ NotCommitted(Refresh(e, PopInputCode(cl, WordCount)))
     /\ UNCHANGED <<state, engines, restoreEngineName, prompt>>
  \/ /\ k \in Letter \cup {cl.lead} /\ Len(cl.code) < MaxCode
     /\ NotCommitted(Typed(e, cl, Append(cl.code, k)))
     /\ UNCHANGED <<state, engines, restoreEngineName, prompt>>
  \/ /\ k \notin Letter \cup {cl.lead, "backspace"}
     /\ IdleKey(k, Restored, None, SetLead(cl, NoLead))
     /\ UNCHANGED prompt

\* The add and delete prompts swallow every key; Return closes them.  What it
\* writes to the user dictionary is left to UserDict.
PromptKey(k) ==
  /\ IF k = "return" THEN state' = "idle" /\ prompt' = "none" ELSE UNCHANGED <<state, prompt>>
  /\ NotCommitted(cl)
  /\ UNCHANGED <<engines, restoreEngineName>>

KeyPress(k) ==
  /\ Pressed /\ UNCHANGED panelMode
  /\ IF state = "idle"
     THEN IdleKey(k, engines, restoreEngineName, cl) /\ UNCHANGED prompt
     ELSE IF LeadOnly /\ k \in {cl.lead, "return"}
     THEN LeadOnlyKey(k)
     ELSE CASE state = "tempEnglish" -> TempEnglishKey(k)
            [] state = "tempPinyin"  -> TempPinyinKey(k)
            [] OTHER                 -> PromptKey(k)

-----------------------------------------------------------------------------
(* Key presses with modifiers. *)

\* TempEnglishState gives up on any modifier, and the key goes on; the
\* prompts swallow it.
ComboState == IF state = "tempEnglish" THEN "idle" ELSE state
ComboList  == IF state = "tempEnglish" THEN Clear(cl) ELSE cl

Combo == Pressed /\ state \notin PromptState

\* nextEngine(), by key or by the panel's RequestNextInputMode.
SwitchToNextEngine(l) ==
  /\ engines' = NextEngine(engines)
  /\ panelMode' = engines'.current
  /\ NotCommitted(Clear(l))
  /\ UNCHANGED <<restoreEngineName, prompt>>

NextModeKey ==
  Combo /\ state' = ComboState /\ SwitchToNextEngine(ComboList)

\* Ctrl+= (the history or, with Alt, the clipboard may be too short) and
\* Ctrl+-; a key that cannot enter its state does nothing.
EnterPrompt(s) ==
  /\ Combo
  /\ \/ MayEnter(s) /\ state' = s /\ prompt' = s
     \/ (s = "add" \/ ~MayEnter(s)) /\ state' = ComboState /\ UNCHANGED prompt
  /\ NotCommitted(ComboList)
  /\ UNCHANGED <<engines, restoreEngineName, panelMode>>

\* A mark typed with Shift goes past the states to the punctuation.
ShiftedMark ==
  Combo /\ state' = ComboState /\ PuncKey(ComboList)
        /\ UNCHANGED <<engines, restoreEngineName, prompt, panelMode>>

\* A combination of the application's.
OtherCombo ==
  Combo /\ state' = ComboState /\ NotCommitted(ComboList)
        /\ UNCHANGED <<engines, restoreEngineName, prompt, panelMode>>

\* Every combination, over a prompt.
SwallowedCombo ==
  /\ state \in PromptState /\ Pressed
  /\ UNCHANGED <<state, engines, restoreEngineName, cl, lastCommit, prompt, panelMode>>

-----------------------------------------------------------------------------
(* The Chinese/English switch key: it counts when released, if alone. *)

SwitchKeyPress ==
  /\ cnEnSwitchKeyPending' = TRUE /\ lastKey' = "switch"
  /\ UNCHANGED <<state, engines, restoreEngineName, cl, lastCommit, prompt, panelMode>>

SwitchKeyRelease ==
  /\ cnEnSwitchKeyPending' = FALSE /\ lastKey' = "other"
  /\ IF cnEnSwitchKeyPending
     THEN /\ engines' = ToggleEnglishEngine(engines)
          /\ panelMode' = engines'.current
          /\ cl' = Clear(cl)
     ELSE UNCHANGED <<engines, panelMode, cl>>
  /\ UNCHANGED <<state, restoreEngineName, lastCommit, prompt>>

\* The release of another key, or the press of another modifier key.
OtherKeyRelease ==
  /\ Pressed
  /\ UNCHANGED <<state, engines, restoreEngineName, cl, lastCommit, prompt, panelMode>>

-----------------------------------------------------------------------------
(* The panel's signals and the frontend's resets. *)

KeysUnchanged == UNCHANGED <<cnEnSwitchKeyPending, lastKey>>

\* A click on candidate i of a page that may be out of date.
SelectCandidate(i) ==
  /\ StateReset
  /\ SelectAt(cl, i)
  /\ UNCHANGED panelMode /\ KeysUnchanged

LookupTablePageUp ==
  /\ NotCommitted(Prev(cl, WordCount)) /\ KeysUnchanged
  /\ UNCHANGED <<state, engines, restoreEngineName, prompt, panelMode>>

LookupTablePageDown ==
  /\ NotCommitted(Next(cl, WordCount)) /\ KeysUnchanged
  /\ UNCHANGED <<state, engines, restoreEngineName, prompt, panelMode>>

RequestNextInputMode ==
  SwitchToNextEngine(cl) /\ UNCHANGED state /\ KeysUnchanged

\* reset(): Esc, a loss of focus, a reset by the application.
Reset ==
  /\ cnEnSwitchKeyPending' = FALSE /\ lastKey' = "other"
  /\ StateReset
  /\ NotCommitted(Clear(cl))
  /\ UNCHANGED panelMode

-----------------------------------------------------------------------------
Init ==
  /\ state = "idle"
  /\ engines \in [current : Configured, last : {None}]
  /\ restoreEngineName = None
  /\ cl = EmptyList
  /\ lastCommit = [text |-> Raw, code |-> <<>>, mark |-> FALSE]
  /\ cnEnSwitchKeyPending = FALSE /\ lastKey = "other"
  /\ prompt = "none"
  /\ panelMode = engines.current

SessionNext ==
  \/ \E k \in Key : KeyPress(k)
  \/ NextModeKey
  \/ \E s \in PromptState : EnterPrompt(s)
  \/ ShiftedMark
  \/ OtherCombo
  \/ SwallowedCombo
  \/ SwitchKeyPress
  \/ SwitchKeyRelease
  \/ OtherKeyRelease
  \/ \E i \in 0 .. WordCount - 1 : SelectCandidate(i)
  \/ LookupTablePageUp
  \/ LookupTablePageDown
  \/ RequestNextInputMode
  \/ Reset

Spec == Init /\ [][SessionNext]_vars

-----------------------------------------------------------------------------
(* What a session promises. *)

\* Every variable has the kind of value the code gives it.
TypeOK ==
  /\ state \in {"idle"} \cup PromptState \cup TempState
  /\ engines \in [current : EngineName, last : Configured \cup {None}]
  /\ restoreEngineName \in Configured \cup {None}
  /\ cl \in List
  /\ lastCommit \in [text : Text \cup {Raw}, code : Code, mark : BOOLEAN]
  /\ cnEnSwitchKeyPending \in BOOLEAN
  /\ prompt \in {"none"} \cup PromptState
  /\ panelMode \in EngineName
  /\ lastKey \in {"switch", "other"}

\* The candidates are those of the code, never of an earlier one or of none:
\* every handler that edits the code asks the engine again, and every one
\* that switches the engine clears both.  The exception is the return from
\* temporary Pinyin (TempPinyinState::processKey), which may leave the
\* candidates of the engine it used to the one that takes over.
CandidatesBelongToCode ==
  CASE state = "tempEnglish" -> cl.all = Quick[cl.code]
    [] state = "tempPinyin"  -> cl.all = Candidates(engines.current, cl.code)
    [] OTHER -> \E e \in EngineName : cl.all = Candidates(e, cl.code)

\* What the panel shows is a page of these candidates, none of them twice, and
\* one that exists, whichever key, signal or commit came last
\* (CandidateList::syncVisiblePage).
ShownIsAPage ==
  IF cl.all = <<>>
  THEN cl.shown = <<>>
  ELSE /\ cl.page * WordCount < Len(cl.all)
       /\ cl.shown = PageTexts(cl.all, cl.page * WordCount, WordCount)

\* A code that goes with a commit, to the auto-phrases and to a later Ctrl+-,
\* is a code of the committed text: text and code come from the same
\* candidate by whichever of the committer's routes (Committer::processKey,
\* selectCandidate, EngineManager::processKey, Punc::processKey).
CommitPairsTextAndCode ==
  lastCommit.code # <<>> =>
    \E e \in Configured, c \in Code :
      [text |-> lastCommit.text, full |-> lastCommit.code] \in ToSet(Lookup[e, c])

\* The panel shows the add or the delete prompt exactly while the keys go to
\* it; a prompt left open would hide that typing works again, a closed one
\* that it does not (enter..., cancel() and Return of both states).
PromptFollowsState ==
  prompt = IF state \in PromptState THEN state ELSE "none"

\* A guide character is shown only in the state it leads into, so no other
\* state takes LeadOnlyKey for its own (StateManager::processKey).
LeadBelongsToState ==
  /\ cl.lead = ";"     => state = "tempEnglish"
  /\ cl.lead = "grave" => state = "tempPinyin"

\* lastEngine_ is there whenever "en" is left, and only then: the fallback of
\* restoreLastEngine() to the first engine is never taken, and the way back
\* from English is never one to an engine left long before.
EnglishRemembersTheEngine == engines.current = "en" <=> engines.last # None

\* Outside the temporary states English keeps no composition: what is typed
\* goes to the application.
EnglishComposesNothing ==
  engines.current = "en" /\ state \notin TempState => cl.code = <<>> /\ cl.all = <<>>

\* Temporary Pinyin can always go back, and to an engine that is not itself
\* able to compose Pinyin.
TempPinyinKnowsTheWayBack ==
  state = "tempPinyin" => restoreEngineName \in Configured \ {"py", "wbpy"}

\* The grave character leads a Pinyin code only: a switch of the engine under
\* temporary Pinyin takes the guide character away with the composition.
GraveLeadMeansPinyin == cl.lead = "grave" => engines.current = "py"

\* freewb.cpp:450: only the switch key pressed alone may toggle; any other key
\* press since, a reset or a release forgets it.
SwitchKeyAlone == cnEnSwitchKeyPending => lastKey = "switch"

\* Whatever ends temporary Pinyin (a commit, a click, Return, BackSpace, Esc, a
\* loss of focus, `;') gives back the engine it was entered from, also when
\* the mode was switched meanwhile.  Only a prompt may interrupt it.
TempPinyinGivesTheEngineBack ==
  [][state = "tempPinyin" /\ state' \notin {"tempPinyin"} \cup PromptState =>
       engines' = [current |-> restoreEngineName, last |-> None]]_vars

-----------------------------------------------------------------------------
(* What the documentation says, and the code does not do. *)

\* statemanager.h:143, "temporary Pinyin: switches to the Pinyin engine on
\* entry, restores on exit": outside it no engine waits to be restored.
RestoredOnExit == restoreEngineName # None => state = "tempPinyin"
=============================================================================
