# freewb: specifications, model checks and proofs

freewb is a Wubi/Pinyin input method: an engine process loaded by fcitx4, fcitx5 or ibus
(`src/src/core`, `src/src/engine`) and a Qt panel process (`src/src/panel`) that shows the
candidates, the toolbar and the dictionary tools. The two talk over D-Bus (`src/src/ipc`)
and share the files under `~/.local/freewb/data`.

This directory holds TLA+ modules of the parts that decide what a user gets: the session
with its candidate list and the window that shows it, what the engine offers for a code,
the user's dictionary with its file and the two processes that write it, automatic
phrases and their codes, the prompts for adding and deleting words, punctuation, and the
switches and settings that engine and panel keep two copies of. TLC checks them on small
instances; TLAPS proves the central ones for all values of the constants.

    tlc -config Session.cfg MCSession        # a run
    tlapm SessionProofs.tla                  # the proofs of a module

`PROJECT.json` maps every definition to the lines it models and lists runs, mutants
(one for each property: a plausible slip in the code that makes the property fail),
findings, hazards and theorems.

## 1. Inventory

| Component | State it keeps | Operations | What makes it correct |
|---|---|---|---|
| Candidate list (`core/candidatelist`) | lead character, code, all candidates, the page shown, page number, page count, page width | setCandidates, setInputCode, popInputCode, setLead, prev, next, clear, loadSettings, the look-ups of a commit | the page shown is a page of the candidates; the arrows are right; text and code of a commit are of one candidate |
| Freewb, the key chain (`core/freewb`) | whether the switch key is pending | processKeyPress, processKeyRelease, handleSingleKey, reset, panel signals | a key reaches exactly one handler, in the order of the chain; the panel hears what changes |
| Engine manager (`core/enginemanager`) | current engine, the engine English came from | changeEngine, nextEngine, toggleEnglishEngine, processKey, refreshEngineResult | the composition belongs to the engine that made it; the way back from English is there |
| Committer (`core/committer`) | last committed text and code, history of 128 characters | processKey, selectCandidate, commit | a commit clears the composition; text and code belong together |
| Auxiliary states (`core/state`) | current state, engine to restore, phrase being edited | begin, processKey, cancel of temporary English, temporary Pinyin, add and delete prompt | every way out restores the engine and closes the prompt |
| Punctuation, width, virtual keyboard (`core/punc`, `charwidth`, `virtualkeyboard`) | switches, options, open quotes | processKey, convert, convertString, loadSettings, toggles | quotes alternate; a mark pushes the composition out and keeps it; the engine commits nothing half-width at full width; half stops after digits |
| User dictionary (`engine/userdict`, `engine/wbzx`) | the user's words, deleted words, `user_word.txt` | addUserWord, deleteUserWord, save, reload, reload of the main table | what is reported as learned or forgotten is; memory is what a restart would load |
| Automatic phrases (`engine/autophrase`) | ring of four characters and counter, phrases of the session, table, `autophrase.mb` | add, addSingleChar, saveDictionary, reloadDictionary | phrases are tails of what was typed; one phrase per code; saved phrases stay |
| Tables and look-up (`engine/common`, `wbzx`, `py`, `wbpy`, `en`, `gb2312filter`) | loaded tables, the primary code of each character | load, save, look-up by prefix, merge, filter, phrase codes | every word that can be typed is offered under its code, once, in order |
| Panel tools (`panel/texteditwin`, `usrgenworddialog`, `lexicontoolwin`, `backupdialog`) | text in the editor, the dialog, a message box before a signal | edit and save `user_word.txt`, add or delete words in a batch, restore a backup, default words at the start | changes reach the engine, and its own saves keep them |
| Input window (`panel/inputwin`) | items, arrows, visible, the prompt | take updates, clicks | shows the engine's page, goes with the composition; shows the prompt that Return confirms |
| Toolbar, virtual keyboard, settings (`panel/toolbarwin`, `virtualkeyboard`, `settingwin`, `utils/settings`) | copies of the switches and the mode, the configuration file | clicks, flips, opening and closing, ReloadConfig | what is shown is what the engine does, once messages are taken |
| D-Bus, frontends, conversion tool, other windows | what they were told last | display, marshalling, glue | see below |

**How they interact.** A frontend calls `processKeyPress` and `processKeyRelease`; the
key passes switch key, shortcuts, state machine, single keys, engine, committer and
punctuation until one of them takes it. All of these work on one shared candidate list
and run to completion on one thread. The panel sends signals (a click, a page, the next
mode, reload), which the engine handles between two keys, some time after they were
sent. The engine sends updates of the window, the prompts, the switches and the mode the
other way, as calls without an answer. Engine and panel both rewrite `user_word.txt`,
each from its own copy and without a lock; a `ReloadDictionaries` signal tells the engine
to read it again, and `ReloadConfig` the configuration that the panel writes.

**What is hard.** Signals that arrive in a state they were not sent for; states that
replace one another without being cancelled; an engine that is switched under a
composition; text and code of a commit looked up separately; saves that truncate before
they write; two writers of one file; copies kept in step by messages that say "flip" and
no value; a panel that dies with the keyboard open; options that are read when needed
next to dictionaries that are loaded now and then; lists merged as if they were sorted.
Each is listed with its line under `hazards`
in `PROJECT.json`, with the properties that would catch it, or the reason why none does.

## 2. The modules

    CandidateOps ---- CandidateList ---- PanelLink -------- MCPanelLink
          |                                  \------------- PanelLinkProofs
          \---------- Session ----------------------------- MCSession
                         \--------------------------------- SessionProofs
    Lexicon <=(implemented by)= UserDict ---- WubiLookup -- MCWubiLookup, UserDictProofs
                                     \------- UserWordFile - MCUserWordFile, UserDictProofs
    PhraseCode ----(codes for)---- AutoPhrase ------------- MCAutoPhrase, AutoPhraseProofs
              \----(codes for)---- PhrasePrompts ---------- MCPhrasePrompts, PhrasePromptsProofs
    Toolbar ----------------------------------------------- MCToolbar, ToolbarProofs
    Punctuation ------------------------------------------- MCPunctuation, PunctuationProofs
    InOrder - used by PanelLink, Toolbar, PhrasePrompts, AutoPhrase, WubiLookup
    SequenceFacts - lemmas used by the proof modules

**InOrder** - what becomes of a value when the members of a sequence are taken one after
the other: a window and the updates on their way to it, a switch and the flips that will
reach it, the phrases and the tails a character adds, the rows of a merge. It is
`FoldLeft` written as a recursive function, so that theorems can speak of queues of any
length.

**CandidateOps** - `CandidateList` as operators on one record `[lead, code, all, shown,
page, total]`: `Sync` is `syncVisiblePage`, `Prev` and `Next` the page keys, `SelectText`,
`SelectFullCode` and `FirstTextForFullCode` the look-ups of a commit. The width
(`wordCount_`) is a parameter, since the code cuts a page with the width of one moment
and looks codes up with that of another.

**CandidateList** - these operators under a compositor that gives any code its
candidates, pages by key or signal, pops, clears, and changes the width (`ReloadConfig`)
at any time. `shownWidth` is the width the shown page was cut with.

**PanelLink** extends it by the window (`InputWin`), the updates on their way to it and the
clicks on their way back. After each key the frontend sends preedit and page (`Update`);
a click hides the window by itself and the commit it leads to sends nothing; fcitx5
resets without an update (`SilentReset`); the panel may die, and is started for the next
call. `told` is a history variable: neither a click nor a silent reset crossed an update.

**Session** - one input session. An action is one key press in one state
(`KeyPress(k)`), a combination, a release, a panel signal or a reset, each with all
handlers it runs through:

| Variable | Code |
|---|---|
| `state` | `StateManager::current_` |
| `engines` | `currentEngine_` and `lastEngine_` of `EngineManager` |
| `restoreEngineName` | `TempPinyinState::restoreEngineName_` |
| `cl` | the shared `CandidateList` |
| `lastCommit` | `lastCommitString_`, `lastCommitCode_` of `Committer` |
| `cnEnSwitchKeyPending` | the flag of `Freewb` |
| `prompt`, `panelMode` | what the panel was told last |
| `lastKey` | history variable: whether the last key event was the switch key's press |

`IdleKey` is the chain behind the state machine; the temporary states hand keys over to
it after changing engine and list, which is why it takes these as parameters. What an
engine answers to a code is the constant `Lookup`, what the quick formats answer is
`Quick`. Whether the commit history is long enough for an add prompt is left open here
(PhrasePrompts has it). A click carries any index of a page, since the page it was made
on may be gone.

**PhrasePrompts** - what is in the two prompts: `history` (`committedTexts_`), the
phrase with its length, source and code (`AddUserPhraseState`), the word to delete, the
messages to the panel and the dialog for a code of one's own. Return, Left, Right,
Ctrl+Return, Esc, a click behind the prompt and a reload of the table under it are
actions, as are the panel's death and start. The history variables say what stands in
front of the caret and how much of it freewb wrote.

**Lexicon** - the abstract promise of the user dictionary: `Learn`, `Forget`, `Refuse`,
`Damage` (an accident while saving) and `Replace` (another main table). `intact` is true
until an accident or a change of table left a trace; until then a forgotten word is gone.

**UserDict** - `mem` (the two lists in memory), `file` (the two sections of
`user_word.txt`), `main` (the words of the main table) and `answer` (what the last call
returned, and whether it wrote all it meant to). `Save` is the write and the reload the
code does after it whatever became of it: written; not opened; or cut short, after whole
lines or inside one (`TornFiles`), noticed or not. `DieInSave` is the process dying in
it. What is written is not what is read back: `Stored` is what `parseFile` makes of the
lines, with `Read[w]` the word that the line of `w` reads as - blanks around a text are
trimmed, and a line without a text is skipped.

**WubiLookup** extends UserDict by what the engine answers for a code
(`WbzxEngine::putKey`): the search in the sorted table from a lower bound and up to a
limit, the filters, the merge with the user's words and the automatic phrases appended to
it, and the second merge with Pinyin (`Wbpy::putKey`). It adds the character set filter,
the option for automatic phrases and the phrases themselves to the state.

**PhraseCode** - pure operators: the primary code of a character and
`calculateWubiPhraseCode` with the rules of the table. The instances of AutoPhrase and
PhrasePrompts compute their codes with it from a few entries of a table.

**UserWordFile** extends UserDict by the panel (`up`): a text editor opened some time ago
(`text`), the word dialog, the batch tool, the restore of a backup, and the start that
fills a missing or tiny file with default words. The panel writes first and signals
later: `owed` counts the signals due for what it wrote. The batch tool runs a message box
between the two (`lexicontoolwin.cpp:753-766`), in whose event loop other windows may
write and signal; the restore writes in a worker thread and signals when that has
reported. A panel that dies first never sends. `signals` are on their way to the engine,
which loads the file before it registers with the bus (`listening`), so that one sent in
between is gone. `lost` is a history variable: of the change the engine lacks no signal
will tell it any more. The next signal, or a start of either side, which reads the file
or signals, mends that.

**AutoPhrase** - the ring and its counter as in the code (index modulo four), `Learn`
and `Spans` for what a character adds, the table and the file with failing and cut
saves, the option, reloads and restarts. Two history variables: `typed` (the characters
since the ring was cleared) and `loadedOn` (whether the option was on at the last load).

**Toolbar** - the switches (punctuation, width and their like) of which engine and toolbar
keep a copy each, the mode, the pairing of marks and the virtual keyboard, whose settings
are in a file that the panel writes and the engine reads. Messages go both ways and say
"flip" for a switch; `knows` and `paired` are history variables that fall when a message
was lost or overtaken in a way the code does not repair.

**Punctuation** - `Punc::processKey` and `convert`, `CharWidth`, `VirtualKeyboard` with the
composition and the history they find. A glyph is a key and a form (ASCII, full width,
left, right, a symbol). Keys that no handler takes are among its actions (`Passed`): keypad
keys, for which `normalizedKeySymbol` gives nothing, and letters over a composition; the
application writes them, in half width. `lone` and `typed` are history variables: which quotes were
written an odd number of times, and what stands in front of the caret.

## 3. What the runs show

| Run | Distinct states | Result |
|---|---|---|
| `panel_link` | 13 620 | passes: pages, arrows, pairing at an unchanged width; the window shows the page and goes with the composition |
| `session` | 1.6 million | passes: seven invariants, one action property |
| `session_restored` | | finding: a prompt leaves temporary Pinyin without restoring the engine |
| `wubi_lookup` | 8 352 | passes: file and memory agree; implements `Lexicon`; words are offered, once, in order |
| `wubi_merge` | | finding: Pinyin is merged into a list that is not sorted |
| `user_word_file` | 1.2 million | passes: in step when quiet, and the engine's calls then keep what the panel wrote; changes that were signalled arrive or are overwritten |
| `auto_phrase` | 0.36 million | passes: phrases, codes, saved phrases |
| `auto_phrase_option` | | finding: switching the option off and on loses all saved phrases |
| `phrase_prompts` | 0.6 million | passes: phrase, prompt on the screen, word sent; a prompt that was left goes away |
| `toolbar` | 0.39 million | passes: switches, pairing and keyboard meet; the keyboard lets go |
| `punctuation` | 92 064 | passes: width, stops, quotes, composition |
| `punctuation_half` | | finding: a half-width comma behind a Chinese character |

**Properties worth naming.**

- `CandidatesBelongToCode`: the candidates are those of the code shown, in every state
  and after every switch of the engine. It says *some* engine's candidates in idle (see
  the leftovers of Pinyin below); in temporary Pinyin it is the current one's.
- `CommitPairsTextAndCode`: whatever route a commit took - space, digit, click, mark,
  recode key, full code, top-screen - its code is one of its text. Auto phrases and the
  delete prompt use both.
- `TempPinyinGivesTheEngineBack`: every way out of temporary Pinyin, except into a
  prompt, restores the engine it was entered from.
- `WindowShowsThePage`, `WindowGoesAway`: a window that is open shows the engine's page once
  it has taken what is on its way, and does not stay when the composition is over.
- `PhraseIsTyped`, `PromptInStep`, `ConfirmedWasShown`: the phrase is a tail of what was
  typed; the panel shows what Return confirms; a prompt that was left goes away
  (`PromptGoesAway`), also when the panel dies in between.
- `ImplementsLexicon`: UserDict under the mapping `shown <- Visible`, `listed <- main`,
  `intact <- ListsFitTable`, `Kept <- Read`. A second load or a refused write is a
  stutter or `Refuse`; a cut save is `Damage`.
- `CopyIsFile`: after every call, also a failed one, memory is what a restart loads.
- `TypedIsOffered`, `OfferedInOrder`, `OfferedOnce`: what a query yields after search, limit,
  filter, merge and append is compared with the set of words that can be typed, stated
  without any of these.
- `InStepWhenQuiet`, `EngineKeepsOthers`, `PanelReachesEngine`: the two writers may lose
  each other's words while a signal is due (a message box may hold it back as long as the
  user likes), on its way or lost. Without one (`Quiet`) they agree, a call of the engine
  keeps every line but its own, and a change whose signals were all sent to a listening
  engine does not stay unknown to it.
- `HalfOnlyPassed`: at full width the engine commits nothing of half width. Half width is
  written by the application only, for a key of the keypad or a letter over a composition,
  and these change neither composition nor history.
- `LoadedPhrasesStay`: a save drops nothing from `autophrase.mb` once the dictionary was
  loaded with the option on, however the option is switched since.
- `SwitchesMeet`: flips that cross on their way cancel out. `KeyboardMeets`,
  `KeyboardLetsGo`: the engine does not map keys for good for a keyboard nobody sees.
- `QuotesTakeTurns`, `MarksHoldTheComposition`, `StopsFollowDigits`: relate what a mark
  becomes to what was written before it, through every switch in between.

**Findings** are what a comment, the help page or a message of the program says and the
code does not do; each is a property in the last section of its module with the line it
quotes, and is violated in a run of its own:

- `RestoredOnExit` (`statemanager.cpp:87`): entering a prompt replaces temporary Pinyin
  without cancelling it, so the engine is not restored.
- `MergesSortedLists` (`wbpy.cpp:48`): the merge wants sorted lists (`wbzx.h:58`), but
  Wubi's ends in automatic phrases of the exact code.
- `SavedPhrasesStay` (`autophrase.cpp:26`): with the option off at a reload and on
  again, the next picked phrase overwrites `autophrase.mb`.
- `HalfStopsFollowDigits` (`punc.cpp:154`): the mark is converted before the candidate it
  pushes out is committed, so the rule for marks after digits (`punc.cpp:136`,
  `settingwin.cpp:520`) looks at the digit in front of the candidate.

The other properties are stated so that they hold with the code as it is, and say where
they make an exception.

**Seen while modelling, stated by no run.**

- After a change of the page width text and code of a pick may be of two candidates until
  the page is cut again (`candidatelist.cpp:221`).
- A reset in temporary Pinyin restores the engine but may leave Pinyin's composition to it
  (`temppinyin.cpp:123`), and the toolbar is not told of every such switch.
- A click that crosses an update leaves a stale window until the next key.
- A panel that starts again is not told the switches (`toolbarwin.cpp:144`); it shows the
  configured ones.
- A quote typed under English punctuation takes its turn too: the next Chinese quote is a
  closing one. A custom symbol for `(` commits the symbol alone, without a pair
  (`settingwin.cpp:639`).
- Marks are taken out of the phrases a prompt offers (`adduserphrase.cpp:72`), also of
  what `help.html:137` shows whole; blanks around a user's word are trimmed when it is
  read back.
- The text editor writes the section of deleted words as it read it, over a deletion the
  engine made since; `lexicontoolwin.cpp:644` calls the section the engine's.
- Which of two equally long codes of a character becomes its primary one is the order of
  an `unordered_map`, though `wbzx.cpp:105` says the first recorded.
- Automatic phrases of one code may change their order when they are loaded again, since
  `insertRecord` puts a new one in front of those with its code.
- A word of the user's that a table chosen later has too is offered twice, and when it is
  deleted still offered from the table (`Lexicon` allows this once `intact` has fallen).
- Text committed by Pinyin or English does not clear the ring, so characters on either
  side of it can form a phrase.
- With no engine configured `currentEngineName()` is a null pointer made into a
  `std::string` (`freewb.cpp:568`); the models have one engine at least.

## 4. Bounds

- *Session*: two letters; complete codes of two letters instead of four and codes of at
  most three, so that codes shorter than, as long as and longer than a complete one
  occur; two candidates a page with at most five candidates, so that there are first,
  middle, last, cut and full pages; three engines, in the order the code
  makes them; the tables hold a unique complete code, ambiguous and empty ones; one
  quick command of each kind. `MaxCode` stands in the guards of the actions that type.
- *PanelLink*: codes with five, two and no candidates and pages of 2, 3 and 5 (the
  setting 0): remainders, one exact page, an empty list. Two messages on their way
  (`MaxQueue`) before a user adds one; an update adds two more, so clicks, pages and
  updates cross.
- *WubiLookup*: five words, one ending in a blank, one of blanks only, one rare; three
  tables, one of them empty (a file that does not load) and one with more words than the
  limit of two lets through; codes that begin one another; cuts before, inside and behind
  each line. Calls act on one word each, and the properties speak of two at most.
- *UserWordFile*: two words, one of which reads as the other when its line is cut, and two
  signals due or on their way (`MaxSignals`): a save of the editor sends two, and one
  window may write while another's signal is due. Blanks in a line are in WubiLookup's
  instance; the theorems have them in both.
- *AutoPhrase*: two characters, runs of five (`MaxRun`), so that the ring of four wraps;
  two spans with one code, spans without, and phrases the main table has.
- *PhrasePrompts*: a history of three characters instead of 128 with up to four typed
  (`MaxTyped`), so that the oldest is dropped; phrases of two and three (`MaxPhrase`);
  two messages on their way; a table with codes and one without.
- *Toolbar*: one switch that English freezes and one it does not; a keyboard mode that maps
  keys and one that does not; two messages in each direction (`MaxQueue`), enough for two
  flips to cross.
- *Punctuation*: a quote, two pairs of brackets, one stop, the backslash and the space, and
  a candidate of Chinese, one ending in a letter and one that itself begins with a
  bracket. The history has three characters (`MaxRecords`), which a pair around a
  candidate overruns.

Deadlock is checked in all runs. Fairness is stated where messages are taken:
`UserWordFile` (`ReloadDictionaries`), `PanelLink` and `Toolbar` (engine and panel take what
they are sent; the session or the bus starts a panel that is gone) and `PhrasePrompts`
(the panel takes its messages). Both processes run an event loop that takes the messages
of its bus as long as it lives, in the order they came. Nothing is promised of users,
and nothing of a panel that is never started in `PhrasePrompts`: its prompts die with it.
In `UserWordFile` nobody has to answer a message box or to start the panel again: only the
engine's handling of signals is fair.

## 5. What is proved

Every safety invariant and action property of the passing runs is a theorem for all values
of the constants. Each proof module names its inductive invariant and says what its parts are there for.

`SequenceFacts` has the lemmas about sequences that several proofs need:

- about `Outcome` of InOrder: it exists and is what its steps make it (`OutcomeExists`),
  a message that is sent is taken last (`OutcomeOfAppend`), one that is taken was the
  first (`OutcomeOfTail`), what no member disturbs stays (`OutcomeStays`), what holds of a
  number of members and goes on with the next holds of all (`OutcomeFollows`), what some
  member brings about and none undoes is reached (`OutcomeReaches`), and two outcomes
  that start related stay so (`OutcomesStayRelated`). They are proved by the least
  member of a set of numbers, so that no induction theorem is instantiated;
- the arithmetic of pages that Session and CandidateList share: the pages made for a list
  cover it and the last one is not empty (`PagesCover`), and what a page from a given
  start holds (`PageFacts`).

`SessionProofs` (for any engines, tables, quick formats, page width and lengths of codes):

- `SessionInvariant`: `Inv` is inductive. It is the conjunction of nine invariants of
  Session, the type invariant among them; several are not inductive alone, and three
  (`ShownIsAPage`, `GraveLeadMeansPinyin`, `TempPinyinKnowsTheWayBack`) are there for the
  others. `CandidatesBelongToCode` in temporary Pinyin needs to know that a mode switch clears
  the list; `LeadBelongsToState` for the prompts needs `GraveLeadMeansPinyin`, since a
  prompt replaces temporary Pinyin only when the engine was switched away from Pinyin,
  and then the guide character is gone; `EnglishRemembersTheEngine` needs that the
  restored engine is never English (`TempPinyinKnowsTheWayBack`).
- From it: `TypeCorrect`, `PageCorrect`, `CandidatesCorrect`, `PromptCorrect`,
  `LeadCorrect`, `EnglishCorrect`, `SwitchKeyCorrect`, and the action property
  `TempPinyinCorrect`.
- The argument: lemmas about the operators of CandidateOps (every operator keeps a
  `GoodList`), then one lemma per kind of key, then one step per action.
- `CommitCorrect`: `CommitPairsTextAndCode`. From `SessionInvariant` every list a handler
  commits from is `Sourced`: its page is one of its candidates, and each candidate is in
  a table or has no code. Then a text and a code taken by the index are of one candidate
  (`SelectedPairs`), and so are those found by the code (`FirstPairs`).

`PanelLinkProofs` (for any codes, candidates and settings of the width, whenever it
changes, and any number of updates on their way):

- `PagesCorrect`, `ArrowsCorrect`, `PairsCorrect`: the three invariants of CandidateList.
  `ShownIsAPage` is not inductive: a page key moves by the page count, so the invariant
  (`Inv`) also says that the count and the page were made with the same width, that of
  `shownWidth` and not the current one (`Cut`). Then the page is the last one if and only
  if no candidate follows it, which is what the arrows need.
- `LinkRefines`: `LinkSpec => Spec`. Clicks that come late, resets that are not shown and
  deaths of the panel are steps of CandidateList or none, so that (`LinkKeepsThePage`) what
  is sent to the window is always a page with its arrows.
- `WindowCorrect`: `WindowShowsThePage`. The window of the moment says nothing, as
  updates are behind it; the invariant (`LinkInv`) is about the window that will be: as
  long as nothing crossed, it shows the engine's page, and after a click of its own
  nothing is on its way and it is hidden.

`UserDictProofs` (for any words, tables, order of lines, and whatever lines read back as):

- `DictInvariant`: `TypeOK /\ CopyIsFile /\ Settled` is inductive. `CopyIsFile` is needed
  because a refused save reads the old file back; `Settled` (what is in memory was read
  once, so it reads back as itself) because each save writes all words again.
- `CopyCorrect`, `OnlyItsWordCorrect`; `AddedIsShownCorrect` (a word without blanks that
  was reported as added can be typed; proved only, as no run checks it); and
- `LexiconCorrect`: the refinement. Every call is `Learn`, `Forget`, `Refuse`, `Damage`
  or a stutter, every death `Damage`, every change of the table `Replace`.
- `QuietCorrect` (UserWordFile, for any number of signals): `InStepWhenQuiet`, inductive
  with types (`QuietInv`): every write of the panel owes a signal (`WriteOwes`), a signal
  that is owed is sent or counted as lost, and everything the engine does to its words
  ends by reading the file back, also when the save failed (`CallKeepsStep`).
- `OthersKeptCorrect`: `EngineKeepsOthers` from it, since a whole call that starts from the
  file's own words writes them back but for its own (`CallKeepsOthers`).
- WubiLookup (for any finite set of words, tables, filter and limit) from the bottom up:
  the tools order the tables, so that codes are totally ordered (`CodeOrder`); words
  arranged by a numbering are each there once (`ArrangedFacts`, by their ranks). The
  search starts at the first record that is not before the code, stops at the first that
  does not go on from it, and takes no more than the limit: what has exactly the code
  comes first, and is less than the limit (`HitsFacts`). The filter keeps the order
  (`FilteredFacts`). The merge takes as many rows as there are, one by one; `Between` is
  what holds after each of them: what is out and what is left are together the words of
  both lists, all sorted, and nothing that is left is in front of what is out
  (`AppendRowFacts`, `MergeFacts`).
- `OfferedCorrect`, `SortedCorrect`, `OnceCorrect`: `TypedIsOffered`, `OfferedInOrder` and
  `OfferedOnce` from these, in every state with the right types (`LookupInvariant`).
  `LookupRefines`: `LookupSpec => Spec`, so that what is proved of the words holds here.

`PunctuationProofs` (for any keys of one kind each, candidates without quotes, custom
symbols and any length of the history):

- The steps fall into seven shapes by what becomes of the quotes (`StepShapes`). The
  invariant is that the stack of open quotes in the code is the set of those the text
  has an odd number of (`lone = open`); it holds since a mark that stays ASCII or is left
  to full width still takes its turn, and a pair leaves its quote closed in both.
- `QuotesCorrect`: `QuotesTakeTurns` from it. `WidthCorrect`: `HalfOnlyPassed`, from the
  shapes and what `convertString` makes of a text; the keys no handler takes are a shape
  of their own, which writes one key and leaves composition and history.
- `StopsCorrect`: `StopsFollowDigits`. The code looks at its history, which forgets its
  oldest characters and may lack the first ones; the invariant (`Past`) is that what was
  typed, as far as it is known, and the history end alike. So the character in front of
  the caret is a digit if and only if the code takes it for one.
- `MarksCorrect`: `MarksHoldTheComposition`, from the shapes; it needs that a stop is
  neither an opener nor a character of another kind (`StopsAssumption`).

`ToolbarProofs` (for any switches, keyboard modes and lengths of the queues):

- `ToolbarTypeCorrect`: the messages on their way in both directions among the types.
- `KeyboardCorrect`: `KeyboardMeets`, inductive as it stands with the types: whatever
  opens, flips or closes the keyboard, or starts a panel without one, leaves a
  `ReloadConfig` on its way, and reading it takes the file's value, which is the window's.
- `PairingCorrect`: `PairingMeets`. The file after the calls on their way (`PairToBe`)
  follows a flip of the engine when it is sent, and the engine when it reads the file;
  `paired` falls exactly when a read overtakes a flip.
- `SwitchesCorrect`: `SwitchesMeet`. Flips in the two directions cross. Flips commute, so
  that a copy's outcome turns over with each flip of its switch, whether it is made at
  once or sent, and wherever the others stand in the queue.

`PhrasePromptsProofs` (for any characters, codes, lengths of phrases and of the history):

- `PhrasePromptsTypeCorrect`, among the types that the length of a phrase in the prompt
  stays within its source.
- `PromptCorrect` (`PromptInv`): the last prompt message on its way, or the prompt on the
  screen when there is none, is that of the engine's state. A panel that is down has
  neither. `OnlyWhatWasShown`: `ConfirmedWasShown` from it.
- `PhraseCorrect`: `PhraseIsTyped`. `PhraseInv` says that the history is the end of what
  was typed (`HistoryIsEnd`) and that the phrase and its source were cut from it when the
  prompt opened (`PhraseIsMade`).
- `ForgetsOnlyThePicked`: the word that is deleted is the one the user picked last
  (`WordInv`: the committer's last word and the prompt's agree with it).

`AutoPhraseProofs` (for any characters, codes of phrases and words of the main table):

- `Inv` has three parts: the ring holds the last four of what was typed, at the index of
  the counter (`RingInv`); the phrases of the session have a code each and no two the
  same (`PhrasesInv`); the table has what is in the file (`FileInv`).
- `OneCodeOnePhrase`: `OnePhrasePerCode`. `EveryTailIsLearned`: `TailsAreLearned`, from the
  ring, and from what the fold over `Spans` does with each tail (`SpansAreTails`).
  `LoadedPhrasesKept`: `LoadedPhrasesStay`, from `FileInv`.

The assumptions are those named in the modules (`BoundsAssumption`, `KeyAssumption`,
`EngineAssumption`, `TableAssumption`, `CommandAssumption`, `UserDictAssumption`,
`ReadAssumption`, `UserWordFileAssumption`, `CandidateListAssumption`,
`PanelLinkAssumption`, `PromptBoundsAssumption`, `PromptDataAssumption`,
`AutoPhraseAssumption`, `ToolbarAssumption`, `KeysAssumption`, `QuotesAssumption`,
`StopsAssumption`, `WubiLookupAssumption`); TLC evaluates each on its instance.

**Only model-checked.** The liveness properties
(`PanelReachesEngine`, `WindowGoesAway`, `PromptGoesAway`, `KeyboardLetsGo`) and everything
with ENABLED are out of the prover's reach.

## 6. Abstractions

- Key bindings and enabled shortcuts are the defaults. In Session width is half and the
  virtual keyboard closed; Punctuation has both. At least one engine is configured, once.
- Candidates are pairs of a text and a full code; conversions of texts
  (simplified/traditional, special candidates, hints) are left out.
- A write of the panel completes, and a file is read whole; the editor's deleted section is not edited by hand
  (`UserWordFile`). The other files the editor can open are not modelled.
- The main table stays the same while AutoPhrase runs; in WubiLookup it changes under the
  phrases, whose own codes are constants there.
- WubiLookup leaves open the order among automatic phrases of one code. Words are numbered
  by their place in the table (`Place`) and in the user's file (`Line`); the limit of a
  query is assumed not to be less than the words of one code, as tables of the code's
  limit of 1000 satisfy.
- Of the history Punctuation keeps which characters are digits, PhrasePrompts which are
  Chinese. A digit the application wrote, as one of the keypad, is unknown to the rule for
  stops, and `StopsFollowDigits` says nothing of it. The Chinese form of `{` is the ASCII one, as in the code's table (`Plain`).
- Of punctuation Session has what the composition sees: the first candidate is pushed
  out and the mark follows.
- PanelLink sends the page after each key, whether it was taken or not, as the frontends do;
  pages reach the window as a whole. It has no prompts, and so not the early
  return of an update while one is open (`freewb.cpp:594-597`). Which signals fcitx4 and ibus cause differs only in
  `SilentReset`.

## 7. What is not modelled, and why

OpenCC and template conversions (`chttrans`, `special`): stateless and unit-tested; their
switch is one of Toolbar's. The panel's other windows: layout and painting. Parsing of
settings, key names, log and sound: input and output only. The conversion tool: runs
alone to its end; the rules it reads are in PhraseCode. Marshalling of D-Bus and the three
frontends' glue: external. Vendored code and data.

Measured in lines, most of the repository is of the last kind: SQLite, spdlog and
SimpleIni (`utils/sqlite3.c` alone is more than half), a generated table of 21 000
lines (`panel/wbpy.cpp`), a list of key symbols, and Qt code that lays windows out.
None of it holds state of the input method. Of the program's own logic - `core`,
`engine`, and the parts of the panel that keep state - the modules cover all handlers
but those named here and in `PROJECT.json`.

## 8. Plan

Written: CandidateOps, CandidateList and PanelLink with PanelLinkProofs, Session with
SessionProofs, UserDict with Lexicon, UserWordFile and WubiLookup with UserDictProofs,
AutoPhrase, PhraseCode, PhrasePrompts, Toolbar and Punctuation with their proofs. Every
safety invariant and action property that a run checks is proved. What is left is to widen
the parts listed as partly modelled.

Runs stay few: one passing run for each machine, and one for each finding.
