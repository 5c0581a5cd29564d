----------------------------- MODULE Punctuation -----------------------------
(***************************************************************************)
(* What a key that is no letter of a code becomes: marks (punc.cpp), full  *)
(* width (charwidth.cpp) and the virtual keyboard (virtualkeyboard.cpp),   *)
(* with the composition they find and the history they look back into.     *)
(*                                                                         *)
(* A glyph is [key, form]: the mark or character, and how it is written:   *)
(* "ascii" or its wide form "full"; "left" and "right", the ends of a pair *)
(* of Chinese marks; "mark", a single symbol of its own; "han".            *)
(***************************************************************************)
EXTENDS Integers, FiniteSets, Sequences, SequencesExt

CONSTANTS
  Quotes,      \* keys that are both ends of a pair: " and '
  Openers,     \* keys that open a pair: ( [ { <
  Plain,       \* those whose Chinese form is the ASCII one: {
  Closers,     \* keys that close one: ) ] } >
  OpenerOf,    \* Closers -> Openers
  Stops,       \* , . ;
  Others,      \* the other symbol keys
  Backslash,   \* one of Others, which full width keeps
  Space,
  Customized,  \* keys to which customMark_ gives a symbol
  VkMapped,    \* keys to which the virtual keyboard's mode gives a symbol
  Candidates,  \* texts that may be the first candidate
  MaxRecords   \* bound: characters kept in the history, kMaxRecord there

PairKeys == Quotes \cup Openers \cup Closers
MarkKeys == PairKeys \cup Stops \cup Others \cup {Space}

ASSUME KeysAssumption ==
  /\ OpenerOf \in [Closers -> Openers] /\ Plain \subseteq Openers /\ Backslash \in Others
  /\ Customized \subseteq MarkKeys \ {Space} /\ VkMapped \subseteq MarkKeys \cup {"digit", "letter", "capital"}
  /\ MaxRecords \in Nat \ {0}

\* A key is of one kind, and no candidate has a quote.
Glyph == UNION {ToSet(c) : c \in Candidates}

ASSUME QuotesAssumption ==
  /\ Quotes \cap (Openers \cup Closers \cup Stops \cup Others
                   \cup {Space, "digit", "letter", "keypad", "symbol"}) = {}
  /\ Openers \cap Closers = {}
  /\ Candidates \subseteq Seq(Glyph)
  /\ \A g \in Glyph : g = [key |-> g.key, form |-> g.form] /\ g.key \notin Quotes

ASSUME StopsAssumption ==
  Stops \cap (Openers \cup Others \cup {Space, "digit", "letter", "keypad", "symbol"}) = {}

VARIABLES
  chinese,    \* Punc::chinesePuncEnabled_
  full,       \* CharWidth::available_
  english,    \* the engine is engine:en
  vk,         \* the virtual keyboard is open
  opts,       \* [pair, half, space]: puncAutoPairEnabled_, autoHalfMarkAfterNum_,
              \* spaceFullWhenCharHalf_
  open,       \* lastPuncStack_
  composing,  \* the first candidate of the composition, <<>> if there is none
  history,    \* committedTexts_, of which only the digits are told apart here
  typed,      \* history: what was committed in front of the caret, so far as
              \* the application wrote nothing there itself
  lone,       \* history: the quotes written an odd number of times
  wrote       \* history: what the last step put into the text

switches == <<chinese, full, english, vk, opts>>
text == <<history, typed, lone>>
vars == <<switches, open, composing, text, wrote>>

-----------------------------------------------------------------------------
(* Glyphs and texts. *)

Ascii(k) == [key |-> k, form |-> "ascii"]
Digit    == [key |-> "digit", form |-> "ascii"]
Letter   == [key |-> "letter", form |-> "ascii"]
Keypad   == [key |-> "keypad", form |-> "ascii"]
Symbol   == [key |-> "symbol", form |-> "mark"]

\* fullWidthIfEnabled()
Widened(g) ==
  IF g.form = "ascii" /\ (full \/ (opts.space /\ g.key = Space))
  THEN [g EXCEPT !.form = "full"] ELSE g

\* convertString()
Wide(string) == [i \in 1 .. Len(string) |-> Widened(string[i])]

\* splitUtf8Chars() and the oldest dropped, as isDigitChar() sees each of them.
Kinds(string) == [i \in 1 .. Len(string) |-> string[i].key = "digit"]
Recorded(records, string) ==
  LET all == records \o Kinds(string)
  IN  IF Len(all) <= MaxRecords THEN all ELSE SubSeq(all, Len(all) - MaxRecords + 1, Len(all))

\* isDigitChar(committedText(1)), of either width.
AfterDigit == history # <<>> /\ Last(history)

\* What VkLayouts finds for the key, in front of all others.
Mapped(k) == vk /\ k \in VkMapped

\* effectiveChinesePunc()
ChineseNow == chinese /\ ~english

Init ==
  /\ chinese \in BOOLEAN /\ full = FALSE /\ english = FALSE /\ vk = FALSE
  /\ opts \in [pair : BOOLEAN, half : BOOLEAN, space : BOOLEAN]
  /\ open = {} /\ composing = <<>> /\ history = <<>> /\ typed = <<>>
  /\ lone = {} /\ wrote = <<>>

-----------------------------------------------------------------------------
(* Punc::convert: what comes before the composition, what comes after it,  *)
(* and the quotes that are open then.                                      *)

Push(before, after, quotes) == [before |-> before, after |-> after, open |-> quotes]

End(k, form) == <<[key |-> k, form |-> IF ChineseNow /\ k \notin Plain THEN form ELSE "ascii"]>>

\* Marks are paired: both ends are pushed, around the composition.
Whole(k) ==
  IF k \in Closers THEN Push(<<>>, End(OpenerOf[k], "right"), open \ {k})
  ELSE Push(End(k, "left"), End(k, "right"), open \ {k})

\* They are not: a quote is the other end of the last one of its key.
Alone(k) ==
  CASE k \in open    -> Push(<<>>, End(k, "right"), open \ {k})
    [] k \in Quotes \ open -> Push(<<>>, End(k, "left"), open \cup {k})
    [] k \in Openers -> Push(<<>>, End(k, "left"), open)
    [] k \in Closers -> Push(<<>>, End(OpenerOf[k], "right"), open)

Literal(k) ==
  \/ k = Backslash /\ full
  \/ ChineseNow /\ opts.half /\ AfterDigit /\ k \in Stops

Convert(k) ==
  IF Literal(k) THEN Push(<<>>, <<Ascii(k)>>, open)
  ELSE IF ChineseNow /\ k \in Customized THEN Push(<<>>, <<[key |-> k, form |-> "mark"]>>, open)
  ELSE IF k \in PairKeys THEN IF opts.pair THEN Whole(k) ELSE Alone(k)
  ELSE IF k = Space /\ ~full /\ ~opts.space THEN Push(<<>>, <<>>, open)
  ELSE Push(<<>>, <<Ascii(k)>>, open)

-----------------------------------------------------------------------------
(* Keys that commit. *)

\* A quote that is written changes sides, a whole pair leaves it closed.
Lone(string) ==
  LET Times(q) == Cardinality({i \in 1 .. Len(string) : string[i].key = q /\ string[i].form # "mark"})
  IN  {q \in Quotes : Times(q) = (IF q \in lone THEN 0 ELSE 1)}

Written(string) ==
  /\ history' = Recorded(history, string)
  /\ typed' = Recorded(typed, string)
  /\ lone' = Lone(string)
  /\ wrote' = string
  /\ composing' = <<>>

\* Mutant of Commit: the text goes out as it is.
MutCommit(string) == Written(string)

\* Committer::commit(), which ends the composition whatever the text is.
Commit(string) == Written(Wide(string))

\* A key the engine does not take: the application writes it.
Passed(g) ==
  /\ wrote' = <<g>> /\ typed' = <<>>
  /\ UNCHANGED <<history, lone, composing>>

\* Mutant of MarkKey: the mark is committed alone, the composition is lost.
MutMarkKey(k) ==
  /\ ~Mapped(k)
  /\ LET push == Convert(k)
         string == push.before \o push.after
     IN  /\ open' = push.open
         /\ IF string = <<>> THEN Passed(Ascii(k)) ELSE Commit(string)
  /\ UNCHANGED switches

\* Punc::processKey() of a mark, and of a mark that is the guide character of
\* temporary English or Pinyin pressed again (nothing is composed then).  A
\* space over a composition comes here with Shift only; without, it is a Pick.
MarkKey(k) ==
  /\ ~Mapped(k)
  /\ LET push == Convert(k)
     IN  /\ open' = push.open
         /\ IF push.before \o push.after = <<>> THEN Passed(Ascii(k))
            ELSE Commit(push.before \o composing \o push.after)
  /\ UNCHANGED switches

\* A digit of the main row with nothing composed is committed in either width.
DigitKey ==
  /\ composing = <<>> /\ ~Mapped("digit")
  /\ Commit(<<Digit>>)
  /\ UNCHANGED <<switches, open>>

\* A letter the engine does not take: any of them under English, else a capital
\* or the z.  CharWidth commits it at full width, but over a composition, which
\* stays as it is, no handler does.
LetterKey(k) ==
  /\ ~Mapped(k)
  /\ IF full /\ composing = <<>> THEN Commit(<<Letter>>) ELSE Passed(Letter)
  /\ UNCHANGED <<switches, open>>

\* A key that no handler takes in either width, over a composition or not: a
\* digit or an operator of the keypad, or a digit that is typed with Shift.
KeypadKey ==
  /\ Passed(Keypad)
  /\ UNCHANGED <<switches, open>>

\* VirtualKeyboard::processKey(), in front of the engines: a composition is
\* given up without a word.
VkKey ==
  /\ vk /\ VkMapped # {}
  /\ Commit(<<Symbol>>)
  /\ UNCHANGED <<switches, open>>

\* The first candidate is picked, by key or by click.
Pick ==
  /\ composing # <<>>
  /\ Commit(composing)
  /\ UNCHANGED <<switches, open>>

\* Return writes the code, not the candidate.
ReturnKey ==
  /\ composing # <<>>
  /\ Commit(<<Letter>>)
  /\ UNCHANGED <<switches, open>>

-----------------------------------------------------------------------------
(* Keys that do not commit. *)

Compose ==
  /\ ~english /\ ~Mapped("letter") /\ composing = <<>>
  /\ composing' \in Candidates
  /\ wrote' = <<>>
  /\ UNCHANGED <<switches, open, text>>

\* Dropped(records): without its last, if there is one.
Dropped(records) == IF records = <<>> THEN records ELSE Front(records)

\* Mutant of BackSpace: the history keeps what was taken back.
MutBackSpace ==
  /\ IF composing # <<>>
     THEN composing' = <<>> /\ UNCHANGED <<history, typed>>
     ELSE typed' = Dropped(typed) /\ UNCHANGED <<history, composing>>
  /\ wrote' = <<>>
  /\ UNCHANGED <<switches, open, lone>>

BackSpace ==
  /\ IF composing # <<>>
     THEN composing' = <<>> /\ UNCHANGED <<history, typed>>
     ELSE history' = Dropped(history) /\ typed' = Dropped(typed) /\ UNCHANGED composing
  /\ wrote' = <<>>
  /\ UNCHANGED <<switches, open, lone>>

\* Another place in the text, or another window.
AppEdits ==
  /\ typed' = <<>> /\ wrote' = <<>>
  /\ UNCHANGED <<switches, open, composing, history, lone>>

\* Mutant of Reset: the open quotes are kept.
MutReset ==
  /\ composing' = <<>> /\ lone' = {} /\ wrote' = <<>>
  /\ UNCHANGED <<switches, open, history, typed>>

\* Freewb::reset(): Esc, or the focus is lost.
Reset ==
  /\ composing' = <<>> /\ open' = {} /\ lone' = {} /\ wrote' = <<>>
  /\ UNCHANGED <<switches, history, typed>>

-----------------------------------------------------------------------------
(* Switches: shortcuts, clicks on the toolbar and reloads (Toolbar).       *)

SwitchPunc  == chinese' = ~chinese /\ UNCHANGED <<full, english, vk, opts, composing>>
SwitchWidth == full' = ~full /\ UNCHANGED <<chinese, english, vk, opts, composing>>
SwitchMode  == english' = ~english /\ composing' = <<>> /\ UNCHANGED <<chinese, full, vk, opts>>
SwitchVk    == vk' = ~vk /\ UNCHANGED <<chinese, full, english, opts, composing>>

\* toggleAutoPair(), and loadSettings() of Punc and CharWidth.
SwitchOptions ==
  /\ opts' \in [pair : BOOLEAN, half : BOOLEAN, space : BOOLEAN]
  /\ UNCHANGED <<chinese, full, english, vk, composing>>

Switch ==
  /\ SwitchPunc \/ SwitchWidth \/ SwitchMode \/ SwitchVk \/ SwitchOptions
  /\ wrote' = <<>>
  /\ UNCHANGED <<open, text>>

Next ==
  \/ \E k \in MarkKeys : MarkKey(k)
  \/ \E k \in {"letter", "capital"} : LetterKey(k)
  \/ DigitKey \/ KeypadKey \/ VkKey \/ Pick \/ ReturnKey
  \/ Compose \/ BackSpace \/ AppEdits \/ Reset
  \/ Switch

Spec == Init /\ [][Next]_vars

-----------------------------------------------------------------------------
Writes == wrote' # <<>>

Half(string) == \E i \in 1 .. Len(string) : string[i].form = "ascii"

\* At full width the engine commits nothing of half width: not a digit, a
\* letter, a space or a backslash, and not what is in a candidate, though five
\* handlers may take the key.  The application writes such a text itself only
\* for a key of the keypad and for a letter typed over a composition, and then
\* neither the composition nor the history changes.
HalfOnlyPassed ==
  [][Writes /\ full /\ Half(wrote') =>
       /\ wrote' = <<Keypad>> \/ (wrote' = <<Letter>> /\ composing # <<>>)
       /\ UNCHANGED <<composing, history>>]_vars

\* With nothing composed a stop is half width under Chinese punctuation just
\* after a committed digit, of either width, and only there: the history goes
\* back as far as it must, and BackSpace takes the digits back with the text.
\* Digits that the application wrote are not known to the rule, nor here.
StopsFollowDigits ==
  [][Writes /\ ChineseNow /\ opts.half /\ composing = <<>> /\ typed # <<>>
       /\ Last(wrote').key \in Stops \cap Customized
     => (Last(wrote').form # "mark") = Last(typed)]_vars

\* A quote closes one that was written before: since the last reset, and since
\* the last whole pair, the quotes of a key take turns, whatever the
\* punctuation, the pairing and the engine were switched to in between.
QuotesTakeTurns ==
  [][\A q \in Quotes : Writes /\ ~opts.pair =>
       /\ Last(wrote') = [key |-> q, form |-> "right"] => q \in lone
       /\ Last(wrote') = [key |-> q, form |-> "left"] => q \notin lone]_vars

Opens(string) == string # <<>> /\ string[1].form = "left"

\* What was composed is not lost when something is written: it stays, or it goes
\* out with what is written, in front of a mark or between the two ends of a
\* pair, and an opening mark never comes without its other end when marks are
\* paired; but for Return, which writes the code, and for the virtual keyboard.
\* A candidate may begin with an opening mark of its own.
MarksHoldTheComposition ==
  [][Writes =>
       /\ opts.pair /\ Opens(wrote') /\ ~Opens(composing) =>
            Last(wrote') = [wrote'[1] EXCEPT !.form = "right"]
       /\ composing \notin {<<>>, composing'} /\ ~vk /\ wrote' # Wide(<<Letter>>) =>
            \E i \in 1 .. Len(wrote') - Len(composing) + 1 :
              SubSeq(wrote', i, i + Len(composing) - 1) = Wide(composing)]_vars

\* punc.cpp:136 names the rule "half-width marks automatically after a number":
\* under Chinese punctuation a stop of half width has a digit in front of it.
HalfStopsFollowDigits ==
  [][Writes /\ ChineseNow /\ typed # <<>>
       /\ Last(wrote').key \in Stops \cap Customized /\ Last(wrote').form # "mark"
     => IF Len(wrote') > 1 THEN wrote'[Len(wrote') - 1].key = "digit" ELSE Last(typed)]_vars
=============================================================================
