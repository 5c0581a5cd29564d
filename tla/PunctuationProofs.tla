-------------------------- MODULE PunctuationProofs --------------------------
(* Proofs about Punctuation, for any keys, candidates and custom symbols.    *)
EXTENDS Punctuation, FiniteSetTheorems, SequenceTheorems, TLAPS

\* What the code keeps of the quotes is what the text shows of them, and the
\* candidate on the screen has none.
Inv ==
  /\ open \subseteq Quotes /\ lone = open
  /\ composing \in Seq(Glyph)

\* A glyph as any key or candidate writes it.
IsGlyph(g) == g = [key |-> g.key, form |-> g.form]

-----------------------------------------------------------------------------
(* Texts. *)

\* What is written is as long as what was meant, and of its forms only the
\* ASCII one changes.
LEMMA WideFacts ==
  ASSUME NEW S, NEW s \in Seq(S)
  PROVE  /\ Len(Wide(s)) = Len(s) /\ DOMAIN Wide(s) = 1 .. Len(s)
         /\ \A i \in 1 .. Len(s) : Wide(s)[i] = Widened(s[i])
<1> DEFINE n == Len(s)
<1>1. n \in Nat /\ Wide(s) = [i \in 1 .. n |-> Widened(s[i])]
  BY DEF Wide
<1> HIDE DEF n
<1>2. DOMAIN Wide(s) = 1 .. n /\ \A i \in 1 .. n : Wide(s)[i] = Widened(s[i])
  BY <1>1
<1> DEFINE T == {Widened(s[i]) : i \in 1 .. n}
<1>3. Wide(s) \in [1 .. n -> T]
  BY <1>1
<1> HIDE DEF T
<1>4. Wide(s) \in Seq(T)
  BY <1>1, <1>3, SeqDef
<1>5. Len(Wide(s)) = n
  BY <1>1, <1>2, <1>4, LenProperties
<1> QED BY <1>2, <1>5 DEF n

LEMMA WidenedFacts ==
  ASSUME NEW g, IsGlyph(g)
  PROVE  /\ Widened(g).key = g.key
         /\ Widened(g).form = g.form \/ (g.form = "ascii" /\ Widened(g).form = "full")
         /\ full => Widened(g).form # "ascii"
BY DEF Widened, IsGlyph

\* A text without a quote leaves the quotes as they are.
LEMMA NoQuote ==
  ASSUME NEW s, lone \subseteq Quotes,
         \A i \in 1 .. Len(s) : s[i].key \notin Quotes \/ s[i].form = "mark"
  PROVE  Lone(s) = lone
<1> DEFINE Places(q) == {i \in 1 .. Len(s) : s[i].key = q /\ s[i].form # "mark"}
<1>1. \A q \in Quotes : Places(q) = {}
  OBVIOUS
<1>2. Lone(s) = {q \in Quotes : Cardinality(Places(q)) = (IF q \in lone THEN 0 ELSE 1)}
  BY DEF Lone
<1> HIDE DEF Places
<1>3. \A q \in Quotes : Cardinality(Places(q)) = 0
  BY <1>1, FS_EmptySet
<1> QED BY <1>2, <1>3

\* A quote at the end of one without changes sides, ...
LEMMA OneQuote ==
  ASSUME NEW s, Len(s) \in Nat \ {0}, lone \subseteq Quotes,
         s[Len(s)].key \in Quotes, s[Len(s)].form # "mark",
         \A i \in 1 .. Len(s) : i # Len(s) => s[i].key \notin Quotes
  PROVE  LET k == s[Len(s)].key
         IN  Lone(s) = IF k \in lone THEN lone \ {k} ELSE lone \cup {k}
<1> DEFINE Places(q) == {i \in 1 .. Len(s) : s[i].key = q /\ s[i].form # "mark"}
           k == s[Len(s)].key
<1>1. Places(k) = {Len(s)}
  OBVIOUS
<1>2. \A q \in Quotes : q # k => Places(q) = {}
  OBVIOUS
<1>3. Cardinality({Len(s)}) = 1
  BY FS_Singleton
<1>4. Lone(s) = {q \in Quotes : Cardinality(Places(q)) = (IF q \in lone THEN 0 ELSE 1)}
  BY DEF Lone
<1> HIDE DEF Places
<1>5. Cardinality(Places(k)) = 1 /\ \A q \in Quotes : q # k => Cardinality(Places(q)) = 0
  BY <1>1, <1>2, <1>3, FS_EmptySet
<1>6. \A q \in Quotes : q \in Lone(s) <=> IF q = k THEN q \notin lone ELSE q \in lone
  BY <1>4, <1>5
<1>7. Lone(s) \subseteq Quotes /\ k \in Quotes
  BY <1>4
<1> HIDE DEF k
<1>8. Lone(s) = IF k \in lone THEN lone \ {k} ELSE lone \cup {k}
  BY <1>6, <1>7
<1> QED BY <1>8 DEF k

\* ... and a pair of it around one leaves it closed.
LEMMA TwoQuotes ==
  ASSUME NEW s, Len(s) \in Nat, Len(s) > 1, lone \subseteq Quotes,
         s[1].key \in Quotes, s[Len(s)].key = s[1].key, s[1].form # "mark", s[Len(s)].form # "mark",
         \A i \in 1 .. Len(s) : i \notin {1, Len(s)} => s[i].key \notin Quotes
  PROVE  Lone(s) = lone \ {s[1].key}
<1> DEFINE Places(q) == {i \in 1 .. Len(s) : s[i].key = q /\ s[i].form # "mark"}
           k == s[1].key
<1>1. Places(k) = {1, Len(s)}
  OBVIOUS
<1>2. \A q \in Quotes : q # k => Places(q) = {}
  OBVIOUS
<1>3. Cardinality({1, Len(s)}) = 2
  <2> DEFINE n == Len(s)
  <2>1. n \notin {1}
    OBVIOUS
  <2> HIDE DEF n
  <2>2. IsFiniteSet({1}) /\ Cardinality({1}) = 1
    BY FS_Singleton
  <2>3. Cardinality({1} \cup {n}) = Cardinality({1}) + 1
    BY <2>1, <2>2, FS_AddElement
  <2>4. {1} \cup {n} = {1, n}
    OBVIOUS
  <2>5. Cardinality({1, n}) = Cardinality({1}) + 1
    BY <2>3, <2>4, Zenon
  <2>6. Cardinality({1, n}) = 2
    BY <2>2, <2>5
  <2> QED BY <2>6 DEF n
<1>4. Lone(s) = {q \in Quotes : Cardinality(Places(q)) = (IF q \in lone THEN 0 ELSE 1)}
  BY DEF Lone
<1> HIDE DEF Places
<1>5. Cardinality(Places(k)) = 2 /\ \A q \in Quotes : q # k => Cardinality(Places(q)) = 0
  BY <1>1, <1>2, <1>3, FS_EmptySet
<1>6. \A q \in Quotes : q \in Lone(s) <=> q # k /\ q \in lone
  BY <1>4, <1>5
<1>7. Lone(s) \subseteq Quotes
  BY <1>4
<1> HIDE DEF k
<1>8. Lone(s) = lone \ {k}
  BY <1>6, <1>7
<1> QED BY <1>8 DEF k

-----------------------------------------------------------------------------
(* What the keys write, by what becomes of the quotes. *)

\* A glyph that is no quote, or stands for one as a symbol.
Plainly(g) == IsGlyph(g) /\ (g.key \in Quotes => g.form = "mark")

Forgets ==
  \/ UNCHANGED <<history, typed>>
  \/ history' = history /\ typed' = <<>>
  \/ history' = Dropped(history) /\ typed' = Dropped(typed)

Nothing ==
  /\ wrote' = <<>> /\ composing' \in Seq(Glyph) /\ Forgets
  /\ (UNCHANGED <<open, lone>>) \/ (open' = {} /\ lone' = {})

\* By the application.
Outside ==
  /\ \E g : /\ IsGlyph(g) /\ g.form = "ascii" /\ g.key \notin Stops /\ wrote' = <<g>>
            /\ full => g = Keypad \/ (g = Letter /\ composing # <<>>)
  /\ history' = history /\ typed' = <<>>
  /\ UNCHANGED <<open, lone, composing>>

Picked == composing # <<>> /\ Commit(composing) /\ open' = open

\* A stop with a symbol of its own is written with it but after a digit.
StopForm(g) ==
  ChineseNow /\ opts.half /\ g.key \in Stops \cap Customized => (g.form = "mark" <=> ~AfterDigit)

Single ==
  \E c, g :
    /\ c \in {<<>>, composing} /\ (c = composing \/ vk \/ g = Letter)
    /\ Plainly(g) /\ StopForm(g) /\ (opts.pair => g.form # "left")
    /\ Commit(c \o <<g>>) /\ open' = open

Between(g, c, h) == <<g>> \o c \o <<h>>

Pair ==
  /\ opts.pair
  /\ \E g, h : /\ IsGlyph(g) /\ IsGlyph(h) /\ g.key = h.key /\ g.key \notin Stops
               /\ g.form = "left" => h.form = "right"
               /\ g.form \in {"ascii", "left"} /\ h.form \in {"ascii", "right"}
               /\ Commit(Between(g, composing, h)) /\ open' = open \ {g.key}

Closing ==
  /\ ~opts.pair
  /\ \E g : /\ IsGlyph(g) /\ g.key \in open /\ g.form \in {"ascii", "right"}
            /\ Commit(composing \o <<g>>) /\ open' = open \ {g.key}

Opening ==
  /\ ~opts.pair
  /\ \E g : /\ IsGlyph(g) /\ g.key \in Quotes \ open /\ g.form \in {"ascii", "left"}
            /\ Commit(composing \o <<g>>) /\ open' = open \cup {g.key}

LEMMA MarkShapes ==
  ASSUME Inv, NEW k \in MarkKeys, MarkKey(k)
  PROVE  Outside \/ Single \/ Pair \/ Closing \/ Opening
<1> DEFINE push == Convert(k)
<1>1. /\ open' = push.open
      /\ IF push.before \o push.after = <<>> THEN Passed(Ascii(k))
         ELSE Commit(push.before \o composing \o push.after)
  BY DEF MarkKey
<1>2. open \subseteq Quotes /\ composing \in Seq(Glyph)
  BY DEF Inv
<1>3. ASSUME NEW g, NEW o, push = Push(<<>>, <<g>>, o)
      PROVE  Commit(composing \o <<g>>) /\ open' = o
  <2>1. push.before = <<>> /\ push.after = <<g>> /\ push.open = o
    BY <1>3 DEF Push
  <2>2. <<>> \o composing = composing /\ <<>> \o <<g>> # <<>>
    BY <1>2
  <2> HIDE DEF push
  <2> QED BY <1>1, <2>1, <2>2
<1>4. CASE Literal(k)
  <2>1. Plainly(Ascii(k)) /\ Ascii(k).form = "ascii"
    BY <1>4, QuotesAssumption, KeysAssumption DEF Literal, Plainly, Ascii, IsGlyph
  <2>3. StopForm(Ascii(k))
    BY <1>4, StopsAssumption, KeysAssumption DEF Literal, StopForm, Ascii
  <2>2. push = Push(<<>>, <<Ascii(k)>>, open)
    BY <1>4 DEF Convert
  <2> QED BY <1>3, <2>1, <2>2, <2>3 DEF Single
<1>5. CASE ~Literal(k) /\ ChineseNow /\ k \in Customized
  <2> DEFINE g == [key |-> k, form |-> "mark"]
  <2>1. Plainly(g) /\ g.form # "left"
    BY DEF Plainly, IsGlyph
  <2>3. StopForm(g)
    BY <1>5 DEF Literal, StopForm
  <2>2. push = Push(<<>>, <<g>>, open)
    BY <1>5 DEF Convert
  <2> HIDE DEF g
  <2> QED BY <1>3, <2>1, <2>2, <2>3 DEF Single
<1>6. CASE ~Literal(k) /\ ~(ChineseNow /\ k \in Customized) /\ k \in PairKeys
  <2>1. ASSUME NEW c, NEW form
        PROVE  \E g : /\ End(c, form) = <<g>> /\ IsGlyph(g) /\ g.key = c
                      /\ g.form = IF ChineseNow /\ c \notin Plain THEN form ELSE "ascii"
    <3> DEFINE g == [key |-> c, form |-> IF ChineseNow /\ c \notin Plain THEN form ELSE "ascii"]
    <3>1. /\ End(c, form) = <<g>> /\ IsGlyph(g) /\ g.key = c
          /\ g.form = IF ChineseNow /\ c \notin Plain THEN form ELSE "ascii"
      BY DEF End, IsGlyph
    <3> QED BY <3>1
  <2>2. CASE k \in Closers
    <3>1. OpenerOf[k] \notin Quotes /\ k \notin Quotes /\ OpenerOf[k] \notin Stops
      BY <2>2, KeysAssumption, QuotesAssumption, StopsAssumption
    <3>2. PICK g : /\ End(OpenerOf[k], "right") = <<g>> /\ IsGlyph(g) /\ g.key = OpenerOf[k]
                   /\ g.form \in {"ascii", "right"}
      BY <2>1
    <3>3. open \ {k} = open /\ k \notin open /\ k \notin Quotes \ open
      BY <1>2, <3>1
    <3>4. push = Push(<<>>, <<g>>, open)
      <4>1. k \notin Openers
        BY <2>2, QuotesAssumption
      <4>2. Alone(k) = Push(<<>>, End(OpenerOf[k], "right"), open)
        BY <2>2, <3>3, <4>1 DEF Alone
      <4>3. Whole(k) = Push(<<>>, End(OpenerOf[k], "right"), open)
        BY <2>2, <3>3 DEF Whole
      <4> QED BY <1>6, <3>2, <4>2, <4>3 DEF Convert
    <3> QED BY <1>3, <3>1, <3>2, <3>4 DEF Single, Plainly, StopForm
  <2>3. CASE k \notin Closers /\ opts.pair
    <3>1. PICK g : /\ End(k, "left") = <<g>> /\ IsGlyph(g) /\ g.key = k
                   /\ g.form = IF ChineseNow /\ k \notin Plain THEN "left" ELSE "ascii"
      BY <2>1
    <3>2. PICK h : /\ End(k, "right") = <<h>> /\ IsGlyph(h) /\ h.key = k
                   /\ h.form = IF ChineseNow /\ k \notin Plain THEN "right" ELSE "ascii"
      BY <2>1
    <3>3. push = Push(<<g>>, <<h>>, open \ {k})
      BY <1>6, <2>3, <3>1, <3>2 DEF Convert, Whole
    <3>4. push.before = <<g>> /\ push.after = <<h>> /\ push.open = open \ {k}
      BY <3>3 DEF Push
    <3>5. <<g>> \o <<h>> # <<>>
      OBVIOUS
    <3> HIDE DEF push
    <3>6. Commit(Between(g, composing, h)) /\ open' = open \ {g.key}
      BY <1>1, <3>1, <3>4, <3>5 DEF Between
    <3>7. k \notin Stops
      BY <1>6, <2>3, QuotesAssumption, StopsAssumption DEF PairKeys
    <3> QED BY <2>3, <3>1, <3>2, <3>6, <3>7 DEF Pair
  <2>4. CASE k \notin Closers /\ ~opts.pair /\ k \in open
    <3>1. PICK g : /\ End(k, "right") = <<g>> /\ IsGlyph(g) /\ g.key = k
                   /\ g.form \in {"ascii", "right"}
      BY <2>1
    <3>2. push = Push(<<>>, <<g>>, open \ {k})
      <4>1. k \notin Openers /\ k \notin Quotes \ open
        BY <1>2, <2>4, QuotesAssumption
      <4>2. Alone(k) = Push(<<>>, End(k, "right"), open \ {k})
        BY <2>4, <4>1 DEF Alone
      <4> QED BY <1>6, <2>4, <3>1, <4>2 DEF Convert
    <3>3. Commit(composing \o <<g>>) /\ open' = open \ {k}
      BY <1>3, <3>2
    <3> QED BY <2>4, <3>1, <3>3 DEF Closing
  <2>5. CASE k \notin Closers /\ ~opts.pair /\ k \in Quotes \ open
    <3>1. PICK g : /\ End(k, "left") = <<g>> /\ IsGlyph(g) /\ g.key = k
                   /\ g.form \in {"ascii", "left"}
      BY <2>1
    <3>2. push = Push(<<>>, <<g>>, open \cup {k})
      <4>1. k \notin Openers /\ k \notin open
        BY <2>5, QuotesAssumption
      <4>2. Alone(k) = Push(<<>>, End(k, "left"), open \cup {k})
        BY <2>5, <4>1 DEF Alone
      <4> QED BY <1>6, <2>5, <3>1, <4>2 DEF Convert
    <3>3. Commit(composing \o <<g>>) /\ open' = open \cup {k}
      BY <1>3, <3>2
    <3> QED BY <2>5, <3>1, <3>3 DEF Opening
  <2>6. CASE k \in Openers \ Closers /\ ~opts.pair
    <3>1. k \notin Quotes /\ k \notin open /\ k \notin Stops
      BY <1>2, <2>6, QuotesAssumption, StopsAssumption
    <3>2. PICK g : End(k, "left") = <<g>> /\ IsGlyph(g) /\ g.key = k
      BY <2>1
    <3>3. push = Push(<<>>, <<g>>, open)
      <4>1. Alone(k) = Push(<<>>, End(k, "left"), open)
        BY <2>6, <3>1 DEF Alone
      <4> QED BY <1>6, <2>6, <3>2, <4>1 DEF Convert
    <3>4. Commit(composing \o <<g>>) /\ open' = open
      BY <1>3, <3>3
    <3> QED BY <2>6, <3>1, <3>2, <3>4 DEF Single, Plainly, StopForm
  <2> QED BY <1>6, <2>2, <2>3, <2>4, <2>5, <2>6 DEF PairKeys
<1>7. CASE ~Literal(k) /\ ~(ChineseNow /\ k \in Customized) /\ k \notin PairKeys
  <2>1. CASE k = Space /\ ~full /\ ~opts.space
    <3>1. push = Push(<<>>, <<>>, open)
      BY <1>7, <2>1 DEF Convert
    <3>2. push.before = <<>> /\ push.after = <<>> /\ push.open = open
      BY <3>1 DEF Push
    <3>3. <<>> \o <<>> = <<>>
      OBVIOUS
    <3> HIDE DEF push
    <3>4. Passed(Ascii(k)) /\ open' = open
      BY <1>1, <3>2, <3>3
    <3>5. IsGlyph(Ascii(k)) /\ Ascii(k).form = "ascii" /\ Ascii(k).key \notin Stops
      BY <2>1, StopsAssumption DEF IsGlyph, Ascii
    <3> QED BY <2>1, <3>4, <3>5 DEF Outside, Passed
  <2>2. CASE ~(k = Space /\ ~full /\ ~opts.space)
    <3>1. push = Push(<<>>, <<Ascii(k)>>, open)
      BY <1>7, <2>2 DEF Convert
    <3>2. Plainly(Ascii(k))
      BY <1>7, QuotesAssumption DEF Plainly, IsGlyph, Ascii, PairKeys
    <3>3. StopForm(Ascii(k)) /\ Ascii(k).form = "ascii"
      BY <1>7 DEF StopForm, Ascii
    <3> QED BY <1>3, <3>1, <3>2, <3>3 DEF Single
  <2> QED BY <2>1, <2>2
<1> QED BY <1>4, <1>5, <1>6, <1>7
LEMMA StepShapes ==
  ASSUME Inv, Next
  PROVE  Nothing \/ Outside \/ Picked \/ Single \/ Pair \/ Closing \/ Opening
<1>1. composing \in Seq(Glyph) /\ <<>> \in Seq(Glyph)
  BY EmptySeq DEF Inv
<1>2. ASSUME NEW g \in {Digit, Letter, Symbol}, Commit(<<g>>), open' = open,
             composing = <<>> \/ vk \/ g = Letter
      PROVE  Single
  <2>1. <<>> \o <<g>> = <<g>>
    OBVIOUS
  <2>2. Plainly(g) /\ g.key \notin Stops /\ g.form # "left"
    BY QuotesAssumption, StopsAssumption DEF Plainly, IsGlyph, Digit, Letter, Symbol
  <2> QED BY <1>2, <2>1, <2>2 DEF Single, StopForm
<1>4. CASE \E k \in MarkKeys : MarkKey(k)
  BY <1>4, MarkShapes
<1>5. CASE DigitKey
  BY <1>2, <1>5 DEF DigitKey
<1>3. ASSUME NEW g \in {Letter, Keypad}, Passed(g), open' = open,
             full => g = Keypad \/ composing # <<>>
      PROVE  Outside
  <2>1. IsGlyph(g) /\ g.form = "ascii" /\ g.key \notin Stops
    BY StopsAssumption DEF IsGlyph, Letter, Keypad
  <2> QED BY <1>3, <2>1 DEF Passed, Outside
<1>6. CASE \E k \in {"letter", "capital"} : LetterKey(k)
  <2>1. CASE full /\ composing = <<>> /\ Commit(<<Letter>>)
    BY <1>2, <1>6, <2>1 DEF LetterKey
  <2>2. CASE ~(full /\ composing = <<>>) /\ Passed(Letter)
    BY <1>3, <1>6, <2>2 DEF LetterKey
  <2> QED BY <1>6, <2>1, <2>2 DEF LetterKey
<1>15. CASE KeypadKey
  BY <1>3, <1>15 DEF KeypadKey
<1>7. CASE VkKey
  BY <1>2, <1>7 DEF VkKey
<1>8. CASE Pick
  BY <1>8 DEF Pick, Picked
<1>9. CASE ReturnKey
  BY <1>2, <1>9 DEF ReturnKey
<1>10. CASE Compose
  BY <1>10, QuotesAssumption DEF Compose, Nothing, Forgets, text
<1>11. CASE BackSpace
  BY <1>1, <1>11 DEF BackSpace, Nothing, Forgets
<1>12. CASE AppEdits
  BY <1>1, <1>12 DEF AppEdits, Nothing, Forgets
<1>13. CASE Reset
  BY <1>1, <1>13 DEF Reset, Nothing, Forgets
<1>14. CASE Switch
  BY <1>1, <1>14 DEF Switch, SwitchPunc, SwitchWidth, SwitchMode, SwitchVk, SwitchOptions, Nothing, Forgets, text
<1> QED
  BY <1>4, <1>5, <1>6, <1>7, <1>8, <1>9, <1>10, <1>11, <1>12, <1>13, <1>14, <1>15 DEF Next

-----------------------------------------------------------------------------
(* What is written, as a sequence. *)

\* A glyph behind a text of the candidate's kind.
LEMMA Behind ==
  ASSUME NEW c \in Seq(Glyph), NEW g, IsGlyph(g), NEW s, s = c \o <<g>>
  PROVE  LET w == Wide(s)
         IN  /\ Len(w) \in Nat \ {0} /\ w[Len(w)] = Widened(g)
             /\ \A i \in 1 .. Len(w) : i # Len(w) => w[i].key \notin Quotes
             /\ full => \A i \in 1 .. Len(w) : w[i].form # "ascii"
<1> DEFINE S == Glyph \cup {g}
           w == Wide(s)
           n == Len(s)
<1>1. /\ s \in Seq(S) /\ n = Len(c) + 1 /\ n \in Nat \ {0} /\ s[n] = g
      /\ \A i \in 1 .. n : i # n => s[i] = c[i] /\ i \in 1 .. Len(c)
  <2>1. c \in Seq(S)
    <3>1. Glyph \subseteq S
      OBVIOUS
    <3> HIDE DEF S
    <3> QED BY <3>1
  <2>2. s \in Seq(S)
    <3>1. g \in S
      OBVIOUS
    <3> HIDE DEF S
    <3> QED BY <2>1, <3>1
  <2> HIDE DEF S
  <2> QED BY <2>2
<1>2. \A i \in 1 .. Len(c) : IsGlyph(c[i]) /\ c[i].key \notin Quotes
  BY ElementOfSeq, QuotesAssumption DEF IsGlyph
<1>3. \A i \in 1 .. n : IsGlyph(s[i]) /\ (i # n => s[i].key \notin Quotes)
  <2> HIDE DEF n
  <2> QED BY <1>1, <1>2
<1> HIDE DEF S
<1>4. Len(w) = n /\ \A i \in 1 .. n : w[i] = Widened(s[i])
  BY <1>1, WideFacts
<1>5. \A i \in 1 .. n : /\ Widened(s[i]).key = s[i].key
                        /\ full => Widened(s[i]).form # "ascii"
  BY <1>3, WidenedFacts
<1> HIDE DEF w, n
<1>6. Len(w) \in Nat \ {0} /\ w[Len(w)] = Widened(g)
  BY <1>1, <1>4
<1>7. \A i \in 1 .. n : w[i].key = s[i].key /\ (full => w[i].form # "ascii")
  BY <1>4, <1>5
<1>8. /\ \A i \in 1 .. Len(w) : i # Len(w) => w[i].key \notin Quotes
      /\ full => \A i \in 1 .. Len(w) : w[i].form # "ascii"
  BY <1>3, <1>4, <1>7
<1> QED BY <1>6, <1>8 DEF w

\* One on either side of it.
LEMMA Around ==
  ASSUME NEW c \in Seq(Glyph), NEW g, IsGlyph(g), NEW h, IsGlyph(h)
  PROVE  LET w == Wide(Between(g, c, h))
         IN  /\ Len(w) \in Nat /\ Len(w) > 1 /\ w[1] = Widened(g) /\ w[Len(w)] = Widened(h)
             /\ \A i \in 1 .. Len(w) : i \notin {1, Len(w)} => w[i].key \notin Quotes
             /\ full => \A i \in 1 .. Len(w) : w[i].form # "ascii"
<1> DEFINE S == Glyph \cup {g, h}
           s == Between(g, c, h)
           w == Wide(s)
           n == Len(s)
<1>1. /\ s \in Seq(S) /\ n = Len(c) + 2 /\ n \in Nat /\ n > 1 /\ s[1] = g /\ s[n] = h
      /\ \A i \in 1 .. n : i \notin {1, n} => s[i] = c[i - 1] /\ i - 1 \in 1 .. Len(c)
  <2>1. c \in Seq(S)
    <3>1. Glyph \subseteq S
      OBVIOUS
    <3> HIDE DEF S
    <3> QED BY <3>1
  <2>2. s \in Seq(S)
    <3>1. g \in S /\ h \in S
      OBVIOUS
    <3> HIDE DEF S
    <3> QED BY <2>1, <3>1 DEF Between
  <2> HIDE DEF S
  <2> QED BY <2>2 DEF Between
<1>2. \A i \in 1 .. Len(c) : IsGlyph(c[i]) /\ c[i].key \notin Quotes
  BY ElementOfSeq, QuotesAssumption DEF IsGlyph
<1>3. \A i \in 1 .. n : IsGlyph(s[i]) /\ (i \notin {1, n} => s[i].key \notin Quotes)
  <2> HIDE DEF n
  <2> QED BY <1>1, <1>2
<1> HIDE DEF S, s
<1>4. Len(w) = n /\ \A i \in 1 .. n : w[i] = Widened(s[i])
  BY <1>1, WideFacts
<1>5. \A i \in 1 .. n : /\ Widened(s[i]).key = s[i].key
                        /\ full => Widened(s[i]).form # "ascii"
  BY <1>3, WidenedFacts
<1> HIDE DEF w, n
<1>6. Len(w) \in Nat /\ Len(w) > 1 /\ w[1] = Widened(g) /\ w[Len(w)] = Widened(h)
  BY <1>1, <1>4
<1>7. \A i \in 1 .. n : w[i].key = s[i].key /\ (full => w[i].form # "ascii")
  BY <1>4, <1>5
<1>8. /\ \A i \in 1 .. Len(w) : i \notin {1, Len(w)} => w[i].key \notin Quotes
      /\ full => \A i \in 1 .. Len(w) : w[i].form # "ascii"
  BY <1>3, <1>4, <1>7
<1> QED BY <1>6, <1>8 DEF w, s

\* The candidate alone.
LEMMA Bare ==
  ASSUME NEW c \in Seq(Glyph)
  PROVE  LET w == Wide(c)
         IN  /\ Len(w) = Len(c)
             /\ \A i \in 1 .. Len(w) : w[i].key \notin Quotes
             /\ full => \A i \in 1 .. Len(w) : w[i].form # "ascii"
<1>1. \A i \in 1 .. Len(c) : IsGlyph(c[i]) /\ c[i].key \notin Quotes
  BY ElementOfSeq, QuotesAssumption DEF IsGlyph
<1>2. Len(Wide(c)) = Len(c) /\ \A i \in 1 .. Len(c) : Wide(c)[i] = Widened(c[i])
  BY WideFacts
<1>3. \A i \in 1 .. Len(c) : /\ Widened(c[i]).key = c[i].key
                             /\ full => Widened(c[i]).form # "ascii"
  BY <1>1, WidenedFacts
<1> QED BY <1>1, <1>2, <1>3

-----------------------------------------------------------------------------
(* The invariant. *)

LEMMA StepKeepsInv == Inv /\ [Next]_vars => Inv'
<1> SUFFICES ASSUME Inv, [Next]_vars PROVE Inv'
  OBVIOUS
<1>0. open \subseteq Quotes /\ lone \subseteq Quotes /\ lone = open /\ composing \in Seq(Glyph) /\ <<>> \in Seq(Glyph)
  BY EmptySeq DEF Inv
<1>1. CASE Nothing
  BY <1>0, <1>1 DEF Nothing, Inv
<1>2. CASE Outside
  BY <1>0, <1>2 DEF Outside, Inv
<1>3. CASE Picked
  <2> DEFINE w == Wide(composing)
  <2>1. \A i \in 1 .. Len(w) : w[i].key \notin Quotes
    BY <1>0, Bare
  <2>2. lone' = Lone(w) /\ open' = open /\ composing' = <<>>
    BY <1>3 DEF Picked, Commit, Written
  <2> HIDE DEF w
  <2>3. Lone(w) = lone
    BY <1>0, <2>1, NoQuote
  <2> QED BY <1>0, <2>2, <2>3 DEF Inv
<1>4. CASE Single
  <2>1. PICK c, g : c \in {<<>>, composing} /\ Plainly(g) /\ Commit(c \o <<g>>) /\ open' = open
    BY <1>4 DEF Single
  <2> DEFINE w == Wide(c \o <<g>>)
  <2>2. /\ Len(w) \in Nat \ {0} /\ w[Len(w)] = Widened(g)
        /\ \A i \in 1 .. Len(w) : i # Len(w) => w[i].key \notin Quotes
    BY <1>0, <2>1, Behind DEF Plainly
  <2>3. Widened(g).key \notin Quotes \/ Widened(g).form = "mark"
    BY <2>1, WidenedFacts DEF Plainly
  <2>4. lone' = Lone(w) /\ open' = open /\ composing' = <<>>
    BY <2>1 DEF Commit, Written
  <2> HIDE DEF w
  <2>5. Lone(w) = lone
    BY <1>0, <2>2, <2>3, NoQuote
  <2> QED BY <1>0, <2>4, <2>5 DEF Inv
<1>5. CASE Pair
  <2>1. PICK g, h : /\ IsGlyph(g) /\ IsGlyph(h) /\ g.key = h.key
                    /\ g.form \in {"ascii", "left"} /\ h.form \in {"ascii", "right"}
                    /\ Commit(Between(g, composing, h)) /\ open' = open \ {g.key}
    BY <1>5 DEF Pair
  <2> DEFINE w == Wide(Between(g, composing, h))
  <2>2. /\ Len(w) \in Nat /\ Len(w) > 1 /\ w[1] = Widened(g) /\ w[Len(w)] = Widened(h)
        /\ \A i \in 1 .. Len(w) : i \notin {1, Len(w)} => w[i].key \notin Quotes
    BY <1>0, <2>1, Around
  <2>3. /\ Widened(g).key = g.key /\ Widened(h).key = g.key
        /\ Widened(g).form # "mark" /\ Widened(h).form # "mark"
    BY <2>1, WidenedFacts
  <2>4. lone' = Lone(w) /\ open' = open \ {g.key} /\ composing' = <<>>
    BY <2>1 DEF Commit, Written
  <2> HIDE DEF w
  <2>5. CASE g.key \in Quotes
    <3>1. Lone(w) = lone \ {w[1].key}
      BY <1>0, <2>2, <2>3, <2>5, TwoQuotes
    <3> QED BY <1>0, <2>2, <2>3, <2>4, <3>1 DEF Inv
  <2>6. CASE g.key \notin Quotes
    <3>1. Lone(w) = lone
      BY <1>0, <2>2, <2>3, <2>6, NoQuote
    <3> QED BY <1>0, <2>4, <2>6, <3>1 DEF Inv
  <2> QED BY <2>5, <2>6
<1>6. ASSUME NEW g, IsGlyph(g), g.key \in Quotes, g.form # "mark", Commit(composing \o <<g>>),
             open' = IF g.key \in open THEN open \ {g.key} ELSE open \cup {g.key}
      PROVE  Inv'
  <2> DEFINE w == Wide(composing \o <<g>>)
  <2>1. /\ Len(w) \in Nat \ {0} /\ w[Len(w)] = Widened(g)
        /\ \A i \in 1 .. Len(w) : i # Len(w) => w[i].key \notin Quotes
    BY <1>0, <1>6, Behind
  <2>2. Widened(g).key = g.key /\ Widened(g).form # "mark"
    BY <1>6, WidenedFacts
  <2>3. lone' = Lone(w) /\ composing' = <<>>
    BY <1>6 DEF Commit, Written
  <2> HIDE DEF w
  <2>4. Lone(w) = IF g.key \in lone THEN lone \ {g.key} ELSE lone \cup {g.key}
    BY <1>0, <1>6, <2>1, <2>2, OneQuote
  <2> QED BY <1>0, <1>6, <2>3, <2>4 DEF Inv
<1>7. CASE Closing
  BY <1>0, <1>6, <1>7 DEF Closing
<1>8. CASE Opening
  BY <1>0, <1>6, <1>8 DEF Opening
<1>9. CASE UNCHANGED vars
  BY <1>9 DEF vars, text, Inv
<1> QED BY <1>1, <1>2, <1>3, <1>4, <1>5, <1>7, <1>8, <1>9, StepShapes

LEMMA PunctuationInvariant == Spec => []Inv
<1>1. Init => Inv
  BY EmptySeq DEF Init, Inv
<1> QED BY <1>1, StepKeepsInv, PTL DEF Spec

-----------------------------------------------------------------------------
(* What follows from it. *)

LEMMA TurnsStep ==
  ASSUME Inv, Next, NEW q \in Quotes, Writes, ~opts.pair
  PROVE  /\ Last(wrote') = [key |-> q, form |-> "right"] => q \in lone
         /\ Last(wrote') = [key |-> q, form |-> "left"] => q \notin lone
<1>0. lone = open /\ composing \in Seq(Glyph) /\ <<>> \in Seq(Glyph)
  BY EmptySeq DEF Inv
<1> DEFINE Taken == /\ Last(wrote') = [key |-> q, form |-> "right"] => q \in lone
                    /\ Last(wrote') = [key |-> q, form |-> "left"] => q \notin lone
<1>1. CASE Nothing
  BY <1>1 DEF Nothing, Writes
<1>2. CASE Outside
  <2>1. PICK g : g.form = "ascii" /\ wrote' = <<g>>
    BY <1>2 DEF Outside
  <2>2. Last(wrote') = g
    BY <2>1 DEF Last
  <2> QED BY <2>1, <2>2
<1>3. CASE Picked
  <2>1. wrote' = Wide(composing) /\ composing # <<>>
    BY <1>3 DEF Picked, Commit, Written
  <2>2. Len(composing) \in Nat \ {0}
    BY <1>0, <2>1, EmptySeq
  <2>3. Last(wrote').key \notin Quotes
    BY <1>0, <2>1, <2>2, Bare DEF Last
  <2> QED BY <2>3
<1>4. ASSUME NEW c \in Seq(Glyph), NEW g, IsGlyph(g), Commit(c \o <<g>>)
      PROVE  /\ Last(wrote').key = g.key
             /\ Last(wrote').form = g.form \/ Last(wrote').form = "full"
  <2>1. wrote' = Wide(c \o <<g>>)
    BY <1>4 DEF Commit, Written
  <2>2. Last(wrote') = Widened(g)
    BY <1>4, <2>1, Behind DEF Last
  <2> QED BY <1>4, <2>2, WidenedFacts
<1>5. CASE Single
  <2>1. PICK c, g : c \in {<<>>, composing} /\ Plainly(g) /\ Commit(c \o <<g>>)
    BY <1>5 DEF Single
  <2>2. /\ Last(wrote').key = g.key
        /\ Last(wrote').form = g.form \/ Last(wrote').form = "full"
    BY <1>0, <1>4, <2>1 DEF Plainly
  <2> QED BY <2>1, <2>2 DEF Plainly
<1>6. CASE Pair
  BY <1>6 DEF Pair
<1>7. CASE Closing
  <2>1. PICK g : /\ IsGlyph(g) /\ g.key \in open /\ g.form \in {"ascii", "right"}
                 /\ Commit(composing \o <<g>>)
    BY <1>7 DEF Closing
  <2> QED BY <1>0, <1>4, <2>1
<1>8. CASE Opening
  <2>1. PICK g : /\ IsGlyph(g) /\ g.key \in Quotes \ open /\ g.form \in {"ascii", "left"}
                 /\ Commit(composing \o <<g>>)
    BY <1>8 DEF Opening
  <2> QED BY <1>0, <1>4, <2>1
<1> QED BY <1>1, <1>2, <1>3, <1>5, <1>6, <1>7, <1>8, StepShapes

\* The quotes of a key take turns, whatever is switched, composed, pushed out,
\* written by the application or typed in pairs in between.
THEOREM QuotesCorrect == Spec => QuotesTakeTurns
<1> DEFINE A == \A q \in Quotes : Writes /\ ~opts.pair =>
                  /\ Last(wrote') = [key |-> q, form |-> "right"] => q \in lone
                  /\ Last(wrote') = [key |-> q, form |-> "left"] => q \notin lone
<1>1. Inv /\ [Next]_vars => [A]_vars
  BY TurnsStep
<1> HIDE DEF A
<1>2. Spec => [][A]_vars
  BY <1>1, PunctuationInvariant, PTL DEF Spec
<1> QED BY <1>2 DEF A, QuotesTakeTurns

\* At full width what is committed is full width.
LEMMA WidthStep ==
  ASSUME Inv, Next, Writes, full, Half(wrote')
  PROVE  Outside
<1>0. composing \in Seq(Glyph) /\ <<>> \in Seq(Glyph)
  BY EmptySeq DEF Inv
<1>1. CASE Nothing
  BY <1>1 DEF Nothing, Writes
<1>2. CASE Picked
  <2>1. wrote' = Wide(composing)
    BY <1>2 DEF Picked, Commit, Written
  <2> QED BY <1>0, <2>1, Bare DEF Half
<1>3. ASSUME NEW c \in Seq(Glyph), NEW g, IsGlyph(g), Commit(c \o <<g>>)
      PROVE  FALSE
  <2>1. wrote' = Wide(c \o <<g>>)
    BY <1>3 DEF Commit, Written
  <2> QED BY <1>3, <2>1, Behind DEF Half
<1>4. CASE Single
  BY <1>0, <1>3, <1>4 DEF Single, Plainly
<1>5. CASE Closing \/ Opening
  BY <1>0, <1>3, <1>5 DEF Closing, Opening
<1>6. CASE Pair
  <2>1. PICK g, h : IsGlyph(g) /\ IsGlyph(h) /\ Commit(Between(g, composing, h))
    BY <1>6 DEF Pair
  <2>2. wrote' = Wide(Between(g, composing, h))
    BY <2>1 DEF Commit, Written
  <2> QED BY <1>0, <2>1, <2>2, Around DEF Half
<1> QED BY <1>1, <1>2, <1>4, <1>5, <1>6, StepShapes

\* Whichever handler takes a key at full width, and whatever it pushes out, is
\* written in full width; what the application writes of half width is a key of
\* the keypad or a letter over a composition, and leaves composition and history.
THEOREM WidthCorrect == Spec => HalfOnlyPassed
<1> DEFINE A == Writes /\ full /\ Half(wrote') =>
                  /\ wrote' = <<Keypad>> \/ (wrote' = <<Letter>> /\ composing # <<>>)
                  /\ UNCHANGED <<composing, history>>
<1>1. Inv /\ [Next]_vars => [A]_vars
  <2> SUFFICES ASSUME Inv, Next, Writes, full, Half(wrote')
               PROVE  /\ wrote' = <<Keypad>> \/ (wrote' = <<Letter>> /\ composing # <<>>)
                      /\ UNCHANGED <<composing, history>>
    OBVIOUS
  <2>1. Outside
    BY WidthStep
  <2> QED BY <2>1 DEF Outside
<1> HIDE DEF A
<1>2. Spec => [][A]_vars
  BY <1>1, PunctuationInvariant, PTL DEF Spec
<1> QED BY <1>2 DEF A, HalfOnlyPassed

-----------------------------------------------------------------------------
(* Stops after digits.  What was typed in front of the caret is the end of   *)
(* what the history holds, so a digit there is one the rule sees.            *)

EndOf(t, h) ==
  /\ t \in Seq(BOOLEAN) /\ h \in Seq(BOOLEAN) /\ Len(t) <= Len(h)
  /\ \A i \in 0 .. Len(t) - 1 : h[Len(h) - i] = t[Len(t) - i]

Past == EndOf(typed, history)

\* What is recorded is the end of what was there and of the new text, as long as
\* the limit lets it be.
LEMMA RecordedFacts ==
  ASSUME NEW r \in Seq(BOOLEAN), NEW S, NEW s \in Seq(S)
  PROVE  LET n == Len(r) + Len(s)
             R == Recorded(r, s)
         IN  /\ R \in Seq(BOOLEAN) /\ Len(R) = (IF n <= MaxRecords THEN n ELSE MaxRecords)
             /\ \A i \in 0 .. Len(R) - 1 :
                  R[Len(R) - i] = IF i < Len(s) THEN s[Len(s) - i].key = "digit"
                                  ELSE r[Len(r) - (i - Len(s))]
<1> DEFINE k == Kinds(s)
           all == r \o k
           m == Len(all) - MaxRecords + 1
<1>1. Len(s) \in Nat /\ Len(r) \in Nat /\ MaxRecords \in Nat \ {0}
  BY KeysAssumption
<1>2. k \in Seq(BOOLEAN) /\ Len(k) = Len(s) /\ \A i \in 1 .. Len(s) : k[i] = (s[i].key = "digit")
  <2>1. k \in [1 .. Len(s) -> BOOLEAN]
    BY DEF Kinds
  <2>2. k \in Seq(BOOLEAN)
    BY <1>1, <2>1, SeqDef
  <2>3. DOMAIN k = 1 .. Len(s)
    BY <2>1
  <2>4. Len(k) = Len(s)
    BY <1>1, <2>2, <2>3, LenProperties
  <2> QED BY <2>2, <2>4 DEF Kinds
<1> HIDE DEF k
<1>3. /\ all \in Seq(BOOLEAN) /\ Len(all) = Len(r) + Len(s)
      /\ \A i \in 1 .. Len(r) + Len(s) : all[i] = IF i <= Len(r) THEN r[i] ELSE k[i - Len(r)]
  <2>1. /\ r \o k \in Seq(BOOLEAN) /\ Len(r \o k) = Len(r) + Len(k)
        /\ \A i \in 1 .. Len(r) + Len(k) : (r \o k)[i] = IF i <= Len(r) THEN r[i] ELSE k[i - Len(r)]
    BY <1>2, ConcatProperties
  <2>2. Len(k) = Len(s)
    BY <1>2
  <2> QED BY <2>1, <2>2, Zenon
<1> HIDE DEF all
<1>4. \A i \in 0 .. Len(all) - 1 :
        all[Len(all) - i] = IF i < Len(s) THEN s[Len(s) - i].key = "digit" ELSE r[Len(r) - (i - Len(s))]
  <2> SUFFICES ASSUME NEW i \in 0 .. Len(all) - 1
               PROVE  all[Len(all) - i] = IF i < Len(s) THEN s[Len(s) - i].key = "digit"
                                          ELSE r[Len(r) - (i - Len(s))]
    OBVIOUS
  <2>1. CASE i < Len(s)
    <3>1. /\ Len(all) - i \in 1 .. Len(r) + Len(s) /\ ~(Len(all) - i <= Len(r))
          /\ (Len(all) - i) - Len(r) = Len(s) - i /\ Len(s) - i \in 1 .. Len(s)
      BY <1>1, <1>3, <2>1
    <3>2. all[Len(all) - i] = k[Len(s) - i]
      BY <1>3, <3>1
    <3> QED BY <1>2, <2>1, <3>1, <3>2
  <2>2. CASE ~(i < Len(s))
    <3>1. /\ Len(all) - i \in 1 .. Len(r) + Len(s) /\ Len(all) - i <= Len(r)
          /\ Len(all) - i = Len(r) - (i - Len(s))
      BY <1>1, <1>3, <2>2
    <3> QED BY <1>3, <2>2, <3>1
  <2> QED BY <2>1, <2>2
<1>5. Recorded(r, s) = IF Len(all) <= MaxRecords THEN all ELSE SubSeq(all, m, Len(all))
  BY DEF Recorded, all, k
<1>6. CASE Len(all) <= MaxRecords
  BY <1>3, <1>4, <1>5, <1>6
<1>7. CASE ~(Len(all) <= MaxRecords)
  <2> DEFINE R == SubSeq(all, m, Len(all))
  <2>1. m \in Int /\ Len(all) \in Int /\ m \in 1 .. Len(all) /\ Len(all) - m + 1 = MaxRecords
    BY <1>1, <1>3, <1>7
  <2>2. \A i \in m .. Len(all) : all[i] \in BOOLEAN
    BY <1>3, <2>1, ElementOfSeq
  <2> HIDE DEF m
  <2>3. /\ R \in Seq(BOOLEAN) /\ Len(R) = MaxRecords
        /\ \A i \in 1 .. MaxRecords : R[i] = all[m + i - 1]
    BY <1>1, <2>1, <2>2, SubSeqProperties
  <2> HIDE DEF R
  <2>4. \A i \in 0 .. MaxRecords - 1 : R[MaxRecords - i] = all[Len(all) - i]
    <3> SUFFICES ASSUME NEW i \in 0 .. MaxRecords - 1 PROVE R[MaxRecords - i] = all[Len(all) - i]
      OBVIOUS
    <3>1. MaxRecords - i \in 1 .. MaxRecords /\ m + (MaxRecords - i) - 1 = Len(all) - i
      BY <1>1, <2>1
    <3> QED BY <2>3, <3>1
  <2>5. MaxRecords - 1 <= Len(all) - 1
    BY <1>1, <1>3, <1>7
  <2>6. Recorded(r, s) = R
    BY <1>5, <1>7 DEF R
  <2>7. \A i \in 0 .. MaxRecords - 1 :
          R[MaxRecords - i] = IF i < Len(s) THEN s[Len(s) - i].key = "digit" ELSE r[Len(r) - (i - Len(s))]
    <3>1. \A i \in 0 .. MaxRecords - 1 : i \in 0 .. Len(all) - 1
      BY <1>1, <1>3, <2>5
    <3> QED BY <1>4, <2>4, <3>1
  <2>8. /\ Len(R) = (IF Len(r) + Len(s) <= MaxRecords THEN Len(r) + Len(s) ELSE MaxRecords)
        /\ \A i \in 0 .. Len(R) - 1 :
             R[Len(R) - i] = IF i < Len(s) THEN s[Len(s) - i].key = "digit"
                             ELSE r[Len(r) - (i - Len(s))]
    BY <1>3, <1>7, <2>3, <2>7
  <2> QED BY <2>3, <2>6, <2>8
<1> QED BY <1>6, <1>7

LEMMA RecordedEnds ==
  ASSUME NEW t, NEW h, EndOf(t, h), NEW S, NEW s \in Seq(S)
  PROVE  EndOf(Recorded(t, s), Recorded(h, s))
<1> DEFINE T == Recorded(t, s)
           H == Recorded(h, s)
           a == Len(t) + Len(s)
           b == Len(h) + Len(s)
<1>1. t \in Seq(BOOLEAN) /\ h \in Seq(BOOLEAN) /\ Len(t) \in Nat /\ Len(h) \in Nat /\ Len(s) \in Nat
      /\ Len(t) <= Len(h) /\ MaxRecords \in Nat
  BY KeysAssumption DEF EndOf
<1>2. /\ T \in Seq(BOOLEAN) /\ Len(T) = (IF a <= MaxRecords THEN a ELSE MaxRecords)
      /\ \A i \in 0 .. Len(T) - 1 :
           T[Len(T) - i] = IF i < Len(s) THEN s[Len(s) - i].key = "digit" ELSE t[Len(t) - (i - Len(s))]
  BY <1>1, RecordedFacts
<1>3. /\ H \in Seq(BOOLEAN) /\ Len(H) = (IF b <= MaxRecords THEN b ELSE MaxRecords)
      /\ \A i \in 0 .. Len(H) - 1 :
           H[Len(H) - i] = IF i < Len(s) THEN s[Len(s) - i].key = "digit" ELSE h[Len(h) - (i - Len(s))]
  BY <1>1, RecordedFacts
<1> HIDE DEF T, H
<1>4. Len(T) <= Len(H) /\ Len(T) \in Nat /\ Len(T) <= a
  BY <1>1, <1>2, <1>3
<1>5. ASSUME NEW i \in 0 .. Len(T) - 1 PROVE H[Len(H) - i] = T[Len(T) - i]
  <2>1. i \in 0 .. Len(H) - 1
    BY <1>3, <1>4
  <2>2. CASE i < Len(s)
    BY <1>2, <1>3, <2>1, <2>2
  <2>3. CASE ~(i < Len(s))
    <3>1. i - Len(s) \in 0 .. Len(t) - 1
      BY <1>1, <1>4, <2>3
    <3>2. h[Len(h) - (i - Len(s))] = t[Len(t) - (i - Len(s))]
      BY <3>1 DEF EndOf
    <3> QED BY <1>2, <1>3, <2>1, <2>3, <3>2
  <2> QED BY <2>2, <2>3
<1>6. EndOf(T, H)
  BY <1>2, <1>3, <1>4, <1>5 DEF EndOf
<1> QED BY <1>6 DEF T, H

LEMMA DroppedEnds ==
  ASSUME NEW t, NEW h, EndOf(t, h) PROVE EndOf(Dropped(t), Dropped(h))
<1>1. t \in Seq(BOOLEAN) /\ h \in Seq(BOOLEAN) /\ Len(t) \in Nat /\ Len(h) \in Nat /\ Len(t) <= Len(h)
  BY DEF EndOf
<1>2. ASSUME NEW r \in Seq(BOOLEAN), r # <<>>
      PROVE  /\ Dropped(r) \in Seq(BOOLEAN) /\ Len(Dropped(r)) = Len(r) - 1
             /\ \A i \in 1 .. Len(r) - 1 : Dropped(r)[i] = r[i]
  <2> DEFINE n == Len(r) - 1
  <2>1. n \in Nat /\ \A i \in 1 .. n : r[i] \in BOOLEAN
    BY <1>2, EmptySeq, ElementOfSeq
  <2>2. Dropped(r) = SubSeq(r, 1, n)
    BY <1>2 DEF Dropped, Front
  <2> HIDE DEF n
  <2>3. /\ SubSeq(r, 1, n) \in Seq(BOOLEAN) /\ Len(SubSeq(r, 1, n)) = n
        /\ \A i \in 1 .. n : SubSeq(r, 1, n)[i] = r[i]
    <3>1. n \in Int /\ 1 \in Int /\ n - 1 + 1 = n /\ \A i \in 1 .. n : 1 + i - 1 = i
      BY <2>1
    <3> QED BY <2>1, <3>1, SubSeqProperties
  <2> QED BY <2>2, <2>3 DEF n
<1>3. CASE t = <<>>
  <2>1. Dropped(t) = <<>> /\ Len(Dropped(t)) = 0 /\ Dropped(t) \in Seq(BOOLEAN)
    BY <1>3, EmptySeq DEF Dropped
  <2>2. Dropped(h) \in Seq(BOOLEAN) /\ Len(Dropped(h)) \in Nat
    BY <1>1, <1>2, EmptySeq DEF Dropped
  <2> QED BY <2>1, <2>2 DEF EndOf
<1>4. CASE t # <<>>
  <2>1. h # <<>> /\ Len(t) \in Nat \ {0} /\ Len(h) \in Nat \ {0}
    BY <1>1, <1>4, EmptySeq
  <2>2. /\ Dropped(t) \in Seq(BOOLEAN) /\ Len(Dropped(t)) = Len(t) - 1
        /\ \A i \in 1 .. Len(t) - 1 : Dropped(t)[i] = t[i]
    BY <1>1, <1>2, <1>4
  <2>3. /\ Dropped(h) \in Seq(BOOLEAN) /\ Len(Dropped(h)) = Len(h) - 1
        /\ \A i \in 1 .. Len(h) - 1 : Dropped(h)[i] = h[i]
    BY <1>1, <1>2, <2>1
  <2>4. ASSUME NEW i \in 0 .. Len(Dropped(t)) - 1
        PROVE  Dropped(h)[Len(Dropped(h)) - i] = Dropped(t)[Len(Dropped(t)) - i]
    <3>1. /\ i + 1 \in 0 .. Len(t) - 1
          /\ Len(Dropped(h)) - i \in 1 .. Len(h) - 1 /\ Len(Dropped(h)) - i = Len(h) - (i + 1)
          /\ Len(Dropped(t)) - i \in 1 .. Len(t) - 1 /\ Len(Dropped(t)) - i = Len(t) - (i + 1)
      BY <1>1, <2>1, <2>2, <2>3
    <3>2. h[Len(h) - (i + 1)] = t[Len(t) - (i + 1)]
      BY <3>1 DEF EndOf
    <3> QED BY <2>2, <2>3, <3>1, <3>2
  <2>5. Len(Dropped(t)) <= Len(Dropped(h))
    BY <1>1, <2>1, <2>2, <2>3
  <2> QED BY <2>2, <2>3, <2>4, <2>5 DEF EndOf
<1> QED BY <1>3, <1>4

LEMMA PastStep == Inv /\ Past /\ [Next]_vars => Past'
<1> SUFFICES ASSUME Inv, Past, [Next]_vars PROVE Past'
  OBVIOUS
<1>0. composing \in Seq(Glyph) /\ <<>> \in Seq(Glyph) /\ history \in Seq(BOOLEAN)
  BY EmptySeq DEF Inv, Past, EndOf
<1>1. ASSUME typed' = <<>>, history' = history PROVE Past'
  BY <1>0, <1>1, EmptySeq DEF Past, EndOf
<1>2. ASSUME NEW S, NEW s \in Seq(S), Commit(s) PROVE Past'
  <2> DEFINE T == {Widened(s[i]) : i \in 1 .. Len(s)}
             w == Wide(s)
  <2>1. w \in [1 .. Len(s) -> T] /\ Len(s) \in Nat
    BY DEF Wide
  <2> HIDE DEF T, w
  <2>2. w \in Seq(T)
    BY <2>1, SeqDef
  <2>3. history' = Recorded(history, w) /\ typed' = Recorded(typed, w)
    BY <1>2 DEF Commit, Written, w
  <2>4. EndOf(Recorded(typed, w), Recorded(history, w))
    BY <2>2, RecordedEnds DEF Past
  <2> QED BY <2>3, <2>4 DEF Past
<1>3. ASSUME NEW c \in Seq(Glyph), NEW g, Commit(c \o <<g>>) PROVE Past'
  <2> DEFINE S == Glyph \cup {g}
  <2>1. c \in Seq(S) /\ <<g>> \in Seq(S)
    <3>1. Glyph \subseteq S /\ g \in S
      OBVIOUS
    <3> HIDE DEF S
    <3> QED BY <3>1
  <2> HIDE DEF S
  <2>2. c \o <<g>> \in Seq(S)
    BY <2>1
  <2> QED BY <1>2, <1>3, <2>2
<1>4. CASE Nothing
  BY <1>1, <1>4, DroppedEnds DEF Nothing, Forgets, Past
<1>5. CASE Outside
  BY <1>1, <1>5 DEF Outside
<1>6. CASE Picked
  BY <1>0, <1>2, <1>6 DEF Picked
<1>7. CASE Single
  BY <1>0, <1>3, <1>7 DEF Single
<1>8. CASE Pair
  <2>1. PICK g, h : Commit(Between(g, composing, h))
    BY <1>8 DEF Pair
  <2> DEFINE S == Glyph \cup {g, h}
  <2>2. composing \in Seq(S) /\ <<g>> \in Seq(S) /\ <<h>> \in Seq(S)
    <3>1. Glyph \subseteq S /\ g \in S /\ h \in S
      OBVIOUS
    <3> HIDE DEF S
    <3> QED BY <1>0, <3>1
  <2> HIDE DEF S
  <2>3. Between(g, composing, h) \in Seq(S)
    BY <2>2 DEF Between
  <2> QED BY <1>2, <2>1, <2>3
<1>9. CASE Closing \/ Opening
  BY <1>0, <1>3, <1>9 DEF Closing, Opening
<1>10. CASE UNCHANGED vars
  BY <1>10 DEF vars, text, Past
<1> QED BY <1>4, <1>5, <1>6, <1>7, <1>8, <1>9, <1>10, StepShapes

LEMMA PastInvariant == Spec => []Past
<1>1. Init => Past
  BY EmptySeq DEF Init, Past, EndOf
<1> QED BY <1>1, PastStep, PunctuationInvariant, PTL DEF Spec

LEMMA StopsStep ==
  ASSUME Inv, Past, Next, Writes, ChineseNow, opts.half, composing = <<>>, typed # <<>>,
         Last(wrote').key \in Stops \cap Customized
  PROVE  (Last(wrote').form # "mark") = Last(typed)
<1>0. composing \in Seq(Glyph) /\ <<>> \in Seq(Glyph)
  BY EmptySeq DEF Inv
<1>1. AfterDigit = Last(typed) /\ AfterDigit \in BOOLEAN
  <2>1. /\ typed \in Seq(BOOLEAN) /\ history \in Seq(BOOLEAN)
        /\ Len(typed) \in Nat \ {0} /\ Len(history) \in Nat \ {0}
    BY EmptySeq DEF Past, EndOf
  <2>2. history[Len(history) - 0] = typed[Len(typed) - 0]
    <3>1. 0 \in 0 .. Len(typed) - 1
      BY <2>1
    <3> QED BY <3>1 DEF Past, EndOf
  <2>3. Len(history) - 0 = Len(history) /\ Len(typed) - 0 = Len(typed)
    BY <2>1
  <2>4. Last(history) = Last(typed) /\ Last(history) \in BOOLEAN
    <3>1. history[Len(history)] \in BOOLEAN
      BY <2>1, ElementOfSeq
    <3> QED BY <2>2, <2>3, <3>1 DEF Last
  <2>5. history # <<>>
    BY <2>1
  <2> QED BY <2>4, <2>5 DEF AfterDigit
<1>2. CASE Nothing
  BY <1>2 DEF Nothing, Writes
<1>3. CASE Outside
  <2>1. PICK g : g.key \notin Stops /\ wrote' = <<g>>
    BY <1>3 DEF Outside
  <2>2. Last(wrote') = g
    BY <2>1 DEF Last
  <2> QED BY <2>1, <2>2
<1>4. CASE Picked
  BY <1>4 DEF Picked
<1>5. CASE Single
  <2>1. PICK c, g : c \in {<<>>, composing} /\ Plainly(g) /\ StopForm(g) /\ Commit(c \o <<g>>)
    BY <1>5 DEF Single
  <2>2. wrote' = Wide(c \o <<g>>) /\ IsGlyph(g)
    BY <2>1 DEF Commit, Written, Plainly
  <2>3. Last(wrote') = Widened(g)
    BY <1>0, <2>1, <2>2, Behind DEF Last
  <2>4. Last(wrote').key = g.key /\ (Last(wrote').form = "mark" <=> g.form = "mark")
    BY <2>2, <2>3, WidenedFacts
  <2>5. g.form = "mark" <=> ~AfterDigit
    BY <2>1, <2>4 DEF StopForm
  <2> QED BY <1>1, <2>4, <2>5
<1>6. CASE Pair
  <2>1. PICK g, h : /\ IsGlyph(g) /\ IsGlyph(h) /\ g.key = h.key /\ g.key \notin Stops
                    /\ Commit(Between(g, composing, h))
    BY <1>6 DEF Pair
  <2>2. wrote' = Wide(Between(g, composing, h))
    BY <2>1 DEF Commit, Written
  <2>3. Last(wrote') = Widened(h)
    BY <1>0, <2>1, <2>2, Around DEF Last
  <2> QED BY <2>1, <2>3, WidenedFacts
<1>7. CASE Closing \/ Opening
  <2>1. PICK g : IsGlyph(g) /\ g.key \in Quotes /\ Commit(composing \o <<g>>)
    BY <1>7 DEF Closing, Opening, Inv
  <2>2. wrote' = Wide(composing \o <<g>>)
    BY <2>1 DEF Commit, Written
  <2>3. Last(wrote') = Widened(g)
    BY <1>0, <2>1, <2>2, Behind DEF Last
  <2> QED BY <2>1, <2>3, WidenedFacts, QuotesAssumption
<1> QED BY <1>2, <1>3, <1>4, <1>5, <1>6, <1>7, StepShapes

\* With nothing composed a stop is half width just after a digit in front of the
\* caret and only there, through BackSpace, the limit of the history and texts of
\* the application.
THEOREM StopsCorrect == Spec => StopsFollowDigits
<1> DEFINE A == Writes /\ ChineseNow /\ opts.half /\ composing = <<>> /\ typed # <<>>
                  /\ Last(wrote').key \in Stops \cap Customized
                => (Last(wrote').form # "mark") = Last(typed)
<1>1. Inv /\ Past /\ [Next]_vars => [A]_vars
  BY StopsStep
<1> HIDE DEF A
<1>2. Spec => [][A]_vars
  BY <1>1, PunctuationInvariant, PastInvariant, PTL DEF Spec
<1> QED BY <1>2 DEF A, StopsFollowDigits

-----------------------------------------------------------------------------
(* The composition.                                                          *)

Keeps(w) ==
  \E i \in 1 .. Len(w) - Len(composing) + 1 :
    SubSeq(w, i, i + Len(composing) - 1) = Wide(composing)

\* What is inside a text is inside what is written of it.
LEMMA Holds ==
  ASSUME NEW S, NEW s \in Seq(S), NEW T, composing \in Seq(T), NEW i \in Nat \ {0},
         i + Len(composing) - 1 <= Len(s),
         \A j \in 1 .. Len(composing) : s[i + j - 1] = composing[j]
  PROVE  Keeps(Wide(s))
<1> DEFINE n == Len(composing)
           w == Wide(s)
           c == Wide(composing)
           V == {Widened(composing[j]) : j \in 1 .. n}
           last == i + n - 1
<1>1. n \in Nat /\ last \in Int /\ i \in Int /\ Len(s) \in Nat
  OBVIOUS
<1>2. Len(w) = Len(s) /\ \A j \in 1 .. Len(s) : w[j] = Widened(s[j])
  BY WideFacts
<1>3. Len(c) = n /\ DOMAIN c = 1 .. n /\ \A j \in 1 .. n : c[j] = Widened(composing[j])
  BY WideFacts
<1>4. c \in Seq(V)
  <2>1. c \in [1 .. n -> V]
    BY DEF Wide
  <2> HIDE DEF c, n, V
  <2> QED BY <1>1, <2>1, SeqDef
<1>5. \A j \in 1 .. n : i + j - 1 \in 1 .. Len(s) /\ w[i + j - 1] = c[j]
  <2> SUFFICES ASSUME NEW j \in 1 .. n PROVE i + j - 1 \in 1 .. Len(s) /\ w[i + j - 1] = c[j]
    OBVIOUS
  <2>1. i + j - 1 \in 1 .. Len(s) /\ s[i + j - 1] = composing[j]
    BY <1>1
  <2>2. w[i + j - 1] = Widened(composing[j])
    BY <1>2, <2>1
  <2> QED BY <1>3, <2>1, <2>2
<1> HIDE DEF w, c
<1>6. \A j \in i .. last : w[j] \in V
  <2> SUFFICES ASSUME NEW j \in i .. last PROVE w[j] \in V
    OBVIOUS
  <2>1. j - i + 1 \in 1 .. n /\ i + (j - i + 1) - 1 = j
    BY <1>1
  <2> HIDE DEF n, V
  <2>2. w[j] = c[j - i + 1]
    BY <1>5, <2>1
  <2> QED BY <1>3, <1>4, <2>1, <2>2, ElementOfSeq
<1> HIDE DEF V
<1>7. n = last - i + 1 /\ (i <= last <=> n # 0)
  BY <1>1
<1> HIDE DEF last
<1>8. /\ SubSeq(w, i, last) \in Seq(V)
      /\ Len(SubSeq(w, i, last)) = (IF i <= last THEN last - i + 1 ELSE 0)
      /\ \A j \in 1 .. last - i + 1 : SubSeq(w, i, last)[j] = w[i + j - 1]
  BY <1>1, <1>6, SubSeqProperties
<1> HIDE DEF n
<1>9. SubSeq(w, i, last) = c
  <2> DEFINE u == SubSeq(w, i, last)
  <2>1. Len(u) = Len(c) /\ u \in Seq(V)
    BY <1>1, <1>3, <1>7, <1>8
  <2>2. \A j \in 1 .. Len(u) : u[j] = c[j]
    BY <1>3, <1>5, <1>7, <1>8, <2>1
  <2> HIDE DEF u
  <2>3. u = c
    BY <1>4, <2>1, <2>2, SeqEqual
  <2> QED BY <2>3 DEF u
<1>10. i \in 1 .. Len(w) - n + 1
  BY <1>1, <1>2 DEF n
<1> QED BY <1>9, <1>10 DEF Keeps, w, c, n, last

LEMMA MarksStep ==
  ASSUME Inv, Next, Writes
  PROVE  /\ opts.pair /\ Opens(wrote') /\ ~Opens(composing) =>
              Last(wrote') = [wrote'[1] EXCEPT !.form = "right"]
         /\ composing \notin {<<>>, composing'} /\ ~vk /\ wrote' # Wide(<<Letter>>) => Keeps(wrote')
<1>0. composing \in Seq(Glyph) /\ <<>> \in Seq(Glyph)
  BY EmptySeq DEF Inv
<1>1. ASSUME NEW g PROVE Widened(g).form = "left" => g.form = "left" /\ Widened(g) = g
  BY DEF Widened
<1>2. CASE Nothing
  BY <1>2 DEF Nothing, Writes
<1>3. CASE Outside
  BY <1>3 DEF Outside, Opens
<1>4. ASSUME NEW S, NEW s \in Seq(S), wrote' = Wide(s), composing # <<>>,
             Len(composing) <= Len(s), \A i \in 1 .. Len(composing) : s[i] = composing[i]
      PROVE  (Opens(wrote') => Opens(composing)) /\ Keeps(wrote')
  <2>1. Len(composing) \in Nat \ {0} /\ Len(s) \in Nat
    BY <1>0, <1>4, EmptySeq
  <2>2. Keeps(wrote')
    <3>1. /\ 1 \in Nat \ {0} /\ 1 + Len(composing) - 1 <= Len(s)
          /\ \A i \in 1 .. Len(composing) : s[1 + i - 1] = composing[i]
      BY <1>4, <2>1
    <3> QED BY <1>0, <1>4, <3>1, Holds
  <2>3. wrote'[1] = Widened(composing[1])
    BY <1>4, <2>1, WideFacts
  <2> QED BY <1>1, <1>4, <2>2, <2>3 DEF Opens
<1>5. ASSUME NEW c \in Seq(Glyph), NEW g
      PROVE  /\ c \o <<g>> \in Seq(Glyph \cup {g}) /\ Len(c) <= Len(c \o <<g>>)
             /\ \A i \in 1 .. Len(c) : (c \o <<g>>)[i] = c[i]
  <2> DEFINE S == Glyph \cup {g}
  <2>1. c \in Seq(S) /\ <<g>> \in Seq(S)
    <3>1. Glyph \subseteq S /\ g \in S
      OBVIOUS
    <3> HIDE DEF S
    <3> QED BY <3>1
  <2> HIDE DEF S
  <2>2. c \o <<g>> \in Seq(S) /\ Len(c) <= Len(c \o <<g>>) /\ \A i \in 1 .. Len(c) : (c \o <<g>>)[i] = c[i]
    BY <2>1
  <2> QED BY <2>2 DEF S
<1>6. CASE Picked
  <2>1. wrote' = Wide(composing) /\ composing # <<>>
    BY <1>6 DEF Picked, Commit, Written
  <2> QED BY <1>0, <1>4, <2>1
<1>7. CASE Single
  <2>1. PICK c, g : /\ c \in {<<>>, composing} /\ (c = composing \/ vk \/ g = Letter)
                    /\ (opts.pair => g.form # "left") /\ Commit(c \o <<g>>)
    BY <1>7 DEF Single
  <2>2. wrote' = Wide(c \o <<g>>)
    BY <2>1 DEF Commit, Written
  <2>3. CASE c = composing /\ composing # <<>>
    <3>1. (Opens(wrote') => Opens(composing)) /\ Keeps(wrote')
      BY <1>0, <1>4, <1>5, <2>2, <2>3
    <3> QED BY <3>1
  <2>4. CASE c = <<>>
    <3>1. <<>> \o <<g>> = <<g>>
      OBVIOUS
    <3>2. wrote' = Wide(<<g>>) /\ <<g>> \in Seq({g}) /\ Len(<<g>>) = 1 /\ <<g>>[1] = g
      BY <2>2, <2>4, <3>1
    <3>3. wrote'[1] = Widened(g)
      <4> DEFINE s == <<g>>
      <4>1. s \in Seq({g}) /\ 1 \in 1 .. Len(s) /\ s[1] = g /\ wrote' = Wide(s)
        BY <3>2
      <4> HIDE DEF s
      <4> QED BY <4>1, WideFacts
    <3>4. opts.pair => ~Opens(wrote')
      BY <1>1, <2>1, <3>3 DEF Opens
    <3> QED BY <2>1, <2>4, <3>2, <3>4
  <2> QED BY <2>1, <2>3, <2>4
<1>8. CASE Pair
  <2>1. PICK g, h : /\ IsGlyph(g) /\ IsGlyph(h) /\ g.key = h.key /\ (g.form = "left" => h.form = "right")
                    /\ Commit(Between(g, composing, h))
    BY <1>8 DEF Pair
  <2> DEFINE s == Between(g, composing, h)
             S == Glyph \cup {g, h}
  <2>2. wrote' = Wide(s)
    BY <2>1 DEF Commit, Written
  <2>3. wrote'[1] = Widened(g) /\ Last(wrote') = Widened(h)
    BY <1>0, <2>1, <2>2, Around DEF Last
  <2>4. Opens(wrote') => Last(wrote') = [wrote'[1] EXCEPT !.form = "right"]
    <3> SUFFICES ASSUME Opens(wrote') PROVE Last(wrote') = [wrote'[1] EXCEPT !.form = "right"]
      OBVIOUS
    <3>1. g.form = "left" /\ h.form = "right" /\ wrote'[1] = g
      BY <1>1, <2>1, <2>3 DEF Opens
    <3>2. Widened(h) = h
      BY <3>1 DEF Widened
    <3>3. g = [key |-> g.key, form |-> "left"] /\ h = [key |-> g.key, form |-> "right"]
      BY <2>1, <3>1 DEF IsGlyph
    <3>4. [g EXCEPT !.form = "right"] = [key |-> g.key, form |-> "right"]
      BY <3>3
    <3> QED BY <2>3, <3>1, <3>2, <3>3, <3>4
  <2>5. /\ s \in Seq(S) /\ 2 + Len(composing) - 1 <= Len(s)
        /\ \A j \in 1 .. Len(composing) : s[2 + j - 1] = composing[j]
    <3>1. composing \in Seq(S) /\ <<g>> \in Seq(S) /\ <<h>> \in Seq(S)
      <4>1. Glyph \subseteq S /\ g \in S /\ h \in S
        OBVIOUS
      <4> HIDE DEF S
      <4> QED BY <1>0, <4>1
    <3> HIDE DEF S
    <3> QED BY <3>1 DEF Between
  <2> HIDE DEF s, S
  <2>6. Keeps(wrote')
    <3>1. 2 \in Nat \ {0}
      OBVIOUS
    <3> QED BY <1>0, <2>2, <2>5, <3>1, Holds
  <2> QED BY <2>4, <2>6
<1>9. CASE Closing \/ Opening
  <2>1. PICK g : ~opts.pair /\ Commit(composing \o <<g>>)
    BY <1>9 DEF Closing, Opening
  <2>2. wrote' = Wide(composing \o <<g>>)
    BY <2>1 DEF Commit, Written
  <2>3. composing # <<>> => Keeps(wrote')
    BY <1>0, <1>4, <1>5, <2>2
  <2> QED BY <2>1, <2>3
<1> QED BY <1>2, <1>3, <1>6, <1>7, <1>8, <1>9, StepShapes

\* What was composed is written with the mark that pushes it out, and an opening
\* mark comes with its other end when marks are paired, for any candidates.
THEOREM MarksCorrect == Spec => MarksHoldTheComposition
<1> DEFINE A == Writes =>
                  /\ opts.pair /\ Opens(wrote') /\ ~Opens(composing) =>
                       Last(wrote') = [wrote'[1] EXCEPT !.form = "right"]
                  /\ composing \notin {<<>>, composing'} /\ ~vk /\ wrote' # Wide(<<Letter>>) => Keeps(wrote')
<1>1. Inv /\ [Next]_vars => [A]_vars
  BY MarksStep
<1> HIDE DEF A
<1>2. Spec => [][A]_vars
  BY <1>1, PunctuationInvariant, PTL DEF Spec
<1> QED BY <1>2 DEF A, Keeps, MarksHoldTheComposition
=============================================================================
