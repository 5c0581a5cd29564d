----------------------------- MODULE WubiLookup -----------------------------
(* What the Wubi engine offers for a code (WbzxEngine::putKey), and what the *)
(* engine that mixes Wubi with Pinyin makes of it (Wbpy::putKey), over the    *)
(* words of UserDict: the user's, those of the main table that are neither    *)
(* deleted nor filtered out as rare, and the automatic phrases.  The tables   *)
(* are sorted files that are searched from a lower bound and merged.          *)
EXTENDS UserDict, Integers, SequencesExt

CONSTANTS
  Place,          \* where a word comes in a table's records
  PyTable,        \* the records of the Pinyin table
  Phrases,        \* the words that automatic phrases may make
  Rare,           \* the texts outside GB 2312 of one character
  MaxCandidates   \* bound of the code: kMaxCandidatesPerQuery, 1000

\* c <= d as strings, letters being numbers.
CodeLeq(c, d) ==
  \/ IsPrefix(c, d)
  \/ \E i \in DOMAIN c \cap DOMAIN d : c[i] < d[i] /\ \A j \in 1 .. i - 1 : c[j] = d[j]

InCodeOrder(words) ==
  \A i, j \in DOMAIN words : i < j => CodeLeq(words[i].code, words[j].code)

\* Codes are of letters, and texts and codes are of bounded length.  The tools
\* only make sorted tables (appendSortedRecord), and no code has more words than
\* a query yields.  The user's file is sorted by its writer.
ASSUME WubiLookupAssumption ==
  /\ IsFiniteSet(Word) /\ \A w \in Word \cup ToSet(PyTable) : w.code \in Seq(Nat)
  /\ Place \in [Word -> Nat] /\ MaxCandidates \in Nat
  /\ \A v, w \in Word : /\ Place[v] < Place[w] => CodeLeq(v.code, w.code)
                        /\ Line[v] < Line[w] => CodeLeq(v.code, w.code)
                        /\ v # w => Place[v] # Place[w] /\ Line[v] # Line[w]
  /\ \A t \in Tables, w \in Word : Cardinality({v \in t : v.code = w.code}) <= MaxCandidates
  /\ InCodeOrder(PyTable)
  /\ Phrases \subseteq Plain

VARIABLES
  filter,   \* gb2312Filter_ is on
  autoOn,   \* the option "autoPhrase"
  auto      \* the automatic phrases, loaded or of this session

lookupVars == <<main, mem, file, answer, filter, autoOn, auto>>

LookupInit == Init /\ filter \in BOOLEAN /\ autoOn \in BOOLEAN /\ auto = {}

-----------------------------------------------------------------------------
(* The look-up. *)

\* The words in the order of a numbering: each behind those with less.
Arranged(words, at) ==
  [k \in 1 .. Cardinality(words) |-> CHOOSE w \in words : Cardinality({v \in words : at[v] < at[w]}) = k - 1]

Records(table) == Arranged(table, Place)

\* A slip: the search starts behind the code itself.
MutLowerBound(records, code) ==
  SelectInSeq(records, LAMBDA w : CodeLeq(code, w.code) /\ w.code # code)

\* The first record that is not before the code, 0 if there is none.
LowerBound(records, code) == SelectInSeq(records, LAMBDA w : CodeLeq(code, w.code))

\* MbDictionaryTable::appendCandidatesForPrefix: from there as long as the code
\* goes on, up to the limit.
AppendCandidatesForPrefix(records, code) ==
  LET begin == LowerBound(records, code)
      from  == SubSeq(records, begin, Len(records))
      over  == SelectInSeq(from, LAMBDA w : ~IsPrefix(code, w.code))
      hits  == IF over = 0 THEN Len(from) ELSE over - 1
  IN  IF code = <<>> \/ begin = 0 THEN <<>>
      ELSE SubSeq(from, 1, IF hits < MaxCandidates THEN hits ELSE MaxCandidates)

\* UserDict::appendCandidatesForPrefix
UserHits(code) == Arranged({w \in mem.user : code # <<>> /\ IsPrefix(code, w.code)}, Line)

\* needFilt()
NeedFilt(w) == filter /\ w.text \in Rare

Filtered(out, w) == IF w \in mem.deleted \/ NeedFilt(w) THEN out ELSE Append(out, w)

Filtering == INSTANCE InOrder WITH After <- Filtered

FilterMainDictCandidates(hits) == Filtering!Outcome(<<>>, hits)

\* A slip: the second list goes first where the codes are equal.
MutFirstIsNext(rows) ==
  rows.second = <<>> \/ (rows.first # <<>> /\ ~CodeLeq(Head(rows.second).code, Head(rows.first).code))

\* The next row is the first list's unless its code is behind the second's.
FirstIsNext(rows) ==
  rows.second = <<>> \/ (rows.first # <<>> /\ CodeLeq(Head(rows.first).code, Head(rows.second).code))

AppendRow(rows, k) ==
  IF FirstIsNext(rows)
  THEN [rows EXCEPT !.first = Tail(@), !.out = Append(@, Head(rows.first))]
  ELSE [rows EXCEPT !.second = Tail(@), !.out = Append(@, Head(rows.second))]

Merging == INSTANCE InOrder WITH After <- AppendRow

\* mergeCandidatesInCodeOrder: the heads are compared, sorted or not, as many
\* times as there are rows.
Merge(first, second) ==
  Merging!Outcome([first |-> first, second |-> second, out |-> <<>>],
                  [k \in 1 .. Len(first) + Len(second) |-> k]).out

\* A slip: what is offered already is offered again.
MutAppendPhrases(out, code) ==
  out \o SetToSeq({w \in auto : autoOn /\ w.code = code})

\* AutoPhrase::appendCandidatesForExactCode; those of one code come in any order.
AppendPhrases(out, code) ==
  out \o SetToSeq({w \in auto : autoOn /\ w.code = code} \ ToSet(out))

\* WbzxEngine::putKey
WubiResult(code) ==
  LET mainHits == FilterMainDictCandidates(AppendCandidatesForPrefix(Records(main), code))
  IN  AppendPhrases(Merge(UserHits(code), mainHits), code)

\* Wbpy::putKey
WbpyResult(code) == Merge(WubiResult(code), AppendCandidatesForPrefix(PyTable, code))

-----------------------------------------------------------------------------
(* What changes it. *)

ToggleCharset == filter' = ~filter /\ UNCHANGED <<vars, autoOn, auto>>

SwitchAutoPhrase == autoOn' = ~autoOn /\ UNCHANGED <<vars, filter, auto>>

\* addSingleChar: what has the text of a word of the table is no phrase.
LearnPhrase(w) ==
  /\ autoOn /\ w.text \notin {v.text : v \in main \cup auto}
  /\ auto' = auto \cup {w}
  /\ UNCHANGED <<vars, filter, autoOn>>

\* A restart, and nothing was saved.
ForgetPhrases == auto' = {} /\ UNCHANGED <<vars, filter, autoOn>>

LookupNext ==
  \/ Next /\ UNCHANGED <<filter, autoOn, auto>>
  \/ ToggleCharset \/ SwitchAutoPhrase \/ ForgetPhrases
  \/ \E w \in Phrases : LearnPhrase(w)

LookupSpec == LookupInit /\ [][LookupNext]_lookupVars

-----------------------------------------------------------------------------
(* Properties. *)

Codes == UNION {{SubSeq(w.code, 1, n) : n \in 1 .. Len(w.code)} : w \in Word \cup ToSet(PyTable)}

\* The words that can be typed now, without and with the automatic phrases.
Kept    == mem.user \cup {w \in main \ mem.deleted : ~NeedFilt(w)}
Offered == Kept \cup (IF autoOn THEN auto ELSE {})

\* What is offered for a code is a word that can be typed and that the code
\* begins; and with its whole code every word that can be typed is offered,
\* however many the limit cuts off (putKey and all it calls).
TypedIsOffered ==
  \A c \in Codes :
    LET hits == ToSet(WubiResult(c))
    IN  /\ \A w \in hits : w \in Offered /\ IsPrefix(c, w.code)
        /\ \A w \in Offered : w.code = c => w \in hits

\* The user's words and the table's are offered in the order of their codes, so
\* that those whose code is complete come first, with the user's own in front
\* of them; the automatic phrases of the code come last
\* (mergeCandidatesInCodeOrder, appendCandidatesForExactCode).
OfferedInOrder ==
  \A c \in Codes :
    LET hits == WubiResult(c)
    IN  \A i, j \in DOMAIN hits :
          i < j => /\ hits[i] \in Kept \/ hits[j] \notin Kept
                   /\ hits[j] \in Kept => CodeLeq(hits[i].code, hits[j].code)
                   /\ hits[i].code = hits[j].code /\ hits[j] \in mem.user \ main => hits[i] \in mem.user

\* No word is offered twice, wherever it is kept, as long as the user's lists
\* fit the table (they were made to fit another one after reloadMainDictionary).
OfferedOnce == ListsFitTable => \A c \in Codes : IsInjective(WubiResult(c))

\* "first and second have to be sorted by fullCode" (wbzx.h): so they are where
\* the Pinyin candidates are merged in.
MergesSortedLists ==
  \A c \in Codes : InCodeOrder(WubiResult(c)) /\ InCodeOrder(AppendCandidatesForPrefix(PyTable, c))
=============================================================================
