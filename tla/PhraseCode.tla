----------------------------- MODULE PhraseCode -----------------------------
(* The Wubi code of a phrase, made from the codes of its characters by the    *)
(* rules in the main table (WbzxEngine).  A code is a sequence of letters; a  *)
(* letter is a positive number, the keys of special codes are 0.              *)
EXTENDS Integers, Sequences, SequencesExt

CodeLength == 4

\* A cell of a rule: letter `index' of the character `which', counted from the
\* start of the phrase or from its end.
FromStart(which, index) == [start |-> TRUE, which |-> which, index |-> index]
FromEnd(which, index)   == [start |-> FALSE, which |-> which, index |-> index]

\* The rules a table comes with: for phrases of two, of three, and of four
\* characters and more.
WubiRules ==
  << [words |-> 2, least |-> FALSE,
      cells |-> <<FromStart(1, 1), FromStart(1, 2), FromStart(2, 1), FromStart(2, 2)>>],
     [words |-> 3, least |-> FALSE,
      cells |-> <<FromStart(1, 1), FromStart(2, 1), FromStart(3, 1), FromStart(3, 2)>>],
     [words |-> 4, least |-> TRUE,
      cells |-> <<FromStart(1, 1), FromStart(2, 1), FromStart(3, 1), FromEnd(1, 1)>>] >>

\* The codes of a character that may be its primary one: the longest of those
\* that start with a letter.  Which of two that are as long depends on the order
\* of an unordered_map.
LongestCodes(entries, hz) ==
  LET codes == {e.code : e \in {f \in entries : f.text = hz /\ f.code # <<>> /\ f.code[1] # 0}}
  IN  {c \in codes : \A d \in codes : Len(d) <= Len(c)}

\* initSingleHanziPrimaryCodeFromMbTable(): what it may make of the entries with
\* a single character.
PrimaryCodes(entries) ==
  LET coded == {e.text : e \in {f \in entries : LongestCodes(entries, f.text) # {}}}
  IN  {p \in [coded -> {e.code : e \in entries}] : \A hz \in coded : p[hz] \in LongestCodes(entries, hz)}

\* utf8CharAt(), utf8CharAtFromEnd()
Position(cell, n) == IF cell.start THEN cell.which ELSE n + 1 - cell.which

\* The cell names a letter there is.
CellFits(cell, phrase, primary) ==
  LET i == Position(cell, Len(phrase))
  IN  /\ cell.which # 0 /\ i \in 1 .. Len(phrase)
      /\ phrase[i] \in DOMAIN primary
      /\ cell.index \in 1 .. Len(primary[phrase[i]])

\* calculateWubiPhraseCode(), <<>> when there is none.
CalculateWubiPhraseCode(phrase, primary, rules) ==
  LET n     == Len(phrase)
      words == IF n >= CodeLength THEN CodeLength ELSE n
      block == SelectInSeq(rules, LAMBDA b : b.words = words /\ (b.least <=> n >= CodeLength))
      cell(k) == rules[block].cells[k]
  IN  IF n < 2 \/ block = 0 THEN <<>>
      ELSE IF \E k \in 1 .. CodeLength : ~CellFits(cell(k), phrase, primary) THEN <<>>
      ELSE [k \in 1 .. CodeLength |-> primary[phrase[Position(cell(k), n)]][cell(k).index]]
=============================================================================
