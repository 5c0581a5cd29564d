-------------------------- MODULE MCPhrasePrompts --------------------------
(* A small instance of PhrasePrompts: two Chinese characters and a mark; a   *)
(* history of three characters and up to four typed, so that the oldest is   *)
(* dropped; a word with a mark in front of its character; and two tables, of *)
(* which one has no codes.                                                   *)
EXTENDS PhrasePrompts

P == INSTANCE PhraseCode

MCNoCode == <<>>

MCCandidates == {[text |-> <<"h1">>, code |-> <<1>>], [text |-> <<"m", "h2">>, code |-> <<3>>]}

MCClips == {<<"h2", "m", "h2">>, <<"m", "h1">>, <<"h1", "h2", "h1", "h2">>}

\* In table t1 the second character has a code of one letter, so that a phrase of
\* two or three that ends with it has none; t2 is empty.
MCPhraseCode ==
  LET phrases == {text \in BoundedSeq(HanziChars, MaxPhrase) : Len(text) >= DefaultLen}
      primary == CHOOSE p \in P!PrimaryCodes({[text |-> "h1", code |-> <<1, 2>>], [text |-> "h2", code |-> <<1>>]}) : TRUE
  IN  [t \in Tables |-> [text \in phrases |->
         P!CalculateWubiPhraseCode(text, primary, IF t = "t2" THEN <<>> ELSE P!WubiRules)]]
=============================================================================
