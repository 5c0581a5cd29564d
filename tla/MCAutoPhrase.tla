---------------------------- MODULE MCAutoPhrase ----------------------------
(* A small instance of AutoPhrase for TLC.  Two characters, one of which has *)
(* a code of one letter, so that some spans have no code and others share one; *)
(* of those with a code five are in the main table and four are new.         *)
EXTENDS AutoPhrase

P == INSTANCE PhraseCode

x == "x"
y == "y"

\* The longer code of x counts, the one that is no letter does not.
MCEntries == {[text |-> x, code |-> <<1>>], [text |-> x, code |-> <<2, 3>>], [text |-> x, code |-> <<0, 1, 1>>],
              [text |-> y, code |-> <<2>>]}

MCPrimary == CHOOSE p \in P!PrimaryCodes(MCEntries) : TRUE

\* A table with a rule of its own for phrases of four: it takes the second
\* letters of the first and the last character.
MCRules ==
  [P!WubiRules EXCEPT ![3].cells =
     <<P!FromStart(1, 2), P!FromStart(2, 1), P!FromStart(3, 1), P!FromEnd(1, 2)>>]

MCCodeOf ==
  [r \in Run |->
     LET code == P!CalculateWubiPhraseCode(r, MCPrimary, MCRules)
     IN  IF code = <<>> THEN None ELSE code]

MCMain ==
  {[hz |-> r, code |-> MCCodeOf[r]] : r \in
     {<<y, x, x>>, <<y, y, x>>, <<x, x, x, x>>, <<x, x, y, x>>, <<x, y, y, x>>}}
=============================================================================
