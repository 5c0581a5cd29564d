---------------------------- MODULE MCPunctuation ----------------------------
(* A small instance of Punctuation: a quote, two pairs of brackets, a comma, *)
(* the backslash and the space; a custom symbol for the comma and the        *)
(* backslash, as the default of the settings has; a candidate of Chinese     *)
(* text, one that ends in a letter and one that begins with a bracket of its *)
(* own; a history of three characters, which a pair around a candidate       *)
(* overruns.                                                                 *)
EXTENDS Punctuation

MCOpenerOf == [k \in Closers |-> IF k = ")" THEN "(" ELSE "{"]
MCCandidates == {<<[key |-> "h", form |-> "han"]>>,
                 <<[key |-> "h", form |-> "han"], [key |-> "letter", form |-> "ascii"]>>,
                 <<[key |-> "(", form |-> "left"], [key |-> "h", form |-> "han"]>>}
=============================================================================
