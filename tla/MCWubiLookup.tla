---------------------------- MODULE MCWubiLookup ----------------------------
(* A small instance of WubiLookup for TLC.  Of the words in the user's file   *)
(* one belongs to two tables and is rare, one reads back as it without a       *)
(* blank, and one is nothing but a blank; two lines read as an earlier one     *)
(* when they are cut.  Codes go on one another, and a query yields two words   *)
(* of the table.                                                              *)
EXTENDS WubiLookup

W(code, text) == [code |-> code, text |-> text]

a      == W(<<1>>, "a")
b      == W(<<1, 2>>, "b")
bBlank == W(<<1, 2>>, "b+blank")
blank  == W(<<1, 2>>, "blank")
c      == W(<<1, 2>>, "c")

MCWord  == {a, b, bBlank, blank, c}
MCLine  == [w \in Word |-> CASE w = a -> 1 [] w = b -> 2 [] w = bBlank -> 3 [] w = blank -> 4 [] OTHER -> 5]
MCRead  == [w \in Word |-> CASE w = bBlank -> b [] w = blank -> Empty [] OTHER -> w]
MCStub  == [w \in Word |-> CASE w = bBlank -> {b} [] w = c -> {a} [] OTHER -> {}]
MCPlace == [w \in Word |-> CASE w = a -> 1 [] w = c -> 2 [] w = b -> 3 [] w = bBlank -> 4 [] OTHER -> 5]

MCTables == {{}, {a, b, c}, {a, b}}

MCPyTable == <<W(<<1>>, "p"), W(<<1, 1>>, "q"), W(<<1, 2>>, "c")>>
MCPhrases == {a}
=============================================================================
