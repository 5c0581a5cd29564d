--------------------------- MODULE MCUserWordFile ---------------------------
(* A small instance of UserWordFile for TLC: one word of the table, one that *)
(* is new to it and whose line reads as the first word's when it is cut, and *)
(* a table that may fail to load.                                            *)
EXTENDS UserWordFile

MCLine   == [w \in Word |-> CASE w = "a" -> 1 [] w = "b" -> 2]
MCRead   == [w \in Word |-> w]
MCStub   == [w \in Word |-> IF w = "b" THEN {"a"} ELSE {}]
MCTables == {{}, {"a"}}
=============================================================================
