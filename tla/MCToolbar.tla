------------------------------ MODULE MCToolbar ------------------------------
(* A small instance of Toolbar: Chinese punctuation, which English freezes,  *)
(* and full width, which it does not; a virtual keyboard with the plain mode *)
(* and one that maps keys; two messages on their way in each direction.      *)
EXTENDS Toolbar

MCInitially == [s \in Switches |-> s = "punc"]
MCVkOrder == <<"pc", "greek">>
=============================================================================
