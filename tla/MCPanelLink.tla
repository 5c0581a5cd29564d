----------------------------- MODULE MCPanelLink -----------------------------
(* A small instance of PanelLink: a code with five candidates, one with two, *)
(* and one with none, pages of 2, 3 and (from the setting 0) 5, and two      *)
(* messages or clicks on their way.                                          *)
EXTENDS PanelLink

MCCodes == {<<"a">>, <<"a", "b">>, <<"a", "c">>}

MCEntry(t, c) == [text |-> t, full |-> c]

MCLookup ==
  (<<"a">> :> <<MCEntry("t1", <<"a">>), MCEntry("t2", <<"a">>), MCEntry("t3", <<"a", "b">>),
                MCEntry("t4", <<"a", "b">>), MCEntry("t5", <<"a">>)>>)
  @@ (<<"a", "b">> :> <<MCEntry("t3", <<"a", "b">>), MCEntry("t4", <<"a", "b">>)>>)
  @@ (<<"a", "c">> :> <<>>)
=============================================================================
