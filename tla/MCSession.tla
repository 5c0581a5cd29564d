------------------------------ MODULE MCSession ------------------------------
(* A small instance of Session for TLC.  Complete Wubi codes have two        *)
(* letters instead of four, so that a code one longer still fits.            *)
EXTENDS Session

E(t, c) == [text |-> t, full |-> c]

\* The keys of a composition and of every auxiliary input.
MCKey == {"a", "b", "1", "2", "3", "space", "-", "=", ";", "'", "grave", ".",
          "return", "backspace", "arrow"}

\* What each engine has, in table order.  Wubi: "a" fills two pages, "ab" is
\* complete and unique, "b" has one candidate; Pinyin: "a" and "ab" have one
\* each, "ba" has three.
Table ==
  [wbzx |-> <<E("t1", <<"a">>), E("t2", <<"a">>), E("t3", <<"a", "b">>), E("t4", <<"b">>)>>,
   py   |-> <<E("p1", <<"a">>), E("p2", <<"a", "b">>), E("p3", <<"b", "a">>),
              E("p4", <<"b", "a">>), E("p1", <<"b", "a">>)>>,
   wbpy |-> <<E("t1", <<"a">>), E("p1", <<"a">>), E("t3", <<"a", "b">>)>>]

MCLookup ==
  [q \in Configured \X Code |->
     IF q[2] = <<>> THEN <<>> ELSE SelectSeq(Table[q[1]], LAMBDA e : IsPrefix(q[2], e.full))]

MCQuick ==
  [c \in Code |->
     IF c = <<"a">> THEN <<E("q1", <<>>), E("q2", <<>>), E("q3", <<>>)>> ELSE <<>>]

MCEngines == <<"wbzx", "py", "wbpy">>
MCAdd   == {<<"a", ".">>}
MCDel   == {<<"b", ".">>}
MCOther == {<<"a", "b", ".">>}

MCText == {"t1", "t2", "t3", "t4", "p1", "p2", "p3", "p4", "q1", "q2", "q3"}
=============================================================================
