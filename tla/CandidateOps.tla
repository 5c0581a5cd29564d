---------------------------- MODULE CandidateOps ----------------------------
(***************************************************************************)
(* The candidate list of the input method (core/candidatelist.cpp) as a    *)
(* value, and its methods as operators on that value.  The list is shared: *)
(* the key chain, the engine manager, the four input states and the        *)
(* committer all write to it, so the modules that model them use these     *)
(* operators instead of having a copy each.                                *)
(*                                                                         *)
(*   lead   lead_, the guide character of an auxiliary input, "" if none   *)
(*   code   inputCode_                                                     *)
(*   all    allTexts_ zipped with allFullCodes_                            *)
(*   shown  currentPageTexts_, what the panel was told and a commit takes  *)
(*   page   pageIndex_          total  totalPages_                         *)
(*                                                                         *)
(* cursor_ and the two prompt vectors are layout for the panel and are     *)
(* left out, as is the conversion of a text to traditional or special      *)
(* format.  w is wordCount_, the candidates per page.                      *)
(***************************************************************************)
EXTENDS Integers, Sequences, SequencesExt

NoLead == ""

\* A list just constructed.
EmptyList == [lead |-> NoLead, code |-> <<>>, all |-> <<>>, shown |-> <<>>,
              page |-> 0, total |-> 0]

Smaller(a, b) == IF a < b THEN a ELSE b

\* Mutant of PagesFor: one page too many when the last page is full.
MutPagesFor(n, w) == n \div w + 1

PagesFor(n, w) == IF n % w = 0 THEN n \div w ELSE n \div w + 1

\* The texts of the page that starts after `start' candidates.
PageTexts(all, start, w) ==
  LET end == Smaller(start + w, Len(all))
  IN  [j \in 1 .. end - start |-> all[start + j].text]

\* Mutant of Sync: the page index is not brought back into the list.
MutSync(l, w) ==
  IF l.all = <<>>
  THEN [l EXCEPT !.shown = <<>>, !.total = 0]
  ELSE [l EXCEPT !.total = PagesFor(Len(l.all), w), !.shown = PageTexts(l.all, l.page * w, w)]

\* syncVisiblePage(): no candidate leaves the page index as it was.
Sync(l, w) ==
  IF l.all = <<>>
  THEN [l EXCEPT !.shown = <<>>, !.total = 0]
  ELSE LET total == PagesFor(Len(l.all), w)
           page  == Smaller(l.page, total - 1)
       IN  [l EXCEPT !.total = total, !.page = page,
                     !.shown = PageTexts(l.all, page * w, w)]

-----------------------------------------------------------------------------
(* Paging. *)

HasPrev(l) == l.page > 0
HasNext(l) == l.page < l.total - 1

\* Mutant of Prev: the page index may fall below 0.
MutPrev(l, w) == Sync([l EXCEPT !.page = @ - 1], w)

Prev(l, w) == Sync([l EXCEPT !.page = IF @ - 1 < 0 THEN 0 ELSE @ - 1], w)
Next(l, w) == Sync([l EXCEPT !.page = IF @ + 1 > l.total THEN l.total ELSE @ + 1], w)

-----------------------------------------------------------------------------
(* Contents. *)

\* Mutant of Clear: the guide character stays.
MutClear(l) == [EmptyList EXCEPT !.total = l.total, !.lead = l.lead]

\* clear() leaves totalPages_ behind: hasNext() answers from it until the
\* next syncVisiblePage().
Clear(l) == [EmptyList EXCEPT !.total = l.total]

SetCandidates(l, cands, w) == Sync([l EXCEPT !.all = cands, !.page = 0], w)

SetLead(l, lead) == [l EXCEPT !.lead = lead]

\* Mutant of SetInputCode: an empty code keeps the candidates.
MutSetInputCode(l, code, w) == [l EXCEPT !.code = code]

SetInputCode(l, code, w) ==
  LET coded == [l EXCEPT !.code = code]
  IN  IF code = <<>> THEN SetCandidates(coded, <<>>, w) ELSE coded

PopInputCode(l, w) ==
  IF l.code = <<>> THEN l ELSE SetInputCode(l, SubSeq(l.code, 1, Len(l.code) - 1), w)

-----------------------------------------------------------------------------
(* Queries.  Indices count from 0 as in the code; None-like answers are    *)
(* the caller's `none' (the code returns the empty string).                *)

OnPage(l, i) == 0 <= i /\ i < Len(l.shown)

SelectText(l, i, none) == IF OnPage(l, i) THEN l.shown[i + 1] ELSE none

\* Mutant of SelectFullCode: the index on the page taken for an index in the list.
MutSelectFullCode(l, i, w) == IF OnPage(l, i) THEN l.all[i + 1].full ELSE <<>>

\* The full code of candidate i of the page, located by the page size in
\* force when it is asked, not the one the page was cut with.
SelectFullCode(l, i, w) ==
  LET global == l.page * w + i
  IN  IF OnPage(l, i) /\ global < Len(l.all) THEN l.all[global + 1].full ELSE <<>>

\* firstCandidateTextForFullCode(): the first text of the page paired with code.
FirstTextForFullCode(l, code, w, none) ==
  LET hits == {i \in 1 .. Len(l.shown) : /\ l.page * w + i <= Len(l.all)
                                         /\ l.all[l.page * w + i].full = code}
  IN  IF hits = {} THEN none
      ELSE l.shown[CHOOSE i \in hits : \A j \in hits : i <= j]

\* code is complete: some candidate has it and none has it as a proper prefix.
IsTerminalExactCode(l, code) ==
  /\ code # <<>>
  /\ \E i \in DOMAIN l.all : l.all[i].full = code
  /\ \A i \in DOMAIN l.all : ~IsStrictPrefix(code, l.all[i].full)

\* preeditText() is empty.
NoPreedit(l) == l.lead = NoLead /\ l.code = <<>>
=============================================================================
