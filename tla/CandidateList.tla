---------------------------- MODULE CandidateList ----------------------------
(***************************************************************************)
(* The candidate list as a component of its own: its callers compose and   *)
(* clear it, the page keys and the panel's page signals turn it over, and  *)
(* ReloadConfig may change the number of candidates per page while it is   *)
(* shown (core/candidatelist.cpp, core/freewb.cpp).                        *)
(***************************************************************************)
EXTENDS CandidateOps

CONSTANTS
  Codes,       \* the codes that may be typed, a set of nonempty sequences
  Lookup,      \* what the engine answers: a function from Codes to sequences
               \* of [text, full], the best candidate first
  WidthSettings, \* values get_candiWordCount() may have, 0 and below included
  NoText       \* the empty string

\* What is offered for some code.
Entry == UNION {ToSet(Lookup[c]) : c \in Codes}

ASSUME CandidateListAssumption ==
  /\ <<>> \notin Codes
  /\ WidthSettings # {} /\ WidthSettings \subseteq Int
  /\ \A c \in Codes : Lookup[c] \in Seq(Entry)
  /\ \A e \in Entry : e.text # NoText

VARIABLES
  list,        \* the CandidateList object
  wordCount,   \* wordCount_
  shownWidth   \* history: wordCount_ when list.shown was last cut

vars == <<list, wordCount, shownWidth>>

\* A setting that is not positive falls back to five per page.
WidthOf(setting) == IF setting <= 0 THEN 5 ELSE setting

Init ==
  /\ list = EmptyList
  /\ wordCount \in {WidthOf(v) : v \in WidthSettings}
  /\ shownWidth = wordCount

-----------------------------------------------------------------------------
Resynced(l) == list' = l /\ shownWidth' = wordCount /\ UNCHANGED wordCount

\* A key of the code: setInputCode() and the engine's answer.
Compose(c) ==
  Resynced(SetCandidates(SetInputCode(list, c, wordCount), Lookup[c], wordCount))

\* BackSpace: popInputCode() and, if something is left, the engine's answer.
Pop ==
  /\ list.code # <<>>
  /\ LET popped == PopInputCode(list, wordCount)
     IN  IF popped.code = <<>>
         THEN Resynced(popped)
         ELSE popped.code \in Codes /\ Resynced(SetCandidates(popped, Lookup[popped.code], wordCount))

\* A commit, a mode switch, Esc, a loss of focus.
Discard == list' = Clear(list) /\ UNCHANGED <<wordCount, shownWidth>>

\* The page keys ask first (handleSingleKey) ...
PageKeyPrev == HasPrev(list) /\ Resynced(Prev(list, wordCount))
PageKeyNext == HasNext(list) /\ Resynced(Next(list, wordCount))

\* ... the panel's signals do not.
LookupTablePageUp   == Resynced(Prev(list, wordCount))
LookupTablePageDown == Resynced(Next(list, wordCount))

\* reloadConfig(): loadSettings() reads the width and leaves the page alone.
ReloadConfig ==
  \E v \in WidthSettings :
    /\ wordCount' = WidthOf(v)
    /\ UNCHANGED <<list, shownWidth>>

CoreNext ==
  \/ \E c \in Codes : Compose(c)
  \/ Pop
  \/ Discard
  \/ PageKeyPrev
  \/ PageKeyNext
  \/ LookupTablePageUp
  \/ LookupTablePageDown

CandidateNext == CoreNext \/ ReloadConfig

Spec == Init /\ [][CandidateNext]_vars

-----------------------------------------------------------------------------
\* The page the panel shows is a page of the candidates the engine gave for
\* the code: inside the list, never empty, never cut across two pages, and no
\* longer than the width it was cut with (syncVisiblePage, setCandidates,
\* prev, next, clear).
ShownIsAPage ==
  IF list.all = <<>>
  THEN list.shown = <<>>
  ELSE /\ list.all = Lookup[list.code]
       /\ Len(list.shown) \in 1 .. shownWidth
       /\ list.page * shownWidth + Len(list.shown) <= Len(list.all)
       /\ \A j \in DOMAIN list.shown :
            list.shown[j] = list.all[list.page * shownWidth + j].text

\* hasPrev() and hasNext() are what enables the page keys and the panel's two
\* arrows: they are true exactly when candidates lie before or after the page,
\* so every candidate can be reached and no arrow leads nowhere.
ArrowsAreRight ==
  list.all # <<>> =>
    /\ HasPrev(list) <=> list.page * shownWidth > 0
    /\ HasNext(list) <=> list.page * shownWidth + Len(list.shown) < Len(list.all)

\* A commit takes a text (selectCandidateText) and a code for it
\* (selectCandidateFullCode, firstCandidateTextForFullCode) by two different
\* routes; as long as the page is as wide as when it was cut they belong to
\* the same candidate, which auto-phrases and deletions rely on.
PairedAtWidth ==
  wordCount = shownWidth =>
    /\ \A i \in 0 .. Len(list.shown) - 1 :
         \E e \in ToSet(list.all) : /\ e.text = SelectText(list, i, NoText)
                                    /\ e.full = SelectFullCode(list, i, wordCount)
    /\ \A c \in Codes :
         LET t == FirstTextForFullCode(list, c, wordCount, NoText)
         IN  t # NoText => \E e \in ToSet(list.all) : e.text = t /\ e.full = c
=============================================================================
