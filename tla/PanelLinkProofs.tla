--------------------------- MODULE PanelLinkProofs ---------------------------
(* Proofs about CandidateList, for any codes, candidates and settings of the *)
(* width, and about PanelLink, for any number of messages on their way.      *)
EXTENDS PanelLink, SequenceFacts

W == INSTANCE SequenceFacts WITH After <- WindowAfter

\* The inductive invariant.  ShownIsAPage alone does not survive a page key: the
\* page after a page is known only if the page count was made with the width the
\* page was cut with.
List ==
  [lead : {NoLead}, code : Codes \cup {<<>>}, all : Seq(Entry), shown : Seq({e.text : e \in Entry}),
   page : Nat, total : Nat]

Cut(l, w) ==
  IF l.all = <<>>
  THEN l.shown = <<>>
  ELSE /\ l.total = PagesFor(Len(l.all), w)
       /\ l.page < l.total
       /\ l.shown = PageTexts(l.all, l.page * w, w)

Answered(l) == l.all = <<>> \/ (l.code \in Codes /\ l.all = Lookup[l.code])

GoodList(l, w) == l \in List /\ Cut(l, w) /\ Answered(l)

Inv ==
  /\ wordCount \in Nat \ {0} /\ shownWidth \in Nat \ {0}
  /\ GoodList(list, shownWidth)

\* A page lies inside the candidates it was cut from.
LEMMA PageInside ==
  ASSUME NEW l \in List, NEW w \in Nat \ {0}, Cut(l, w), l.all # <<>>
  PROVE  /\ l.page * w \in Nat
         /\ l.page * w < Len(l.all)
         /\ Len(l.all) \in Nat
         /\ Len(l.all) <= l.total * w
<1>1. l.page \in Nat /\ Len(l.all) \in Nat \ {0}
  BY EmptySeq DEF List
<1>2. l.total \in Nat \ {0} /\ (l.total - 1) * w < Len(l.all) /\ Len(l.all) <= l.total * w
  BY <1>1, PagesCover DEF Cut
<1>3. l.page <= l.total - 1
  BY <1>1, <1>2 DEF Cut
<1>4. l.page * w <= (l.total - 1) * w
  <2>1. \A a, b, c \in Nat : a <= b => a * c <= b * c
    OBVIOUS
  <2> QED BY <1>1, <1>2, <1>3, <2>1
<1>5. l.page * w \in Nat /\ (l.total - 1) * w \in Nat
  <2>1. \A a, b \in Nat : a * b \in Nat
    OBVIOUS
  <2>2. l.total - 1 \in Nat
    BY <1>2
  <2> QED BY <1>1, <2>1, <2>2
<1> QED BY <1>1, <1>2, <1>4, <1>5

-----------------------------------------------------------------------------
(* What the methods keep. *)

\* syncVisiblePage() makes a page of whatever list it finds.
LEMMA SyncCuts ==
  ASSUME NEW l \in List, NEW w \in Nat \ {0}
  PROVE  /\ Sync(l, w) \in List /\ Cut(Sync(l, w), w)
         /\ Sync(l, w).all = l.all /\ Sync(l, w).code = l.code
<1>1. CASE l.all = <<>>
  BY <1>1, EmptySeq DEF Sync, List, Cut
<1>2. CASE l.all # <<>>
  <2> DEFINE total == PagesFor(Len(l.all), w)
             page  == Smaller(l.page, total - 1)
             shown == PageTexts(l.all, page * w, w)
  <2>1. Len(l.all) \in Nat \ {0} /\ l.page \in Nat /\ l.all \in Seq(Entry)
    BY <1>2, EmptySeq DEF List
  <2>2. total \in Nat \ {0} /\ (total - 1) * w < Len(l.all)
    BY <2>1, PagesCover
  <2>3. Sync(l, w) = [l EXCEPT !.total = total, !.page = page, !.shown = shown]
    BY <1>2 DEF Sync
  <2>4. page \in Nat /\ page <= total - 1
    <3> HIDE DEF total
    <3> QED BY <2>1, <2>2 DEF Smaller
  <2>5. page * w \in Nat /\ page * w < Len(l.all)
    <3> HIDE DEF total, page
    <3>1. \A a, b, c \in Nat : a <= b => a * c <= b * c
      OBVIOUS
    <3>2. page * w <= (total - 1) * w
      BY <2>2, <2>4, <3>1
    <3>3. page * w \in Nat /\ (total - 1) * w \in Nat
      BY <2>2, <2>4
    <3> QED BY <2>1, <2>2, <3>2, <3>3
  <2>6. shown \in Seq({e.text : e \in Entry})
    <3> DEFINE start == page * w
               n == Smaller(start + w, Len(l.all)) - start
    <3> HIDE DEF page
    <3>1. n \in Nat /\ start + n <= Len(l.all)
      <4> HIDE DEF start
      <4> QED BY <2>1, <2>5 DEF Smaller, start
    <3>2. \A j \in 1 .. n : l.all[start + j] \in Entry
      <4> HIDE DEF n, start
      <4> SUFFICES ASSUME NEW j \in 1 .. n PROVE l.all[start + j] \in Entry
        OBVIOUS
      <4>1. start + j \in 1 .. Len(l.all)
        BY <2>1, <2>5, <3>1 DEF start
      <4> QED BY <2>1, <4>1, ElementOfSeq
    <3>3. shown = [j \in 1 .. n |-> l.all[start + j].text]
      BY DEF PageTexts
    <3> HIDE DEF n, start, shown
    <3>4. shown \in [1 .. n -> {e.text : e \in Entry}]
      BY <3>2, <3>3
    <3> QED BY <3>1, <3>4, SeqDef
  <2>7. [l EXCEPT !.total = total, !.page = page, !.shown = shown] \in List
    <3> HIDE DEF total, page, shown
    <3> QED BY <2>2, <2>4, <2>6 DEF List
  <2>8. /\ Sync(l, w).all = l.all /\ Sync(l, w).code = l.code
        /\ Sync(l, w).total = total /\ Sync(l, w).page = page /\ Sync(l, w).shown = shown
    <3> HIDE DEF total, page, shown
    <3> QED BY <2>3 DEF List
  <2>9. Cut(Sync(l, w), w)
    <3>1. page < total
      <4> HIDE DEF total, page
      <4> QED BY <2>2, <2>4
    <3> QED BY <1>2, <2>8, <3>1 DEF Cut
  <2> QED BY <2>3, <2>7, <2>8, <2>9
<1> QED BY <1>1, <1>2

LEMMA ClearGood ==
  ASSUME NEW w \in Nat \ {0}
  PROVE  /\ GoodList(EmptyList, w)
         /\ \A l \in List : GoodList(Clear(l), w)
BY EmptySeq DEF GoodList, EmptyList, Clear, List, Cut, Answered, NoLead

LEMMA SetCandidatesGood ==
  ASSUME NEW l \in List, NEW cands \in Seq(Entry), NEW w \in Nat \ {0},
         cands = <<>> \/ (l.code \in Codes /\ cands = Lookup[l.code])
  PROVE  GoodList(SetCandidates(l, cands, w), w) /\ SetCandidates(l, cands, w).code = l.code
<1> DEFINE m == [l EXCEPT !.all = cands, !.page = 0]
<1>1. m \in List /\ m.code = l.code /\ m.all = cands
  BY DEF List
<1> HIDE DEF m
<1>2. SetCandidates(l, cands, w) = Sync(m, w)
  BY DEF SetCandidates, m
<1> QED BY <1>1, <1>2, SyncCuts DEF GoodList, Answered

LEMMA SetInputCodeGood ==
  ASSUME NEW l \in List, NEW c \in Codes \cup {<<>>}, NEW w \in Nat \ {0}
  PROVE  /\ SetInputCode(l, c, w) \in List /\ SetInputCode(l, c, w).code = c
         /\ c = <<>> => GoodList(SetInputCode(l, c, w), w)
<1> DEFINE m == [l EXCEPT !.code = c]
<1>1. m \in List /\ m.code = c
  BY DEF List
<1> HIDE DEF m
<1>2. SetInputCode(l, c, w) = IF c = <<>> THEN SetCandidates(m, <<>>, w) ELSE m
  BY DEF SetInputCode, m
<1>3. GoodList(SetCandidates(m, <<>>, w), w) /\ SetCandidates(m, <<>>, w).code = c
  BY <1>1, EmptySeq, SetCandidatesGood
<1>4. CASE c = <<>>
  BY <1>2, <1>3, <1>4 DEF GoodList
<1>5. CASE c # <<>>
  BY <1>1, <1>2, <1>5
<1> QED BY <1>4, <1>5

LEMMA PagingGood ==
  ASSUME NEW l \in List, Answered(l), NEW w \in Nat \ {0}
  PROVE  GoodList(Prev(l, w), w) /\ GoodList(Next(l, w), w)
<1>1. ASSUME NEW i \in Nat PROVE GoodList(Sync([l EXCEPT !.page = i], w), w)
  <2> DEFINE m == [l EXCEPT !.page = i]
  <2>1. m \in List /\ m.all = l.all /\ m.code = l.code
    BY DEF List
  <2> HIDE DEF m
  <2>2. GoodList(Sync(m, w), w)
    BY <2>1, SyncCuts DEF GoodList, Answered
  <2> QED BY <2>2 DEF m
<1>2. l.page \in Nat /\ l.total \in Nat
  BY DEF List
<1> DEFINE back == IF l.page - 1 < 0 THEN 0 ELSE l.page - 1
           on   == IF l.page + 1 > l.total THEN l.total ELSE l.page + 1
<1>3. back \in Nat /\ on \in Nat
  BY <1>2
<1>4. Prev(l, w) = Sync([l EXCEPT !.page = back], w) /\ Next(l, w) = Sync([l EXCEPT !.page = on], w)
  BY DEF Prev, Next
<1> HIDE DEF back, on
<1> QED BY <1>1, <1>3, <1>4

-----------------------------------------------------------------------------
(* The invariant. *)

LEMMA Widths == \A v \in WidthSettings : WidthOf(v) \in Nat \ {0}
BY CandidateListAssumption DEF WidthOf

LEMMA InitInv == Init => Inv
<1> SUFFICES ASSUME Init PROVE Inv
  OBVIOUS
<1>1. wordCount \in Nat \ {0} /\ shownWidth \in Nat \ {0}
  BY Widths DEF Init
<1> QED BY <1>1, ClearGood DEF Init, Inv

LEMMA ResyncedInv ==
  ASSUME Inv, NEW l, Resynced(l), GoodList(l, wordCount)
  PROVE  Inv'
BY DEF Inv, Resynced, GoodList, Cut, Answered

LEMMA StepKeepsInv == Inv /\ [CandidateNext]_vars => Inv'
<1> SUFFICES ASSUME Inv, [CandidateNext]_vars PROVE Inv'
  OBVIOUS
<1>0. list \in List /\ Answered(list) /\ wordCount \in Nat \ {0} /\ shownWidth \in Nat \ {0}
  BY DEF Inv, GoodList
<1>1. ASSUME NEW c \in Codes, Compose(c) PROVE Inv'
  <2> DEFINE m == SetInputCode(list, c, wordCount)
  <2>1. m \in List /\ m.code = c
    BY <1>0, SetInputCodeGood
  <2> HIDE DEF m
  <2>2. GoodList(SetCandidates(m, Lookup[c], wordCount), wordCount)
    BY <1>0, <2>1, SetCandidatesGood, CandidateListAssumption
  <2>3. Resynced(SetCandidates(m, Lookup[c], wordCount))
    BY <1>1 DEF Compose, m
  <2> QED BY <2>2, <2>3, ResyncedInv
<1>2. CASE Pop
  <2> DEFINE c == SubSeq(list.code, 1, Len(list.code) - 1)
             m == SetInputCode(list, c, wordCount)
  <2>1. PopInputCode(list, wordCount) = m
    BY <1>2 DEF Pop, PopInputCode
  <2> HIDE DEF m
  <2>2. m.code = c
    <3>1. m.code = IF c = <<>> THEN SetCandidates([list EXCEPT !.code = c], <<>>, wordCount).code
                   ELSE [list EXCEPT !.code = c].code
      BY DEF SetInputCode, m
    <3> HIDE DEF c
    <3>2. CASE c = <<>>
      BY <1>0, <3>2, SetInputCodeGood DEF m
    <3>3. CASE c # <<>>
      BY <1>0, <3>1, <3>3 DEF List
    <3> QED BY <3>2, <3>3
  <2> HIDE DEF c
  <2>3. CASE c = <<>>
    <3>1. GoodList(m, wordCount)
      BY <1>0, <2>3, SetInputCodeGood DEF m
    <3>2. Resynced(m)
      BY <1>2, <2>1, <2>2, <2>3 DEF Pop
    <3> QED BY <3>1, <3>2, ResyncedInv
  <2>4. CASE c # <<>>
    <3>1. c \in Codes /\ Resynced(SetCandidates(m, Lookup[c], wordCount))
      BY <1>2, <2>1, <2>2, <2>4 DEF Pop
    <3>2. m \in List
      BY <1>0, <3>1, SetInputCodeGood DEF m
    <3>3. GoodList(SetCandidates(m, Lookup[c], wordCount), wordCount)
      BY <1>0, <2>2, <3>1, <3>2, SetCandidatesGood, CandidateListAssumption
    <3> QED BY <3>1, <3>3, ResyncedInv
  <2> QED BY <2>3, <2>4
<1>3. CASE Discard
  <2>1. GoodList(Clear(list), shownWidth)
    BY <1>0, ClearGood
  <2> QED BY <1>3, <2>1, <1>0 DEF Discard, Inv, GoodList, Cut, Answered
<1>4. CASE PageKeyPrev \/ PageKeyNext \/ LookupTablePageUp \/ LookupTablePageDown
  <2>1. Resynced(Prev(list, wordCount)) \/ Resynced(Next(list, wordCount))
    BY <1>4 DEF PageKeyPrev, PageKeyNext, LookupTablePageUp, LookupTablePageDown
  <2>2. GoodList(Prev(list, wordCount), wordCount) /\ GoodList(Next(list, wordCount), wordCount)
    BY <1>0, PagingGood
  <2> QED BY <2>1, <2>2, ResyncedInv
<1>5. CASE ReloadConfig
  BY <1>5, Widths DEF ReloadConfig, Inv, GoodList, Cut, Answered
<1>6. CASE UNCHANGED vars
  BY <1>6 DEF vars, Inv, GoodList, Cut, Answered
<1> QED
  BY <1>1, <1>2, <1>3, <1>4, <1>5, <1>6 DEF CandidateNext, CoreNext

LEMMA ListInvariant == Spec => []Inv
BY InitInv, StepKeepsInv, PTL DEF Spec

-----------------------------------------------------------------------------
(* What follows from it. *)

\* The page starts inside the candidates; it is as long as the width, or ends
\* with the last of them.
LEMMA PageShown ==
  ASSUME NEW l, NEW w \in Nat \ {0}, GoodList(l, w), l.all # <<>>
  PROVE  /\ l.page \in Nat /\ l.page * w \in Nat /\ Len(l.all) \in Nat /\ Len(l.shown) \in 1 .. w
         /\ l.page * w + Len(l.shown) <= Len(l.all)
         /\ Len(l.shown) = w \/ l.page * w + Len(l.shown) = Len(l.all)
         /\ DOMAIN l.shown = 1 .. Len(l.shown)
         /\ \A j \in DOMAIN l.shown : l.shown[j] = l.all[l.page * w + j].text
<1> DEFINE start == l.page * w
           n == Smaller(start + w, Len(l.all)) - start
<1>1. l \in List /\ l.all \in Seq(Entry) /\ l.page \in Nat /\ l.shown = PageTexts(l.all, start, w)
  BY DEF GoodList, Cut, List
<1>2. start \in Nat /\ start < Len(l.all) /\ Len(l.all) \in Nat
  BY <1>1, PageInside DEF GoodList
<1> HIDE DEF start
<1>3. n \in 1 .. w /\ start + n <= Len(l.all) /\ (n = w \/ start + n = Len(l.all))
  BY <1>2 DEF Smaller
<1>4. Len(l.shown) = n /\ DOMAIN l.shown = 1 .. n /\ \A j \in 1 .. n : l.shown[j] = l.all[start + j].text
  <2>1. w \in Nat \ {0} /\ l.all \in Seq(Entry) /\ start \in Nat /\ start < Len(l.all)
    BY <1>1, <1>2
  <2>2. /\ Len(PageTexts(l.all, start, w)) = n
        /\ DOMAIN PageTexts(l.all, start, w) = 1 .. n
        /\ \A j \in 1 .. n : PageTexts(l.all, start, w)[j] = l.all[start + j].text
    BY <2>1, PageFacts
  <2> HIDE DEF n
  <2> QED BY <1>1, <2>2
<1> HIDE DEF n
<1> QED BY <1>1, <1>2, <1>3, <1>4 DEF start

\* The page shown is a page of the candidates of the code, for any width the
\* settings may have and whenever it is changed.
THEOREM PagesCorrect == Spec => []ShownIsAPage
<1>1. Inv => ShownIsAPage
  <2> SUFFICES ASSUME Inv PROVE ShownIsAPage
    OBVIOUS
  <2>1. shownWidth \in Nat \ {0} /\ GoodList(list, shownWidth)
    BY DEF Inv
  <2>2. CASE list.all = <<>>
    BY <2>1, <2>2 DEF ShownIsAPage, GoodList, Cut
  <2>3. CASE list.all # <<>>
    <3>1. list.all = Lookup[list.code]
      BY <2>1, <2>3 DEF GoodList, Answered
    <3> QED BY <2>1, <2>3, <3>1, PageShown DEF ShownIsAPage
  <2> QED BY <2>2, <2>3
<1> QED BY <1>1, ListInvariant, PTL

\* The arrows of the panel and the page keys lead to every candidate and to
\* nothing else.
THEOREM ArrowsCorrect == Spec => []ArrowsAreRight
<1>1. Inv => ArrowsAreRight
  <2> SUFFICES ASSUME Inv, list.all # <<>>
               PROVE  /\ HasPrev(list) <=> list.page * shownWidth > 0
                      /\ HasNext(list) <=> list.page * shownWidth + Len(list.shown) < Len(list.all)
    BY DEF ArrowsAreRight
  <2> DEFINE p == list.page
             w == shownWidth
             t == list.total
             n == Len(list.all)
             k == Len(list.shown)
  <2>1. w \in Nat \ {0} /\ GoodList(list, w) /\ list \in List
    BY DEF Inv, GoodList
  <2>2. /\ p \in Nat /\ n \in Nat /\ k \in 1 .. w /\ p * w \in Nat
        /\ p * w + k <= n /\ (k = w \/ p * w + k = n)
    BY <2>1, PageShown
  <2>3. t \in Nat \ {0} /\ (t - 1) * w < n /\ n <= t * w /\ p < t
    <3>1. n \in Nat \ {0} /\ t = PagesFor(n, w) /\ p < t
      BY <2>1, EmptySeq DEF GoodList, Cut, List
    <3> HIDE DEF n, t, w
    <3> QED BY <2>1, <3>1, PagesCover
  <2> HIDE DEF p, w, t, n, k
  <2>4. p > 0 <=> p * w > 0
    BY <2>1, <2>2
  <2>5. ASSUME p < t - 1 PROVE p * w + k < n
    <3>1. \A a, b, c \in Nat : a <= b => a * c <= b * c
      OBVIOUS
    <3>2. t - 1 \in Nat /\ p + 1 \in Nat /\ p + 1 <= t - 1 /\ w \in Nat
      BY <2>1, <2>2, <2>3, <2>5
    <3>3. (p + 1) * w <= (t - 1) * w
      BY <3>1, <3>2
    <3>4. (p + 1) * w = p * w + w /\ (t - 1) * w \in Int
      BY <2>2, <3>2
    <3> QED BY <2>2, <2>3, <3>2, <3>3, <3>4
  <2>6. ASSUME ~(p < t - 1) PROVE ~(p * w + k < n)
    <3>1. p = t - 1
      <4>1. p \in Nat /\ t \in Nat /\ p < t
        BY <2>2, <2>3
      <4> QED BY <2>6, <4>1
    <3>2. t * w = p * w + w
      <4>1. t = p + 1
        BY <2>2, <2>3, <3>1
      <4> QED BY <2>1, <2>2, <4>1
    <3> QED BY <2>1, <2>2, <2>3, <3>2
  <2> QED BY <2>4, <2>5, <2>6 DEF HasPrev, HasNext, p, w, t, n, k
<1> QED BY <1>1, ListInvariant, PTL

\* Text and full code of a pick are looked up by two routes; at an unchanged
\* width they are of one candidate, whichever the index or the code.
THEOREM PairsCorrect == Spec => []PairedAtWidth
<1>1. Inv => PairedAtWidth
  <2> SUFFICES ASSUME Inv, wordCount = shownWidth
               PROVE  /\ \A i \in 0 .. Len(list.shown) - 1 :
                           \E e \in ToSet(list.all) : /\ e.text = SelectText(list, i, NoText)
                                                      /\ e.full = SelectFullCode(list, i, wordCount)
                      /\ \A c \in Codes :
                           LET t == FirstTextForFullCode(list, c, wordCount, NoText)
                           IN  t # NoText => \E e \in ToSet(list.all) : e.text = t /\ e.full = c
    BY DEF PairedAtWidth
  <2> DEFINE w == wordCount
             start == list.page * w
  <2>1. w \in Nat \ {0} /\ GoodList(list, w) /\ list \in List /\ list.all \in Seq(Entry)
    BY DEF Inv, GoodList, List
  <2>2. CASE list.all = <<>>
    <3>1. list.shown = <<>> /\ Len(list.shown) = 0
      BY <2>1, <2>2, EmptySeq DEF GoodList, Cut
    <3> QED BY <3>1 DEF FirstTextForFullCode
  <2>3. CASE list.all # <<>>
    <3>1. /\ start \in Nat /\ Len(list.all) \in Nat /\ Len(list.shown) \in Nat
          /\ start + Len(list.shown) <= Len(list.all)
          /\ \A j \in 1 .. Len(list.shown) : list.shown[j] = list.all[start + j].text
      <4> HIDE DEF w
      <4> QED BY <2>1, <2>3, PageShown
    <3>2. \A j \in 1 .. Len(list.shown) : start + j \in 1 .. Len(list.all)
      <4> HIDE DEF start
      <4> QED BY <3>1
    <3>3. \A j \in 1 .. Len(list.all) : list.all[j] \in ToSet(list.all)
      BY <2>1, LenProperties DEF ToSet
    <3>4. ASSUME NEW i \in 0 .. Len(list.shown) - 1
          PROVE  \E e \in ToSet(list.all) : /\ e.text = SelectText(list, i, NoText)
                                            /\ e.full = SelectFullCode(list, i, w)
      <4>1. OnPage(list, i) /\ i + 1 \in 1 .. Len(list.shown)
        BY <3>1 DEF OnPage
      <4>2. start + (i + 1) = start + i + 1 /\ start + i < Len(list.all)
        <5> HIDE DEF start
        <5>1. \A s, k, n \in Nat : s + k <= n => \A j \in 0 .. k - 1 : s + j < n
          OBVIOUS
        <5>2. start + i < Len(list.all)
          BY <3>1, <5>1
        <5>3. start \in Int /\ i \in Int
          BY <3>1
        <5> QED BY <5>2, <5>3
      <4>3. SelectText(list, i, NoText) = list.all[start + i + 1].text
        <5> HIDE DEF start
        <5> QED BY <3>1, <4>1, <4>2 DEF SelectText
      <4>4. SelectFullCode(list, i, w) = list.all[start + i + 1].full
        BY <4>1, <4>2 DEF SelectFullCode
      <4>5. list.all[start + i + 1] \in ToSet(list.all)
        <5> HIDE DEF start
        <5> QED BY <3>2, <3>3, <4>1, <4>2
      <4> QED BY <4>3, <4>4, <4>5
    <3>5. ASSUME NEW c \in Codes, FirstTextForFullCode(list, c, w, NoText) # NoText
          PROVE  \E e \in ToSet(list.all) : e.text = FirstTextForFullCode(list, c, w, NoText) /\ e.full = c
      <4> DEFINE hits == {i \in 1 .. Len(list.shown) : /\ start + i <= Len(list.all)
                                                       /\ list.all[start + i].full = c}
                 first == CHOOSE i \in hits : \A j \in hits : i <= j
      <4>1. FirstTextForFullCode(list, c, w, NoText) = IF hits = {} THEN NoText ELSE list.shown[first]
        BY DEF FirstTextForFullCode
      <4>2. hits # {} /\ hits \subseteq Nat
        <5> HIDE DEF first
        <5>1. hits # {}
          <6> HIDE DEF hits
          <6> QED BY <3>5, <4>1
        <5>2. 1 .. Len(list.shown) \subseteq Nat
          BY <3>1
        <5> QED BY <5>1, <5>2
      <4>3. first \in hits
        <5> HIDE DEF hits
        <5>1. \E i \in hits : \A j \in hits : i <= j
          BY <4>2, LeastMember
        <5> QED BY <5>1
      <4> HIDE DEF first
      <4>4. first \in 1 .. Len(list.shown) /\ list.all[start + first].full = c
        BY <4>3
      <4> HIDE DEF hits, start
      <4> QED BY <3>1, <3>2, <3>3, <4>1, <4>2, <4>4
    <3> QED BY <3>4, <3>5
  <2> QED BY <2>2, <2>3
<1> QED BY <1>1, ListInvariant, PTL

-----------------------------------------------------------------------------
(* The list behind the panel's window is the list of CandidateList. *)


LEMMA LinkStep == [LinkNext]_linkVars => [CandidateNext]_vars
<1> SUFFICES ASSUME [LinkNext]_linkVars PROVE [CandidateNext]_vars
  OBVIOUS
<1>1. CASE Key
  BY <1>1 DEF Key, CandidateNext, CoreNext
<1>2. CASE SilentReset
  BY <1>2 DEF SilentReset, CandidateNext, CoreNext
<1>3. CASE EngineTakes
  BY <1>3 DEF EngineTakes, TakeSelect, TakeOther, CandidateNext, CoreNext
<1>4. CASE PanelTakes \/ ClickArrow \/ SettingsOk \/ PanelDies \/ PanelStarts
  BY <1>4 DEF PanelTakes, ClickArrow, SettingsOk, PanelDies, PanelStarts
<1>5. ASSUME NEW i \in 0 .. Len(window.items), ClickCandidate(i) PROVE UNCHANGED vars
  BY <1>5 DEF ClickCandidate
<1>6. CASE UNCHANGED linkVars
  BY <1>6 DEF linkVars
<1> QED BY <1>1, <1>2, <1>3, <1>4, <1>5, <1>6 DEF LinkNext

\* Whatever the panel sends, however late, and whenever it dies, the engine's
\* list goes through steps of CandidateList only.
THEOREM LinkRefines == LinkSpec => Spec
BY LinkStep, PTL DEF LinkSpec, LinkInit, Spec

\* So what the engine sends to the window is a page of the candidates of the
\* code, with the arrows that belong to it and texts that pair with their codes.
THEOREM LinkKeepsThePage == LinkSpec => [](ShownIsAPage /\ ArrowsAreRight /\ PairedAtWidth)
BY LinkRefines, PagesCorrect, ArrowsCorrect, PairsCorrect, PTL
-----------------------------------------------------------------------------
(* The window. *)

Texts == {e.text : e \in Entry}
Window == [up : BOOLEAN, visible : BOOLEAN, items : Seq(Texts), prev : BOOLEAN, next : BOOLEAN]
Msg == [kind : {"preedit"}, some : BOOLEAN]
         \cup [kind : {"table"}, items : Seq(Texts), prev : BOOLEAN, next : BOOLEAN]
Signal == [kind : {"select"}, index : Nat] \cup [kind : {"up", "down", "reload"}]

LinkTypes ==
  /\ window \in Window
  /\ ~window.up => window = NoWindow
  /\ toPanel \in Seq(Msg) /\ signals \in Seq(Signal) /\ told \in BOOLEAN

\* A window w shows the list l, but for a click that is to be taken.
Shows(w, l, clicked) ==
  /\ w.visible => w.items = l.shown /\ w.prev = HasPrev(l) /\ w.next = HasNext(l)
  /\ w.visible \/ NoPreedit(l) \/ clicked
  /\ w.visible => ~NoPreedit(l)

\* The inductive invariant of the link.  WindowShowsThePage alone does not survive
\* the click being taken: the window must be known to be hidden, and nothing on
\* its way that would show it again.
LinkInv ==
  /\ LinkTypes
  /\ told => /\ Shows(W!Outcome(window, toPanel), list, Selecting)
             /\ Selecting => toPanel = <<>> /\ ~window.visible

LEMMA WindowType ==
  ASSUME NEW w \in Window, NEW m \in Msg PROVE WindowAfter(w, m) \in Window
<1>1. CASE m \in [kind : {"preedit"}, some : BOOLEAN]
  BY <1>1 DEF WindowAfter, Window
<1>2. CASE m \in [kind : {"table"}, items : Seq(Texts), prev : BOOLEAN, next : BOOLEAN]
  BY <1>2 DEF WindowAfter, Window
<1> QED BY <1>1, <1>2 DEF Msg

LEMMA WindowOutcomeType ==
  ASSUME NEW w \in Window, NEW q \in Seq(Msg) PROVE W!Outcome(w, q) \in Window
<1>1. \A x \in Window, m \in Msg : WindowAfter(x, m) \in Window
  BY WindowType
<1> QED BY <1>1, W!OutcomeStays

\* A window that comes up with what is on its way shows what one would that was
\* up before.
LEMMA UpNoMatter ==
  ASSUME NEW q \in Seq(Msg)
  PROVE  LET v == W!Outcome(NoWindow, q)
             w == W!Outcome(NewWindow, q)
         IN  v.visible = w.visible /\ v.items = w.items /\ v.prev = w.prev /\ v.next = w.next
<1> DEFINE R == {xy \in Window \X Window :
                   /\ xy[1].visible = xy[2].visible /\ xy[1].items = xy[2].items
                   /\ xy[1].prev = xy[2].prev /\ xy[1].next = xy[2].next}
<1>1. NoWindow \in Window /\ NewWindow \in Window /\ <<NoWindow, NewWindow>> \in R
  <2>1. <<>> \in Seq(Texts)
    BY EmptySeq
  <2> QED BY <2>1 DEF NoWindow, NewWindow, Window
<1>2. ASSUME NEW x, NEW y, NEW m \in Msg, <<x, y>> \in R
      PROVE  <<WindowAfter(x, m), WindowAfter(y, m)>> \in R
  <2>1. /\ x \in Window /\ y \in Window
        /\ x.visible = y.visible /\ x.items = y.items /\ x.prev = y.prev /\ x.next = y.next
    BY <1>2
  <2>2. WindowAfter(x, m) \in Window /\ WindowAfter(y, m) \in Window
    BY <2>1, WindowType
  <2>3. /\ WindowAfter(x, m).visible = WindowAfter(y, m).visible
        /\ WindowAfter(x, m).items = WindowAfter(y, m).items
        /\ WindowAfter(x, m).prev = WindowAfter(y, m).prev
        /\ WindowAfter(x, m).next = WindowAfter(y, m).next
    BY <2>1 DEF WindowAfter, Window
  <2> QED BY <2>2, <2>3
<1> HIDE DEF R
<1>3. <<W!Outcome(NoWindow, q), W!Outcome(NewWindow, q)>> \in R
  BY <1>1, <1>2, W!OutcomesStayRelated
<1> QED BY <1>3 DEF R

\* What the list is when nothing is composed.
LEMMA NothingShown ==
  ASSUME NEW l, NEW w, GoodList(l, w), NoPreedit(l) PROVE l.shown = <<>>
BY CandidateListAssumption DEF GoodList, Cut, Answered, NoPreedit

\* The two messages of an update bring the window to the page, whatever is on
\* its way before them.
LEMMA UpdateShows ==
  ASSUME NEW w \in Window, NEW q \in Seq(Msg), NEW l \in List, NEW n, GoodList(l, n), NEW clicked
  PROVE  /\ PreeditMsg(l) \in Msg /\ TableMsg(l) \in Msg
         /\ Shows(W!Outcome(w, q \o <<PreeditMsg(l), TableMsg(l)>>), l, clicked)
<1> DEFINE p == PreeditMsg(l)
           t == TableMsg(l)
           v == W!Outcome(w, q)
<1>1. p \in Msg /\ t \in Msg
  BY DEF PreeditMsg, TableMsg, Msg, List, Texts, HasPrev, HasNext, NoPreedit
<1>2. v \in Window
  BY WindowOutcomeType
<1>3. Shows(WindowAfter(WindowAfter(v, p), t), l, clicked)
  <2>1. WindowAfter(v, p) = [v EXCEPT !.visible = ~NoPreedit(l)]
    BY DEF WindowAfter, PreeditMsg
  <2>2. /\ WindowAfter(WindowAfter(v, p), t).items = l.shown
        /\ WindowAfter(WindowAfter(v, p), t).prev = HasPrev(l)
        /\ WindowAfter(WindowAfter(v, p), t).next = HasNext(l)
        /\ WindowAfter(WindowAfter(v, p), t).visible = (~NoPreedit(l) \/ l.shown # <<>>)
    BY <1>2, <2>1 DEF WindowAfter, TableMsg, Window
  <2> HIDE DEF v, p, t
  <2> QED BY <2>2, NothingShown DEF Shows
<1>4. W!Outcome(w, q \o <<p, t>>) = WindowAfter(WindowAfter(v, p), t)
  <2> HIDE DEF p, t
  <2>1. Append(q, p) \in Seq(Msg) /\ q \o <<p, t>> = Append(Append(q, p), t)
    BY <1>1
  <2>2. W!Outcome(w, Append(q, p)) = WindowAfter(v, p)
    BY <1>1, W!OutcomeOfAppend
  <2> DEFINE r == Append(q, p)
  <2>3. W!Outcome(w, Append(r, t)) = WindowAfter(W!Outcome(w, r), t)
    <3>1. r \in Seq(Msg) /\ t \in Msg
      BY <1>1, <2>1
    <3> HIDE DEF r
    <3> QED BY <3>1, W!OutcomeOfAppend
  <2> QED BY <2>1, <2>2, <2>3
<1> QED BY <1>1, <1>3, <1>4

LEMMA UpdateKeeps ==
  ASSUME LinkInv, Inv', Update, signals' \in Seq(Signal), Selecting' <=> Selecting PROVE LinkInv'
<1>1. /\ toPanel' = toPanel \o <<PreeditMsg(list'), TableMsg(list')>>
      /\ told' = ~Selecting /\ window' = window
  BY DEF Update
<1>2. window \in Window /\ toPanel \in Seq(Msg) /\ list' \in List /\ GoodList(list', shownWidth')
  BY DEF LinkInv, LinkTypes, Inv, GoodList, Cut, Answered
<1>3. /\ PreeditMsg(list') \in Msg /\ TableMsg(list') \in Msg
      /\ Shows(W!Outcome(window, toPanel'), list', Selecting)
  BY <1>1, <1>2, UpdateShows
<1>4. toPanel' \in Seq(Msg)
  <2> DEFINE p == PreeditMsg(list')
             t == TableMsg(list')
  <2>1. p \in Msg /\ t \in Msg
    BY <1>3
  <2> HIDE DEF p, t
  <2>2. toPanel \o <<p, t>> \in Seq(Msg)
    BY <1>2, <2>1
  <2> QED BY <1>1, <2>2 DEF p, t
<1>5. LinkTypes'
  BY <1>1, <1>4 DEF LinkInv, LinkTypes, Selecting
<1>6. told' => ~Selecting'
  BY <1>1
<1> QED BY <1>1, <1>3, <1>5, <1>6 DEF LinkInv

LEMMA SelectingIs ==
  ASSUME signals \in Seq(Signal) PROVE Selecting <=> \E m \in ToSet(signals) : m.kind = "select"
BY DEF Selecting, ToSet

\* A click on its way: one is added at the end and taken at the front.
LEMMA SelectingAdded ==
  ASSUME LinkTypes, NEW m \in Signal, signals' = Append(signals, m)
  PROVE  signals' \in Seq(Signal) /\ (Selecting' <=> Selecting \/ m.kind = "select")
<1>1. ToSet(Append(signals, m)) = ToSet(signals) \cup {m} /\ Append(signals, m) \in Seq(Signal)
  BY MembersOfAppend DEF LinkTypes
<1>2. Selecting' <=> \E n \in ToSet(signals') : n.kind = "select"
  BY DEF Selecting, ToSet
<1> QED BY <1>1, <1>2, SelectingIs DEF LinkTypes

LEMMA SelectingTaken ==
  ASSUME LinkTypes, signals # <<>>, signals' = Tail(signals)
  PROVE  /\ signals' \in Seq(Signal) /\ (Selecting' => Selecting)
         /\ IF Head(signals).kind = "select" THEN Selecting ELSE Selecting' <=> Selecting
<1>1. ToSet(signals) = ToSet(Tail(signals)) \cup {Head(signals)} /\ Tail(signals) \in Seq(Signal)
  BY MembersOfTail, HeadTailProperties DEF LinkTypes
<1>2. Selecting' <=> \E n \in ToSet(signals') : n.kind = "select"
  BY DEF Selecting, ToSet
<1> QED BY <1>1, <1>2, SelectingIs DEF LinkTypes

LEMMA LinkInitInv == LinkInit => LinkInv
<1> SUFFICES ASSUME LinkInit PROVE LinkInv
  OBVIOUS
<1>1. /\ list = EmptyList /\ window = NoWindow /\ toPanel = <<>> /\ signals = <<>> /\ told = TRUE
  BY DEF LinkInit, Init
<1>2. W!Outcome(window, <<>>) = window
  BY W!OutcomeOfNone
<1>3. <<>> \in Seq(Texts) /\ <<>> \in Seq(Msg) /\ <<>> \in Seq(Signal)
  BY EmptySeq
<1>4. LinkTypes
  BY <1>1, <1>3 DEF LinkTypes, NoWindow, Window
<1>5. Shows(window, list, Selecting) /\ ~Selecting
  BY <1>1 DEF Shows, NoPreedit, EmptyList, NoWindow, Selecting
<1> QED BY <1>1, <1>2, <1>4, <1>5 DEF LinkInv

LEMMA LinkStepKeepsInv == LinkInv /\ Inv /\ Inv' /\ [LinkNext]_linkVars => LinkInv'
<1> SUFFICES ASSUME LinkInv, Inv, Inv', [LinkNext]_linkVars PROVE LinkInv'
  OBVIOUS
<1>1. /\ window \in Window /\ toPanel \in Seq(Msg) /\ signals \in Seq(Signal) /\ told \in BOOLEAN
      /\ ~window.up => window = NoWindow
      /\ LinkTypes
  BY DEF LinkInv, LinkTypes
<1>2. told => /\ Shows(W!Outcome(window, toPanel), list, Selecting)
              /\ Selecting => toPanel = <<>> /\ ~window.visible
  BY DEF LinkInv
<1>3. W!Outcome(window, <<>>) = window /\ W!Outcome(NoWindow, <<>>) = NoWindow
  BY W!OutcomeOfNone
<1>4. ASSUME Discard PROVE NoPreedit(list')
  BY <1>4 DEF Discard, Clear, EmptyList, NoPreedit
<1>5. ASSUME Shows(W!Outcome(window, toPanel), list, Selecting), NoPreedit(list)
      PROVE  ~W!Outcome(window, toPanel).visible
  BY <1>5 DEF Shows
<1>6. CASE Key
  <2>1. Update /\ signals' = signals
    BY <1>6 DEF Key
  <2>2. (Selecting' <=> Selecting)
    BY <2>1 DEF Selecting
  <2> QED BY <1>1, <2>1, <2>2, UpdateKeeps
<1>7. CASE SilentReset
  <2>1. /\ Discard /\ told' = (told /\ NoPreedit(list)) /\ UNCHANGED <<window, toPanel, signals>>
    BY <1>7 DEF SilentReset
  <2>2. (Selecting' <=> Selecting) /\ LinkTypes'
    BY <1>1, <2>1 DEF Selecting, LinkTypes
  <2>3. ASSUME told' PROVE Shows(W!Outcome(window, toPanel), list', Selecting)
    BY <1>2, <1>4, <1>5, <2>1, <2>3 DEF Shows
  <2> QED BY <1>2, <2>1, <2>2, <2>3 DEF LinkInv, Shows
<1>8. CASE TakeSelect
  <2>1. /\ Discard /\ signals # <<>> /\ Head(signals).kind = "select" /\ signals' = Tail(signals)
        /\ UNCHANGED <<window, toPanel, told>>
    BY <1>8 DEF TakeSelect
  <2>2. Selecting /\ signals' \in Seq(Signal)
    BY <1>1, <2>1, SelectingTaken
  <2>3. LinkTypes'
    BY <1>1, <2>1, <2>2 DEF LinkTypes
  <2>4. ASSUME told PROVE toPanel = <<>> /\ ~window.visible /\ Shows(window, list', Selecting')
    BY <1>2, <1>4, <2>1, <2>2, <2>4 DEF Shows
  <2> QED BY <1>3, <2>1, <2>3, <2>4 DEF LinkInv, Shows
<1>9. CASE TakeOther
  <2>1. Update /\ signals # <<>> /\ Head(signals).kind # "select" /\ signals' = Tail(signals)
    BY <1>9 DEF TakeOther
  <2>2. signals' \in Seq(Signal) /\ (Selecting' <=> Selecting)
    BY <1>1, <2>1, SelectingTaken
  <2> QED BY <2>1, <2>2, UpdateKeeps
<1>10. CASE PanelTakes
  <2>1. /\ window.up /\ toPanel # <<>> /\ window' = WindowAfter(window, Head(toPanel))
        /\ toPanel' = Tail(toPanel) /\ UNCHANGED <<vars, signals, told>>
    BY <1>10 DEF PanelTakes
  <2>2. W!Outcome(window', toPanel') = W!Outcome(window, toPanel)
    BY <1>1, <2>1, W!OutcomeOfTail
  <2>3. Head(toPanel) \in Msg /\ toPanel' \in Seq(Msg)
    BY <1>1, <2>1, HeadTailProperties
  <2>4. window' \in Window /\ window'.up
    <3>1. \A m : WindowAfter(window, m).up = window.up
      BY <1>1 DEF WindowAfter, Window
    <3> QED BY <1>1, <2>1, <2>3, <3>1, WindowType
  <2>5. LinkTypes' /\ list' = list /\ (Selecting' <=> Selecting)
    BY <1>1, <2>1, <2>3, <2>4 DEF LinkTypes, vars, Selecting
  <2> QED BY <1>2, <2>1, <2>2, <2>5 DEF LinkInv, Shows
<1>11. ASSUME NEW i \in 0 .. Len(window.items), ClickCandidate(i) PROVE LinkInv'
  <2> DEFINE m == [kind |-> "select", index |-> i]
  <2>1. /\ signals' = Append(signals, m) /\ window' = [window EXCEPT !.visible = FALSE]
        /\ told' = (told /\ toPanel = <<>>) /\ toPanel' = toPanel /\ UNCHANGED vars /\ window.visible
    BY <1>11 DEF ClickCandidate
  <2>2. m \in Signal /\ m.kind = "select"
    BY <1>1 DEF Signal, Window
  <2> HIDE DEF m
  <2>3. Selecting' /\ signals' \in Seq(Signal)
    BY <1>1, <2>1, <2>2, SelectingAdded
  <2>4. window' \in Window /\ ~window'.visible /\ window'.up
    <3>1. window # NoWindow
      BY <2>1 DEF NoWindow
    <3> QED BY <1>1, <2>1, <3>1 DEF Window
  <2>5. LinkTypes'
    BY <1>1, <2>1, <2>3, <2>4 DEF LinkTypes
  <2>6. Shows(window', list', Selecting')
    BY <2>3, <2>4 DEF Shows
  <2>7. told' => toPanel' = <<>> /\ W!Outcome(window', toPanel') = window'
    <3>1. W!Outcome(window', <<>>) = window'
      BY W!OutcomeOfNone
    <3> QED BY <2>1, <3>1
  <2> QED BY <2>4, <2>5, <2>6, <2>7 DEF LinkInv, Shows
<1>12. ASSUME NEW m \in Signal, m.kind # "select", signals' = Append(signals, m),
              UNCHANGED <<vars, window, toPanel, told>>
       PROVE  LinkInv'
  <2>1. signals' \in Seq(Signal) /\ (Selecting' <=> Selecting)
    BY <1>1, <1>12, SelectingAdded
  <2>2. LinkTypes' /\ list' = list
    BY <1>1, <1>12, <2>1 DEF LinkTypes, vars
  <2> QED BY <1>2, <1>12, <2>1, <2>2 DEF LinkInv, Shows
<1>13. \A k \in {"up", "down", "reload"} : [kind |-> k] \in Signal /\ [kind |-> k].kind # "select"
  BY DEF Signal
<1>14. CASE ClickArrow \/ SettingsOk
  BY <1>12, <1>13, <1>14 DEF ClickArrow, SettingsOk
<1>15. CASE PanelDies
  <2>1. /\ window' = NoWindow /\ toPanel' = <<>> /\ told' = (told /\ NoPreedit(list))
        /\ UNCHANGED <<vars, signals>>
    BY <1>15 DEF PanelDies
  <2>2. <<>> \in Seq(Texts) /\ <<>> \in Seq(Msg)
    BY EmptySeq
  <2>3. LinkTypes' /\ list' = list /\ (Selecting' <=> Selecting)
    BY <1>1, <2>1, <2>2 DEF LinkTypes, NoWindow, Window, vars, Selecting
  <2>4. told' => Shows(NoWindow, list, Selecting)
    BY <2>1 DEF Shows, NoWindow
  <2>5. ~NoWindow.visible
    BY DEF NoWindow
  <2> QED BY <1>3, <2>1, <2>3, <2>4, <2>5 DEF LinkInv, Shows
<1>16. CASE PanelStarts
  <2> DEFINE m == [kind |-> "reload"]
  <2>1. /\ window = NoWindow /\ window' = NewWindow /\ signals' = Append(signals, m)
        /\ UNCHANGED <<vars, toPanel, told>>
    BY <1>1, <1>16 DEF PanelStarts
  <2>2. m \in Signal /\ m.kind # "select"
    BY <1>13
  <2> HIDE DEF m
  <2>3. (Selecting' <=> Selecting) /\ signals' \in Seq(Signal)
    BY <1>1, <2>1, <2>2, SelectingAdded
  <2>4. NewWindow \in Window /\ NewWindow.up /\ ~NewWindow.visible
    BY EmptySeq DEF NewWindow, NoWindow, Window
  <2>5. LinkTypes' /\ list' = list
    BY <1>1, <2>1, <2>3, <2>4 DEF LinkTypes, vars
  <2>6. Shows(W!Outcome(NoWindow, toPanel), list, Selecting)
           => Shows(W!Outcome(NewWindow, toPanel), list, Selecting)
    BY <1>1, UpNoMatter DEF Shows
  <2> QED BY <1>2, <2>1, <2>3, <2>4, <2>5, <2>6 DEF LinkInv, Shows
<1>17. CASE UNCHANGED linkVars
  <2>1. LinkTypes' /\ list' = list /\ (Selecting' <=> Selecting) /\ UNCHANGED <<window, toPanel, told>>
    BY <1>1, <1>17 DEF linkVars, LinkTypes, vars, Selecting
  <2> QED BY <1>2, <2>1 DEF LinkInv, Shows
<1> QED
  BY <1>6, <1>7, <1>8, <1>9, <1>10, <1>11, <1>14, <1>15, <1>16, <1>17 DEF LinkNext, EngineTakes

\* The window shows the engine's page and nothing else once it has taken what is
\* on its way, through clicks, changes of the width and deaths of the panel, with
\* any number of messages on their way, as long as no click or reset crossed an
\* update.
THEOREM WindowCorrect == LinkSpec => []WindowShowsThePage
<1>1. LinkInv => WindowShowsThePage
  BY DEF LinkInv, WindowShowsThePage, Shows, WindowToBe, InWindow!Outcome, W!Outcome
<1>2. LinkSpec => []Inv
  BY LinkRefines, ListInvariant, PTL
<1>3. LinkSpec => []LinkInv
  BY <1>2, LinkInitInv, LinkStepKeepsInv, PTL DEF LinkSpec
<1> QED BY <1>1, <1>3, PTL
=============================================================================
