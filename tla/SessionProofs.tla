---------------------------- MODULE SessionProofs ----------------------------
(***************************************************************************)
(* Proofs about Session, for every choice of its constants.                *)
(***************************************************************************)
EXTENDS Session, SequenceFacts, TLAPS

-----------------------------------------------------------------------------
(* Codes *)

\* A code is a sequence of printable keys that is not longer than the bound.
LEMMA CodeIsSeq ==
  ASSUME NEW c
  PROVE  c \in Code <=> c \in Seq(Printable) /\ Len(c) <= MaxCode
<1> USE BoundsAssumption
<1>1. ASSUME c \in Code PROVE c \in Seq(Printable) /\ Len(c) <= MaxCode
  <2>1. PICK n \in 0 .. MaxCode : c \in [1 .. n -> Printable]
    BY <1>1 DEF Code
  <2>2. c \in Seq(Printable)
    BY <2>1, SeqDef
  <2>3. DOMAIN c = 1 .. Len(c) /\ DOMAIN c = 1 .. n /\ Len(c) \in Nat
    BY <2>1, <2>2, LenProperties
  <2> QED BY <2>1, <2>2, <2>3
<1>2. ASSUME c \in Seq(Printable), Len(c) <= MaxCode PROVE c \in Code
  <2>1. Len(c) \in 0 .. MaxCode /\ c \in [1 .. Len(c) -> Printable]
    BY <1>2, LenProperties
  <2> QED BY <2>1 DEF Code
<1> QED BY <1>1, <1>2

\* The codes the handlers make of a code are codes.
LEMMA CodesAreClosed ==
  /\ <<>> \in Code
  /\ \A k \in Printable : <<k>> \in Code
  /\ \A c \in Code, k \in Printable : Len(c) < MaxCode => Append(c, k) \in Code
  /\ \A c \in Code : c # <<>> => SubSeq(c, 1, Len(c) - 1) \in Code
<1> USE BoundsAssumption
<1>1. <<>> \in Code
  <2>1. <<>> \in Seq(Printable) /\ Len(<<>>) <= MaxCode
    OBVIOUS
  <2> QED BY <2>1, CodeIsSeq
<1>2. ASSUME NEW k \in Printable PROVE <<k>> \in Code
  <2>1. <<k>> \in Seq(Printable) /\ Len(<<k>>) <= MaxCode
    OBVIOUS
  <2> QED BY <2>1, CodeIsSeq
<1>3. ASSUME NEW c \in Code, NEW k \in Printable, Len(c) < MaxCode PROVE Append(c, k) \in Code
  <2>1. c \in Seq(Printable) /\ Len(c) \in Nat
    BY CodeIsSeq, LenProperties
  <2>2. Append(c, k) \in Seq(Printable) /\ Len(Append(c, k)) <= MaxCode
    BY <1>3, <2>1
  <2> QED BY <2>2, CodeIsSeq
<1>4. ASSUME NEW c \in Code, c # <<>> PROVE SubSeq(c, 1, Len(c) - 1) \in Code
  <2>1. c \in Seq(Printable) /\ Len(c) \in Nat \ {0} /\ Len(c) <= MaxCode
    BY <1>4, CodeIsSeq, EmptySeq
  <2>2. \A i \in 1 .. Len(c) - 1 : c[i] \in Printable
    BY <2>1, ElementOfSeq
  <2>3. SubSeq(c, 1, Len(c) - 1) \in Seq(Printable)
    BY <2>1, <2>2
  <2>4. Len(SubSeq(c, 1, Len(c) - 1)) <= MaxCode
    BY <2>1, <2>2
  <2> QED BY <2>3, <2>4, CodeIsSeq
<1> QED BY <1>1, <1>2, <1>3, <1>4

-----------------------------------------------------------------------------
(* The candidate list *)

\* The shown texts of a list are a page of its candidates.
PageOK(l) ==
  IF l.all = <<>>
  THEN l.shown = <<>>
  ELSE /\ l.page * WordCount < Len(l.all)
       /\ l.shown = PageTexts(l.all, l.page * WordCount, WordCount)

\* The texts of a page that starts inside the candidates are texts.
LEMMA PageTextsType ==
  ASSUME NEW all \in Seq(Entry), NEW start \in Nat, start < Len(all)
  PROVE  PageTexts(all, start, WordCount) \in Seq(Text)
<1> DEFINE end == Smaller(start + WordCount, Len(all))
<1>0. Len(all) \in Nat /\ WordCount \in Nat
  BY BoundsAssumption
<1>1. end \in Nat /\ start <= end /\ end <= Len(all)
  BY <1>0 DEF Smaller
<1>2. \A j \in 1 .. end - start : all[start + j].text \in Text
  <2>1. \A i \in 1 .. Len(all) : all[i] \in Entry
    BY ElementOfSeq
  <2>2. \A i \in 1 .. Len(all) : all[i].text \in Text
    BY <2>1 DEF Entry
  <2> SUFFICES ASSUME NEW j \in 1 .. end - start PROVE all[start + j].text \in Text
    OBVIOUS
  <2> HIDE DEF end
  <2>3. start + j \in 1 .. Len(all)
    BY <1>0, <1>1
  <2> QED BY <2>2, <2>3
<1>3. PageTexts(all, start, WordCount) = [j \in 1 .. end - start |-> all[start + j].text]
  BY DEF PageTexts
<1> HIDE DEF end
<1>4. end - start \in Nat
  BY <1>1
<1> DEFINE n == end - start
<1>5. [j \in 1 .. n |-> all[start + j].text] \in [1 .. n -> Text]
  BY <1>2
<1>6. \A f : f \in [1 .. n -> Text] => f \in Seq(Text)
  <2> HIDE DEF n
  <2> SUFFICES ASSUME NEW f \in [1 .. n -> Text] PROVE f \in Seq(Text)
    OBVIOUS
  <2>1. n \in Nat
    BY <1>4 DEF n
  <2> QED BY <2>1, SeqDef
<1> QED BY <1>3, <1>5, <1>6

\* syncVisiblePage() yields a list that shows a page, and changes neither the
\* composition nor the candidates.
LEMMA SyncLemma ==
  ASSUME NEW l \in List
  PROVE  /\ Sync(l, WordCount) \in List /\ PageOK(Sync(l, WordCount))
         /\ Sync(l, WordCount).lead = l.lead
         /\ Sync(l, WordCount).code = l.code
         /\ Sync(l, WordCount).all = l.all
<1>1. CASE l.all = <<>>
  BY <1>1, EmptySeq DEF Sync, List, PageOK
<1>2. CASE l.all # <<>>
  <2> DEFINE total == PagesFor(Len(l.all), WordCount)
             page  == Smaller(l.page, total - 1)
             shown == PageTexts(l.all, page * WordCount, WordCount)
  <2>1. Len(l.all) \in Nat \ {0} /\ WordCount \in Nat \ {0}
    BY <1>2, BoundsAssumption, EmptySeq
  <2>2. total \in Nat \ {0} /\ (total - 1) * WordCount < Len(l.all)
    BY <2>1, PagesCover
  <2>3. Sync(l, WordCount) = [l EXCEPT !.total = total, !.page = page, !.shown = shown]
    BY <1>2 DEF Sync
  <2> HIDE DEF total
  <2>4. page \in Nat /\ page <= total - 1
    <3>1. l.page \in Nat
      BY DEF List
    <3> QED BY <2>2, <3>1 DEF Smaller
  <2> HIDE DEF page
  <2>5. page * WordCount \in Nat /\ page * WordCount < Len(l.all)
    <3>1. \A a, b, c \in Nat : a <= b => a * c <= b * c
      OBVIOUS
    <3>2. page * WordCount <= (total - 1) * WordCount
      BY <2>1, <2>2, <2>4, <3>1
    <3>3. page * WordCount \in Nat /\ (total - 1) * WordCount \in Nat
      BY <2>1, <2>2, <2>4
    <3> QED BY <2>1, <2>2, <3>2, <3>3
  <2>6. shown \in Seq(Text)
    <3>1. l.all \in Seq(Entry)
      BY DEF List
    <3> QED BY <2>5, <3>1, PageTextsType
  <2>7. [l EXCEPT !.total = total, !.page = page, !.shown = shown] \in List
    <3> HIDE DEF shown
    <3> QED BY <2>2, <2>4, <2>6 DEF List
  <2>8. PageOK(Sync(l, WordCount))
    <3>1. /\ Sync(l, WordCount).all = l.all
          /\ Sync(l, WordCount).page = page
          /\ Sync(l, WordCount).shown = shown
      <4> HIDE DEF shown
      <4> QED BY <2>3 DEF List
    <3> QED BY <1>2, <2>5, <3>1 DEF PageOK
  <2> QED BY <2>3, <2>7, <2>8 DEF List
<1> QED BY <1>1, <1>2

GoodList(l) == l \in List /\ PageOK(l)

\* A list just made, or cleared, shows a page, and keeps no composition.
LEMMA ClearLemma ==
  /\ GoodList(EmptyList)
  /\ \A l \in List : /\ GoodList(Clear(l)) /\ Clear(l) \in List
                     /\ Clear(l).lead = NoLead /\ Clear(l).code = <<>> /\ Clear(l).all = <<>>
<1>1. <<>> \in Code
  BY CodesAreClosed
<1> QED BY <1>1, EmptySeq DEF GoodList, EmptyList, Clear, List, PageOK, NoLead

\* setCandidates() changes the candidates and keeps the composition.
LEMMA SetCandidatesLemma ==
  ASSUME NEW l \in List, NEW cands \in Seq(Entry)
  PROVE  /\ GoodList(SetCandidates(l, cands, WordCount))
         /\ SetCandidates(l, cands, WordCount).lead = l.lead
         /\ SetCandidates(l, cands, WordCount).code = l.code
         /\ SetCandidates(l, cands, WordCount).all = cands
<1> DEFINE m == [l EXCEPT !.all = cands, !.page = 0]
<1>1. m \in List /\ m.lead = l.lead /\ m.code = l.code /\ m.all = cands
  BY DEF List
<1> HIDE DEF m
<1>2. SetCandidates(l, cands, WordCount) = Sync(m, WordCount)
  BY DEF SetCandidates, m
<1> QED BY <1>1, <1>2, SyncLemma DEF GoodList

\* Turning the page keeps composition and candidates.
LEMMA PagingLemma ==
  ASSUME NEW l \in List
  PROVE  /\ GoodList(Prev(l, WordCount)) /\ GoodList(Next(l, WordCount))
         /\ \A m \in {Prev(l, WordCount), Next(l, WordCount)} :
              m.lead = l.lead /\ m.code = l.code /\ m.all = l.all
<1>1. ASSUME NEW i \in Nat
      PROVE  LET m == [l EXCEPT !.page = i]
             IN  m \in List /\ m.lead = l.lead /\ m.code = l.code /\ m.all = l.all
  BY DEF List
<1> DEFINE back == IF l.page - 1 < 0 THEN 0 ELSE l.page - 1
           on   == IF l.page + 1 > l.total THEN l.total ELSE l.page + 1
<1>2. back \in Nat /\ on \in Nat
  <2>1. l.page \in Nat /\ l.total \in Nat
    BY DEF List
  <2> QED BY <2>1
<1>3. /\ Prev(l, WordCount) = Sync([l EXCEPT !.page = back], WordCount)
      /\ Next(l, WordCount) = Sync([l EXCEPT !.page = on], WordCount)
  BY DEF Prev, Next
<1> HIDE DEF back, on
<1> DEFINE p == [l EXCEPT !.page = back]
           n == [l EXCEPT !.page = on]
<1>4. /\ p \in List /\ p.lead = l.lead /\ p.code = l.code /\ p.all = l.all
      /\ n \in List /\ n.lead = l.lead /\ n.code = l.code /\ n.all = l.all
  BY <1>1, <1>2
<1> HIDE DEF p, n
<1>5. Prev(l, WordCount) = Sync(p, WordCount) /\ Next(l, WordCount) = Sync(n, WordCount)
  BY <1>3 DEF p, n
<1> QED BY <1>4, <1>5, SyncLemma DEF GoodList

\* setLead() changes the guide character only.
LEMMA SetLeadLemma ==
  ASSUME NEW l, GoodList(l), NEW lead \in {NoLead, ";", "grave"}
  PROVE  /\ GoodList(SetLead(l, lead))
         /\ SetLead(l, lead).lead = lead
         /\ SetLead(l, lead).code = l.code /\ SetLead(l, lead).all = l.all
BY DEF GoodList, SetLead, List, PageOK

\* setInputCode() sets the code, and an empty one takes the candidates along.
LEMMA SetInputCodeLemma ==
  ASSUME NEW l, GoodList(l), NEW code \in Code
  PROVE  /\ GoodList(SetInputCode(l, code, WordCount))
         /\ SetInputCode(l, code, WordCount).lead = l.lead
         /\ SetInputCode(l, code, WordCount).code = code
         /\ SetInputCode(l, code, WordCount).all = IF code = <<>> THEN <<>> ELSE l.all
<1> DEFINE m == [l EXCEPT !.code = code]
<1>1. GoodList(m) /\ m \in List /\ m.lead = l.lead /\ m.code = code /\ m.all = l.all
  BY DEF GoodList, List, PageOK
<1> HIDE DEF m
<1>2. SetInputCode(l, code, WordCount)
        = IF code = <<>> THEN SetCandidates(m, <<>>, WordCount) ELSE m
  BY DEF SetInputCode, m
<1> DEFINE e == SetCandidates(m, <<>>, WordCount)
<1>3. GoodList(e) /\ e.lead = m.lead /\ e.code = m.code /\ e.all = <<>>
  <2>1. <<>> \in Seq(Entry)
    BY EmptySeq
  <2> QED BY <1>1, <2>1, SetCandidatesLemma
<1> HIDE DEF e
<1>4. CASE code = <<>>
  BY <1>1, <1>2, <1>3, <1>4 DEF e
<1>5. CASE code # <<>>
  BY <1>1, <1>2, <1>5
<1> QED BY <1>4, <1>5

\* A commit's text is one of the shown texts or none, its code one of the
\* candidates' or none.
LEMMA SelectionType ==
  ASSUME NEW l \in List, NEW i \in Int
  PROVE  /\ SelectText(l, i, Raw) \in Text \cup {Raw}
         /\ SelectFullCode(l, i, WordCount) \in Code
<1>1. l.shown \in Seq(Text) /\ l.all \in Seq(Entry) /\ l.page \in Nat
  BY DEF List
<1>2. WordCount \in Nat /\ l.page * WordCount \in Nat
  BY <1>1, BoundsAssumption
<1>3. SelectText(l, i, Raw) \in Text \cup {Raw}
  BY <1>1, ElementOfSeq DEF SelectText, OnPage
<1>4. SelectFullCode(l, i, WordCount) \in Code
  <2> DEFINE n == l.page * WordCount + i
  <2>1. ASSUME OnPage(l, i), n < Len(l.all) PROVE l.all[n + 1].full \in Code
    <3>1. n \in Nat /\ Len(l.all) \in Nat
      BY <1>1, <1>2, <2>1 DEF OnPage
    <3> HIDE DEF n
    <3>2. n + 1 \in 1 .. Len(l.all)
      BY <2>1, <3>1
    <3>3. l.all[n + 1] \in Entry
      BY <1>1, <3>2, ElementOfSeq
    <3> QED BY <3>3 DEF Entry
  <2> QED BY <2>1, CodesAreClosed DEF SelectFullCode
<1> QED BY <1>3, <1>4

\* What is found for a full code is a shown text or nothing.
LEMMA FirstTextType ==
  ASSUME NEW l \in List, NEW code
  PROVE  FirstTextForFullCode(l, code, WordCount, Raw) \in Text \cup {Raw}
<1> DEFINE hits == {i \in 1 .. Len(l.shown) : /\ l.page * WordCount + i <= Len(l.all)
                                             /\ l.all[l.page * WordCount + i].full = code}
           first == CHOOSE i \in hits : \A j \in hits : i <= j
<1>1. FirstTextForFullCode(l, code, WordCount, Raw) = IF hits = {} THEN Raw ELSE l.shown[first]
  BY DEF FirstTextForFullCode
<1>2. l.shown \in Seq(Text)
  BY DEF List
<1>3. hits \subseteq 1 .. Len(l.shown) /\ Len(l.shown) \in Nat
  BY <1>2
<1> HIDE DEF hits
<1>4. ASSUME hits # {} PROVE l.shown[first] \in Text
  <2>1. hits \subseteq Nat
    BY <1>3
  <2>2. \E i \in hits : \A j \in hits : i <= j
    BY <1>4, <2>1, LeastMember
  <2>3. first \in hits
    BY <2>2
  <2> HIDE DEF first
  <2> QED BY <1>2, <1>3, <2>3, ElementOfSeq
<1> HIDE DEF first
<1> QED BY <1>1, <1>4

-----------------------------------------------------------------------------
(* The engine manager *)

\* An engine is current, and "en" has one to go back to.
EnginesOK(g) ==
  /\ g \in [current : EngineName, last : Configured \cup {None}]
  /\ g.current = "en" <=> g.last # None

\* English is not configured, the first engine and each one's successor are.
LEMMA ConfiguredFacts ==
  /\ "en" \notin Configured /\ None \notin Configured
  /\ EngineSeq[1] \in Configured
  /\ \A name \in Configured : Successor(name) \in Configured
<1>1. EngineSeq \in Seq({"wbzx", "py", "wbpy"}) /\ EngineSeq # <<>>
  BY EngineAssumption
<1>2. Len(EngineSeq) \in Nat \ {0} /\ DOMAIN EngineSeq = 1 .. Len(EngineSeq)
  BY <1>1, LenProperties, EmptySeq
<1>3. \A i \in DOMAIN EngineSeq : EngineSeq[i] \in Configured
  BY DEF Configured, ToSet
<1>4. Configured \subseteq {"wbzx", "py", "wbpy"}
  BY <1>1, <1>2, ElementOfSeq DEF Configured, ToSet
<1>5. ASSUME NEW name \in Configured PROVE Successor(name) \in Configured
  <2> DEFINE i == CHOOSE j \in DOMAIN EngineSeq : EngineSeq[j] = name
  <2>1. i \in DOMAIN EngineSeq
    BY DEF Configured, ToSet
  <2>2. Successor(name) = EngineSeq[(i % Len(EngineSeq)) + 1]
    BY DEF Successor
  <2> HIDE DEF i
  <2>3. (i % Len(EngineSeq)) + 1 \in DOMAIN EngineSeq
    BY <1>2, <2>1
  <2> QED BY <1>3, <2>2, <2>3
<1>6. 1 \in DOMAIN EngineSeq
  BY <1>2
<1>7. "en" \notin Configured /\ None \notin Configured
  BY <1>4, EngineAssumption
<1> QED BY <1>3, <1>5, <1>6, <1>7

\* Every switch of the engine leaves one to type with, and to go back to.
LEMMA EngineSwitches ==
  ASSUME NEW g, EnginesOK(g)
  PROVE  /\ \A name : EnginesOK(ChangeEngine(g, name))
         /\ \A name \in Configured : ChangeEngine(g, name) = [current |-> name, last |-> None]
         /\ EnginesOK(ToggleEnglishEngine(g)) /\ EnginesOK(NextEngine(g))
<1> USE ConfiguredFacts DEF EngineName, EnginesOK
<1>1. \A name : EnginesOK(ChangeEngine(g, name))
  BY DEF ChangeEngine
<1>2. \A name \in Configured : ChangeEngine(g, name) = [current |-> name, last |-> None]
  BY DEF ChangeEngine
<1>3. EnginesOK(RestoreLastEngine(g))
  BY DEF RestoreLastEngine
<1>4. EnginesOK(ToggleEnglishEngine(g))
  BY <1>3 DEF ToggleEnglishEngine
<1>5. EnginesOK(NextEngine(g))
  BY <1>3 DEF NextEngine
<1> QED BY <1>1, <1>2, <1>4, <1>5

\* What engines and quick formats answer are entries, and for no code nothing.
LEMMA AnswersAreEntries ==
  /\ \A e \in EngineName, c \in Code : Candidates(e, c) \in Seq(Entry)
  /\ \A e \in EngineName : Candidates(e, <<>>) = <<>>
  /\ \A c \in Code : Quick[c] \in Seq(Entry)
<1>1. <<>> \in Code /\ <<>> \in Seq(Entry)
  BY CodesAreClosed, EmptySeq
<1>2. ASSUME NEW c \in Code PROVE Quick[c] \in Seq(Entry)
  <2> DEFINE Q == [text : Text, full : {<<>>}]
  <2>1. Quick[c] \in Seq(Q)
    BY TableAssumption
  <2>2. \A q \in Q : q \in Entry
    BY <1>1 DEF Entry
  <2> HIDE DEF Q
  <2>3. PICK n \in Nat : Quick[c] \in [1 .. n -> Q]
    BY <2>1, SeqDef
  <2>4. Quick[c] \in [1 .. n -> Entry]
    BY <2>2, <2>3
  <2> QED BY <2>4, SeqDef
<1>3. ASSUME NEW e \in EngineName
      PROVE  Candidates(e, <<>>) = <<>> /\ \A c \in Code : Candidates(e, c) \in Seq(Entry)
  <2>1. CASE e = "en"
    BY <1>1, <2>1 DEF Candidates
  <2>2. CASE e # "en"
    BY <2>2, TableAssumption DEF Candidates, EngineName
  <2> QED BY <2>1, <2>2
<1> QED BY <1>2, <1>3

-----------------------------------------------------------------------------
(* What the key chain does to the list and to the last commit *)

\* The candidates are some engine's for the code.
Belongs(l) == \E e \in EngineName : l.all = Candidates(e, l.code)

CommitOK(c) == c \in [text : Text \cup {Raw}, code : Code, mark : BOOLEAN]

\* The list and the last commit after a step of the chain in state idle.
Quiet == GoodList(cl') /\ cl'.lead = NoLead /\ Belongs(cl') /\ CommitOK(lastCommit')

\* Typing a code asks the engine for its candidates.
LEMMA TypedLemma ==
  ASSUME NEW e \in EngineName, NEW l, GoodList(l), NEW c \in Code
  PROVE  /\ GoodList(Typed(e, l, c)) /\ Typed(e, l, c).lead = l.lead
         /\ Typed(e, l, c).code = c /\ Typed(e, l, c).all = Candidates(e, c)
<1> DEFINE m == SetInputCode(l, c, WordCount)
<1>1. /\ GoodList(m) /\ m \in List /\ m.lead = l.lead /\ m.code = c
      /\ m.all = IF c = <<>> THEN <<>> ELSE l.all
  BY SetInputCodeLemma DEF GoodList
<1> HIDE DEF m
<1>2. Typed(e, l, c) = IF c = <<>> THEN m ELSE SetCandidates(m, Candidates(e, c), WordCount)
  BY <1>1 DEF Typed, Refresh, m
<1>3. Candidates(e, <<>>) = <<>> /\ Candidates(e, c) \in Seq(Entry)
  BY AnswersAreEntries
<1>4. CASE c = <<>>
  BY <1>1, <1>2, <1>3, <1>4
<1>5. CASE c # <<>>
  BY <1>1, <1>2, <1>3, <1>5, SetCandidatesLemma
<1> QED BY <1>4, <1>5

\* So does BackSpace, unless there is no code to shorten.
LEMMA BackspaceLemma ==
  ASSUME NEW e \in EngineName, NEW l, GoodList(l)
  PROVE  LET m == Refresh(e, PopInputCode(l, WordCount))
         IN  /\ l.code = <<>> => m = l
             /\ l.code # <<>> => /\ GoodList(m) /\ m.lead = l.lead
                                /\ m.all = Candidates(e, m.code)
<1>1. ASSUME l.code = <<>> PROVE Refresh(e, PopInputCode(l, WordCount)) = l
  BY <1>1 DEF Refresh, PopInputCode
<1>2. ASSUME l.code # <<>>
      PROVE  LET m == Refresh(e, PopInputCode(l, WordCount))
             IN  GoodList(m) /\ m.lead = l.lead /\ m.all = Candidates(e, m.code)
  <2> DEFINE c == SubSeq(l.code, 1, Len(l.code) - 1)
  <2>1. c \in Code
    BY <1>2, CodesAreClosed DEF GoodList, List
  <2> HIDE DEF c
  <2>2. Refresh(e, PopInputCode(l, WordCount)) = Typed(e, l, c)
    BY <1>2 DEF PopInputCode, Typed, c
  <2> QED BY <2>1, <2>2, TypedLemma
<1> QED BY <1>1, <1>2

\* A commit leaves an empty list.
LEMMA CommitLemma ==
  ASSUME NEW l \in List, NEW text \in Text \cup {Raw}, NEW code \in Code,
         NEW mark \in BOOLEAN, Commit(l, text, code, mark)
  PROVE  Quiet /\ cl'.code = <<>> /\ cl'.all = <<>>
<1>1. Candidates("en", <<>>) = <<>>
  BY DEF Candidates
<1>2. GoodList(cl') /\ cl'.lead = NoLead /\ cl'.code = <<>> /\ cl'.all = <<>>
  BY ClearLemma DEF Commit
<1>3. CommitOK(lastCommit')
  BY DEF Commit, CommitOK
<1> QED BY <1>1, <1>2, <1>3 DEF Quiet, Belongs, EngineName

\* The committer's two common routes commit a text and a code.
LEMMA ShownCommits ==
  ASSUME NEW l \in List
  PROVE  /\ \A i \in Int : CommitShown(l, i) => Quiet /\ cl'.code = <<>> /\ cl'.all = <<>>
         /\ \A i \in Int : SelectAt(l, i) => Quiet /\ cl'.code = <<>> /\ cl'.all = <<>>
         /\ PuncKey(l) => Quiet /\ cl'.code = <<>> /\ cl'.all = <<>>
<1>1. \A i \in Int : CommitShown(l, i) => Quiet /\ cl'.code = <<>> /\ cl'.all = <<>>
  BY SelectionType, CommitLemma DEF CommitShown
<1>2. \A i \in Int : SelectAt(l, i) => Quiet /\ cl'.code = <<>> /\ cl'.all = <<>>
  BY <1>1 DEF SelectAt
<1>3. PuncKey(l) => Quiet /\ cl'.code = <<>> /\ cl'.all = <<>>
  <2> DEFINE text == SelectText(l, 0, Raw)
             code == SelectFullCode(l, 0, WordCount)
  <2>1. text \in Text \cup {Raw} /\ code \in Code /\ TRUE \in BOOLEAN
    BY SelectionType
  <2>2. PuncKey(l) => Commit(l, text, code, TRUE)
    BY DEF PuncKey
  <2> HIDE DEF text, code
  <2> QED BY <2>1, <2>2, CommitLemma
<1> QED BY <1>1, <1>2, <1>3

\* A letter leaves the composition to some engine, and under "en" as it was.
LEMMA LetterLemma ==
  ASSUME NEW k \in Letter, NEW e \in EngineName, NEW l, GoodList(l), l.lead = NoLead, Belongs(l),
         CommitOK(lastCommit), LetterKey(k, e, l)
  PROVE  Quiet /\ (e = "en" => cl' = l)
<1> DEFINE pre   == l.code
           first == IF Len(l.shown) > 0 /\ SelectFullCode(l, 0, WordCount) = pre
                    THEN SelectText(l, 0, Raw) ELSE Raw
           now   == Append(pre, k)
           next  == Typed(e, l, now)
           exact == FirstTextForFullCode(next, now, WordCount, Raw)
<1>1. k \in Printable
  BY KeyAssumption DEF Printable
<1>2. <<k>> \in Code /\ pre \in Code /\ l \in List
  BY <1>1, CodesAreClosed DEF GoodList, List
<1>3. first \in Text \cup {Raw}
  BY <1>2, SelectionType
<1>4. ASSUME NEW m \in List, m.lead = NoLead, cl' = Typed(e, Clear(m), <<k>>), CommitOK(lastCommit')
      PROVE  Quiet
  <2>1. GoodList(Clear(m)) /\ Clear(m).lead = NoLead
    BY ClearLemma
  <2>2. /\ GoodList(cl') /\ cl'.lead = NoLead /\ cl'.code = <<k>>
        /\ cl'.all = Candidates(e, <<k>>)
    BY <1>2, <1>4, <2>1, TypedLemma
  <2> QED BY <1>4, <2>2 DEF Quiet, Belongs
<1>5. CASE e = "en"
  BY <1>5 DEF LetterKey, NotCommitted, Quiet
<1>6. CASE e # "en" /\ l.all = <<>> /\ pre # <<>>
  <2>1. cl' = Typed(e, Clear(l), <<k>>) /\ lastCommit' = lastCommit
    BY <1>6 DEF LetterKey, NotCommitted
  <2>2. CommitOK(lastCommit')
    BY <2>1
  <2> QED BY <1>2, <1>4, <1>6, <2>1, <2>2
<1>7. CASE e # "en" /\ ~(l.all = <<>> /\ pre # <<>>)
  <2>1. /\ Len(pre) < MaxCode
        /\ \/ /\ lastCommit' = [text |-> first, code |-> pre, mark |-> FALSE]
              /\ cl' = Typed(e, Clear(next), <<k>>)
           \/ Commit(next, exact, now, FALSE)
           \/ NotCommitted(next)
    BY <1>7 DEF LetterKey
  <2>2. now \in Code
    BY <1>1, <1>2, <2>1, CodesAreClosed
  <2> HIDE DEF now
  <2>3. /\ GoodList(next) /\ next \in List /\ next.lead = NoLead
        /\ next.code = now /\ next.all = Candidates(e, now)
    BY <2>2, TypedLemma DEF GoodList
  <2>4. exact \in Text \cup {Raw}
    BY <2>3, FirstTextType
  <2> HIDE DEF first, next, exact
  <2>5. CASE /\ lastCommit' = [text |-> first, code |-> pre, mark |-> FALSE]
             /\ cl' = Typed(e, Clear(next), <<k>>)
    <3>1. CommitOK(lastCommit')
      BY <1>2, <1>3, <2>5 DEF CommitOK
    <3> QED BY <1>4, <1>7, <2>3, <2>5, <3>1
  <2>6. CASE Commit(next, exact, now, FALSE)
    <3>1. FALSE \in BOOLEAN
      OBVIOUS
    <3> QED BY <1>7, <2>2, <2>3, <2>4, <2>6, <3>1, CommitLemma
  <2>7. CASE NotCommitted(next)
    BY <1>7, <2>3, <2>7 DEF NotCommitted, Quiet, Belongs
  <2> QED BY <2>1, <2>5, <2>6, <2>7
<1> QED BY <1>5, <1>6, <1>7

Empty(l) == l.code = <<>> /\ l.all = <<>>

\* The keys that commit what is composed, whatever it is.
Commits(k, l) ==
  \/ k \in {"return", "space"} /\ Composing(l)
  \/ k = ";" /\ Len(l.shown) > 1
  \/ k = "'" /\ Len(l.shown) > 2

\* The chain takes over a list without guide character whose candidates are
\* an engine's, or one that the key at hand commits.
TakesOver(k, l) ==
  /\ GoodList(l) /\ l.lead = NoLead
  /\ Belongs(l) \/ Commits(k, l)

\* A digit asks for a candidate by its place.
LEMMA DigitIndexType == \A k \in Digit : DigitIndex(k) \in Int
<1> SUFFICES ASSUME NEW k \in Digit PROVE DigitIndex(k) \in Int
  OBVIOUS
<1> DEFINE d == CHOOSE i \in DOMAIN Digits : Digits[i] = k
<1>1. DOMAIN Digits = 1 .. 10
  BY DEF Digits
<1>2. \E i \in DOMAIN Digits : Digits[i] = k
  BY DEF Digit, ToSet
<1>3. d \in 1 .. 10
  BY <1>1, <1>2
<1>4. DigitIndex(k) = d - 1
  BY DEF DigitIndex
<1> HIDE DEF d
<1> QED BY <1>3, <1>4

\* Any other key of the chain; "en" never starts a composition.
LEMMA PlainLemma ==
  ASSUME NEW k \in Key, NEW g, EnginesOK(g), NEW l, TakesOver(k, l),
         CommitOK(lastCommit), PlainKey(k, g, l)
  PROVE  /\ Quiet
         /\ (g.current = "en" /\ Empty(l)) \/ Commits(k, l) => Empty(cl')
<1> DEFINE Idled == /\ Quiet
                    /\ (g.current = "en" /\ Empty(l)) \/ Commits(k, l) => Empty(cl')
<1>1. l \in List /\ GoodList(l) /\ l.lead = NoLead /\ g.current \in EngineName
  BY DEF TakesOver, GoodList, EnginesOK
<1>2. Raw \in Text \cup {Raw} /\ <<>> \in Code /\ FALSE \in BOOLEAN /\ 0 \in Int
  BY CodesAreClosed
<1>3. ASSUME Belongs(l), NEW m, GoodList(m), m.lead = l.lead, m.code = l.code, m.all = l.all, NotCommitted(m),
             ~Commits(k, l)
      PROVE  Idled
  BY <1>1, <1>3 DEF NotCommitted, Quiet, Belongs, Empty
<1>4. ASSUME Belongs(l), NotCommitted(l), ~Commits(k, l) PROVE Idled
  BY <1>1, <1>3, <1>4
<1>5. ASSUME PuncKey(l) PROVE Idled
  BY <1>1, <1>5, ShownCommits DEF Empty
<1>6. ASSUME NEW i \in Int, CommitShown(l, i) PROVE Idled
  BY <1>1, <1>6, ShownCommits DEF Empty
<1>7. ASSUME Commit(l, Raw, <<>>, FALSE) PROVE Idled
  BY <1>1, <1>2, <1>7, CommitLemma DEF Empty
<1>8. CASE k \in Letter /\ LetterKey(k, g.current, l)
  <2>1. ~Commits(k, l) /\ Belongs(l)
    BY <1>8, KeyAssumption DEF TakesOver, Commits, Mark, Mute
  <2> QED BY <1>1, <1>8, <2>1, LetterLemma DEF Empty
<1>9. CASE k = "-" /\ PageKey(l, HasPrev(l), Prev(l, WordCount))
  BY <1>1, <1>3, <1>4, <1>5, <1>9, PagingLemma DEF PageKey, TakesOver, Commits
<1>10. CASE k = "=" /\ PageKey(l, HasNext(l), Next(l, WordCount))
  BY <1>1, <1>3, <1>4, <1>5, <1>10, PagingLemma DEF PageKey, TakesOver, Commits
<1>11. CASE k = "backspace" /\ NotCommitted(Refresh(g.current, PopInputCode(l, WordCount)))
  <2> DEFINE m == Refresh(g.current, PopInputCode(l, WordCount))
  <2>1. Belongs(l) /\ NotCommitted(m) /\ ~Commits(k, l)
    BY <1>11 DEF TakesOver, Commits
  <2>2. CASE l.code = <<>>
    BY <1>1, <1>4, <2>1, <2>2, BackspaceLemma
  <2>3. CASE l.code # <<>>
    <3>1. GoodList(m) /\ m.lead = NoLead /\ m.all = Candidates(g.current, m.code)
      BY <1>1, <2>3, BackspaceLemma
    <3> HIDE DEF m
    <3> QED BY <1>1, <2>1, <2>3, <3>1 DEF NotCommitted, Quiet, Belongs, Empty
  <2> QED BY <2>2, <2>3
<1>12. CASE k \in Digit /\ IF Composing(l)
                           THEN SelectAt(l, DigitIndex(k))
                           ELSE Commit(l, Raw, <<>>, FALSE)
  <2>1. DigitIndex(k) \in Int
    BY <1>12, DigitIndexType
  <2>2. CASE SelectAt(l, DigitIndex(k))
    BY <1>1, <2>1, <2>2, ShownCommits DEF Empty
  <2> QED BY <1>7, <1>12, <2>2
<1>13. CASE k = "'" /\ RecodeKey(l, 2)
  BY <1>5, <1>6, <1>13 DEF RecodeKey
<1>14. CASE k \in {".", ","} /\ PuncKey(l)
  BY <1>5, <1>14
<1>15. CASE k = "space" /\ IF Composing(l) THEN CommitShown(l, 0) ELSE NotCommitted(l)
  BY <1>2, <1>4, <1>6, <1>15 DEF TakesOver, Commits
<1>16. CASE k = "return" /\ IF Composing(l) THEN Commit(l, Raw, <<>>, FALSE) ELSE NotCommitted(l)
  BY <1>4, <1>7, <1>16 DEF TakesOver, Commits
<1>17. CASE k = "arrow" /\ NotCommitted(l)
  BY <1>4, <1>17 DEF TakesOver, Commits
<1> QED BY <1>8, <1>9, <1>10, <1>11, <1>12, <1>13, <1>14, <1>15, <1>16, <1>17 DEF PlainKey

\* The chain in state idle, with the engine g that types, the name r to
\* restore and the list l; `;' and the grave key may lead out of it.
LEMMA IdleLemma ==
  ASSUME NEW k \in Key, NEW g, EnginesOK(g), NEW r, NEW l, TakesOver(k, l),
         CommitOK(lastCommit), IdleKey(k, g, r, l)
  PROVE  /\ GoodList(cl') /\ CommitOK(lastCommit') /\ EnginesOK(engines')
         /\ \/ /\ state' = "idle" /\ engines' = g /\ restoreEngineName' = r /\ Quiet
               /\ (g.current = "en" /\ Empty(l)) \/ Commits(k, l) => Empty(cl')
            \/ /\ state' = "tempEnglish" /\ engines' = g /\ restoreEngineName' = r
               /\ cl'.lead = ";" /\ Empty(cl')
            \/ /\ state' = "tempPinyin" /\ engines'.current = "py" /\ cl'.lead = "grave"
               /\ restoreEngineName' \in Configured \ {"py", "wbpy"} /\ Empty(cl')
<1>1. l \in List /\ GoodList(l) /\ l.lead = NoLead
  BY DEF TakesOver, GoodList
<1>2. CASE k = ";" /\ SemicolonKey(g, r, l)
  <2>1. CASE /\ state' = "tempEnglish" /\ engines' = g /\ restoreEngineName' = r
             /\ NotCommitted(SetLead(Clear(l), ";"))
    BY <1>1, <2>1, ClearLemma, SetLeadLemma DEF NotCommitted, Empty
  <2>2. CASE Idle(g, r) /\ RecodeKey(l, 1)
    BY <1>1, <2>2, ShownCommits DEF Idle, RecodeKey, Quiet, Empty
  <2> QED BY <1>2, <2>1, <2>2 DEF SemicolonKey
<1>3. CASE k = "grave" /\ GraveKey(g, r, l)
  <2>1. CASE /\ g.current \notin Uninterested("tempPinyin") /\ NothingComposed(l)
             /\ "py" \in Configured
             /\ state' = "tempPinyin" /\ engines' = ChangeEngine(g, "py")
             /\ restoreEngineName' = g.current
             /\ NotCommitted(SetLead(l, "grave"))
    <3>1. EnginesOK(engines') /\ engines'.current = "py"
      BY <2>1, EngineSwitches
    <3>2. Uninterested("tempPinyin") = {"py", "wbpy", "en"}
      BY DEF Uninterested, PromptState
    <3>3. g.current \in Configured \ {"py", "wbpy"}
      BY <2>1, <3>2 DEF EnginesOK, EngineName
    <3>4. GoodList(cl') /\ cl'.lead = "grave" /\ Empty(cl') /\ lastCommit' = lastCommit
      BY <1>1, <2>1, SetLeadLemma DEF NotCommitted, NothingComposed, NoPreedit, Empty
    <3> QED BY <2>1, <3>1, <3>3, <3>4
  <2>2. CASE Idle(g, r) /\ PuncKey(l)
    BY <1>1, <2>2, ShownCommits DEF Idle, Quiet, Empty
  <2> QED BY <1>3, <2>1, <2>2 DEF GraveKey
<1>4. CASE Idle(g, r) /\ PlainKey(k, g, l)
  <2>1. Quiet /\ ((g.current = "en" /\ Empty(l)) \/ Commits(k, l) => Empty(cl'))
    BY <1>4, PlainLemma
  <2> QED BY <1>4, <2>1 DEF Idle, Quiet
<1> QED BY <1>2, <1>3, <1>4 DEF IdleKey

-----------------------------------------------------------------------------
(* The inductive invariant *)

\* GraveLeadMeansPinyin is what makes LeadBelongsToState inductive: the add
\* prompt cannot be entered from under the Pinyin engine, so never with the
\* guide character shown.
Inv ==
  /\ TypeOK
  /\ ShownIsAPage
  /\ CandidatesBelongToCode
  /\ PromptFollowsState
  /\ LeadBelongsToState
  /\ GraveLeadMeansPinyin
  /\ EnglishRemembersTheEngine
  /\ EnglishComposesNothing
  /\ TempPinyinKnowsTheWayBack
  /\ SwitchKeyAlone

RestoreOK(r) == r \in Configured \cup {None}

\* The parts of the invariant that every state has in common ...
Common ==
  /\ GoodList(cl) /\ CommitOK(lastCommit) /\ EnginesOK(engines) /\ RestoreOK(restoreEngineName)
  /\ cnEnSwitchKeyPending \in BOOLEAN /\ lastKey \in {"switch", "other"} /\ SwitchKeyAlone
  /\ panelMode \in EngineName

\* ... and those that make the states differ.
Lasting(s) == state = s /\ prompt = IF s \in PromptState THEN s ELSE "none"

InIdle ==
  /\ cl.lead = NoLead /\ Belongs(cl)
  /\ engines.current = "en" => Empty(cl)

InTempEnglish == cl.lead \in {NoLead, ";"} /\ cl.all = Quick[cl.code]

InTempPinyin ==
  /\ cl.lead \in {NoLead, "grave"} /\ cl.all = Candidates(engines.current, cl.code)
  /\ cl.lead = "grave" => engines.current = "py"
  /\ restoreEngineName \in Configured \ {"py", "wbpy"}

\* The invariant by states.
ByState ==
  /\ Common
  /\ \/ \E s \in {"idle", "add", "del"} : Lasting(s) /\ InIdle
     \/ Lasting("tempEnglish") /\ InTempEnglish
     \/ Lasting("tempPinyin") /\ InTempPinyin

\* Both say the same.
LEMMA InvByState == Inv <=> ByState
<1> USE DEF TempState, PromptState, ByState
<1>1. GoodList(cl) <=> cl \in List /\ ShownIsAPage
  BY DEF GoodList, PageOK, ShownIsAPage
<1>2. ASSUME Inv PROVE Common
  BY <1>1, <1>2 DEF Inv, TypeOK, Common, CommitOK, EnginesOK, RestoreOK, EnglishRemembersTheEngine
<1>3. ASSUME Inv, state \in {"idle", "add", "del"} PROVE Lasting(state) /\ InIdle
  <2>1. cl.lead \in {NoLead, ";", "grave"}
    BY <1>3 DEF Inv, TypeOK, List
  <2>2. cl.lead = NoLead
    BY <1>3, <2>1 DEF Inv, LeadBelongsToState
  <2>3. Belongs(cl)
    BY <1>3 DEF Inv, CandidatesBelongToCode, Belongs
  <2>4. engines.current = "en" => Empty(cl)
    BY <1>3 DEF Inv, EnglishComposesNothing, Empty
  <2>5. Lasting(state)
    BY <1>3 DEF Inv, PromptFollowsState, Lasting
  <2> QED BY <2>2, <2>3, <2>4, <2>5 DEF InIdle
<1>4. ASSUME Inv, state = "tempEnglish" PROVE Lasting(state) /\ InTempEnglish
  <2>1. cl.lead \in {NoLead, ";", "grave"}
    BY <1>4 DEF Inv, TypeOK, List
  <2> QED BY <1>4, <2>1 DEF Inv, LeadBelongsToState, CandidatesBelongToCode, PromptFollowsState,
                            Lasting, InTempEnglish
<1>5. ASSUME Inv, state = "tempPinyin" PROVE Lasting(state) /\ InTempPinyin
  <2>1. cl.lead \in {NoLead, ";", "grave"}
    BY <1>5 DEF Inv, TypeOK, List
  <2> QED BY <1>5, <2>1 DEF Inv, LeadBelongsToState, CandidatesBelongToCode, PromptFollowsState,
                            GraveLeadMeansPinyin, TempPinyinKnowsTheWayBack, Lasting, InTempPinyin
<1>6. ASSUME Common, NEW s \in {"idle", "add", "del"} \cup TempState, Lasting(s),
             s \in {"idle", "add", "del"} => InIdle,
             s = "tempEnglish" => InTempEnglish, s = "tempPinyin" => InTempPinyin
      PROVE  Inv
  <2>1. TypeOK /\ ShownIsAPage /\ EnglishRemembersTheEngine /\ SwitchKeyAlone
    BY <1>1, <1>6 DEF Common, Lasting, TypeOK, CommitOK, EnginesOK, RestoreOK, EnglishRemembersTheEngine
  <2>2. CandidatesBelongToCode
    BY <1>6 DEF CandidatesBelongToCode, Lasting, InIdle, InTempEnglish, InTempPinyin, Belongs
  <2>3. PromptFollowsState
    BY <1>6 DEF PromptFollowsState, Lasting
  <2>4. LeadBelongsToState /\ GraveLeadMeansPinyin /\ TempPinyinKnowsTheWayBack
    BY <1>6 DEF LeadBelongsToState, GraveLeadMeansPinyin, TempPinyinKnowsTheWayBack, Lasting,
                InIdle, InTempEnglish, InTempPinyin, NoLead
  <2>5. EnglishComposesNothing
    BY <1>6 DEF EnglishComposesNothing, Lasting, InIdle, Empty
  <2> QED BY <2>1, <2>2, <2>3, <2>4, <2>5 DEF Inv
<1>7. Inv => state \in {"idle", "add", "del"} \cup TempState
  BY DEF Inv, TypeOK
<1> QED BY <1>2, <1>3, <1>4, <1>5, <1>6, <1>7

\* The same after a step.
LEMMA InvByStateNext == Inv' <=> ByState'
BY InvByState, PTL

\* What the keys and signals leave of the switch key and the panel.
Frame ==
  /\ cnEnSwitchKeyPending' \in BOOLEAN /\ lastKey' \in {"switch", "other"} /\ SwitchKeyAlone'
  /\ panelMode' \in EngineName

\* A press makes the switch key part of a combination; a signal does not.
LEMMA FrameLemma ==
  ASSUME Inv
  PROVE  /\ Pressed /\ UNCHANGED panelMode => Frame
         /\ KeysUnchanged /\ UNCHANGED panelMode => Frame
         /\ (Pressed \/ KeysUnchanged) /\ panelMode' \in EngineName => Frame
<1>1. /\ cnEnSwitchKeyPending \in BOOLEAN /\ lastKey \in {"switch", "other"}
      /\ panelMode \in EngineName /\ SwitchKeyAlone
  BY DEF Inv, TypeOK
<1>2. ASSUME Pressed, panelMode' \in EngineName PROVE Frame
  <2>1. cnEnSwitchKeyPending' \in BOOLEAN
    BY <1>2 DEF Pressed
  <2>2. lastKey' \in {"switch", "other"} /\ SwitchKeyAlone'
    BY <1>2 DEF Pressed, SwitchKeyAlone
  <2> QED BY <1>2, <2>1, <2>2 DEF Frame
<1>3. ASSUME KeysUnchanged, panelMode' \in EngineName PROVE Frame
  <2>1. cnEnSwitchKeyPending' = cnEnSwitchKeyPending /\ lastKey' = lastKey
    BY <1>3 DEF KeysUnchanged
  <2>2. SwitchKeyAlone'
    BY <1>1, <2>1 DEF SwitchKeyAlone
  <2> QED BY <1>1, <1>3, <2>1, <2>2 DEF Frame
<1> QED BY <1>1, <1>2, <1>3

\* A step to state idle, the most common one.
LEMMA IdleInv ==
  ASSUME Frame, state' = "idle", prompt' = "none", Quiet, EnginesOK(engines'),
         RestoreOK(restoreEngineName'), engines'.current = "en" => Empty(cl')
  PROVE  Inv'
<1>1. Common'
  BY DEF Frame, Common, Quiet, GoodList, PageOK, CommitOK, EnginesOK, RestoreOK
<1>2. Lasting("idle")' /\ InIdle'
  BY DEF Lasting, InIdle, Quiet, PromptState, Belongs, Empty
<1> QED BY <1>1, <1>2, InvByStateNext DEF ByState

\* A cleared list, with no commit.
LEMMA ClearedList ==
  ASSUME Inv, NEW l \in List, NotCommitted(Clear(l))
  PROVE  Quiet /\ Empty(cl')
<1>1. GoodList(cl') /\ cl'.lead = NoLead /\ Empty(cl')
  BY ClearLemma DEF NotCommitted, Empty
<1>2. Belongs(cl')
  BY <1>1 DEF Belongs, Empty, Candidates, EngineName
<1>3. CommitOK(lastCommit')
  BY DEF NotCommitted, Inv, TypeOK, CommitOK
<1> QED BY <1>1, <1>2, <1>3 DEF Quiet

\* Cancelling a state closes its prompt and gives its engine back.
LEMMA StateResetLemma ==
  ASSUME Inv, StateReset
  PROVE  /\ state' = "idle" /\ prompt' = "none"
         /\ EnginesOK(engines') /\ RestoreOK(restoreEngineName')
         /\ IF state = "tempPinyin"
            THEN engines' = [current |-> restoreEngineName, last |-> None]
            ELSE engines' = engines
         /\ engines'.current = "en" => engines' = engines /\ state # "tempPinyin"
<1>1. /\ Common /\ prompt = IF state \in PromptState THEN state ELSE "none"
      /\ state = "tempPinyin" => restoreEngineName \in Configured
  BY InvByState DEF ByState, Inv, PromptFollowsState, TempPinyinKnowsTheWayBack
<1>2. CASE state = "tempPinyin"
  <2>1. /\ engines' = ChangeEngine(engines, restoreEngineName)
        /\ restoreEngineName' = None /\ state' = "idle" /\ prompt' = prompt
    BY <1>1, <1>2, ConfiguredFacts DEF StateReset, Restored, PromptState
  <2>2. /\ engines' = [current |-> restoreEngineName, last |-> None]
        /\ EnginesOK(engines')
    BY <1>1, <1>2, <2>1, EngineSwitches DEF Common
  <2> QED BY <1>1, <1>2, <2>1, <2>2, ConfiguredFacts DEF RestoreOK, PromptState
<1>3. CASE state # "tempPinyin"
  BY <1>1, <1>3 DEF StateReset, Common, EnginesOK, RestoreOK
<1> QED BY <1>2, <1>3

-----------------------------------------------------------------------------
(* The steps *)

\* A step that changes at most the page.
LEMMA PagedInv ==
  ASSUME Inv, Frame, NEW l, GoodList(l), l.lead = cl.lead, l.code = cl.code, l.all = cl.all,
         NotCommitted(l), UNCHANGED <<state, engines, restoreEngineName, prompt>>
  PROVE  Inv'
<1>1. ByState
  BY InvByState
<1>2. Common'
  BY <1>1 DEF ByState, Common, Frame, NotCommitted, GoodList, PageOK, CommitOK, EnginesOK, RestoreOK
<1>3. \A s : Lasting(s) => Lasting(s)'
  BY DEF Lasting
<1>4. (InIdle => InIdle') /\ (InTempEnglish => InTempEnglish') /\ (InTempPinyin => InTempPinyin')
  BY DEF InIdle, InTempEnglish, InTempPinyin, NotCommitted, Belongs, Empty
<1> QED BY <1>1, <1>2, <1>3, <1>4, InvByStateNext DEF ByState

\* A step that leaves everything the invariant is about.
LEMMA SameInv ==
  ASSUME Inv, Frame, UNCHANGED <<state, engines, restoreEngineName, cl, lastCommit, prompt>>
  PROVE  Inv'
<1>1. GoodList(cl)
  BY InvByState DEF ByState, Common
<1> QED BY <1>1, PagedInv DEF NotCommitted

\* A cleared list is right in every state, whatever engine is current.
LEMMA ClearedInv ==
  ASSUME Inv, Frame, NEW l \in List, cl' = Clear(l), CommitOK(lastCommit'), EnginesOK(engines'),
         UNCHANGED <<state, restoreEngineName, prompt>>
  PROVE  Inv'
<1>1. ByState
  BY InvByState
<1>2. GoodList(cl') /\ cl'.lead = NoLead /\ cl'.code = <<>> /\ cl'.all = <<>>
  BY ClearLemma
<1>3. Common'
  BY <1>1, <1>2 DEF ByState, Common, Frame, GoodList, PageOK, CommitOK, EnginesOK, RestoreOK
<1>4. \A s : Lasting(s) => Lasting(s)'
  BY DEF Lasting
<1>5. \A e \in EngineName : Candidates(e, <<>>) = <<>>
  BY AnswersAreEntries
<1>6. "en" \in EngineName /\ engines'.current \in EngineName
  BY DEF EngineName, EnginesOK
<1>7. InIdle'
  BY <1>2, <1>5, <1>6 DEF InIdle, Belongs, Empty
<1>8. InTempEnglish'
  BY <1>2, TableAssumption DEF InTempEnglish
<1>9. InTempPinyin => InTempPinyin'
  BY <1>2, <1>5, <1>6 DEF InTempPinyin, NoLead
<1> QED BY <1>1, <1>3, <1>4, <1>7, <1>8, <1>9, InvByStateNext DEF ByState

\* The chain of state idle, entered from any state.
LEMMA IdleKeyInv ==
  ASSUME Inv, Frame, NEW k \in Key, NEW g, EnginesOK(g), NEW r, RestoreOK(r),
         NEW l, TakesOver(k, l), IdleKey(k, g, r, l), UNCHANGED prompt, prompt = "none",
         g.current = "en" => Empty(l) \/ Commits(k, l)
  PROVE  Inv'
<1>1. CommitOK(lastCommit)
  BY DEF Inv, TypeOK, CommitOK
<1>2. GoodList(cl') /\ CommitOK(lastCommit') /\ EnginesOK(engines')
  BY <1>1, IdleLemma
<1>3. ASSUME RestoreOK(restoreEngineName') PROVE Common'
  BY <1>2, <1>3 DEF Common, Frame, GoodList, PageOK, CommitOK, EnginesOK, RestoreOK
<1>4. CASE /\ state' = "idle" /\ engines' = g /\ restoreEngineName' = r /\ Quiet
           /\ (g.current = "en" /\ Empty(l)) \/ Commits(k, l) => Empty(cl')
  BY <1>2, <1>4, IdleInv
<1>5. CASE /\ state' = "tempEnglish" /\ engines' = g /\ restoreEngineName' = r
           /\ cl'.lead = ";" /\ Empty(cl')
  <2>1. Lasting("tempEnglish")' /\ InTempEnglish'
    BY <1>5, TableAssumption DEF Lasting, InTempEnglish, PromptState, Empty
  <2> QED BY <1>3, <1>5, <2>1, InvByStateNext DEF ByState
<1>6. CASE /\ state' = "tempPinyin" /\ engines'.current = "py" /\ cl'.lead = "grave"
           /\ restoreEngineName' \in Configured \ {"py", "wbpy"} /\ Empty(cl')
  <2>1. Candidates("py", <<>>) = <<>>
    <3>1. "py" \in EngineName
      BY <1>2, <1>6 DEF EnginesOK
    <3> QED BY <3>1, AnswersAreEntries
  <2>2. Lasting("tempPinyin")' /\ InTempPinyin'
    BY <1>6, <2>1 DEF Lasting, InTempPinyin, PromptState, Empty
  <2> QED BY <1>3, <1>6, <2>2, InvByStateNext DEF ByState, RestoreOK
<1> QED BY <1>1, <1>4, <1>5, <1>6, IdleLemma

\* What cancels the current state and leaves its list quiet keeps the
\* invariant.
LEMMA ResetInv ==
  ASSUME Inv, Frame, StateReset, Quiet, Empty(cl')
  PROVE  Inv'
BY StateResetLemma, IdleInv

\* A list whose code and candidates change while its state lasts.
LEMMA ComposedInv ==
  ASSUME Inv, Frame, NEW l, GoodList(l), NotCommitted(l), l.lead = cl.lead,
         \/ state = "tempEnglish" /\ l.all = Quick[l.code]
         \/ state = "tempPinyin" /\ l.all = Candidates(engines.current, l.code),
         UNCHANGED <<state, engines, restoreEngineName, prompt>>
  PROVE  Inv'
<1>1. ByState
  BY InvByState
<1>2. Common'
  BY <1>1 DEF ByState, Common, Frame, NotCommitted, GoodList, PageOK, CommitOK, EnginesOK, RestoreOK
<1>3. \A s : Lasting(s) => Lasting(s)'
  BY DEF Lasting
<1>4. CASE state = "tempEnglish"
  <2>1. Lasting("tempEnglish") /\ InTempEnglish
    BY <1>1, <1>4 DEF ByState, Lasting
  <2>2. InTempEnglish'
    BY <1>4, <2>1 DEF InTempEnglish, NotCommitted
  <2> QED BY <1>2, <1>3, <2>1, <2>2, InvByStateNext DEF ByState
<1>5. CASE state = "tempPinyin"
  <2>1. Lasting("tempPinyin") /\ InTempPinyin
    BY <1>1, <1>5 DEF ByState, Lasting
  <2>2. InTempPinyin'
    BY <1>5, <2>1 DEF InTempPinyin, NotCommitted
  <2> QED BY <1>2, <1>3, <2>1, <2>2, InvByStateNext DEF ByState
<1> QED BY <1>4, <1>5

\* The guide character alone.
LEMMA LeadOnlyStep ==
  ASSUME Inv, Frame, NEW k \in Key, LeadOnly, LeadOnlyKey(k)
  PROVE  Inv'
<1>1. cl \in List /\ ByState
  BY InvByState DEF Inv, TypeOK
<1>2. state \in TempState
  BY <1>1 DEF ByState, InIdle, Lasting, LeadOnly, TempState
<1>3. CASE Commit(cl, Raw, <<>>, TRUE)
  <2>1. <<>> \in Code /\ TRUE \in BOOLEAN /\ Raw \in Text \cup {Raw}
    BY CodesAreClosed
  <2>2. Quiet /\ Empty(cl')
    BY <1>1, <1>3, <2>1, CommitLemma DEF Empty
  <2> QED BY <2>2, ResetInv DEF LeadOnlyKey
<1>4. CASE NotCommitted(Clear(cl))
  BY <1>1, <1>4, ClearedList, ResetInv DEF LeadOnlyKey
<1> QED BY <1>2, <1>3, <1>4 DEF LeadOnlyKey, ListAfterReset

\* A key in temporary English.
LEMMA TempEnglishStep ==
  ASSUME Inv, Frame, state = "tempEnglish", NEW k \in Key, TempEnglishKey(k)
  PROVE  Inv'
<1> DEFINE code == Append(cl.code, k)
<1>1. /\ Common /\ Lasting("tempEnglish") /\ InTempEnglish
      /\ cl \in List /\ GoodList(cl) /\ cl.code \in Code /\ prompt = "none"
  BY InvByState DEF ByState, Lasting, Common, GoodList, List, PromptState
<1>2. CASE k = "backspace" /\ cl.code = <<>> /\ StateReset /\ NotCommitted(Clear(cl))
  BY <1>1, <1>2, ClearedList, ResetInv
<1>3. ASSUME NEW c \in Code, TypeEnglish(c) PROVE Inv'
  <2> DEFINE m == SetInputCode(cl, c, WordCount)
             l == SetCandidates(m, Quick[c], WordCount)
  <2>1. GoodList(m) /\ m \in List /\ m.lead = cl.lead /\ m.code = c
    BY <1>1, SetInputCodeLemma DEF GoodList
  <2> HIDE DEF m
  <2>2. GoodList(l) /\ l.lead = cl.lead /\ l.code = c /\ l.all = Quick[c]
    BY <2>1, AnswersAreEntries, SetCandidatesLemma
  <2>3. NotCommitted(l) /\ UNCHANGED <<state, engines, restoreEngineName, prompt>>
    BY <1>3 DEF TypeEnglish, m
  <2> HIDE DEF l
  <2> QED BY <2>2, <2>3, ComposedInv
<1>4. CASE k = "backspace" /\ cl.code # <<>> /\ TypeEnglish(SubSeq(cl.code, 1, Len(cl.code) - 1))
  BY <1>1, <1>3, <1>4, CodesAreClosed
<1>5. CASE /\ HandsOver(k) /\ IdleKey(k, engines, restoreEngineName, SetLead(cl, NoLead))
           /\ UNCHANGED prompt
  <2> DEFINE l == SetLead(cl, NoLead)
  <2>1. GoodList(l) /\ l.lead = NoLead /\ l.code = cl.code /\ l.all = Quick[l.code] /\ l.shown = cl.shown
    <3>1. l.shown = cl.shown
      BY <1>1 DEF SetLead, List
    <3> QED BY <1>1, <3>1, SetLeadLemma DEF InTempEnglish
  <2>2. Commits(k, l) \/ Empty(l)
    <3>1. l.shown \in Seq(Text)
      BY <2>1 DEF GoodList, List
    <3>2. Len(l.shown) > 0 => l.shown # <<>>
      OBVIOUS
    <3> HIDE DEF l
    <3>3. Composing(l) \/ Empty(l)
      BY <2>1, TableAssumption DEF Composing, Empty
    <3> QED BY <1>5, <2>1, <3>2, <3>3 DEF HandsOver, Commits, Composing
  <2>3. TakesOver(k, l)
    <3> HIDE DEF l
    <3> QED BY <2>1, <2>2 DEF TakesOver, Belongs, Empty, Candidates, EngineName
  <2> HIDE DEF l
  <2>4. IdleKey(k, engines, restoreEngineName, l)
    BY <1>5 DEF l
  <2> QED BY <1>1, <1>5, <2>2, <2>3, <2>4, IdleKeyInv DEF Common
<1>6. CASE k \in Printable /\ TypeEnglish(code)
  <2>1. Len(code) <= MaxCode /\ Len(cl.code) \in Nat /\ cl.code \in Seq(Printable)
    BY <1>1, <1>6, CodeIsSeq, LenProperties DEF TypeEnglish
  <2>2. Len(code) = Len(cl.code) + 1
    BY <2>1
  <2>3. Len(cl.code) < MaxCode
    BY <2>1, <2>2, BoundsAssumption
  <2>4. code \in Code
    BY <1>1, <1>6, <2>3, CodesAreClosed
  <2> HIDE DEF code
  <2> QED BY <1>3, <1>6, <2>4
<1>7. CASE MayRun(code) /\ QuickCommand(code)
  <2>1. Quiet /\ Empty(cl')
    BY <1>1, <1>7, ClearedList DEF QuickCommand
  <2>2. \E s \in {"idle", "add", "del"} : Lasting(s)'
    <3>1. CASE code \in OtherCommand
      <4>1. CommandState(code) = "idle"
        BY <3>1, CommandAssumption DEF CommandState
      <4> QED BY <1>1, <1>7, <3>1, <4>1 DEF QuickCommand, Lasting, PromptState
    <3>2. CASE code \notin OtherCommand
      <4>1. CommandState(code) \in {"add", "del"}
        BY <1>7, <3>2 DEF CommandState, MayRun
      <4> QED BY <1>7, <3>2, <4>1 DEF QuickCommand, Lasting, PromptState
    <3> QED BY <3>1, <3>2
  <2>3. Common' /\ InIdle'
    BY <1>1, <1>7, <2>1 DEF Common, Frame, Quiet, QuickCommand, InIdle, GoodList, PageOK, CommitOK,
                            EnginesOK, RestoreOK, Belongs, Empty
  <2> QED BY <2>2, <2>3, InvByStateNext DEF ByState
<1>8. CASE NotCommitted(cl) /\ UNCHANGED <<state, engines, restoreEngineName, prompt>>
  BY <1>1, <1>8, PagedInv
<1> QED BY <1>2, <1>4, <1>5, <1>6, <1>7, <1>8 DEF TempEnglishKey

\* A key in temporary Pinyin.
LEMMA TempPinyinStep ==
  ASSUME Inv, Frame, state = "tempPinyin", NEW k \in Key, TempPinyinKey(k)
  PROVE  Inv'
<1> DEFINE e == engines.current
<1>1. /\ Common /\ Lasting("tempPinyin") /\ InTempPinyin
      /\ cl \in List /\ GoodList(cl) /\ cl.code \in Code /\ prompt = "none"
      /\ e \in EngineName
  BY InvByState DEF ByState, Lasting, Common, GoodList, List, PromptState, EnginesOK
<1> HIDE DEF e
<1>2. CASE k = "backspace" /\ cl.code = <<>> /\ StateReset /\ NotCommitted(Clear(cl))
  BY <1>1, <1>2, ClearedList, ResetInv
<1>3. CASE /\ k = "backspace" /\ cl.code # <<>>
           /\ NotCommitted(Refresh(e, PopInputCode(cl, WordCount)))
           /\ UNCHANGED <<state, engines, restoreEngineName, prompt>>
  <2> DEFINE l == Refresh(e, PopInputCode(cl, WordCount))
  <2>1. GoodList(l) /\ l.lead = cl.lead /\ l.all = Candidates(e, l.code)
    BY <1>1, <1>3, BackspaceLemma
  <2>2. NotCommitted(l)
    BY <1>3
  <2> HIDE DEF l
  <2> QED BY <1>3, <2>1, <2>2, ComposedInv DEF e
<1>4. CASE /\ k \in Letter \cup {cl.lead} /\ Len(cl.code) < MaxCode
           /\ NotCommitted(Typed(e, cl, Append(cl.code, k)))
           /\ UNCHANGED <<state, engines, restoreEngineName, prompt>>
  <2> DEFINE c == Append(cl.code, k)
             l == Typed(e, cl, c)
  <2>1. k \in Printable
    <3>1. k \in Letter => k \notin Mute
      BY KeyAssumption
    <3>2. k \in {NoLead, "grave"} => k \notin Mute
      BY DEF Mute, NoLead
    <3> QED BY <1>1, <1>4, <3>1, <3>2 DEF Printable, InTempPinyin
  <2>2. c \in Code
    BY <1>1, <1>4, <2>1, CodesAreClosed
  <2> HIDE DEF c
  <2>3. GoodList(l) /\ l.lead = cl.lead /\ l.code = c /\ l.all = Candidates(e, c)
    BY <1>1, <2>2, TypedLemma
  <2>4. NotCommitted(l)
    BY <1>4 DEF c
  <2> HIDE DEF l
  <2> QED BY <1>4, <2>3, <2>4, ComposedInv DEF e
<1>5. CASE IdleKey(k, Restored, None, SetLead(cl, NoLead)) /\ UNCHANGED prompt
  <2> DEFINE l == SetLead(cl, NoLead)
  <2>1. GoodList(l) /\ l.lead = NoLead /\ l.code = cl.code /\ l.all = cl.all
    BY <1>1, SetLeadLemma
  <2>2. TakesOver(k, l)
    <3> HIDE DEF l
    <3> QED BY <1>1, <2>1 DEF TakesOver, Belongs, InTempPinyin, e
  <2>3. EnginesOK(Restored) /\ Restored.current # "en"
    <3>1. restoreEngineName \in Configured /\ restoreEngineName # None
      BY <1>1, ConfiguredFacts DEF InTempPinyin
    <3>2. Restored = [current |-> restoreEngineName, last |-> None]
      BY <1>1, <3>1, EngineSwitches DEF Restored, Common
    <3> QED BY <3>1, <3>2, ConfiguredFacts DEF EnginesOK, EngineName
  <2> HIDE DEF l
  <2>4. IdleKey(k, Restored, None, l)
    BY <1>5 DEF l
  <2> QED BY <1>1, <1>5, <2>2, <2>3, <2>4, IdleKeyInv DEF RestoreOK
<1> QED BY <1>2, <1>3, <1>4, <1>5 DEF TempPinyinKey, e

\* A key over a prompt.
LEMMA PromptStep ==
  ASSUME Inv, Frame, state \in PromptState, NEW k \in Key, PromptKey(k)
  PROVE  Inv'
<1>1. Common /\ Lasting(state) /\ InIdle /\ GoodList(cl) /\ CommitOK(lastCommit)
  BY InvByState DEF ByState, Lasting, Common, PromptState
<1>2. CASE k = "return"
  <2>1. Quiet
    BY <1>1, <1>2 DEF PromptKey, NotCommitted, Quiet, InIdle, Belongs, GoodList, PageOK, CommitOK
  <2>2. engines'.current = "en" => Empty(cl')
    BY <1>1 DEF PromptKey, NotCommitted, InIdle, Empty
  <2> QED BY <1>1, <1>2, <2>1, <2>2, IdleInv DEF PromptKey, Common, EnginesOK, RestoreOK
<1>3. CASE k # "return"
  BY <1>1, <1>3, SameInv DEF PromptKey, NotCommitted
<1> QED BY <1>2, <1>3

\* Any key without modifiers.
LEMMA KeyPressStep ==
  ASSUME Inv, NEW k \in Key, KeyPress(k)
  PROVE  Inv'
<1>1. Frame
  BY FrameLemma DEF KeyPress
<1>2. CASE state = "idle"
  <2>1. Common /\ InIdle /\ prompt = "none"
    BY <1>2, InvByState DEF ByState, Lasting, PromptState
  <2>2. TakesOver(k, cl)
    BY <2>1 DEF TakesOver, InIdle, Common
  <2>3. IdleKey(k, engines, restoreEngineName, cl) /\ UNCHANGED prompt
    BY <1>2 DEF KeyPress
  <2> QED BY <1>1, <2>1, <2>2, <2>3, IdleKeyInv DEF Common, InIdle
<1>3. CASE state # "idle" /\ LeadOnly /\ LeadOnlyKey(k)
  BY <1>1, <1>3, LeadOnlyStep
<1>4. CASE state = "tempEnglish" /\ TempEnglishKey(k)
  BY <1>1, <1>4, TempEnglishStep
<1>5. CASE state = "tempPinyin" /\ TempPinyinKey(k)
  BY <1>1, <1>5, TempPinyinStep
<1>6. CASE state \in PromptState /\ PromptKey(k)
  BY <1>1, <1>6, PromptStep
<1>7. state \in {"idle"} \cup PromptState \cup TempState
  BY DEF Inv, TypeOK
<1> QED BY <1>2, <1>3, <1>4, <1>5, <1>6, <1>7 DEF KeyPress, TempState

\* A key with modifiers, which temporary English gives up on and a prompt
\* swallows: what clears the list, and what leaves it.
LEMMA ComboFacts ==
  ASSUME Inv, Combo
  PROVE  /\ Common /\ prompt = "none" /\ ComboList \in List /\ GoodList(ComboList)
         /\ state = "tempEnglish" => ComboState = "idle" /\ ComboList = Clear(cl)
         /\ state # "tempEnglish" => ComboState = state /\ ComboList = cl
<1>1. Common /\ prompt = "none" /\ cl \in List /\ GoodList(cl)
  BY InvByState DEF ByState, Lasting, Common, GoodList, Combo, Inv, PromptFollowsState
<1> QED BY <1>1, ClearLemma DEF ComboState, ComboList

\* A combination that clears the list keeps the invariant, a commit and a
\* switch of the engine included.
LEMMA ComboCleared ==
  ASSUME Inv, Combo, Frame, state' = ComboState, cl' = Clear(ComboList), CommitOK(lastCommit'),
         EnginesOK(engines'), UNCHANGED <<restoreEngineName, prompt>>
  PROVE  Inv'
<1>1. CASE state = "tempEnglish"
  <2>1. GoodList(cl') /\ cl'.lead = NoLead /\ Empty(cl')
    BY ComboFacts, ClearLemma DEF Empty
  <2>2. Quiet
    BY <2>1 DEF Quiet, Belongs, Empty, Candidates, EngineName
  <2> QED BY <1>1, <2>1, <2>2, ComboFacts, IdleInv DEF Common, RestoreOK
<1>2. CASE state # "tempEnglish"
  BY <1>2, ComboFacts, ClearedInv
<1> QED BY <1>1, <1>2

\* So does one that leaves it to the state.
LEMMA ComboKept ==
  ASSUME Inv, Combo, Frame, state' = ComboState, NotCommitted(ComboList),
         UNCHANGED <<engines, restoreEngineName, prompt>>
  PROVE  Inv'
<1>1. CASE state = "tempEnglish"
  <2>1. Quiet /\ Empty(cl')
    <3>1. cl \in List
      BY DEF Inv, TypeOK
    <3> QED BY <1>1, <3>1, ComboFacts, ClearedList
  <2> QED BY <1>1, <2>1, ComboFacts, IdleInv DEF Common, EnginesOK, RestoreOK
<1>2. CASE state # "tempEnglish"
  BY <1>2, ComboFacts, PagedInv
<1> QED BY <1>1, <1>2

\* The next mode, by key or by the panel.
LEMMA NextModeStep ==
  ASSUME Inv, NextModeKey \/ RequestNextInputMode
  PROVE  Inv'
<1>1. /\ EnginesOK(engines) /\ CommitOK(lastCommit) /\ cl \in List
  BY InvByState DEF ByState, Common, GoodList
<1>2. ASSUME NEW l, SwitchToNextEngine(l)
      PROVE  /\ EnginesOK(engines') /\ panelMode' \in EngineName
             /\ cl' = Clear(l) /\ CommitOK(lastCommit') /\ UNCHANGED <<restoreEngineName, prompt>>
  <2>1. EnginesOK(engines')
    BY <1>1, <1>2, EngineSwitches DEF SwitchToNextEngine
  <2> QED BY <1>1, <1>2, <2>1 DEF SwitchToNextEngine, NotCommitted, CommitOK, EnginesOK
<1>3. CASE NextModeKey
  <2>1. Combo /\ Pressed /\ state' = ComboState /\ SwitchToNextEngine(ComboList)
    BY <1>3 DEF NextModeKey, Combo
  <2>2. Frame
    BY <1>2, <2>1, FrameLemma
  <2> QED BY <1>2, <2>1, <2>2, ComboCleared
<1>4. CASE RequestNextInputMode
  <2>1. SwitchToNextEngine(cl) /\ UNCHANGED state /\ KeysUnchanged
    BY <1>4 DEF RequestNextInputMode
  <2>2. Frame
    BY <1>2, <2>1, FrameLemma
  <2> QED BY <1>1, <1>2, <2>1, <2>2, ClearedInv
<1> QED BY <1>3, <1>4

\* Ctrl+= and Ctrl+-; here GraveLeadMeansPinyin is needed.
LEMMA EnterPromptStep ==
  ASSUME Inv, NEW s \in PromptState, EnterPrompt(s)
  PROVE  Inv'
<1>1. Combo /\ Frame
  BY FrameLemma DEF EnterPrompt, Combo
<1>2. CASE MayEnter(s) /\ state' = s /\ prompt' = s
  <2>1. /\ NotCommitted(ComboList) /\ UNCHANGED <<engines, restoreEngineName>>
        /\ engines.current \notin {"py", "en"}
    <3>1. Uninterested(s) = {"py", "en"}
      BY DEF Uninterested, PromptState
    <3>2. engines.current \notin Uninterested(s)
      BY <1>2 DEF MayEnter
    <3> QED BY <3>1, <3>2 DEF EnterPrompt
  <2>2. ByState /\ Common
    BY InvByState DEF ByState
  <2>3. Common'
    BY <1>1, <2>1, <2>2, ComboFacts DEF Common, Frame, NotCommitted, GoodList, PageOK, CommitOK,
                                       EnginesOK, RestoreOK
  <2>4. cl'.lead = NoLead /\ Belongs(cl')
    <3>1. CASE state = "tempEnglish"
      BY <1>1, <2>1, <3>1, ComboFacts, ClearedList DEF Quiet, Inv, TypeOK
    <3>2. CASE state # "tempEnglish"
      <4>1. cl' = cl
        BY <1>1, <2>1, <3>2, ComboFacts DEF NotCommitted
      <4>2. InIdle \/ InTempPinyin
        BY <2>2, <3>2 DEF ByState, Lasting
      <4>3. engines.current \in EngineName
        BY <2>2 DEF Common, EnginesOK
      <4> QED BY <2>1, <4>1, <4>2, <4>3 DEF InIdle, InTempPinyin, Belongs
    <3> QED BY <3>1, <3>2
  <2>5. Lasting(s)' /\ InIdle'
    BY <1>2, <2>1, <2>4 DEF Lasting, InIdle
  <2> QED BY <2>3, <2>5, InvByStateNext DEF ByState, PromptState
<1>3. CASE state' = ComboState /\ UNCHANGED prompt
  BY <1>1, <1>3, ComboKept DEF EnterPrompt
<1> QED BY <1>2, <1>3 DEF EnterPrompt

\* The other combinations.
LEMMA ComboStep ==
  ASSUME Inv, ShiftedMark \/ OtherCombo \/ SwallowedCombo
  PROVE  Inv'
<1>1. CASE ShiftedMark
  <2>1. Combo /\ Frame /\ state' = ComboState /\ PuncKey(ComboList)
        /\ UNCHANGED <<engines, restoreEngineName, prompt>>
    BY <1>1, FrameLemma DEF ShiftedMark, Combo
  <2>2. cl' = Clear(ComboList)
    BY <2>1 DEF PuncKey, Commit
  <2>3. CommitOK(lastCommit') /\ EnginesOK(engines')
    BY <2>1, ComboFacts, ShownCommits DEF Quiet, Common, EnginesOK
  <2> QED BY <2>1, <2>2, <2>3, ComboCleared
<1>2. CASE OtherCombo
  BY <1>2, FrameLemma, ComboKept DEF OtherCombo, Combo
<1>3. CASE SwallowedCombo
  BY <1>3, FrameLemma, SameInv DEF SwallowedCombo
<1> QED BY <1>1, <1>2, <1>3

\* The switch key, and other keys' releases.
LEMMA SwitchKeyStep ==
  ASSUME Inv, SwitchKeyPress \/ SwitchKeyRelease \/ OtherKeyRelease
  PROVE  Inv'
<1>1. panelMode \in EngineName /\ cl \in List /\ EnginesOK(engines) /\ CommitOK(lastCommit)
  BY InvByState DEF ByState, Common, GoodList
<1>2. CASE SwitchKeyPress
  <2>1. cnEnSwitchKeyPending' \in BOOLEAN
    BY <1>2 DEF SwitchKeyPress
  <2>2. lastKey' \in {"switch", "other"} /\ SwitchKeyAlone' /\ panelMode' \in EngineName
    BY <1>1, <1>2 DEF SwitchKeyPress, SwitchKeyAlone
  <2>3. Frame
    BY <2>1, <2>2 DEF Frame
  <2> QED BY <1>2, <2>3, SameInv DEF SwitchKeyPress
<1>3. CASE SwitchKeyRelease
  <2>1. cnEnSwitchKeyPending' = FALSE /\ lastKey' = "other"
    BY <1>3 DEF SwitchKeyRelease
  <2>2. ASSUME panelMode' \in EngineName PROVE Frame
    <3>1. cnEnSwitchKeyPending' \in BOOLEAN
      BY <2>1
    <3> QED BY <2>1, <2>2, <3>1 DEF Frame, SwitchKeyAlone
  <2>3. CASE UNCHANGED <<engines, panelMode, cl>>
    BY <1>1, <1>3, <2>2, <2>3, SameInv DEF SwitchKeyRelease
  <2>4. CASE /\ engines' = ToggleEnglishEngine(engines) /\ panelMode' = engines'.current
             /\ cl' = Clear(cl)
    <3>1. EnginesOK(engines') /\ panelMode' \in EngineName
      <4>1. EnginesOK(engines')
        BY <1>1, <2>4, EngineSwitches
      <4> QED BY <2>4, <4>1 DEF EnginesOK
    <3>2. CommitOK(lastCommit') /\ UNCHANGED <<state, restoreEngineName, prompt>>
      BY <1>1, <1>3 DEF SwitchKeyRelease, CommitOK
    <3> QED BY <1>1, <2>2, <2>4, <3>1, <3>2, ClearedInv
  <2> QED BY <1>3, <2>3, <2>4 DEF SwitchKeyRelease
<1>4. CASE OtherKeyRelease
  BY <1>4, FrameLemma, SameInv DEF OtherKeyRelease
<1> QED BY <1>2, <1>3, <1>4

\* The panel's clicks and page signals, and the frontend's reset.
LEMMA SignalStep ==
  ASSUME Inv, \/ \E i \in 0 .. WordCount - 1 : SelectCandidate(i)
              \/ LookupTablePageUp \/ LookupTablePageDown \/ Reset
  PROVE  Inv'
<1>1. cl \in List
  BY DEF Inv, TypeOK
<1>2. CASE \E i \in 0 .. WordCount - 1 : SelectCandidate(i)
  <2>1. PICK i \in 0 .. WordCount - 1 : SelectCandidate(i)
    BY <1>2
  <2>2. i \in Int /\ SelectAt(cl, i) /\ StateReset /\ UNCHANGED panelMode /\ KeysUnchanged
    BY <2>1 DEF SelectCandidate
  <2>3. Quiet /\ Empty(cl')
    BY <1>1, <2>2, ShownCommits DEF Empty
  <2> QED BY <2>2, <2>3, FrameLemma, ResetInv
<1>3. CASE LookupTablePageUp
  BY <1>1, <1>3, FrameLemma, PagingLemma, PagedInv DEF LookupTablePageUp
<1>4. CASE LookupTablePageDown
  BY <1>1, <1>4, FrameLemma, PagingLemma, PagedInv DEF LookupTablePageDown
<1>5. CASE Reset
  <2>1. Pressed /\ UNCHANGED panelMode /\ StateReset /\ NotCommitted(Clear(cl))
    BY <1>5 DEF Reset, Pressed
  <2> QED BY <1>1, <2>1, FrameLemma, ClearedList, ResetInv
<1> QED BY <1>2, <1>3, <1>4, <1>5

-----------------------------------------------------------------------------
(* The theorems *)

\* A session starts in the invariant.
LEMMA InitInv == Init => Inv
<1> SUFFICES ASSUME Init PROVE Inv
  OBVIOUS
<1>1. engines.current \in Configured /\ engines.last = None /\ EnginesOK(engines)
  BY ConfiguredFacts DEF Init, EnginesOK, EngineName
<1>2. GoodList(cl) /\ cl.lead = NoLead /\ Empty(cl)
  BY ClearLemma DEF Init, EmptyList, Empty
<1>3. CommitOK(lastCommit)
  BY CodesAreClosed DEF Init, CommitOK
<1>4. Common
  BY <1>1, <1>2, <1>3 DEF Init, Common, RestoreOK, SwitchKeyAlone, EngineName
<1>5. Lasting("idle") /\ InIdle
  BY <1>2 DEF Init, Lasting, PromptState, InIdle, Belongs, Empty, Candidates, EngineName
<1> QED BY <1>4, <1>5, InvByState DEF ByState

\* Every step of a session keeps the invariant.
LEMMA NextInv == Inv /\ [SessionNext]_vars => Inv'
<1> SUFFICES ASSUME Inv, [SessionNext]_vars PROVE Inv'
  OBVIOUS
<1>1. CASE \E k \in Key : KeyPress(k)
  BY <1>1, KeyPressStep
<1>2. CASE NextModeKey \/ RequestNextInputMode
  BY <1>2, NextModeStep
<1>3. CASE \E s \in PromptState : EnterPrompt(s)
  BY <1>3, EnterPromptStep
<1>4. CASE ShiftedMark \/ OtherCombo \/ SwallowedCombo
  BY <1>4, ComboStep
<1>5. CASE SwitchKeyPress \/ SwitchKeyRelease \/ OtherKeyRelease
  BY <1>5, SwitchKeyStep
<1>6. CASE \/ \E i \in 0 .. WordCount - 1 : SelectCandidate(i)
           \/ LookupTablePageUp \/ LookupTablePageDown \/ Reset
  BY <1>6, SignalStep
<1>7. CASE UNCHANGED vars
  <2>1. KeysUnchanged /\ UNCHANGED panelMode
    BY <1>7 DEF vars, KeysUnchanged
  <2> QED BY <1>7, <2>1, FrameLemma, SameInv DEF vars
<1> QED BY <1>1, <1>2, <1>3, <1>4, <1>5, <1>6, <1>7 DEF SessionNext

\* The invariant holds throughout a session, for any engines, tables, quick
\* formats and page size.
THEOREM SessionInvariant == Spec => []Inv
BY InitInv, NextInv, PTL DEF Spec

\* Every variable keeps its kind of value.
THEOREM TypeCorrect == Spec => []TypeOK
<1>1. Inv => TypeOK
  BY DEF Inv
<1> QED BY <1>1, SessionInvariant, PTL

\* The shown page is always a page of the candidates.
THEOREM PageCorrect == Spec => []ShownIsAPage
<1>1. Inv => ShownIsAPage
  BY DEF Inv
<1> QED BY <1>1, SessionInvariant, PTL

\* The candidates are always those of the code.
THEOREM CandidatesCorrect == Spec => []CandidatesBelongToCode
<1>1. Inv => CandidatesBelongToCode
  BY DEF Inv
<1> QED BY <1>1, SessionInvariant, PTL

\* A prompt is shown exactly while the keys go to it.
THEOREM PromptCorrect == Spec => []PromptFollowsState
<1>1. Inv => PromptFollowsState
  BY DEF Inv
<1> QED BY <1>1, SessionInvariant, PTL

\* The guide characters belong to their states, and the grave character to
\* the Pinyin engine.
THEOREM LeadCorrect == Spec => [](LeadBelongsToState /\ GraveLeadMeansPinyin)
<1>1. Inv => LeadBelongsToState /\ GraveLeadMeansPinyin
  BY DEF Inv
<1> QED BY <1>1, SessionInvariant, PTL

\* English remembers the engine to go back to, and composes nothing.
THEOREM EnglishCorrect == Spec => [](EnglishRemembersTheEngine /\ EnglishComposesNothing)
<1>1. Inv => EnglishRemembersTheEngine /\ EnglishComposesNothing
  BY DEF Inv
<1> QED BY <1>1, SessionInvariant, PTL

\* The switch key toggles only when it was pressed alone.
THEOREM SwitchKeyCorrect == Spec => []SwitchKeyAlone
<1>1. Inv => SwitchKeyAlone
  BY DEF Inv
<1> QED BY <1>1, SessionInvariant, PTL

\* A step that ends temporary Pinyin, other than into a prompt, gives back the
\* engine it was entered from.
LEMMA GivesBackStep ==
  ASSUME Inv, [SessionNext]_vars, state = "tempPinyin", state' \notin {"tempPinyin"} \cup PromptState
  PROVE  engines' = [current |-> restoreEngineName, last |-> None]
<1>1. ASSUME StateReset PROVE engines' = [current |-> restoreEngineName, last |-> None]
  BY <1>1, StateResetLemma
<1>2. CASE \E k \in Key : KeyPress(k)
  <2>1. PICK k \in Key : KeyPress(k)
    BY <1>2
  <2>2. LeadOnlyKey(k) \/ TempPinyinKey(k)
    BY <2>1 DEF KeyPress
  <2>3. CASE LeadOnlyKey(k)
    BY <1>1, <2>3 DEF LeadOnlyKey
  <2>4. CASE TempPinyinKey(k)
    <3>1. StateReset \/ IdleKey(k, Restored, None, SetLead(cl, NoLead))
      BY <2>4 DEF TempPinyinKey
    <3>2. CASE IdleKey(k, Restored, None, SetLead(cl, NoLead))
      <4>1. Common /\ InTempPinyin /\ CommitOK(lastCommit)
        BY InvByState DEF ByState, Lasting, Common
      <4>2. Restored = [current |-> restoreEngineName, last |-> None] /\ EnginesOK(Restored)
        BY <4>1, EngineSwitches, ConfiguredFacts DEF Restored, InTempPinyin, Common
      <4>3. TakesOver(k, SetLead(cl, NoLead))
        BY <4>1, SetLeadLemma DEF TakesOver, Belongs, InTempPinyin, Common, EnginesOK
      <4>4. engines' = Restored
        BY <3>2, <4>1, <4>2, <4>3, IdleLemma
      <4> QED BY <4>2, <4>4
    <3> QED BY <1>1, <3>1, <3>2
  <2> QED BY <2>2, <2>3, <2>4
<1>3. ASSUME NextModeKey \/ ShiftedMark \/ OtherCombo PROVE FALSE
  BY <1>3 DEF NextModeKey, ShiftedMark, OtherCombo, ComboState
<1>4. ASSUME \E s \in PromptState : EnterPrompt(s) PROVE FALSE
  BY <1>4 DEF EnterPrompt, ComboState
<1>5. ASSUME \/ SwallowedCombo \/ SwitchKeyPress \/ SwitchKeyRelease \/ OtherKeyRelease
             \/ LookupTablePageUp \/ LookupTablePageDown \/ RequestNextInputMode
             \/ UNCHANGED vars
      PROVE  FALSE
  BY <1>5 DEF SwallowedCombo, SwitchKeyPress, SwitchKeyRelease, OtherKeyRelease, LookupTablePageUp,
              LookupTablePageDown, RequestNextInputMode, vars
<1>6. CASE (\E i \in 0 .. WordCount - 1 : SelectCandidate(i)) \/ Reset
  BY <1>1, <1>6 DEF SelectCandidate, Reset
<1> QED BY <1>2, <1>3, <1>4, <1>5, <1>6 DEF SessionNext

\* Whatever ends temporary Pinyin gives the engine back, and there always is
\* one to give back.
THEOREM TempPinyinCorrect == Spec => TempPinyinGivesTheEngineBack /\ []TempPinyinKnowsTheWayBack
<1>1. Inv => TempPinyinKnowsTheWayBack
  BY DEF Inv
<1>2. Inv /\ [SessionNext]_vars =>
        [state = "tempPinyin" /\ state' \notin {"tempPinyin"} \cup PromptState =>
           engines' = [current |-> restoreEngineName, last |-> None]]_vars
  BY GivesBackStep
<1> QED BY <1>1, <1>2, SessionInvariant, PTL DEF Spec, TempPinyinGivesTheEngineBack

-----------------------------------------------------------------------------
(* Text and code of a commit belong together in every session. *)


\* Some table has the text under the code.
Known(text, full) ==
  \E e \in Configured, c \in Code : [text |-> text, full |-> full] \in ToSet(Lookup[e, c])

Pairs(commit) == commit.code # <<>> => Known(commit.text, commit.code)

\* A list whose page is one of its candidates, each of which has no code (a
\* quick format) or is in a table.
Sourced(l) ==
  /\ GoodList(l)
  /\ \A j \in 1 .. Len(l.all) : l.all[j].full # <<>> => Known(l.all[j].text, l.all[j].full)

-----------------------------------------------------------------------------
(* Where candidates come from. *)

LEMMA AnswersAreKnown ==
  /\ \A e \in EngineName, c \in Code :
       \A j \in 1 .. Len(Candidates(e, c)) : Known(Candidates(e, c)[j].text, Candidates(e, c)[j].full)
  /\ \A c \in Code : \A j \in 1 .. Len(Quick[c]) : Quick[c][j].full = <<>>
<1>1. ASSUME NEW e \in EngineName, NEW c \in Code, NEW j \in 1 .. Len(Candidates(e, c))
      PROVE  Known(Candidates(e, c)[j].text, Candidates(e, c)[j].full)
  <2>1. e # "en" /\ e \in Configured
    <3>1. CASE e = "en"
      <4>1. Candidates(e, c) = <<>>
        BY <3>1 DEF Candidates
      <4>2. 1 .. Len(Candidates(e, c)) = {}
        BY <4>1
      <4> QED BY <4>2
    <3> QED BY <3>1 DEF EngineName
  <2>2. Candidates(e, c) = Lookup[e, c] /\ Lookup[e, c] \in Seq(Entry)
    BY <2>1, TableAssumption DEF Candidates
  <2> DEFINE q == Lookup[e, c]
  <2>3. q \in Seq(Entry) /\ j \in 1 .. Len(q) /\ DOMAIN q = 1 .. Len(q)
    BY <1>1, <2>2, LenProperties
  <2>4. q[j] \in Entry /\ q[j] \in ToSet(q)
    <3> HIDE DEF q
    <3> QED BY <2>3, ElementOfSeq DEF ToSet
  <2>5. q[j] = [text |-> q[j].text, full |-> q[j].full]
    <3> HIDE DEF q
    <3> QED BY <2>4 DEF Entry
  <2>6. Candidates(e, c)[j] = q[j]
    BY <2>2
  <2> QED BY <2>1, <2>4, <2>5, <2>6 DEF Known
<1>2. ASSUME NEW c \in Code, NEW j \in 1 .. Len(Quick[c]) PROVE Quick[c][j].full = <<>>
  <2>1. Quick[c] \in Seq([text : Text, full : {<<>>}])
    BY TableAssumption
  <2>2. Quick[c][j] \in [text : Text, full : {<<>>}]
    BY <1>2, <2>1, ElementOfSeq
  <2> QED BY <2>2
<1> QED BY <1>1, <1>2

LEMMA BelongsIsSourced ==
  ASSUME NEW l, GoodList(l), Belongs(l) \/ l.all = Quick[l.code]
  PROVE  Sourced(l)
<1>1. l.code \in Code
  BY DEF GoodList, List
<1> QED BY <1>1, AnswersAreKnown DEF Sourced, Belongs

\* So are a list without its guide character and a cleared one.
LEMMA StillSourced ==
  ASSUME NEW l, Sourced(l)
  PROVE  Sourced(SetLead(l, NoLead)) /\ Sourced(Clear(l))
<1>1. GoodList(l) /\ l \in List
  BY DEF Sourced, GoodList
<1>2. GoodList(SetLead(l, NoLead)) /\ SetLead(l, NoLead).all = l.all
  BY <1>1, SetLeadLemma
<1>3. GoodList(Clear(l)) /\ Clear(l).all = <<>> /\ Clear(l).code = <<>>
  BY <1>1, ClearLemma
<1>4. Belongs(Clear(l))
  BY <1>3 DEF Belongs, Candidates, EngineName
<1> QED BY <1>2, <1>3, <1>4, BelongsIsSourced DEF Sourced

-----------------------------------------------------------------------------
(* The two routes to a text and its code. *)

LEMMA PageType ==
  ASSUME NEW l, Sourced(l)
  PROVE  /\ l.all \in Seq(Entry) /\ l.shown \in Seq(Text) /\ l.page * WordCount \in Nat
         /\ WordCount \in Nat \ {0} /\ Len(l.all) \in Nat /\ Len(l.shown) \in Nat
<1>1. l.all \in Seq(Entry) /\ l.shown \in Seq(Text) /\ l.page \in Nat
  BY DEF Sourced, GoodList, List
<1>2. \A a, b \in Nat : a * b \in Nat
  OBVIOUS
<1> QED BY <1>1, <1>2, BoundsAssumption

\* What is shown at a place is the text of the candidate at that place.
LEMMA ShownAt ==
  ASSUME NEW l, Sourced(l), NEW start \in Nat, start = l.page * WordCount, l.all # <<>>, NEW j \in 1 .. Len(l.shown)
  PROVE  l.shown[j] = l.all[start + j].text
<1>1. /\ start < Len(l.all) /\ l.shown = PageTexts(l.all, start, WordCount)
      /\ l.all \in Seq(Entry) /\ l.shown \in Seq(Text) /\ WordCount \in Nat \ {0}
  BY PageType DEF Sourced, GoodList, PageOK
<1> DEFINE n == Smaller(start + WordCount, Len(l.all)) - start
<1>2. /\ DOMAIN PageTexts(l.all, start, WordCount) = 1 .. n
      /\ \A i \in 1 .. n : PageTexts(l.all, start, WordCount)[i] = l.all[start + i].text
  BY <1>1, PageFacts
<1>3. DOMAIN l.shown = 1 .. Len(l.shown)
  BY <1>1, LenProperties
<1> HIDE DEF n
<1> QED BY <1>1, <1>2, <1>3

\* By the index on the page.
LEMMA SelectedPairs ==
  ASSUME NEW l, Sourced(l), NEW i \in Int, SelectFullCode(l, i, WordCount) # <<>>
  PROVE  Known(SelectText(l, i, Raw), SelectFullCode(l, i, WordCount))
<1> DEFINE start == l.page * WordCount
<1>1. /\ l.all \in Seq(Entry) /\ l.shown \in Seq(Text) /\ start \in Nat
      /\ WordCount \in Nat \ {0} /\ Len(l.all) \in Nat /\ Len(l.shown) \in Nat
  BY PageType
<1>2. OnPage(l, i) /\ start + i < Len(l.all) /\ SelectFullCode(l, i, WordCount) = l.all[start + i + 1].full
  BY DEF SelectFullCode
<1>3. l.all # <<>>
  <2> HIDE DEF start
  <2> QED BY <1>1, <1>2 DEF OnPage
<1>4. i + 1 \in 1 .. Len(l.shown)
  BY <1>1, <1>2 DEF OnPage
<1>5. l.shown[i + 1] = l.all[start + (i + 1)].text
  BY <1>1, <1>3, <1>4, ShownAt
<1> HIDE DEF start
<1>6. start + (i + 1) = start + i + 1 /\ start + i + 1 \in 1 .. Len(l.all)
  BY <1>1, <1>2 DEF OnPage
<1>7. Known(l.all[start + i + 1].text, l.all[start + i + 1].full)
  BY <1>2, <1>6 DEF Sourced
<1> QED BY <1>2, <1>5, <1>6, <1>7 DEF SelectText

\* By the code.
LEMMA FirstPairs ==
  ASSUME NEW l, Sourced(l), NEW c, c # <<>>, FirstTextForFullCode(l, c, WordCount, Raw) # Raw
  PROVE  Known(FirstTextForFullCode(l, c, WordCount, Raw), c)
<1> DEFINE start == l.page * WordCount
           hits == {i \in 1 .. Len(l.shown) : start + i <= Len(l.all) /\ l.all[start + i].full = c}
           first == CHOOSE i \in hits : \A j \in hits : i <= j
<1>1. FirstTextForFullCode(l, c, WordCount, Raw) = IF hits = {} THEN Raw ELSE l.shown[first]
  BY DEF FirstTextForFullCode
<1>2. /\ l.all \in Seq(Entry) /\ l.shown \in Seq(Text) /\ start \in Nat
      /\ WordCount \in Nat \ {0} /\ Len(l.all) \in Nat /\ Len(l.shown) \in Nat
  BY PageType
<1>3. hits \subseteq Nat
  BY <1>2
<1>4. hits # {}
  <2> HIDE DEF hits
  <2> QED BY <1>1
<1>5. first \in hits
  <2> HIDE DEF hits
  <2>1. \E i \in hits : \A j \in hits : i <= j
    BY <1>3, <1>4, LeastMember
  <2> QED BY <2>1
<1> HIDE DEF first
<1>6. first \in 1 .. Len(l.shown) /\ start + first <= Len(l.all) /\ l.all[start + first].full = c
  BY <1>5
<1>7. l.all # <<>>
  <2> HIDE DEF start, hits
  <2> QED BY <1>2, <1>6
<1>8. l.shown[first] = l.all[start + first].text
  BY <1>2, <1>6, <1>7, ShownAt
<1> HIDE DEF start
<1>9. start + first \in 1 .. Len(l.all)
  BY <1>2, <1>6
<1>10. Known(l.all[start + first].text, l.all[start + first].full)
  BY <1>6, <1>9 DEF Sourced
<1> HIDE DEF hits
<1> QED BY <1>1, <1>4, <1>6, <1>8, <1>10

-----------------------------------------------------------------------------
(* The handlers. *)

\* The committer, the panel's click, the recode keys and the marks.
LEMMA ShownPairs ==
  ASSUME NEW l, Sourced(l), NEW i \in Int, CommitShown(l, i) \/ SelectAt(l, i) \/ PuncKey(l)
  PROVE  Pairs(lastCommit')
<1>1. PICK j \in Int : /\ lastCommit'.text = SelectText(l, j, Raw)
                       /\ lastCommit'.code = SelectFullCode(l, j, WordCount)
  BY DEF CommitShown, SelectAt, PuncKey, Commit
<1> QED BY <1>1, SelectedPairs DEF Pairs

\* Text that is nobody's, or nothing.
LEMMA OtherPairs ==
  ASSUME Pairs(lastCommit),
         \/ \E l, mark : Commit(l, Raw, <<>>, mark)
         \/ \E l : NotCommitted(l)
  PROVE  Pairs(lastCommit')
BY DEF Commit, NotCommitted, Pairs

\* A letter that pushes the candidate of the code before it, or completes one.
LEMMA LetterPairs ==
  ASSUME NEW k \in Letter, NEW e \in EngineName, NEW l, Sourced(l), Pairs(lastCommit), LetterKey(k, e, l)
  PROVE  Pairs(lastCommit')
<1> DEFINE pre   == l.code
           first == IF Len(l.shown) > 0 /\ SelectFullCode(l, 0, WordCount) = pre
                    THEN SelectText(l, 0, Raw) ELSE Raw
           now   == Append(pre, k)
           next  == Typed(e, l, now)
           exact == FirstTextForFullCode(next, now, WordCount, Raw)
<1>1. k \in Printable /\ l \in List /\ GoodList(l) /\ pre \in Code
  BY KeyAssumption DEF Printable, Sourced, GoodList, List
<1>2. \/ lastCommit' = lastCommit
      \/ /\ Len(pre) < MaxCode /\ first # Raw
         /\ lastCommit' = [text |-> first, code |-> pre, mark |-> FALSE]
      \/ /\ Len(pre) < MaxCode /\ exact # Raw
         /\ lastCommit' = [text |-> exact, code |-> now, mark |-> FALSE]
  BY DEF LetterKey, NotCommitted, Commit
<1>3. CASE lastCommit' = lastCommit
  BY <1>3
<1>4. CASE first # Raw /\ lastCommit' = [text |-> first, code |-> pre, mark |-> FALSE]
  <2>1. first = SelectText(l, 0, Raw) /\ SelectFullCode(l, 0, WordCount) = pre
    BY <1>4
  <2> HIDE DEF first
  <2>2. lastCommit'.text = SelectText(l, 0, Raw) /\ lastCommit'.code = SelectFullCode(l, 0, WordCount)
    BY <1>4, <2>1
  <2> QED BY <2>2, SelectedPairs DEF Pairs
<1>5. CASE /\ Len(pre) < MaxCode /\ exact # Raw
           /\ lastCommit' = [text |-> exact, code |-> now, mark |-> FALSE]
  <2>1. now \in Code /\ now # <<>>
    <3>1. pre \in Seq(Printable)
      BY <1>1, CodeIsSeq
    <3>2. now \in Code
      BY <1>1, <1>5, CodesAreClosed
    <3> HIDE DEF pre
    <3>3. Append(pre, k) # <<>>
      BY <1>1, <3>1, AppendProperties
    <3> QED BY <3>2, <3>3
  <2> HIDE DEF now
  <2>2. GoodList(next) /\ next.code = now /\ next.all = Candidates(e, now)
    BY <1>1, <2>1, TypedLemma
  <2> HIDE DEF next
  <2>3. Sourced(next)
    BY <2>2, BelongsIsSourced DEF Belongs
  <2>4. Known(exact, now)
    BY <1>5, <2>1, <2>3, FirstPairs
  <2> HIDE DEF exact
  <2> QED BY <1>5, <2>4 DEF Pairs
<1> HIDE DEF first, now, next, exact
<1> QED BY <1>2, <1>3, <1>4, <1>5

\* The chain behind the state machine.
LEMMA ChainPairs ==
  ASSUME NEW k \in Key, NEW g, g.current \in EngineName, NEW r, NEW l, Sourced(l),
         Pairs(lastCommit), IdleKey(k, g, r, l)
  PROVE  Pairs(lastCommit')
<1>1. ASSUME PuncKey(l) PROVE Pairs(lastCommit')
  BY <1>1, ShownPairs
<1>2. ASSUME NEW i \in Int, CommitShown(l, i) \/ SelectAt(l, i) PROVE Pairs(lastCommit')
  BY <1>2, ShownPairs
<1>3. ASSUME NEW m, NotCommitted(m) PROVE Pairs(lastCommit')
  BY <1>3, OtherPairs
<1>4. ASSUME Commit(l, Raw, <<>>, FALSE) PROVE Pairs(lastCommit')
  BY <1>4, OtherPairs
<1>5. ASSUME NEW i \in Int, RecodeKey(l, i) PROVE Pairs(lastCommit')
  BY <1>1, <1>2, <1>5 DEF RecodeKey
<1>6. CASE SemicolonKey(g, r, l)
  <2>1. CASE NotCommitted(SetLead(Clear(l), ";"))
    BY <1>3, <2>1
  <2>2. CASE RecodeKey(l, 1)
    BY <1>5, <2>2
  <2> QED BY <1>6, <2>1, <2>2 DEF SemicolonKey
<1>7. CASE GraveKey(g, r, l)
  BY <1>1, <1>3, <1>7 DEF GraveKey
<1>8. CASE PlainKey(k, g, l)
  <2>1. CASE k \in Letter /\ LetterKey(k, g.current, l)
    BY <2>1, LetterPairs
  <2>2. CASE \/ PageKey(l, HasPrev(l), Prev(l, WordCount))
             \/ PageKey(l, HasNext(l), Next(l, WordCount))
    BY <1>1, <1>3, <2>2 DEF PageKey
  <2>3. CASE NotCommitted(Refresh(g.current, PopInputCode(l, WordCount)))
    BY <1>3, <2>3
  <2>4. CASE k \in Digit /\ IF Composing(l)
                            THEN SelectAt(l, DigitIndex(k))
                            ELSE Commit(l, Raw, <<>>, FALSE)
    BY <1>2, <1>4, <2>4, DigitIndexType
  <2>5. CASE RecodeKey(l, 2) \/ PuncKey(l)
    BY <1>1, <1>5, <2>5
  <2>6. CASE CommitShown(l, 0)
    BY <1>2, <2>6
  <2>7. CASE Commit(l, Raw, <<>>, FALSE) \/ NotCommitted(l)
    BY <1>3, <1>4, <2>7
  <2> QED BY <1>8, <2>1, <2>2, <2>3, <2>4, <2>5, <2>6, <2>7 DEF PlainKey
<1> QED BY <1>6, <1>7, <1>8 DEF IdleKey

\* A step of a session leaves text and code of one candidate, whichever state
\* or signal it came through.
LEMMA StepPairs ==
  ASSUME Inv, Pairs(lastCommit), [SessionNext]_vars
  PROVE  Pairs(lastCommit')
<1>1. Sourced(cl) /\ Sourced(Clear(cl)) /\ Sourced(SetLead(cl, NoLead))
  <2>1. GoodList(cl) /\ (Belongs(cl) \/ cl.all = Quick[cl.code])
    BY InvByState DEF ByState, Common, InIdle, InTempEnglish, InTempPinyin, Belongs, EnginesOK
  <2> QED BY <2>1, BelongsIsSourced, StillSourced
<1>2. engines.current \in EngineName /\ Restored.current \in EngineName
  <2>1. EnginesOK(engines)
    BY InvByState DEF ByState, Common
  <2>2. EnginesOK(Restored)
    BY <2>1, EngineSwitches DEF Restored
  <2> QED BY <2>1, <2>2 DEF EnginesOK
<1>3. ASSUME NEW m, NotCommitted(m) PROVE Pairs(lastCommit')
  BY <1>3, OtherPairs
<1>4. ASSUME lastCommit' = lastCommit PROVE Pairs(lastCommit')
  BY <1>4
<1>5. ASSUME NEW k \in Key, KeyPress(k) PROVE Pairs(lastCommit')
  <2>1. CASE IdleKey(k, engines, restoreEngineName, cl)
    BY <1>1, <1>2, <2>1, ChainPairs
  <2>2. CASE LeadOnlyKey(k)
    BY <2>2, OtherPairs DEF LeadOnlyKey
  <2>3. CASE TempEnglishKey(k)
    <3>1. (\E m : NotCommitted(m)) \/ IdleKey(k, engines, restoreEngineName, SetLead(cl, NoLead))
      BY <2>3 DEF TempEnglishKey, TypeEnglish, QuickCommand
    <3> QED BY <1>1, <1>2, <1>3, <3>1, ChainPairs
  <2>4. CASE TempPinyinKey(k)
    <3>1. (\E m : NotCommitted(m)) \/ IdleKey(k, Restored, None, SetLead(cl, NoLead))
      BY <2>4 DEF TempPinyinKey
    <3> QED BY <1>1, <1>2, <1>3, <3>1, ChainPairs
  <2>5. CASE PromptKey(k)
    BY <1>3, <2>5 DEF PromptKey
  <2> QED BY <1>5, <2>1, <2>2, <2>3, <2>4, <2>5 DEF KeyPress
<1>6. ASSUME NextModeKey \/ RequestNextInputMode PROVE Pairs(lastCommit')
  BY <1>3, <1>6 DEF NextModeKey, RequestNextInputMode, SwitchToNextEngine
<1>7. ASSUME NEW s \in PromptState, EnterPrompt(s) PROVE Pairs(lastCommit')
  BY <1>3, <1>7 DEF EnterPrompt
<1>8. ASSUME ShiftedMark PROVE Pairs(lastCommit')
  BY <1>1, <1>8, ShownPairs DEF ShiftedMark, ComboList
<1>9. ASSUME OtherCombo PROVE Pairs(lastCommit')
  BY <1>3, <1>9 DEF OtherCombo
<1>10. ASSUME SwallowedCombo \/ SwitchKeyPress \/ SwitchKeyRelease \/ OtherKeyRelease \/ UNCHANGED vars
       PROVE  Pairs(lastCommit')
  BY <1>4, <1>10 DEF SwallowedCombo, SwitchKeyPress, SwitchKeyRelease, OtherKeyRelease, vars
<1>11. ASSUME NEW i \in 0 .. WordCount - 1, SelectCandidate(i) PROVE Pairs(lastCommit')
  BY <1>1, <1>11, ShownPairs DEF SelectCandidate
<1>12. ASSUME LookupTablePageUp \/ LookupTablePageDown \/ Reset PROVE Pairs(lastCommit')
  BY <1>3, <1>12 DEF LookupTablePageUp, LookupTablePageDown, Reset
<1> QED BY <1>5, <1>6, <1>7, <1>8, <1>9, <1>10, <1>11, <1>12 DEF SessionNext

\* Whatever route a commit took, by key, click, mark or full code, its code is
\* a code of its text.
THEOREM CommitCorrect == Spec => []CommitPairsTextAndCode
<1>1. CommitPairsTextAndCode <=> Pairs(lastCommit)
  BY DEF CommitPairsTextAndCode, Pairs, Known
<1>2. Init => Pairs(lastCommit)
  BY DEF Init, Pairs
<1>3. Inv /\ Pairs(lastCommit) /\ [SessionNext]_vars => Pairs(lastCommit')
  BY StepPairs
<1>4. Pairs(lastCommit)' <=> Pairs(lastCommit')
  BY DEF Pairs, Known
<1> QED BY <1>1, <1>2, <1>3, <1>4, SessionInvariant, PTL DEF Spec
=============================================================================
