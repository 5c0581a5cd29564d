-------------------------- MODULE AutoPhraseProofs ---------------------------
(* Proofs about AutoPhrase, for any characters, codes and tables, and any    *)
(* number of characters committed.                                           *)
EXTENDS AutoPhrase, SequenceTheorems, TLAPS

L == INSTANCE SequenceFacts WITH After <- Learn

-----------------------------------------------------------------------------
(* What one span does to the phrases of the session. *)

Made       == {[hz |-> r, code |-> CodeOf[r]] : r \in Run}
Unique(ps) == \A i, j \in DOMAIN ps : i # j => ps[i].code # ps[j].code /\ ps[i].hz # ps[j].hz

\* hz needs no phrase, or has one, or its code has.
Settled(ps, hz) ==
  CodeOf[hz] = None \/ KnownInTables(hz) \/ \E i \in DOMAIN ps : ps[i].hz = hz \/ ps[i].code = CodeOf[hz]

LEMMA LearnFacts ==
  ASSUME NEW ps \in Seq(Made), NEW hz \in Run
  PROVE  /\ Learn(ps, hz) \in Seq(Made)
         /\ Unique(ps) => Unique(Learn(ps, hz))
         /\ Range(Learn(ps, hz)) \subseteq Range(ps) \cup {[hz |-> hz, code |-> CodeOf[hz]]}
         /\ Settled(Learn(ps, hz), hz)
         /\ \A other : Settled(ps, other) => Settled(Learn(ps, hz), other)
<1> DEFINE new == [hz |-> hz, code |-> CodeOf[hz]]
<1>1. CASE Settled(ps, hz)
  <2>1. Learn(ps, hz) = ps
    BY <1>1 DEF Learn, Settled
  <2> QED BY <1>1, <2>1
<1>2. CASE ~Settled(ps, hz)
  <2> DEFINE more == Append(ps, new)
  <2>1. Learn(ps, hz) = more
    BY <1>2 DEF Learn, Settled
  <2>2. new \in Made /\ new.hz = hz /\ new.code = CodeOf[hz]
    BY DEF Made
  <2> HIDE DEF new
  <2>3. /\ more \in Seq(Made) /\ Len(ps) \in Nat /\ DOMAIN ps = 1 .. Len(ps) /\ DOMAIN more = 1 .. Len(ps) + 1
        /\ (\A i \in 1 .. Len(ps) : more[i] = ps[i]) /\ more[Len(ps) + 1] = new
    BY <2>2, AppendProperties, LenProperties
  <2> HIDE DEF more
  <2>4. Unique(ps) => Unique(more)
    <3>1. \A i \in DOMAIN ps : ps[i].hz # hz /\ ps[i].code # CodeOf[hz]
      BY <1>2 DEF Settled
    <3>2. ASSUME Unique(ps), NEW i \in 1 .. Len(ps) + 1, NEW j \in 1 .. Len(ps) + 1, i # j
          PROVE  more[i].code # more[j].code /\ more[i].hz # more[j].hz
      <4>1. CASE i # Len(ps) + 1 /\ j # Len(ps) + 1
        <5>1. i \in DOMAIN ps /\ j \in DOMAIN ps
          BY <2>3, <4>1
        <5> QED BY <2>3, <3>2, <5>1 DEF Unique
      <4>2. CASE i = Len(ps) + 1
        <5>1. j \in DOMAIN ps /\ more[i] = new /\ more[j] = ps[j]
          BY <2>3, <3>2, <4>2
        <5> QED BY <2>2, <3>1, <5>1
      <4>3. CASE j = Len(ps) + 1
        <5>1. i \in DOMAIN ps /\ more[j] = new /\ more[i] = ps[i]
          BY <2>3, <3>2, <4>3
        <5> QED BY <2>2, <3>1, <5>1
      <4> QED BY <4>1, <4>2, <4>3
    <3> QED BY <2>3, <3>2 DEF Unique
  <2>5. Range(more) \subseteq Range(ps) \cup {new}
    <3>1. ASSUME NEW i \in 1 .. Len(ps) + 1 PROVE more[i] \in Range(ps) \cup {new}
      <4>1. i \in 1 .. Len(ps) \/ i = Len(ps) + 1
        BY <2>3
      <4> QED BY <2>3, <4>1 DEF Range
    <3> QED BY <2>3, <3>1 DEF Range
  <2>6. Settled(more, hz)
    <3>1. Len(ps) + 1 \in DOMAIN more /\ more[Len(ps) + 1].hz = hz
      BY <2>2, <2>3
    <3> QED BY <3>1 DEF Settled
  <2>7. ASSUME NEW other, Settled(ps, other) PROVE Settled(more, other)
    <3>1. \A i \in DOMAIN ps : i \in DOMAIN more /\ more[i] = ps[i]
      BY <2>3
    <3> QED BY <2>7, <3>1 DEF Settled
  <2> QED BY <2>1, <2>3, <2>4, <2>5, <2>6, <2>7 DEF new
<1> QED BY <1>1, <1>2

\* What all the spans of a character do.
LEMMA OutcomeFacts ==
  ASSUME NEW ps \in Seq(Made), NEW spans \in Seq(Run)
  PROVE  /\ L!Outcome(ps, spans) \in Seq(Made)
         /\ Unique(ps) => Unique(L!Outcome(ps, spans))
         /\ Range(L!Outcome(ps, spans)) \subseteq Range(ps) \cup {[hz |-> hz, code |-> CodeOf[hz]] : hz \in Range(spans)}
         /\ \A hz \in Range(spans) : Settled(L!Outcome(ps, spans), hz)
<1>1. L!Outcome(ps, spans) \in Seq(Made)
  BY LearnFacts, L!OutcomeStays
<1>2. ASSUME Unique(ps) PROVE Unique(L!Outcome(ps, spans))
  <2> DEFINE T == {qs \in Seq(Made) : Unique(qs)}
  <2>1. ps \in T /\ \A x \in T, hz \in Run : Learn(x, hz) \in T
    BY <1>2, LearnFacts
  <2> HIDE DEF T
  <2>2. L!Outcome(ps, spans) \in T
    BY <2>1, L!OutcomeStays
  <2> QED BY <2>2 DEF T
<1>3. /\ Range(spans) \subseteq Run /\ spans \in Seq(Range(spans)) /\ DOMAIN spans = 1 .. Len(spans)
  BY RangeOfSeq, SeqOfRange, LenProperties
<1>4. Range(L!Outcome(ps, spans)) \subseteq Range(ps) \cup {[hz |-> hz, code |-> CodeOf[hz]] : hz \in Range(spans)}
  <2> DEFINE S == Range(spans)
             New == {[hz |-> hz, code |-> CodeOf[hz]] : hz \in S}
             T == {qs \in Seq(Made) : Range(qs) \subseteq Range(ps) \cup New}
  <2>1. ASSUME NEW x \in T, NEW hz \in S PROVE Learn(x, hz) \in T
    <3>1. x \in Seq(Made) /\ hz \in Run /\ [hz |-> hz, code |-> CodeOf[hz]] \in New
      BY <1>3, <2>1
    <3> QED BY <2>1, <3>1, LearnFacts
  <2>2. ps \in T
    OBVIOUS
  <2>3. spans \in Seq(S)
    BY <1>3
  <2> HIDE DEF T, S
  <2>4. L!Outcome(ps, spans) \in T
    BY <2>1, <2>2, <2>3, L!OutcomeStays
  <2> QED BY <2>4 DEF T, S
<1>5. ASSUME NEW hz \in Range(spans) PROVE Settled(L!Outcome(ps, spans), hz)
  <2>1. PICK k \in 1 .. Len(spans) : spans[k] = hz
    BY <1>3 DEF Range
  <2> DEFINE D == Seq(Made)
             T == {qs \in Seq(Made) : Settled(qs, hz)}
  <2>2. \A x \in D, m \in Run : Learn(x, m) \in D
    BY LearnFacts
  <2>3. \A x \in D : Learn(x, spans[k]) \in T
    BY <1>3, <1>5, <2>1, LearnFacts
  <2>4. \A x \in D \cap T, m \in Run : Learn(x, m) \in T
    BY LearnFacts
  <2>5. ps \in D
    OBVIOUS
  <2> HIDE DEF D, T
  <2>6. L!Outcome(ps, spans) \in T
    BY <2>2, <2>3, <2>4, <2>5, L!OutcomeReaches
  <2> QED BY <2>6 DEF T
<1> QED BY <1>1, <1>2, <1>4, <1>5

-----------------------------------------------------------------------------
(* The ring. *)

\* The ring holds the last n + 1 characters of t, of which there are at most four.
Holds(r, t, n) ==
  /\ t \in Seq(Hanzi) /\ Len(t) = n + 1
  /\ \A i \in 0 .. n : i >= n - 3 => r[i % 4] = t[i + 1]

\* The spans of such a ring are the tails of t.
LEMMA SpansAreTails ==
  ASSUME NEW r, NEW t, NEW n \in Nat, Holds(r, t, n)
  PROVE  Spans(r, n) \in Seq(Run) /\ Range(Spans(r, n)) = Tails(t)
<1> DEFINE first == IF n < 3 THEN 0 ELSE n - 3
           size(k) == n - first - k + 2
           span(k) == [j \in 1 .. size(k) |-> r[(first + k + j - 2) % 4]]
           tail(m) == SubSeq(t, Len(t) - m + 1, Len(t))
<1>1. /\ first \in 0 .. n /\ first >= n - 3 /\ (n >= 3 => first = n - 3) /\ (n < 3 => first = 0)
      /\ t \in Seq(Hanzi) /\ Len(t) = n + 1 /\ (\A i \in 0 .. n : i >= n - 3 => r[i % 4] = t[i + 1])
      /\ \A i \in 1 .. n + 1 : t[i] \in Hanzi
  BY ElementOfSeq DEF Holds
<1>2. Spans(r, n) = [k \in 1 .. n - first |-> span(k)]
  BY DEF Spans
<1> HIDE DEF first
<1>3. ASSUME NEW k \in 1 .. n - first
      PROVE  size(k) \in 2 .. 4 /\ size(k) <= Len(t) /\ span(k) = tail(size(k)) /\ span(k) \in [1 .. size(k) -> Hanzi]
  <2>1. size(k) \in 2 .. 4 /\ size(k) <= n + 1 /\ Len(t) - size(k) + 1 = first + k /\ first + k \in 1 .. n + 1
    BY <1>1
  <2>2. ASSUME NEW j \in 1 .. size(k)
        PROVE  r[(first + k + j - 2) % 4] = t[first + k + j - 1] /\ first + k + j - 1 \in 1 .. n + 1
    <3> DEFINE i == first + k + j - 2
    <3>1. i \in 0 .. n /\ i >= n - 3 /\ i + 1 = first + k + j - 1
      BY <1>1
    <3> HIDE DEF i
    <3>2. r[i % 4] = t[i + 1]
      BY <1>1, <3>1
    <3> QED BY <3>1, <3>2 DEF i
  <2>3. span(k) \in [1 .. size(k) -> Hanzi]
    BY <1>1, <2>2
  <2>4. tail(size(k)) = span(k)
    <3> DEFINE b == first + k
               l == size(k)
               e == n + 1
               sub == SubSeq(t, b, e)
               spanned == span(k)
    <3>1. b \in Int /\ e \in Int /\ b <= e /\ (\A i \in b .. e : t[i] \in Hanzi) /\ e - b + 1 = l /\ l \in Nat
      BY <1>1, <2>1
    <3>2. spanned \in [1 .. l -> Hanzi] /\ \A j \in 1 .. l : spanned[j] = t[b + j - 1]
      BY <2>2, <2>3
    <3>3. tail(size(k)) = sub
      BY <1>1, <2>1
    <3> HIDE DEF b, l, e, spanned, sub
    <3>4. sub \in Seq(Hanzi) /\ Len(sub) = l /\ \A j \in 1 .. l : sub[j] = t[b + j - 1]
      <4>1. /\ sub \in Seq(Hanzi) /\ Len(sub) = (IF b <= e THEN e - b + 1 ELSE 0)
            /\ \A j \in 1 .. e - b + 1 : sub[j] = t[b + j - 1]
        BY <3>1, SubSeqProperties DEF sub
      <4> QED BY <3>1, <4>1
    <3>5. sub \in [1 .. l -> Hanzi]
      BY <3>4, LenProperties
    <3>6. sub = spanned
      BY <3>2, <3>4, <3>5
    <3> QED BY <3>3, <3>6 DEF spanned
  <2> QED BY <1>1, <2>1, <2>3, <2>4
<1>4. ASSUME NEW k \in 1 .. n - first PROVE span(k) \in Run
  <2>1. PICK m \in 2 .. 4 : m = size(k)
    BY <1>3
  <2>2. span(k) \in [1 .. m -> Hanzi]
    BY <1>3, <2>1
  <2> HIDE DEF span
  <2> QED BY <2>2 DEF Run
<1>5. ASSUME NEW m \in 2 .. 4, m <= Len(t)
      PROVE  \E k \in 1 .. n - first : size(k) = m
  <2> DEFINE k == n - first + 2 - m
  <2>1. k \in 1 .. n - first /\ size(k) = m
    BY <1>1, <1>5
  <2> QED BY <2>1
<1>6. Spans(r, n) \in [1 .. n - first -> Run] /\ n - first \in Nat
  <2> HIDE DEF span
  <2> QED BY <1>1, <1>2, <1>4
<1>7. Spans(r, n) \in Seq(Run)
  BY <1>6, SeqDef
<1>8. Range(Spans(r, n)) = {span(k) : k \in 1 .. n - first}
  <2> HIDE DEF span
  <2> QED BY <1>2 DEF Range
<1>9. Tails(t) = {tail(m) : m \in {l \in 2 .. 4 : l <= Len(t)}}
  BY DEF Tails
<1> HIDE DEF span, tail, size
<1>10. \A k \in 1 .. n - first : span(k) \in Tails(t)
  BY <1>3, <1>9
<1>11. \A m \in 2 .. 4 : m <= Len(t) => \E k \in 1 .. n - first : span(k) = tail(m)
  BY <1>3, <1>5
<1> QED BY <1>7, <1>8, <1>9, <1>10, <1>11

-----------------------------------------------------------------------------
(* The invariants. *)

RingInv ==
  /\ typed \in Seq(Hanzi) /\ recordIndex = Len(typed)
  /\ ring \in [0 .. 3 -> Hanzi \cup {None}]
  /\ recordIndex > 0 => Holds(ring, typed, recordIndex - 1)

\* OnePhrasePerCode is inductive with what the phrases are.
PhrasesInv == phrases \in Seq(Made) /\ OnePhrasePerCode

\* The table has what is in the file.
FileInv == loadedOn /\ file # Bad => file \subseteq table

Inv == RingInv /\ PhrasesInv /\ FileInv

LEMMA BlankRing ==
  /\ Blank \in [0 .. 3 -> Hanzi \cup {None}]
  /\ <<>> \in Seq(Hanzi) /\ Len(<<>>) = 0
BY DEF Blank

\* The character that is committed takes the place of the one four before it.
LEMMA RingTakes ==
  ASSUME RingInv, NEW h \in Hanzi, ring' = [ring EXCEPT ![recordIndex % 4] = h], typed' = Append(typed, h)
  PROVE  /\ recordIndex \in Nat /\ Holds(ring', typed', recordIndex)
         /\ ring' \in [0 .. 3 -> Hanzi \cup {None}]
<1> DEFINE n == recordIndex
<1>1. /\ typed \in Seq(Hanzi) /\ n = Len(typed) /\ n \in Nat /\ ring \in [0 .. 3 -> Hanzi \cup {None}]
      /\ typed' \in Seq(Hanzi) /\ Len(typed') = n + 1 /\ typed'[n + 1] = h
      /\ \A i \in 1 .. n : typed'[i] = typed[i]
  BY AppendProperties, LenProperties DEF RingInv
<1>2. \A i \in Nat : i % 4 \in 0 .. 3
  OBVIOUS
<1>3. \A i, j \in Nat : i < j /\ i >= j - 3 => i % 4 # j % 4
  OBVIOUS
<1>4. ASSUME NEW i \in 0 .. n, i >= n - 3 PROVE ring'[i % 4] = typed'[i + 1]
  <2>1. CASE i = n
    BY <1>1, <1>2, <2>1
  <2>2. CASE i # n
    <3>1. n > 0 /\ i \in Nat /\ i < n /\ i \in 0 .. n - 1 /\ i >= (n - 1) - 3 /\ i + 1 \in 1 .. n
      BY <1>1, <1>4, <2>2
    <3>2. ring[i % 4] = typed[i + 1]
      BY <3>1 DEF RingInv, Holds
    <3>3. ring'[i % 4] = ring[i % 4]
      BY <1>1, <1>2, <1>3, <1>4, <3>1
    <3> QED BY <1>1, <3>1, <3>2, <3>3
  <2> QED BY <2>1, <2>2
<1> QED BY <1>1, <1>2, <1>4 DEF Holds

\* A character that is committed with the option on.
LEMMA CharFacts ==
  ASSUME Inv, NEW h \in Hanzi, CommitChar(h), enabled
  PROVE  /\ RingInv' /\ PhrasesInv'
         /\ Range(phrases') \subseteq Range(phrases) \cup {[hz |-> hz, code |-> CodeOf[hz]] : hz \in Tails(typed')}
         /\ \A hz \in Tails(typed') : Settled(phrases', hz)
<1>1. /\ ring' = [ring EXCEPT ![recordIndex % 4] = h] /\ typed' = Append(typed, h)
      /\ recordIndex' = recordIndex + 1
      /\ phrases' = L!Outcome(phrases, Spans(ring', recordIndex))
  BY DEF CommitChar, Learned!Outcome, L!Outcome
<1>2. /\ recordIndex \in Nat /\ Holds(ring', typed', recordIndex) /\ ring' \in [0 .. 3 -> Hanzi \cup {None}]
  BY <1>1, RingTakes DEF Inv
<1>3. Spans(ring', recordIndex) \in Seq(Run) /\ Range(Spans(ring', recordIndex)) = Tails(typed')
  BY <1>2, SpansAreTails
<1>4. phrases \in Seq(Made) /\ Unique(phrases)
  BY DEF Inv, PhrasesInv, OnePhrasePerCode, Unique
<1>5. /\ phrases' \in Seq(Made) /\ Unique(phrases')
      /\ Range(phrases') \subseteq Range(phrases) \cup {[hz |-> hz, code |-> CodeOf[hz]] : hz \in Tails(typed')}
      /\ \A hz \in Tails(typed') : Settled(phrases', hz)
  BY <1>1, <1>3, <1>4, OutcomeFacts
<1>6. PhrasesInv'
  BY <1>5 DEF PhrasesInv, OnePhrasePerCode, Unique
<1>7. RingInv'
  <2>1. typed' \in Seq(Hanzi) /\ Len(typed') = recordIndex' /\ recordIndex' > 0 /\ recordIndex' - 1 = recordIndex
    BY <1>1, <1>2 DEF Holds
  <2> QED BY <1>2, <2>1 DEF RingInv, Holds
<1> QED BY <1>5, <1>6, <1>7

LEMMA InvInit == Init => Inv
BY BlankRing DEF Init, Inv, RingInv, PhrasesInv, OnePhrasePerCode, FileInv, Holds

LEMMA InvStep == Inv /\ [Next]_vars => Inv'
<1> SUFFICES ASSUME Inv, [Next]_vars PROVE Inv'
  OBVIOUS
<1>1. ASSUME UNCHANGED <<table, file, loadedOn>> PROVE FileInv'
  BY <1>1 DEF Inv, FileInv
<1>2. ASSUME UNCHANGED <<ring, recordIndex, typed>> PROVE RingInv'
  BY <1>2 DEF Inv, RingInv, Holds
<1>3. ASSUME UNCHANGED phrases PROVE PhrasesInv'
  BY <1>3 DEF Inv, PhrasesInv, OnePhrasePerCode
<1>4. ASSUME ClearRing PROVE RingInv'
  BY <1>4, BlankRing DEF ClearRing, RingInv
<1>5. ASSUME NEW h \in Hanzi, CommitChar(h) PROVE Inv'
  <2>1. CASE enabled
    BY <1>1, <1>5, <2>1, CharFacts DEF CommitChar, Inv
  <2>2. CASE ~enabled
    BY <1>1, <1>2, <1>3, <1>5, <2>2 DEF CommitChar, Inv
  <2> QED BY <2>1, <2>2
<1>6. ASSUME NEW e, CommitPhrase(e) PROVE Inv'
  <2>1. RingInv' /\ PhrasesInv'
    BY <1>2, <1>3, <1>4, <1>6 DEF CommitPhrase
  <2>2. FileInv'
    BY <1>1, <1>6 DEF CommitPhrase, Save, Inv, FileInv
  <2> QED BY <2>1, <2>2 DEF Inv
<1>7. CASE ReloadConfig
  BY <1>1, <1>2, <1>3, <1>7 DEF ReloadConfig, Inv
<1>8. CASE ReloadDictionary
  <2>1. FileInv'
    BY <1>8 DEF ReloadDictionary, Loaded, FileInv
  <2> QED BY <1>2, <1>3, <1>8, <2>1 DEF ReloadDictionary, Inv
<1>9. CASE Restart
  <2>1. PhrasesInv'
    BY <1>9 DEF Restart, PhrasesInv, OnePhrasePerCode
  <2>2. FileInv'
    BY <1>9 DEF Restart, FileInv
  <2> QED BY <1>4, <1>9, <2>1, <2>2 DEF Restart, Inv
<1>10. CASE UNCHANGED vars
  BY <1>1, <1>2, <1>3, <1>10 DEF vars, Inv
<1> QED BY <1>5, <1>6, <1>7, <1>8, <1>9, <1>10 DEF Next

\* No two phrases of a session claim the same code, and none occurs twice, however
\* many characters are committed.
THEOREM OneCodeOnePhrase == Spec => []OnePhrasePerCode
<1>1. Inv => OnePhrasePerCode
  BY DEF Inv, PhrasesInv
<1> QED BY <1>1, InvInit, InvStep, PTL DEF Spec

\* Once the dictionary was loaded with the option on, no save drops an entry of a
\* file that loads.
THEOREM LoadedPhrasesKept == Spec => LoadedPhrasesStay
<1>1. Inv /\ [Next]_vars => [loadedOn /\ file # Bad /\ file' # Bad => file \subseteq file']_vars
  <2> SUFFICES ASSUME Inv, [Next]_vars, loadedOn, file # Bad, file' # Bad
               PROVE  file \subseteq file'
    OBVIOUS
  <2>1. file \subseteq table
    BY DEF Inv, FileInv
  <2>2. ASSUME NEW e, CommitPhrase(e) PROVE file \subseteq file'
    BY <2>1, <2>2 DEF CommitPhrase, Save
  <2>3. CASE ReloadConfig \/ ReloadDictionary \/ Restart \/ UNCHANGED vars
    BY <2>3 DEF ReloadConfig, ReloadDictionary, Restart, vars
  <2>4. ASSUME NEW h, CommitChar(h) PROVE file \subseteq file'
    BY <2>4 DEF CommitChar
  <2> QED BY <2>2, <2>3, <2>4 DEF Next
<1> QED BY <1>1, InvInit, InvStep, PTL DEF Spec, LoadedPhrasesStay

\* What a character adds to the phrases are tails of what was typed, with their
\* codes, and no tail with a code is passed over unless it or its code is taken:
\* the ring of four never mixes characters up, however many went through it.
THEOREM EveryTailIsLearned == Spec => TailsAreLearned
<1> DEFINE Step == typed' # typed /\ typed' # <<>> =>
                     LET new == Range(phrases') \ Range(phrases)
                     IN  /\ \A e \in new : e.hz \in Tails(typed') /\ e.code = CodeOf[e.hz]
                         /\ \A hz \in Tails(typed') :
                              \/ CodeOf[hz] = None
                              \/ KnownInTables(hz)
                              \/ \E e \in Range(phrases') : e.hz = hz \/ e.code = CodeOf[hz]
<1>1. Inv /\ [Next]_vars => [Step]_vars
  <2> SUFFICES ASSUME Inv, [Next]_vars, typed' # typed, typed' # <<>> PROVE Step
    OBVIOUS
  <2>1. \E h \in Hanzi : CommitChar(h) /\ enabled
    BY DEF Next, CommitChar, CommitPhrase, ClearRing, ReloadConfig, ReloadDictionary, Restart, vars
  <2>2. /\ Range(phrases') \subseteq Range(phrases) \cup {[hz |-> hz, code |-> CodeOf[hz]] : hz \in Tails(typed')}
        /\ \A hz \in Tails(typed') : Settled(phrases', hz)
    BY <2>1, CharFacts
  <2>3. \A e \in Range(phrases') \ Range(phrases) : e.hz \in Tails(typed') /\ e.code = CodeOf[e.hz]
    BY <2>2
  <2>4. \A hz \in Tails(typed') : \/ CodeOf[hz] = None \/ KnownInTables(hz)
                                  \/ \E e \in Range(phrases') : e.hz = hz \/ e.code = CodeOf[hz]
    BY <2>2 DEF Settled, Range
  <2> QED BY <2>3, <2>4
<1> QED BY <1>1, InvInit, InvStep, PTL DEF Spec, TailsAreLearned
=============================================================================
