------------------------- MODULE PhrasePromptsProofs -------------------------
(* Proofs about PhrasePrompts, for texts and histories of any length, any    *)
(* tables and any number of messages on their way to the panel.              *)
EXTENDS PhrasePrompts, SequenceTheorems, TLAPS

F == INSTANCE SequenceFacts WITH After <- WithHanzi

-----------------------------------------------------------------------------
(* Ends of texts. *)

\* A text is something and its last characters.
LEMMA LastOfSplit ==
  ASSUME NEW S, NEW text \in Seq(S), NEW n \in Nat
  PROVE  /\ LastOf(n, text) \in Seq(S)
         /\ Len(LastOf(n, text)) = IF Len(text) <= n THEN Len(text) ELSE n
         /\ \E front \in Seq(S) : text = front \o LastOf(n, text)
<1>1. Len(text) \in Nat /\ \A i \in 1 .. Len(text) : text[i] \in S
  BY LenProperties, ElementOfSeq
<1>2. CASE Len(text) <= n
  <2>1. text = <<>> \o text /\ <<>> \in Seq(S)
    BY ConcatEmptySeq
  <2> QED BY <1>2, <2>1 DEF LastOf
<1>3. CASE Len(text) > n
  <2> DEFINE m == Len(text) - n
             end == SubSeq(text, m + 1, Len(text))
             front == SubSeq(text, 1, m)
  <2>1. m \in 1 .. Len(text) /\ LastOf(n, text) = end
    BY <1>1, <1>3 DEF LastOf
  <2>2. end \in Seq(S) /\ Len(end) = n
    BY <1>1, <2>1, SubSeqProperties
  <2>3. front \in Seq(S)
    BY <1>1, <2>1, SubSeqProperties
  <2>4. front \o end = SubSeq(text, 1, Len(text))
    <3>1. 1 \in 1 .. Len(text) + 1 /\ m \in 1 - 1 .. Len(text) /\ Len(text) \in m .. Len(text)
      BY <1>1, <2>1
    <3> HIDE DEF m
    <3> QED BY <3>1, ConcatAdjacentSubSeq
  <2>5. front \o end = text
    BY <2>4, SubSeqFull
  <2> HIDE DEF m, end, front
  <2>6. LastOf(n, text) \in Seq(S) /\ Len(LastOf(n, text)) = n
    BY <2>1, <2>2
  <2>7. text = front \o LastOf(n, text)
    BY <2>1, <2>5
  <2>8. ~(Len(text) <= n)
    BY <1>1, <1>3
  <2> QED BY <2>3, <2>6, <2>7, <2>8
<1>4. Len(text) <= n \/ Len(text) > n
  BY <1>1
<1> QED BY <1>2, <1>3, <1>4

\* What stands in front of enough characters is no matter to the last ones.
LEMMA LastOfConcat ==
  ASSUME NEW S, NEW front \in Seq(S), NEW text \in Seq(S), NEW n \in Nat, n <= Len(text)
  PROVE  LastOf(n, front \o text) = LastOf(n, text)
<1> DEFINE whole == front \o text
<1>1. /\ whole \in Seq(S) /\ Len(whole) = Len(front) + Len(text)
      /\ \A i \in 1 .. Len(front) + Len(text) : whole[i] = IF i <= Len(front) THEN front[i] ELSE text[i - Len(front)]
  BY ConcatProperties
<1>2. Len(front) \in Nat /\ Len(text) \in Nat
  BY LenProperties
<1> HIDE DEF whole
<1>3. LastOf(n, whole) \in Seq(S) /\ Len(LastOf(n, whole)) = n
  BY <1>1, <1>2, LastOfSplit
<1>4. LastOf(n, text) \in Seq(S) /\ Len(LastOf(n, text)) = n
  BY <1>2, LastOfSplit
<1>5. ASSUME NEW u \in Seq(S), n <= Len(u), NEW i \in 1 .. n
      PROVE  LastOf(n, u)[i] = u[(Len(u) - n) + i]
  <2>1. Len(u) \in Nat /\ \A j \in 1 .. Len(u) : u[j] \in S
    BY LenProperties, ElementOfSeq
  <2>2. CASE Len(u) = n
    BY <2>1, <2>2 DEF LastOf
  <2>3. CASE Len(u) > n
    <3> DEFINE m == Len(u) - n
    <3>1. m + 1 \in Int /\ Len(u) \in Int /\ \A j \in m + 1 .. Len(u) : u[j] \in S
      BY <2>1, <2>3
    <3>2. SubSeq(u, m + 1, Len(u))[i] = u[(m + 1) + i - 1]
      <4>1. i \in 1 .. Len(u) - (m + 1) + 1
        BY <2>1
      <4> HIDE DEF m
      <4> QED BY <3>1, <4>1, SubSeqProperties
    <3> QED BY <2>1, <2>3, <3>2 DEF LastOf
  <2> QED BY <1>5, <2>1, <2>2, <2>3
<1>6. ASSUME NEW i \in 1 .. n PROVE LastOf(n, whole)[i] = LastOf(n, text)[i]
  <2>1. n <= Len(whole) /\ (Len(whole) - n) + i \in 1 .. Len(whole)
        /\ ~((Len(whole) - n) + i <= Len(front))
        /\ ((Len(whole) - n) + i) - Len(front) = (Len(text) - n) + i
    BY <1>1, <1>2
  <2>2. LastOf(n, whole)[i] = whole[(Len(whole) - n) + i]
    BY <1>1, <1>5, <2>1
  <2>3. LastOf(n, text)[i] = text[(Len(text) - n) + i]
    BY <1>5
  <2>4. whole[(Len(whole) - n) + i] = text[(Len(text) - n) + i]
    BY <1>1, <2>1
  <2> QED BY <2>2, <2>3, <2>4
<1>7. LastOf(n, whole) = LastOf(n, text)
  BY <1>3, <1>4, <1>6, SeqEqual
<1> QED BY <1>7 DEF whole

\* A text ends in another when it is something and the other.
LEMMA SuffixIsEnd ==
  ASSUME NEW S, NEW s \in Seq(S), NEW text \in Seq(S)
  PROVE  IsSuffix(s, text) <=> \E front \in Seq(S) : text = front \o s
<1> DEFINE m == Len(s)
           n == Len(text)
           rs == Reverse(s)
           rt == Reverse(text)
<1>1. m \in Nat /\ n \in Nat /\ (\A i \in 1 .. m : s[i] \in S) /\ \A i \in 1 .. n : text[i] \in S
  BY LenProperties, ElementOfSeq
<1>2. rs \in Seq(S) /\ Len(rs) = m /\ \A i \in 1 .. m : rs[i] = s[(m - i) + 1]
  <2>1. \A i \in 1 .. m : s[(m - i) + 1] \in S
    BY <1>1
  <2> QED BY <1>1, <2>1 DEF Reverse
<1>3. rt \in Seq(S) /\ Len(rt) = n /\ \A i \in 1 .. n : rt[i] = text[(n - i) + 1]
  <2>1. \A i \in 1 .. n : text[(n - i) + 1] \in S
    BY <1>1
  <2> QED BY <1>1, <2>1 DEF Reverse
<1>4. IsSuffix(s, text) <=> m <= n /\ SubSeq(rs, 1, m) = SubSeq(rt, 1, m)
  BY <1>2 , <1>3 DEF IsSuffix, IsPrefix
<1> HIDE DEF m, n, rs, rt
<1>5. ASSUME m <= n
      PROVE  SubSeq(rs, 1, m) = SubSeq(rt, 1, m) <=> \A i \in 1 .. m : s[i] = text[(n - m) + i]
  <2>1. /\ SubSeq(rs, 1, m) \in Seq(S) /\ Len(SubSeq(rs, 1, m)) = m
        /\ \A i \in 1 .. m : SubSeq(rs, 1, m)[i] = rs[i]
    BY <1>1, <1>2, SubSeqFull
  <2>2. /\ SubSeq(rt, 1, m) \in Seq(S) /\ Len(SubSeq(rt, 1, m)) = m
        /\ \A i \in 1 .. m : SubSeq(rt, 1, m)[i] = rt[i]
    <3>1. \A i \in 1 .. m : rt[i] \in S
      BY <1>1, <1>3, <1>5, ElementOfSeq
    <3>2. 1 \in Int /\ m \in Int
      BY <1>1
    <3>3. /\ SubSeq(rt, 1, m) \in Seq(S)
          /\ Len(SubSeq(rt, 1, m)) = IF 1 <= m THEN m - 1 + 1 ELSE 0
          /\ \A i \in 1 .. m - 1 + 1 : SubSeq(rt, 1, m)[i] = rt[1 + i - 1]
      BY <3>1, <3>2, SubSeqProperties
    <3> QED BY <1>1, <3>3
  <2>3. SubSeq(rs, 1, m) = SubSeq(rt, 1, m) <=> \A i \in 1 .. m : rs[i] = rt[i]
    <3>1. ASSUME \A i \in 1 .. m : rs[i] = rt[i] PROVE SubSeq(rs, 1, m) = SubSeq(rt, 1, m)
      <4>1. \A i \in 1 .. m : SubSeq(rs, 1, m)[i] = SubSeq(rt, 1, m)[i]
        BY <2>1, <2>2, <3>1
      <4> QED BY <2>1, <2>2, <4>1, SeqEqual
    <3>2. ASSUME SubSeq(rs, 1, m) = SubSeq(rt, 1, m) PROVE \A i \in 1 .. m : rs[i] = rt[i]
      BY <2>1, <2>2, <3>2
    <3> QED BY <3>1, <3>2
  <2>4. ASSUME NEW i \in 1 .. m
        PROVE  rs[(m - i) + 1] = s[i] /\ rt[(m - i) + 1] = text[(n - m) + i] /\ (m - i) + 1 \in 1 .. m
    <3>1. /\ (m - i) + 1 \in 1 .. m /\ (m - i) + 1 \in 1 .. n
          /\ (m - ((m - i) + 1)) + 1 = i /\ (n - ((m - i) + 1)) + 1 = (n - m) + i
      BY <1>1, <1>5
    <3> QED BY <1>2, <1>3, <3>1
  <2>5. ASSUME NEW j \in 1 .. m PROVE (m - j) + 1 \in 1 .. m /\ (m - ((m - j) + 1)) + 1 = j
    BY <1>1
  <2>6. ASSUME \A i \in 1 .. m : rs[i] = rt[i], NEW i \in 1 .. m PROVE s[i] = text[(n - m) + i]
    BY <2>4, <2>6
  <2>7. ASSUME \A i \in 1 .. m : s[i] = text[(n - m) + i], NEW j \in 1 .. m PROVE rs[j] = rt[j]
    <3> DEFINE i == (m - j) + 1
    <3>1. i \in 1 .. m /\ (m - i) + 1 = j
      BY <2>5
    <3> HIDE DEF i
    <3>2. rs[(m - i) + 1] = s[i] /\ rt[(m - i) + 1] = text[(n - m) + i]
      BY <2>4, <3>1
    <3> QED BY <2>7, <3>1, <3>2
  <2> QED BY <2>3, <2>6, <2>7
<1>6. ASSUME NEW front \in Seq(S), text = front \o s
      PROVE  m <= n /\ \A i \in 1 .. m : s[i] = text[(n - m) + i]
  <2>1. Len(front) \in Nat /\ n = Len(front) + m
    BY <1>6, ConcatProperties, LenProperties DEF m, n
  <2>2. \A i \in 1 .. Len(front) + m : text[i] = IF i <= Len(front) THEN front[i] ELSE s[i - Len(front)]
    BY <1>6, ConcatProperties DEF m
  <2> QED BY <1>1, <2>1, <2>2
<1>7. ASSUME m <= n, \A i \in 1 .. m : s[i] = text[(n - m) + i]
      PROVE  \E front \in Seq(S) : text = front \o s
  <2> DEFINE front == SubSeq(text, 1, n - m)
  <2>1. n - m \in Nat /\ \A i \in 1 .. n - m : text[i] \in S
    BY <1>1, <1>7
  <2>2. front \in Seq(S) /\ Len(front) = n - m /\ \A i \in 1 .. n - m : front[i] = text[i]
    <3>1. 1 \in Int /\ n - m \in Int
      BY <2>1
    <3>2. /\ front \in Seq(S)
          /\ Len(front) = IF 1 <= n - m THEN (n - m) - 1 + 1 ELSE 0
          /\ \A i \in 1 .. (n - m) - 1 + 1 : front[i] = text[1 + i - 1]
      BY <2>1, <3>1, SubSeqProperties
    <3> QED BY <1>1, <2>1, <3>2
  <2> HIDE DEF front
  <2>3. /\ front \o s \in Seq(S) /\ Len(front \o s) = n
        /\ \A i \in 1 .. n : (front \o s)[i] = IF i <= n - m THEN front[i] ELSE s[i - (n - m)]
    <3>1. Len(front) + Len(s) = n /\ Len(front) = n - m
      BY <1>1, <2>2 DEF m
    <3>2. /\ front \o s \in Seq(S) /\ Len(front \o s) = Len(front) + Len(s)
          /\ \A i \in 1 .. Len(front) + Len(s) :
               (front \o s)[i] = IF i <= Len(front) THEN front[i] ELSE s[i - Len(front)]
      BY <2>2, ConcatProperties
    <3> QED BY <3>1, <3>2
  <2>4. ASSUME NEW i \in 1 .. n PROVE text[i] = (front \o s)[i]
    <3>1. CASE i <= n - m
      BY <1>1, <2>2, <2>3, <3>1
    <3>2. CASE ~(i <= n - m)
      <4>1. i - (n - m) \in 1 .. m /\ (n - m) + (i - (n - m)) = i
        BY <1>1, <3>2
      <4> QED BY <1>7, <2>3, <3>2, <4>1
    <3> QED BY <3>1, <3>2
  <2>5. text = front \o s
    BY <2>3, <2>4, SeqEqual DEF n
  <2> QED BY <2>2, <2>5
<1> QED BY <1>4, <1>5, <1>6, <1>7

\* The last character that is taken back is one of the end.
LEMMA FrontOfConcat ==
  ASSUME NEW S, NEW front \in Seq(S), NEW text \in Seq(S)
  PROVE  /\ text # <<>> => /\ front \o text # <<>> /\ Front(text) \in Seq(S)
                           /\ Front(front \o text) = front \o Front(text)
                           /\ Len(Front(text)) = Len(text) - 1
<1> SUFFICES ASSUME text # <<>>
             PROVE  /\ front \o text # <<>> /\ Front(text) \in Seq(S)
                    /\ Front(front \o text) = front \o Front(text)
                    /\ Len(Front(text)) = Len(text) - 1
  OBVIOUS
<1> DEFINE whole == front \o text
<1>1. Len(front) \in Nat /\ Len(text) \in Nat \ {0}
  BY LenProperties, EmptySeq
<1>2. /\ whole \in Seq(S) /\ Len(whole) = Len(front) + Len(text)
      /\ \A i \in 1 .. Len(front) + Len(text) : whole[i] = IF i <= Len(front) THEN front[i] ELSE text[i - Len(front)]
  BY ConcatProperties
<1> HIDE DEF whole
<1>3. ASSUME NEW u \in Seq(S), Len(u) \in Nat \ {0}
      PROVE  /\ Front(u) \in Seq(S) /\ Len(Front(u)) = Len(u) - 1
             /\ \A i \in 1 .. Len(u) - 1 : Front(u)[i] = u[i]
  <2>1. \A i \in 1 .. Len(u) - 1 : u[i] \in S
    BY <1>3, ElementOfSeq
  <2>2. 1 \in Int /\ Len(u) - 1 \in Int
    BY <1>3
  <2> DEFINE k == Len(u) - 1
             f == SubSeq(u, 1, k)
  <2>3. f \in Seq(S) /\ Len(f) = (IF 1 <= k THEN k - 1 + 1 ELSE 0) /\ \A i \in 1 .. k - 1 + 1 : f[i] = u[1 + i - 1]
    BY <2>1, <2>2, SubSeqProperties
  <2>4. Front(u) = f
    BY DEF Front
  <2> HIDE DEF f
  <2>5. k \in Nat /\ k - 1 + 1 = k /\ \A i \in 1 .. k : 1 + i - 1 = i
    BY <1>3
  <2>6. f \in Seq(S) /\ Len(f) = k
    <3> HIDE DEF k
    <3>1. (IF 1 <= k THEN k - 1 + 1 ELSE 0) = k
      BY <2>5
    <3> QED BY <2>3, <3>1
  <2>7. \A i \in 1 .. k : f[i] = u[i]
    BY <2>3, <2>5
  <2> QED BY <2>4, <2>6, <2>7
<1>4. /\ Front(text) \in Seq(S) /\ Len(Front(text)) = Len(text) - 1
      /\ \A i \in 1 .. Len(text) - 1 : Front(text)[i] = text[i]
  BY <1>1, <1>3
<1>5. /\ Front(whole) \in Seq(S) /\ Len(Front(whole)) = Len(whole) - 1
      /\ \A i \in 1 .. Len(whole) - 1 : Front(whole)[i] = whole[i]
  BY <1>1, <1>2, <1>3
<1>6. /\ front \o Front(text) \in Seq(S) /\ Len(front \o Front(text)) = Len(front) + (Len(text) - 1)
      /\ \A i \in 1 .. Len(front) + (Len(text) - 1) :
           (front \o Front(text))[i] = IF i <= Len(front) THEN front[i] ELSE Front(text)[i - Len(front)]
  <2> DEFINE r == Front(text)
  <2>1. r \in Seq(S) /\ Len(r) = Len(text) - 1
    BY <1>4
  <2> HIDE DEF r
  <2>2. /\ front \o r \in Seq(S) /\ Len(front \o r) = Len(front) + Len(r)
        /\ \A i \in 1 .. Len(front) + Len(r) :
             (front \o r)[i] = IF i <= Len(front) THEN front[i] ELSE r[i - Len(front)]
    BY <2>1, ConcatProperties
  <2> QED BY <2>1, <2>2 DEF r
<1>7. ASSUME NEW i \in 1 .. Len(front) + (Len(text) - 1) PROVE Front(whole)[i] = (front \o Front(text))[i]
  BY <1>1, <1>2, <1>4, <1>5, <1>6
<1>8. Front(whole) = front \o Front(text)
  <2> DEFINE f == Front(whole)
             g == front \o Front(text)
  <2>1. f \in Seq(S) /\ g \in Seq(S) /\ Len(f) = Len(g) /\ Len(f) = Len(front) + (Len(text) - 1)
    BY <1>1, <1>2, <1>5, <1>6
  <2>2. \A i \in 1 .. Len(f) : f[i] = g[i]
    BY <1>7, <2>1
  <2> HIDE DEF f, g
  <2>3. f = g
    BY <2>1, <2>2, SeqEqual
  <2> QED BY <2>3 DEF f, g
<1>9. whole # <<>>
  <2>1. Len(whole) # 0
    BY <1>1, <1>2
  <2> QED BY <2>1, EmptySeq
<1> QED BY <1>4, <1>8, <1>9 DEF whole

-----------------------------------------------------------------------------
(* Chinese characters. *)

LEMMA HanziType ==
  ASSUME NEW text \in Seq(Chars)
  PROVE  Hanzi(text) \in Seq(HanziChars) /\ Hanzi(text) = F!Outcome(<<>>, text)
<1>1. Hanzi(text) = F!Outcome(<<>>, text)
  BY DEF Hanzi, HanziTaken!Outcome, F!Outcome
<1>2. <<>> \in Seq(HanziChars) /\ \A x \in Seq(HanziChars), ch \in Chars : WithHanzi(x, ch) \in Seq(HanziChars)
  BY DEF WithHanzi
<1>3. F!Outcome(<<>>, text) \in Seq(HanziChars)
  BY <1>2, F!OutcomeStays
<1> QED BY <1>1, <1>3

\* The Chinese characters of two texts are those of the first and those of the
\* second.
LEMMA HanziOfConcat ==
  ASSUME NEW s \in Seq(Chars), NEW t \in Seq(Chars)
  PROVE  Hanzi(s \o t) = Hanzi(s) \o Hanzi(t)
<1> DEFINE h == Hanzi(s)
           R == {xy \in Seq(HanziChars) \X Seq(HanziChars) : xy[2] = h \o xy[1]}
           none == <<>>
<1>1. h \in Seq(HanziChars) /\ none \in Seq(HanziChars) /\ h \o none = h
      /\ h = F!Outcome(none, s) /\ Hanzi(t) = F!Outcome(none, t)
  BY HanziType, ConcatEmptySeq
<1>2. s \o t \in Seq(Chars) /\ Hanzi(s \o t) = F!Outcome(none, s \o t)
  BY HanziType, ConcatProperties
<1> HIDE DEF h, none
<1>3. F!Outcome(none, s \o t) = F!Outcome(h, t)
  BY <1>1, F!OutcomeOfConcat
<1>4. <<none, h>> \in R
  BY <1>1
<1>5. ASSUME NEW x, NEW y, NEW ch \in Chars, <<x, y>> \in R
      PROVE  <<WithHanzi(x, ch), WithHanzi(y, ch)>> \in R
  <2>1. x \in Seq(HanziChars) /\ y \in Seq(HanziChars) /\ y = h \o x
    BY <1>5
  <2>2. CASE ch \in HanziChars
    <3>1. Append(y, ch) = h \o Append(x, ch)
      <4>1. Append(y, ch) = (h \o x) \o <<ch>> /\ Append(x, ch) = x \o <<ch>> /\ <<ch>> \in Seq(HanziChars)
        BY <2>1, <2>2, AppendIsConcat
      <4> DEFINE one == <<ch>>
      <4>2. one \in Seq(HanziChars) /\ Append(y, ch) = (h \o x) \o one /\ Append(x, ch) = x \o one
        BY <4>1
      <4> HIDE DEF one
      <4>3. \A a, b, c \in Seq(HanziChars) : (a \o b) \o c = a \o (b \o c)
        BY ConcatAssociative
      <4>4. (h \o x) \o one = h \o (x \o one)
        BY <1>1, <2>1, <4>2, <4>3
      <4> QED BY <4>2, <4>4
    <3>2. Append(x, ch) \in Seq(HanziChars) /\ Append(y, ch) \in Seq(HanziChars)
      BY <2>1, <2>2
    <3> QED BY <2>2, <3>1, <3>2 DEF WithHanzi
  <2>3. CASE ch \notin HanziChars
    BY <1>5, <2>3 DEF WithHanzi
  <2> QED BY <2>2, <2>3
<1> HIDE DEF R
<1>6. <<F!Outcome(none, t), F!Outcome(h, t)>> \in R
  BY <1>4, <1>5, F!OutcomesStayRelated
<1>7. F!Outcome(h, t) = h \o F!Outcome(none, t)
  BY <1>6 DEF R
<1> QED BY <1>1, <1>2, <1>3, <1>7 DEF h

\* Nothing is taken out of a text that has no other characters, and all of a mark.
LEMMA HanziOfHanzi ==
  ASSUME NEW text \in Seq(HanziChars)
  PROVE  Hanzi(text) = text
<1> DEFINE n == Len(text)
           g == [i \in 0 .. n |-> SubSeq(text, 1, i)]
<1>1. n \in Nat /\ \A i \in 1 .. n : text[i] \in HanziChars
  BY LenProperties, ElementOfSeq
<1>2. text \in Seq(Chars)
  BY SeqMonotonic DEF Chars
<1>3. PICK f : f[0] = <<>> /\ (\A i \in 1 .. n : f[i] = WithHanzi(f[i - 1], text[i])) /\ F!Outcome(<<>>, text) = f[n]
  BY <1>1, F!OutcomeExists
<1>4. f[0] = g[0]
  BY <1>1, <1>3, SubSeqEmpty
<1>5. ASSUME NEW i \in 1 .. n, f[i - 1] = g[i - 1] PROVE f[i] = g[i]
  <2>1. i \in 0 .. n /\ i - 1 \in 0 .. n /\ text[i] \in HanziChars
    BY <1>1
  <2>2. f[i] = Append(SubSeq(text, 1, i - 1), text[i])
    BY <1>3, <1>5, <2>1 DEF WithHanzi
  <2>3. SubSeq(text, 1, i) = SubSeq(text, 1, i - 1) \o <<text[i]>>
    <3>1. 1 \in 1 .. n /\ i \in 1 .. n
      BY <1>1
    <3> QED BY <3>1, SubSeqRecursiveSecond
  <2>4. SubSeq(text, 1, i - 1) \in Seq(HanziChars)
    <3>1. 1 \in Int /\ i - 1 \in Int /\ \A j \in 1 .. i - 1 : text[j] \in HanziChars
      BY <1>1
    <3> QED BY <3>1, SubSeqProperties
  <2>5. Append(SubSeq(text, 1, i - 1), text[i]) = SubSeq(text, 1, i - 1) \o <<text[i]>>
    BY <2>1, <2>4, AppendIsConcat
  <2> QED BY <2>1, <2>2, <2>3, <2>5
<1>6. g[n] = text
  BY <1>1, SubSeqFull
<1> HIDE DEF g, n
<1>7. f[n] = g[n]
  BY <1>1, <1>4, <1>5, F!SameSteps
<1> QED BY <1>2, <1>3, <1>6, <1>7, HanziType

LEMMA HanziOfMark ==
  ASSUME NEW ch \in OtherChars
  PROVE  <<ch>> \in Seq(Chars) /\ Hanzi(<<ch>>) = <<>>
<1>1. <<ch>> \in Seq(Chars)
  BY DEF Chars
<1>2. Hanzi(<<ch>>) = F!Outcome(<<>>, <<ch>>)
  BY <1>1, HanziType
<1>3. F!Outcome(<<>>, <<ch>>) = WithHanzi(<<>>, ch)
  BY F!OutcomeOfOne
<1>4. ch \notin HanziChars
  BY PromptDataAssumption
<1> QED BY <1>1, <1>2, <1>3, <1>4 DEF WithHanzi

-----------------------------------------------------------------------------
(* Types. *)

Codes  == {NoCode} \cup {c.code : c \in Candidates} \cup {PhraseCode[t][text] : t \in Tables, text \in Seq(HanziChars)}
Word   == [text : Seq(Chars), code : Codes]
Hans   == [text : Seq(HanziChars), code : Codes]
Phrase == [source : Seq(HanziChars), len : Nat, text : Seq(HanziChars), code : Codes, clip : BOOLEAN]
Msg    == [flg : {0, 2, 3}, kind : {"add", "del"}, text : Seq(HanziChars), code : Codes]
Prompt == [kind : {"none", "add", "del"}, text : Seq(HanziChars), code : Codes]
Panel  == [up : BOOLEAN, prompt : Prompt, dialog : [open : BOOLEAN, online : BOOLEAN]]

\* TypeOK with the sets the fields of the records and the messages are in.
Types ==
  /\ history \in Seq(Chars) /\ Len(history) <= MaxRecords
  /\ lastCommit \in Word /\ picked.text \in Seq(Chars) /\ typed \in Seq(Chars)
  /\ state \in {"idle", "add", "del"}
  /\ add \in Phrase /\ del \in Hans
  /\ state = "add" => add.len \in DefaultLen .. MaxPhrase - 1 /\ add.len <= Len(add.source)
  /\ state # "add" => add = NoPhrase
  /\ table \in Tables
  /\ toPanel \in Seq(Msg) /\ panel \in Panel

LEMMA TypesImplyTypeOK == Types => TypeOK
BY DEF Types, TypeOK, Word, Hans, Phrase, Panel

LEMMA NoneTypes ==
  /\ NoWord \in Hans /\ NoWord \in Word /\ NoPhrase \in Phrase /\ NoPrompt \in Prompt
  /\ NoDialog \in [open : BOOLEAN, online : BOOLEAN]
<1>1. <<>> \in Seq(HanziChars) /\ <<>> \in Seq(Chars) /\ NoCode \in Codes
  BY DEF Codes
<1> QED BY <1>1 DEF NoWord, NoPhrase, NoPrompt, NoDialog, Hans, Word, Phrase, Prompt

LEMMA WithLenType ==
  ASSUME NEW phrase \in Phrase, NEW n \in Nat, table \in Tables
  PROVE  /\ WithLen(phrase, n) \in Phrase
         /\ WithLen(phrase, n).len = n /\ WithLen(phrase, n).source = phrase.source
         /\ WithLen(phrase, n).clip = phrase.clip
         /\ WithLen(phrase, n).text = LastOf(n, phrase.source)
         /\ WithLen(phrase, n).code = PhraseCode[table][LastOf(n, phrase.source)]
<1> DEFINE text == LastOf(n, phrase.source)
<1>1. text \in Seq(HanziChars)
  BY LastOfSplit DEF Phrase
<1>2. PhraseCode[table][text] \in Codes
  BY <1>1 DEF Codes
<1>3. WithLen(phrase, n) = [phrase EXCEPT !.len = n, !.text = text, !.code = PhraseCode[table][text]]
  BY DEF WithLen
<1> HIDE DEF text
<1>4. /\ WithLen(phrase, n) \in Phrase
      /\ WithLen(phrase, n).len = n /\ WithLen(phrase, n).source = phrase.source
      /\ WithLen(phrase, n).clip = phrase.clip
      /\ WithLen(phrase, n).text = text
      /\ WithLen(phrase, n).code = PhraseCode[table][text]
  BY <1>1, <1>2, <1>3 DEF Phrase
<1> QED BY <1>4 DEF text

LEMMA MessageTypes ==
  /\ \A flg \in {0, 2, 3}, kind \in {"add", "del"}, word \in Hans : Message(flg, kind, word) \in Msg
  /\ \A phrase \in Phrase : PhraseMessage(phrase) \in Msg /\ Message(3, "add", phrase) \in Msg
  /\ \A msg \in Msg : PromptAfter(msg) \in Prompt
BY NoneTypes DEF Message, PhraseMessage, PromptAfter, Msg, Hans, Phrase, Prompt

LEMMA SendType ==
  ASSUME NEW msg \in Msg, toPanel \in Seq(Msg), Send(msg)
  PROVE  toPanel' \in Seq(Msg)
BY DEF Send

\* The history after a commit is at most as long as allowed, and the end of what it
\* was with the text.
LEMMA AppendedFacts ==
  ASSUME NEW h \in Seq(Chars), NEW text \in Seq(Chars)
  PROVE  /\ Appended(h, text) \in Seq(Chars) /\ Len(Appended(h, text)) <= MaxRecords
         /\ \E front \in Seq(Chars) : h \o text = front \o Appended(h, text)
         /\ Len(h) + Len(text) <= MaxRecords => Appended(h, text) = h \o text
<1> DEFINE whole == h \o text
<1>1. whole \in Seq(Chars) /\ Len(whole) = Len(h) + Len(text) /\ Len(whole) \in Nat
  BY ConcatProperties, LenProperties
<1> HIDE DEF whole
<1>2. MaxRecords \in Nat
  BY PromptBoundsAssumption
<1>3. /\ LastOf(MaxRecords, whole) \in Seq(Chars)
      /\ Len(LastOf(MaxRecords, whole)) = IF Len(whole) <= MaxRecords THEN Len(whole) ELSE MaxRecords
      /\ \E front \in Seq(Chars) : whole = front \o LastOf(MaxRecords, whole)
  BY <1>1, <1>2, LastOfSplit
<1>4. Len(LastOf(MaxRecords, whole)) <= MaxRecords
  BY <1>1, <1>2, <1>3
<1>5. Len(whole) <= MaxRecords => LastOf(MaxRecords, whole) = whole
  BY DEF LastOf
<1> QED BY <1>1, <1>3, <1>4, <1>5 DEF Appended, whole

LEMMA CommittedTypes ==
  ASSUME NEW c \in Candidates, NEW mark \in {<<>>} \cup {<<ch>> : ch \in OtherChars}
  PROVE  /\ c.text \o mark \in Seq(Chars) /\ [text |-> c.text \o mark, code |-> c.code] \in Word
         /\ Hanzi(c.text \o mark) = Hanzi(c.text)
<1>1. c.text \in Seq(Chars) /\ c.code \in Codes
  BY PromptDataAssumption DEF Codes
<1>2. mark \in Seq(Chars) /\ Hanzi(mark) = <<>>
  <2>1. CASE mark = <<>>
    <3>1. <<>> \in Seq(Chars) /\ Hanzi(<<>>) = <<>>
      <4>1. <<>> \in Seq(HanziChars) /\ <<>> \in Seq(Chars)
        OBVIOUS
      <4> QED BY <4>1, HanziOfHanzi
    <3> QED BY <2>1, <3>1
  <2>2. CASE mark # <<>>
    BY <2>2, HanziOfMark
  <2> QED BY <2>1, <2>2
<1>3. c.text \o mark \in Seq(Chars)
  BY <1>1, <1>2, ConcatProperties
<1>4. Hanzi(c.text \o mark) = Hanzi(c.text) \o <<>>
  BY <1>1, <1>2, HanziOfConcat
<1>5. Hanzi(c.text) \o <<>> = Hanzi(c.text)
  BY <1>1, HanziType, ConcatEmptySeq
<1> QED BY <1>1, <1>3, <1>4, <1>5 DEF Word

LEMMA FrontType ==
  ASSUME NEW text \in Seq(Chars), text # <<>>
  PROVE  Front(text) \in Seq(Chars) /\ Len(Front(text)) = Len(text) - 1
<1>1. <<>> \in Seq(Chars)
  OBVIOUS
<1> QED BY <1>1, FrontOfConcat

LEMMA TypesInit == Init => Types
<1> SUFFICES ASSUME Init PROVE Types
  OBVIOUS
<1>1. history \in Seq(Chars) /\ Len(history) <= MaxRecords /\ typed \in Seq(Chars) /\ toPanel \in Seq(Msg)
  BY PromptBoundsAssumption DEF Init
<1>2. panel \in Panel
  BY NoneTypes DEF Init, Panel
<1>3. /\ lastCommit = NoWord /\ picked = NoWord /\ state = "idle" /\ add = NoPhrase /\ del = NoWord
      /\ table \in Tables
  BY DEF Init
<1>4. NoWord.text \in Seq(Chars)
  BY NoneTypes DEF Word
<1> QED BY <1>1, <1>2, <1>3, <1>4, NoneTypes DEF Types

LEMMA TypesStep == Types /\ [Next]_vars => Types'
<1> SUFFICES ASSUME Types, [Next]_vars PROVE Types'
  OBVIOUS
<1> USE DEF Types
<1>1. \A kind \in {"add", "del"}, flg \in {0, 2, 3}, word \in Hans : Message(flg, kind, word) \in Msg
  BY MessageTypes
<1>2. ASSUME state # "idle" PROVE Message(2, state, NoWord) \in Msg
  BY <1>1, <1>2, NoneTypes
<1>3. ASSUME NEW msgs, LeaveState(msgs), msgs \subseteq Msg
      PROVE  toPanel' \in Seq(Msg) /\ state' = "idle" /\ add' = NoPhrase /\ del' = NoWord
  BY <1>3, SendType DEF LeaveState
<1>4. Cancelling \subseteq Msg
  BY <1>2 DEF Cancelling
<1>5. ASSUME NEW c \in Candidates, NEW mark \in {<<>>} \cup {<<ch>> : ch \in OtherChars}, Commit(c, mark)
      PROVE  Types'
  <2> DEFINE text == c.text \o mark
  <2>1. /\ text \in Seq(Chars) /\ [text |-> text, code |-> c.code] \in Word
    BY CommittedTypes
  <2>2. c \in Candidates /\ c.text \in Seq(Chars) /\ c.code \in Codes
    BY PromptDataAssumption DEF Codes
  <2>3. /\ history' = Appended(history, text) /\ lastCommit' = [text |-> text, code |-> c.code]
        /\ picked' = c /\ typed' = typed \o text /\ UNCHANGED <<table, panel>>
        /\ toPanel' \in Seq(Msg) /\ state' = "idle" /\ add' = NoPhrase /\ del' = NoWord
    BY <1>3, <1>4, <1>5 DEF Commit
  <2> HIDE DEF text
  <2>4. history' \in Seq(Chars) /\ Len(history') <= MaxRecords /\ typed' \in Seq(Chars)
    BY <2>1, <2>3, AppendedFacts, ConcatProperties
  <2> QED BY <2>1, <2>2, <2>3, <2>4, NoneTypes
<1>6. CASE BackSpace
  <2>1. /\ history' = CommittedBackspace(history)
        /\ typed' = IF typed = <<>> THEN typed ELSE Front(typed)
        /\ UNCHANGED <<lastCommit, state, add, del, table, toPanel, panel, picked>>
    BY <1>6 DEF BackSpace
  <2>2. history' \in Seq(Chars) /\ Len(history') <= MaxRecords
    BY <2>1, FrontType, LenProperties, PromptBoundsAssumption DEF CommittedBackspace
  <2>3. typed' \in Seq(Chars)
    BY <2>1, FrontType
  <2> QED BY <2>1, <2>2, <2>3
<1>7. CASE AppEdits
  BY <1>7 DEF AppEdits
<1>8. ASSUME NEW msg \in Msg, Send(msg), add' \in Phrase, del' \in Hans, state' \in {"idle", "add", "del"},
             state' = "add" => add'.len \in DefaultLen .. MaxPhrase - 1 /\ add'.len <= Len(add'.source),
             state' # "add" => add' = NoPhrase,
             UNCHANGED <<history, lastCommit, table, panel, typed, picked>>
      PROVE  Types'
  BY <1>8, SendType
<1>9. ASSUME state = "idle", NEW phrase \in Phrase, NEW n \in Nat,
             n \in DefaultLen .. MaxPhrase - 1, n <= Len(phrase.source),
             add' = WithLen(phrase, n), Entered("add", PhraseMessage(add')), UNCHANGED del
      PROVE  Types'
  <2>1. add' \in Phrase /\ add'.len = n /\ add'.source = phrase.source
    BY <1>9, WithLenType
  <2>2. PhraseMessage(add') \in Msg
    BY <2>1, MessageTypes
  <2>3. Send(PhraseMessage(add')) /\ state' = "add" /\ UNCHANGED <<history, lastCommit, table, panel, typed, picked>>
    BY <1>9 DEF Entered
  <2> QED BY <1>8, <1>9, <2>1, <2>2, <2>3
<1>10. CASE AddFromHistory
  <2>1. HistorySource \in Seq(HanziChars)
    <3>1. LastOf(MaxPhrase, history) \in Seq(Chars)
      BY LastOfSplit, PromptBoundsAssumption
    <3> QED BY <3>1, HanziType DEF HistorySource
  <2>2. DefaultLen \in Nat /\ DefaultLen \in DefaultLen .. MaxPhrase - 1 /\ DefaultLen <= Len(HistorySource)
    BY <1>10, <2>1, LenProperties, PromptBoundsAssumption DEF AddFromHistory
  <2>3. /\ state = "idle" /\ add' = WithLen([NoPhrase EXCEPT !.source = HistorySource], DefaultLen)
        /\ Entered("add", PhraseMessage(add')) /\ UNCHANGED del
    BY <1>10 DEF AddFromHistory
  <2> DEFINE phrase == [NoPhrase EXCEPT !.source = HistorySource]
  <2>4. phrase \in Phrase /\ phrase.source = HistorySource
    BY <2>1, NoneTypes DEF NoPhrase, Phrase
  <2> HIDE DEF phrase
  <2> QED BY <1>9, <2>2, <2>3, <2>4 DEF phrase
<1>11. CASE AddFromClipboard
  <2>1. PICK clip \in Clips :
          /\ Len(Hanzi(clip)) > 1 /\ Len(Hanzi(clip)) < MaxPhrase
          /\ add' = WithLen([NoPhrase EXCEPT !.source = Hanzi(clip), !.clip = TRUE], Len(Hanzi(clip)))
    BY <1>11 DEF AddFromClipboard
  <2>2. Hanzi(clip) \in Seq(HanziChars)
    BY PromptDataAssumption, HanziType
  <2>3. Len(Hanzi(clip)) \in Nat /\ Len(Hanzi(clip)) \in DefaultLen .. MaxPhrase - 1
    BY <2>1, <2>2, LenProperties, PromptBoundsAssumption
  <2>4. state = "idle" /\ Entered("add", PhraseMessage(add')) /\ UNCHANGED del
    BY <1>11 DEF AddFromClipboard
  <2> DEFINE phrase == [NoPhrase EXCEPT !.source = Hanzi(clip), !.clip = TRUE]
  <2>5. phrase \in Phrase /\ phrase.source = Hanzi(clip)
    BY <2>2, NoneTypes DEF NoPhrase, Phrase
  <2>6. add' = WithLen(phrase, Len(Hanzi(clip))) /\ Len(Hanzi(clip)) <= Len(phrase.source)
    <3>1. phrase.source = Hanzi(clip) /\ Len(Hanzi(clip)) \in Nat
      BY <2>3, <2>5
    <3> QED BY <2>1, <3>1
  <2> HIDE DEF phrase
  <2> QED BY <1>9, <2>3, <2>4, <2>5, <2>6
<1>12. CASE Left \/ Right
  <2>1. /\ state = "add" /\ Len(add.source) \in Nat
        /\ \E n \in Nat : n \in DefaultLen .. MaxPhrase - 1 /\ n <= Len(add.source) /\ Resize(n)
    <3>1. Len(add.source) \in Nat /\ add.len \in Nat
      BY LenProperties DEF Phrase
    <3>2. CASE Left
      <4>1. add.len + 1 \in DefaultLen .. MaxPhrase - 1 /\ add.len + 1 <= Len(add.source)
        BY <3>1, <3>2, PromptBoundsAssumption DEF Left, MayGrow
      <4> QED BY <3>1, <3>2, <4>1 DEF Left
    <3>3. CASE Right
      <4>1. add.len - 1 \in Nat /\ add.len - 1 \in DefaultLen .. MaxPhrase - 1 /\ add.len - 1 <= Len(add.source)
        BY <3>1, <3>3, PromptBoundsAssumption DEF Right, MayShrink
      <4> QED BY <3>1, <3>3, <4>1 DEF Right
    <3> QED BY <1>12, <3>2, <3>3
  <2>2. PICK n \in Nat : n \in DefaultLen .. MaxPhrase - 1 /\ n <= Len(add.source) /\ Resize(n)
    BY <2>1
  <2>3. add' \in Phrase /\ add'.len = n /\ add'.source = add.source
    BY <2>2, WithLenType DEF Resize
  <2>4. PhraseMessage(add') \in Msg
    BY <2>3, MessageTypes
  <2>5. Send(PhraseMessage(add')) /\ UNCHANGED <<history, lastCommit, state, del, table, panel, typed, picked>>
    BY <2>2 DEF Resize
  <2> QED BY <1>8, <2>1, <2>2, <2>3, <2>4, <2>5
<1>13. CASE AskForCode
  <2>1. Message(3, "add", add) \in Msg /\ Send(Message(3, "add", add)) /\ state = "add"
    BY <1>13, MessageTypes DEF AskForCode
  <2>2. UNCHANGED <<history, lastCommit, state, add, del, table, panel, typed, picked>>
    BY <1>13 DEF AskForCode, ghostVars
  <2> QED BY <2>1, <2>2, SendType
<1>14. CASE DeleteLast
  <2>1. DeleteText \in Seq(HanziChars)
    BY HanziType DEF DeleteText, Word
  <2>2. del' \in Hans /\ del' = [text |-> DeleteText, code |-> lastCommit.code]
    BY <1>14, <2>1 DEF DeleteLast, Hans, Word
  <2>3. /\ Send(Message(0, "del", del')) /\ state' = "del" /\ state = "idle"
        /\ UNCHANGED <<history, lastCommit, add, table, panel, typed, picked>>
    BY <1>14 DEF DeleteLast, Entered
  <2>4. Message(0, "del", del') \in Msg
    BY <1>1, <2>2
  <2> QED BY <1>8, <2>2, <2>3, <2>4
<1>15. CASE Confirm \/ Reset
  <2>1. /\ toPanel' \in Seq(Msg) /\ state' = "idle" /\ add' = NoPhrase /\ del' = NoWord
    BY <1>2, <1>3, <1>4, <1>15 DEF Confirm, Reset
  <2>2. UNCHANGED <<history, lastCommit, table, panel, typed, picked>>
    BY <1>15 DEF Confirm, Reset, ghostVars
  <2> QED BY <2>1, <2>2, NoneTypes
<1>16. CASE ReloadTable
  BY <1>16 DEF ReloadTable, ghostVars
<1>17. ASSUME panel' \in Panel, toPanel' \in Seq(Msg),
              UNCHANGED <<history, lastCommit, state, add, del, table, typed, picked>>
       PROVE  Types'
  BY <1>17
<1>18. CASE PanelTakes
  <2>1. Head(toPanel) \in Msg /\ Tail(toPanel) \in Seq(Msg)
    BY <1>18, HeadTailProperties DEF PanelTakes
  <2>2. PromptAfter(Head(toPanel)) \in Prompt
    BY <2>1, MessageTypes
  <2>3. DialogAfter(Head(toPanel)) \in [open : BOOLEAN, online : BOOLEAN]
    BY DEF DialogAfter, Panel
  <2>4. panel' \in Panel
    BY <1>18, <2>2, <2>3 DEF PanelTakes, Panel
  <2> QED BY <1>17, <1>18, <2>1, <2>4 DEF PanelTakes, EngineRests, ghostVars
<1>19. CASE DialogOk \/ DialogExit
  <2>1. panel' \in Panel
    BY <1>19, NoneTypes DEF DialogOk, DialogExit, Panel
  <2> QED BY <1>17, <1>19, <2>1 DEF DialogOk, DialogExit, EngineRests, ghostVars
<1>20. CASE PanelDies \/ PanelStarts
  <2>1. panel' \in Panel /\ toPanel' \in Seq(Msg)
    <3>1. CASE PanelDies
      BY <3>1, NoneTypes DEF PanelDies, Panel
    <3>2. CASE PanelStarts
      BY <3>2 DEF PanelStarts, Panel
    <3> QED BY <1>20, <3>1, <3>2
  <2> QED BY <1>17, <1>20, <2>1 DEF PanelDies, PanelStarts, EngineRests, ghostVars
<1>21. CASE UNCHANGED vars
  BY <1>21 DEF vars, engineVars, ghostVars
<1> QED
  BY <1>5, <1>6, <1>7, <1>10, <1>11, <1>12, <1>13, <1>14, <1>15, <1>16, <1>18, <1>19, <1>20, <1>21 DEF Next

\* The history never grows beyond its limit, the phrase stays within the lengths
\* allowed and within its source, and no field gets a value of another kind.
THEOREM PhrasePromptsTypeCorrect == Spec => []TypeOK
BY TypesInit, TypesStep, TypesImplyTypeOK, PTL DEF Spec

-----------------------------------------------------------------------------
(* The prompt that the panel shows or is about to.                           *)

\* PromptInStep is inductive with this: no message is on its way to a panel that
\* does not run, and such a panel shows nothing.
PromptInv == PromptInStep /\ (~panel.up => toPanel = <<>> /\ panel.prompt = NoPrompt)

LEMMA LastOfQueue ==
  ASSUME NEW q \in Seq(Msg)
  PROVE  /\ \A msg \in Msg : Append(q, msg) # <<>> /\ Last(Append(q, msg)) = msg
         /\ q # <<>> => IF Tail(q) = <<>> THEN Last(q) = Head(q) ELSE Last(Tail(q)) = Last(q)
<1>1. ASSUME NEW msg \in Msg PROVE Append(q, msg) # <<>> /\ Last(Append(q, msg)) = msg
  BY AppendProperties, LenProperties DEF Last
<1>2. ASSUME q # <<>> PROVE IF Tail(q) = <<>> THEN Last(q) = Head(q) ELSE Last(Tail(q)) = Last(q)
  <2>1. /\ Len(q) \in Nat \ {0} /\ Tail(q) \in Seq(Msg) /\ Len(Tail(q)) = Len(q) - 1 /\ Head(q) = q[1]
        /\ \A i \in 1 .. Len(Tail(q)) : Tail(q)[i] = q[i + 1]
    BY <1>2, HeadTailProperties, EmptySeq
  <2>2. CASE Tail(q) = <<>>
    <3>1. Len(q) = 1
      BY <2>1, <2>2
    <3> QED BY <2>1, <2>2, <3>1 DEF Last
  <2>3. CASE Tail(q) # <<>>
    <3> DEFINE rest == Tail(q)
    <3>1. Len(rest) \in Nat \ {0}
      BY <2>1, <2>3, EmptySeq
    <3> HIDE DEF rest
    <3>2. rest[Len(rest)] = q[Len(q)]
      BY <2>1, <3>1 DEF rest
    <3> QED BY <2>3, <3>2 DEF Last, rest
  <2> QED BY <2>2, <2>3
<1> QED BY <1>1, <1>2

\* A message that is sent becomes the prompt, but for a panel that does not run.
LEMMA SendShows ==
  ASSUME Types, PromptInv, NEW msg \in Msg, Send(msg), UNCHANGED panel
  PROVE  /\ PromptToBe' = IF panel.up THEN PromptAfter(msg) ELSE NoPrompt
         /\ ~panel'.up => toPanel' = <<>> /\ panel'.prompt = NoPrompt
<1>1. toPanel \in Seq(Msg) /\ panel.up \in BOOLEAN
  BY DEF Types, Panel
<1>2. CASE panel.up
  <2>1. toPanel' = Append(toPanel, msg)
    BY <1>2 DEF Send
  <2>2. toPanel' # <<>> /\ Last(toPanel') = msg
    BY <1>1, <2>1, LastOfQueue
  <2> QED BY <1>2, <2>2 DEF PromptToBe
<1>3. CASE ~panel.up
  BY <1>3 DEF Send, PromptInv, PromptToBe
<1> QED BY <1>2, <1>3

LEMMA PromptInit == Init => PromptInv
BY DEF Init, PromptInv, PromptInStep, PromptToBe, NoPrompt

LEMMA PromptStep == Types /\ PromptInv /\ [Next]_vars => PromptInv'
<1> SUFFICES ASSUME Types, PromptInv, [Next]_vars PROVE PromptInv'
  OBVIOUS
<1>1. /\ state \in {"idle", "add", "del"} /\ add \in Phrase /\ del \in Hans
      /\ toPanel \in Seq(Msg) /\ panel \in Panel /\ panel.up \in BOOLEAN
  BY DEF Types, Panel
<1>2. Types'
  BY TypesStep
<1>3. \A word \in Hans : PromptAfter(Message(2, "add", word)) = NoPrompt /\ PromptAfter(Message(2, "del", word)) = NoPrompt
  BY DEF PromptAfter, Message
<1>4. /\ \A word \in Hans : Message(2, "add", word) \in Msg /\ Message(2, "del", word) \in Msg
      /\ Message(3, "add", add) \in Msg /\ PhraseMessage(add') \in Msg /\ Message(0, "del", del') \in Msg
  <2>1. add' \in Phrase /\ del' \in Hans
    BY <1>2 DEF Types
  <2> QED BY <1>1, <2>1, MessageTypes
<1>5. ASSUME LeaveState({}), state = "idle", UNCHANGED panel PROVE PromptInv'
  BY <1>5 DEF LeaveState, PromptInv, PromptInStep, PromptToBe
<1>6. ASSUME LeaveState({Message(2, state, NoWord)}), state # "idle", UNCHANGED panel PROVE PromptInv'
  <2>1. Send(Message(2, state, NoWord)) /\ state' = "idle"
    BY <1>6 DEF LeaveState
  <2>2. Message(2, state, NoWord) \in Msg /\ PromptAfter(Message(2, state, NoWord)) = NoPrompt
    BY <1>1, <1>3, <1>4, <1>6, NoneTypes
  <2>3. PromptToBe' = NoPrompt /\ (~panel'.up => toPanel' = <<>> /\ panel'.prompt = NoPrompt)
    BY <1>6, <2>1, <2>2, SendShows
  <2> QED BY <2>1, <2>3 DEF PromptInv, PromptInStep
<1>7. ASSUME LeaveState(Cancelling), UNCHANGED panel PROVE PromptInv'
  BY <1>5, <1>6, <1>7 DEF Cancelling
<1>8. ASSUME NEW c \in Candidates, NEW mark, Commit(c, mark) PROVE PromptInv'
  BY <1>7, <1>8 DEF Commit
<1>9. CASE Confirm \/ Reset
  BY <1>6, <1>7, <1>9 DEF Confirm, Reset
<1>10. ASSUME UNCHANGED <<state, add, del, toPanel, panel, informed>> PROVE PromptInv'
  BY <1>10 DEF PromptInv, PromptInStep, PromptToBe
<1>11. CASE BackSpace \/ AppEdits \/ ReloadTable
  BY <1>10, <1>11 DEF BackSpace, AppEdits, ReloadTable, ghostVars
<1>12. ASSUME state' = "add", Send(PhraseMessage(add')), UNCHANGED panel PROVE PromptInv'
  <2>1. PromptAfter(PhraseMessage(add')) \in {NoPrompt, ShownAs("add", add')}
    BY DEF PromptAfter, PhraseMessage, Message, ShownAs
  <2> QED BY <1>4, <1>12, <2>1, SendShows DEF PromptInv, PromptInStep
<1>13. CASE AddFromHistory \/ AddFromClipboard
  BY <1>12, <1>13 DEF AddFromHistory, AddFromClipboard, Entered
<1>14. CASE Left \/ Right
  <2>1. \A n : Resize(n) => Send(PhraseMessage(add')) /\ UNCHANGED <<state, panel>>
    BY DEF Resize
  <2> QED BY <1>12, <1>14, <2>1 DEF Left, Right
<1>15. CASE AskForCode
  <2>1. /\ state = "add" /\ Send(Message(3, "add", add)) /\ UNCHANGED <<state, add, panel>>
    BY <1>15 DEF AskForCode
  <2>2. PromptAfter(Message(3, "add", add)) = NoPrompt
    BY DEF PromptAfter, Message
  <2> QED BY <1>4, <2>1, <2>2, SendShows DEF PromptInv, PromptInStep
<1>16. CASE DeleteLast
  <2>1. /\ state' = "del" /\ Send(Message(0, "del", del')) /\ UNCHANGED panel /\ informed' = panel.up
    BY <1>16 DEF DeleteLast, Entered
  <2>2. PromptAfter(Message(0, "del", del')) = ShownAs("del", del')
    BY DEF PromptAfter, Message, ShownAs
  <2>3. PromptToBe' = (IF panel.up THEN ShownAs("del", del') ELSE NoPrompt)
        /\ (~panel'.up => toPanel' = <<>> /\ panel'.prompt = NoPrompt)
    BY <1>4, <2>1, <2>2, SendShows
  <2> QED BY <2>1, <2>3 DEF PromptInv, PromptInStep
<1>17. ASSUME PromptToBe' = PromptToBe, UNCHANGED <<state, add, del, informed>>,
              ~panel'.up => toPanel' = <<>> /\ panel'.prompt = NoPrompt
       PROVE  PromptInv'
  BY <1>17 DEF PromptInv, PromptInStep
<1>18. CASE PanelTakes
  <2>1. /\ toPanel # <<>> /\ toPanel' = Tail(toPanel) /\ UNCHANGED <<state, add, del, informed>>
        /\ panel'.prompt = PromptAfter(Head(toPanel)) /\ panel'.up = panel.up
    BY <1>1, <1>18 DEF PanelTakes, EngineRests, ghostVars, Panel
  <2>2. IF toPanel' = <<>> THEN Last(toPanel) = Head(toPanel) ELSE Last(toPanel') = Last(toPanel)
    BY <1>1, <2>1, LastOfQueue
  <2>3. PromptToBe' = PromptToBe
    BY <2>1, <2>2 DEF PromptToBe
  <2>4. panel.up
    BY <2>1 DEF PromptInv
  <2> QED BY <1>17, <2>1, <2>3, <2>4
<1>19. CASE DialogOk \/ DialogExit
  <2>1. /\ UNCHANGED <<state, add, del, informed, toPanel>>
        /\ panel'.prompt = panel.prompt /\ panel'.up = panel.up
    BY <1>1, <1>19 DEF DialogOk, DialogExit, EngineRests, ghostVars, Panel
  <2>2. PromptToBe' = PromptToBe
    BY <2>1 DEF PromptToBe
  <2> QED BY <1>17, <2>1, <2>2 DEF PromptInv
<1>20. CASE PanelDies
  <2>1. /\ toPanel' = <<>> /\ panel'.prompt = NoPrompt /\ informed' = FALSE /\ UNCHANGED <<state, add, del>>
    BY <1>20 DEF PanelDies, EngineRests
  <2>2. PromptToBe' = NoPrompt
    BY <2>1 DEF PromptToBe
  <2> QED BY <2>1, <2>2 DEF PromptInv, PromptInStep
<1>21. CASE PanelStarts
  <2>1. /\ UNCHANGED <<state, add, del, informed, toPanel>> /\ panel'.prompt = panel.prompt /\ panel'.up
    BY <1>1, <1>21 DEF PanelStarts, EngineRests, ghostVars, Panel
  <2>2. PromptToBe' = PromptToBe
    BY <2>1 DEF PromptToBe
  <2> QED BY <1>17, <2>1, <2>2
<1>22. CASE UNCHANGED vars
  BY <1>10, <1>22 DEF vars, engineVars, ghostVars
<1> QED
  BY <1>8, <1>9, <1>11, <1>13, <1>14, <1>15, <1>16, <1>18, <1>19, <1>20, <1>21, <1>22 DEF Next

\* Panel and engine agree on the prompt once the messages are taken, however many
\* are on their way and however often the panel dies.
THEOREM PromptCorrect == Spec => []PromptInStep
<1>1. PromptInv => PromptInStep
  BY DEF PromptInv
<1> QED BY <1>1, TypesInit, TypesStep, PromptInit, PromptStep, PTL DEF Spec

LEMMA ConfirmStep ==
  ASSUME PromptInv, [Next]_vars, state # "idle", state' = "idle", request' # NoRequest, Types
  PROVE  PromptToBe \in {NoPrompt, ShownAs(request'.op, request')}
<1>1. CASE Confirm
  <2>1. CASE state = "add"
    <3>1. request' = [op |-> "add", text |-> add.text, code |-> add.code]
      BY <1>1, <2>1 DEF Confirm
    <3> QED BY <2>1, <3>1 DEF PromptInv, PromptInStep, ShownAs
  <2>2. CASE state # "add"
    <3>1. state = "del"
      BY <2>2 DEF Types
    <3>2. request' = [op |-> "del", text |-> del.text, code |-> del.code]
      BY <1>1, <3>1 DEF Confirm
    <3> QED BY <3>1, <3>2 DEF PromptInv, PromptInStep, ShownAs
  <2> QED BY <2>1, <2>2
<1>2. CASE ~Confirm
  <2>1. \A n : Resize(n) => state' = state
    BY DEF Resize
  <2>2. \A c, mark : Commit(c, mark) => request' = NoRequest
    BY DEF Commit
  <2>3. ~(BackSpace \/ AppEdits \/ AddFromHistory \/ AddFromClipboard \/ AskForCode \/ DeleteLast \/ Reset)
    BY DEF BackSpace, AppEdits, AddFromHistory, AddFromClipboard, AskForCode, DeleteLast, Reset
  <2>4. ~(ReloadTable \/ PanelTakes \/ DialogOk \/ DialogExit \/ PanelDies \/ PanelStarts \/ UNCHANGED vars)
    BY DEF ReloadTable, PanelTakes, DialogOk, DialogExit, PanelDies, PanelStarts, EngineRests, vars, engineVars
  <2> QED BY <1>2, <2>1, <2>2, <2>3, <2>4 DEF Next, Left, Right
<1> QED BY <1>1, <1>2

\* Nothing is handed to the dictionary that the user was not asked about: what
\* Return sends is what the panel shows or is about to.
THEOREM OnlyWhatWasShown == Spec => ConfirmedWasShown
<1>1. Types /\ PromptInv /\ [Next]_vars =>
        (state # "idle" /\ state' = "idle" /\ request' # NoRequest =>
           PromptToBe \in {NoPrompt, ShownAs(request'.op, request')})
  BY ConfirmStep
<1> QED BY <1>1, TypesInit, TypesStep, PromptInit, PromptStep, PTL DEF Spec, ConfirmedWasShown

-----------------------------------------------------------------------------
(* The phrase that the add prompt offers.                                    *)

\* The history is the end of what was typed, and a phrase that is made from it
\* has it, without its other characters, for its source while the prompt is open.
HistoryIsEnd ==
  /\ seen \in {"all", "tail", "other"}
  /\ seen = "all"  => history = typed
  /\ seen = "tail" => IsSuffix(history, typed)

PhraseIsMade ==
  state = "add" => /\ ~add.clip => add.source = HistorySource
                   /\ add.text = LastOf(add.len, add.source)
                   /\ add.code = PhraseCode[coded][add.text]

PhraseInv == HistoryIsEnd /\ PhraseIsMade

LEMMA EndFacts ==
  ASSUME Types, HistoryIsEnd, seen # "other"
  PROVE  \E front \in Seq(Chars) : typed = front \o history
<1>1. typed \in Seq(Chars) /\ history \in Seq(Chars) /\ <<>> \in Seq(Chars)
  BY DEF Types
<1>2. CASE seen = "all"
  BY <1>1, <1>2, ConcatEmptySeq DEF HistoryIsEnd
<1>3. CASE seen = "tail"
  BY <1>1, <1>3, SuffixIsEnd DEF HistoryIsEnd
<1> QED BY <1>2, <1>3 DEF HistoryIsEnd

\* The source that is taken from the history is the end of the Chinese characters
\* of what was typed.
LEMMA PhraseInvImplies == Types /\ PhraseInv => PhraseIsTyped
<1> SUFFICES ASSUME Types, PhraseInv PROVE PhraseIsTyped
  OBVIOUS
<1>1. state = "add" /\ coded = table => add.code = PhraseCode[table][add.text]
  BY DEF PhraseInv, PhraseIsMade
<1>2. ASSUME state = "add", ~add.clip, seen # "other"
      PROVE  add.text = LastOf(add.len, Hanzi(typed)) /\ Len(add.text) = add.len
  <2> DEFINE recent == LastOf(MaxPhrase, history)
  <2>1. /\ history \in Seq(Chars) /\ typed \in Seq(Chars) /\ add.len \in Nat /\ add.len <= Len(add.source)
        /\ add.source = HistorySource /\ add.text = LastOf(add.len, add.source)
    BY <1>2 DEF Types, PhraseInv, PhraseIsMade, Phrase
  <2>2. PICK old \in Seq(Chars) : typed = old \o history
    BY <1>2, EndFacts DEF PhraseInv
  <2>3. recent \in Seq(Chars) /\ \E front \in Seq(Chars) : history = front \o recent
    BY <2>1, LastOfSplit, PromptBoundsAssumption
  <2>4. HistorySource = Hanzi(recent)
    BY DEF HistorySource
  <2> HIDE DEF recent
  <2>5. PICK mid \in Seq(Chars) : history = mid \o recent
    BY <2>3
  <2>6. Hanzi(typed) = Hanzi(old) \o Hanzi(history) /\ Hanzi(history) = Hanzi(mid) \o Hanzi(recent)
    BY <2>1, <2>2, <2>3, <2>5, HanziOfConcat
  <2>7. /\ Hanzi(old) \in Seq(HanziChars) /\ Hanzi(mid) \in Seq(HanziChars)
        /\ Hanzi(recent) \in Seq(HanziChars) /\ Hanzi(history) \in Seq(HanziChars)
    BY <2>1, <2>3, HanziType
  <2>8. LastOf(add.len, Hanzi(history)) = LastOf(add.len, Hanzi(recent))
    BY <2>1, <2>4, <2>6, <2>7, LastOfConcat
  <2>9. add.len <= Len(Hanzi(history))
    <3>1. Len(Hanzi(history)) = Len(Hanzi(mid)) + Len(Hanzi(recent))
      BY <2>6, <2>7, ConcatProperties
    <3>2. Len(Hanzi(mid)) \in Nat /\ Len(Hanzi(recent)) \in Nat
      BY <2>7, LenProperties
    <3> QED BY <2>1, <2>4, <3>1, <3>2
  <2>10. LastOf(add.len, Hanzi(typed)) = LastOf(add.len, Hanzi(history))
    <3> DEFINE recentHanzi == Hanzi(history)
               oldHanzi == Hanzi(old)
    <3>1. /\ oldHanzi \in Seq(HanziChars) /\ recentHanzi \in Seq(HanziChars) /\ add.len \in Nat
          /\ add.len <= Len(recentHanzi) /\ Hanzi(typed) = oldHanzi \o recentHanzi
      BY <2>1, <2>6, <2>7, <2>9
    <3> HIDE DEF recentHanzi, oldHanzi
    <3>2. LastOf(add.len, oldHanzi \o recentHanzi) = LastOf(add.len, recentHanzi)
      BY <3>1, LastOfConcat
    <3> QED BY <3>1, <3>2 DEF recentHanzi
  <2>11. Len(LastOf(add.len, HistorySource)) = add.len
    <3>1. Len(HistorySource) \in Nat /\ add.len <= Len(HistorySource)
      BY <2>1, <2>4, <2>7, LenProperties
    <3>2. Len(LastOf(add.len, HistorySource)) = IF Len(HistorySource) <= add.len THEN Len(HistorySource) ELSE add.len
      BY <2>1, <2>4, <2>7, LastOfSplit
    <3> QED BY <2>1, <3>1, <3>2
  <2> QED BY <2>1, <2>4, <2>8, <2>10, <2>11
<1> QED BY <1>1, <1>2 DEF PhraseInv, HistoryIsEnd, PhraseIsTyped

LEMMA PhraseInit == Init => PhraseInv
BY DEF Init, PhraseInv, HistoryIsEnd, PhraseIsMade

LEMMA PhraseStep == Types /\ PhraseInv /\ [Next]_vars => PhraseInv'
<1> SUFFICES ASSUME Types, PhraseInv, [Next]_vars PROVE PhraseInv'
  OBVIOUS
<1>1. /\ history \in Seq(Chars) /\ typed \in Seq(Chars) /\ Len(history) \in Nat /\ Len(typed) \in Nat
      /\ add \in Phrase /\ table \in Tables
  BY LenProperties DEF Types
<1>2. ASSUME NEW c \in Candidates, NEW mark \in {<<>>} \cup {<<ch>> : ch \in OtherChars}, Commit(c, mark)
      PROVE  PhraseInv'
  <2> DEFINE text == c.text \o mark
  <2>1. text \in Seq(Chars)
    BY CommittedTypes
  <2>2. /\ history' = Appended(history, text) /\ typed' = typed \o text /\ state' = "idle"
        /\ seen' = IF seen = "all" /\ Len(history) + Len(text) > MaxRecords THEN "tail" ELSE seen
    BY <1>2 DEF Commit, LeaveState
  <2> HIDE DEF text
  <2>3. /\ Appended(history, text) \in Seq(Chars)
        /\ \E front \in Seq(Chars) : history \o text = front \o Appended(history, text)
        /\ Len(history) + Len(text) <= MaxRecords => Appended(history, text) = history \o text
    BY <1>1, <2>1, AppendedFacts
  <2>4. seen' \in {"all", "tail", "other"}
    BY <2>2 DEF PhraseInv, HistoryIsEnd
  <2>5. ASSUME seen' = "all" PROVE history' = typed'
    <3>1. seen = "all" /\ history = typed /\ ~(Len(history) + Len(text) > MaxRecords)
      BY <2>2, <2>5 DEF PhraseInv, HistoryIsEnd
    <3>2. Len(history) + Len(text) <= MaxRecords
      BY <1>1, <2>1, <3>1, LenProperties, PromptBoundsAssumption
    <3> QED BY <2>2, <2>3, <3>1, <3>2
  <2>6. ASSUME seen' = "tail" PROVE IsSuffix(history', typed')
    <3>1. seen # "other"
      BY <2>2, <2>6 DEF PhraseInv, HistoryIsEnd
    <3>2. PICK old \in Seq(Chars) : typed = old \o history
      BY <3>1, EndFacts DEF PhraseInv
    <3>3. PICK front \in Seq(Chars) : history \o text = front \o Appended(history, text)
      BY <2>3
    <3>4. typed \o text = (old \o front) \o Appended(history, text)
      <4>1. \A x, y, z \in Seq(Chars) : (x \o y) \o z = x \o (y \o z)
        BY ConcatAssociative
      <4> DEFINE rest == Appended(history, text)
      <4>2. rest \in Seq(Chars) /\ history \o text = front \o rest
        BY <2>3, <3>3
      <4> HIDE DEF rest
      <4>3. (old \o history) \o text = old \o (history \o text)
        BY <1>1, <2>1, <4>1
      <4>4. (old \o front) \o rest = old \o (front \o rest)
        BY <4>1, <4>2
      <4>5. typed \o text = (old \o front) \o rest
        BY <3>2, <4>2, <4>3, <4>4
      <4> QED BY <4>5 DEF rest
    <3>5. old \o front \in Seq(Chars) /\ typed \o text \in Seq(Chars)
      BY <1>1, <2>1, ConcatProperties
    <3> QED BY <2>2, <2>3, <3>4, <3>5, SuffixIsEnd
  <2> QED BY <2>2, <2>4, <2>5, <2>6 DEF PhraseInv, HistoryIsEnd, PhraseIsMade
<1>3. CASE BackSpace
  <2>1. /\ state = "idle" /\ state' = "idle" /\ history' = CommittedBackspace(history)
        /\ typed' = (IF typed = <<>> THEN typed ELSE Front(typed)) /\ seen' = seen
    BY <1>3 DEF BackSpace
  <2>2. ASSUME seen = "tail" PROVE IsSuffix(history', typed')
    <3>1. PICK old \in Seq(Chars) : typed = old \o history
      BY <2>2, EndFacts DEF PhraseInv
    <3>2. CASE history = <<>>
      <4>1. typed' \in Seq(Chars) /\ <<>> \in Seq(Chars)
        BY <1>1, <2>1, FrontType
      <4>2. typed' = typed' \o <<>>
        BY <4>1, ConcatEmptySeq
      <4>3. history' = <<>>
        BY <2>1, <3>2 DEF CommittedBackspace
      <4> QED BY <4>1, <4>2, <4>3, SuffixIsEnd
    <3>3. CASE history # <<>>
      <4>1. typed # <<>> /\ Front(history) \in Seq(Chars) /\ Front(typed) = old \o Front(history)
        BY <1>1, <3>1, <3>3, FrontOfConcat
      <4>2. history' = Front(history) /\ typed' = Front(typed) /\ Front(typed) \in Seq(Chars)
        BY <1>1, <2>1, <3>3, <4>1, FrontType DEF CommittedBackspace
      <4> QED BY <4>1, <4>2, SuffixIsEnd
    <3> QED BY <3>2, <3>3
  <2>3. ASSUME seen = "all" PROVE history' = typed'
    BY <2>1, <2>3 DEF PhraseInv, HistoryIsEnd, CommittedBackspace
  <2> QED BY <2>1, <2>2, <2>3 DEF PhraseInv, HistoryIsEnd, PhraseIsMade
<1>4. CASE AppEdits
  BY <1>4 DEF AppEdits, PhraseInv, HistoryIsEnd, PhraseIsMade
<1>5. ASSUME UNCHANGED <<history, typed, seen>> PROVE HistoryIsEnd'
  BY <1>5 DEF PhraseInv, HistoryIsEnd
<1>6. CASE AddFromHistory
  <2> DEFINE phrase == [NoPhrase EXCEPT !.source = HistorySource]
  <2>1. phrase \in Phrase /\ phrase.source = HistorySource /\ DefaultLen \in Nat
    <3>1. LastOf(MaxPhrase, history) \in Seq(Chars)
      BY <1>1, LastOfSplit, PromptBoundsAssumption
    <3>2. HistorySource \in Seq(HanziChars)
      BY <3>1, HanziType DEF HistorySource
    <3> QED BY <3>2, NoneTypes, PromptBoundsAssumption DEF NoPhrase, Phrase
  <2>2. add' = WithLen(phrase, DefaultLen) /\ coded' = table /\ UNCHANGED <<history, typed, seen>>
    BY <1>6 DEF AddFromHistory, Entered
  <2>3. HistorySource' = HistorySource
    BY <2>2 DEF HistorySource
  <2> HIDE DEF phrase
  <2>4. /\ add'.source = HistorySource /\ add'.len = DefaultLen
        /\ add'.text = LastOf(DefaultLen, HistorySource)
        /\ add'.code = PhraseCode[table][LastOf(DefaultLen, HistorySource)]
    BY <1>1, <2>1, <2>2, WithLenType
  <2> QED BY <1>5, <2>2, <2>3, <2>4 DEF PhraseInv, PhraseIsMade
<1>7. CASE AddFromClipboard
  <2>1. PICK clip \in Clips :
          /\ Len(Hanzi(clip)) > 1
          /\ add' = WithLen([NoPhrase EXCEPT !.source = Hanzi(clip), !.clip = TRUE], Len(Hanzi(clip)))
    BY <1>7 DEF AddFromClipboard
  <2> DEFINE phrase == [NoPhrase EXCEPT !.source = Hanzi(clip), !.clip = TRUE]
             n == Len(Hanzi(clip))
  <2>2. phrase \in Phrase /\ phrase.clip = TRUE /\ n \in Nat /\ add' = WithLen(phrase, n)
    <3>1. Hanzi(clip) \in Seq(HanziChars)
      BY PromptDataAssumption, HanziType
    <3> QED BY <2>1, <3>1, NoneTypes, LenProperties DEF NoPhrase, Phrase
  <2>3. coded' = table /\ UNCHANGED <<history, typed, seen>>
    BY <1>7 DEF AddFromClipboard, Entered
  <2> HIDE DEF phrase, n
  <2>4. /\ add'.clip = TRUE /\ add'.len = n /\ add'.source = phrase.source
        /\ add'.text = LastOf(n, phrase.source) /\ add'.code = PhraseCode[table][LastOf(n, phrase.source)]
    BY <1>1, <2>2, WithLenType
  <2> QED BY <1>5, <2>3, <2>4 DEF PhraseInv, PhraseIsMade
<1>8. CASE Left \/ Right
  <2>1. state = "add" /\ \E n \in Nat : Resize(n)
    <3>1. add.len \in Nat /\ DefaultLen = 2
      BY <1>1, PromptBoundsAssumption DEF Phrase
    <3> QED BY <1>8, <3>1 DEF Left, Right, MayShrink
  <2>2. PICK n \in Nat : Resize(n)
    BY <2>1
  <2>3. add' = WithLen(add, n) /\ coded' = table /\ UNCHANGED <<history, typed, seen, state>>
    BY <2>2 DEF Resize
  <2>4. /\ add'.clip = add.clip /\ add'.len = n /\ add'.source = add.source
        /\ add'.text = LastOf(n, add.source) /\ add'.code = PhraseCode[table][LastOf(n, add.source)]
    BY <1>1, <2>3, WithLenType
  <2>5. HistorySource' = HistorySource
    BY <2>3 DEF HistorySource
  <2> QED BY <1>5, <2>1, <2>3, <2>4, <2>5 DEF PhraseInv, PhraseIsMade
<1>9. CASE Confirm \/ Reset \/ DeleteLast
  <2>1. state' # "add" /\ UNCHANGED <<history, typed, seen>>
    BY <1>9 DEF Confirm, Reset, LeaveState, DeleteLast, Entered, ghostVars
  <2> QED BY <1>5, <2>1 DEF PhraseInv, PhraseIsMade
<1>10. ASSUME UNCHANGED <<history, typed, seen, state, add, coded>> PROVE PhraseInv'
  <2>1. HistorySource' = HistorySource
    BY <1>10 DEF HistorySource
  <2> QED BY <1>5, <1>10, <2>1 DEF PhraseInv, PhraseIsMade
<1>11. CASE AskForCode \/ ReloadTable \/ UNCHANGED vars
  BY <1>10, <1>11 DEF AskForCode, ReloadTable, vars, engineVars, ghostVars
<1>12. CASE PanelTakes \/ DialogOk \/ DialogExit \/ PanelDies \/ PanelStarts
  BY <1>10, <1>12 DEF PanelTakes, DialogOk, DialogExit, PanelDies, PanelStarts, EngineRests, ghostVars
<1> QED
  BY <1>2, <1>3, <1>4, <1>6, <1>7, <1>8, <1>9, <1>11, <1>12 DEF Next

\* A phrase that is offered from the history is the end of what was typed, with its
\* other characters taken out, and the code is its own: for histories and phrases
\* of any length, whatever is committed, taken back or chosen on the way.
THEOREM PhraseCorrect == Spec => []PhraseIsTyped
BY TypesInit, TypesStep, PhraseInit, PhraseStep, PhraseInvImplies, PTL DEF Spec

-----------------------------------------------------------------------------
(* The word that the delete prompt asks about.                               *)

WordInv ==
  /\ Hanzi(lastCommit.text) = Hanzi(picked.text) /\ lastCommit.code = picked.code
  /\ state = "del" => del = [text |-> Hanzi(picked.text), code |-> picked.code]

LEMMA WordInit == Init => WordInv
BY DEF Init, WordInv

LEMMA WordStep == Types /\ WordInv /\ [Next]_vars => WordInv'
<1> SUFFICES ASSUME Types, WordInv, [Next]_vars PROVE WordInv'
  OBVIOUS
<1>1. ASSUME NEW c \in Candidates, NEW mark \in {<<>>} \cup {<<ch>> : ch \in OtherChars}, Commit(c, mark)
      PROVE  WordInv'
  <2>1. Hanzi(c.text \o mark) = Hanzi(c.text)
    BY CommittedTypes
  <2>2. lastCommit' = [text |-> c.text \o mark, code |-> c.code] /\ picked' = c /\ state' = "idle"
    BY <1>1 DEF Commit, LeaveState
  <2> QED BY <2>1, <2>2 DEF WordInv
<1>2. CASE DeleteLast
  <2>1. UNCHANGED <<lastCommit, picked>> /\ del' = [text |-> Hanzi(lastCommit.text), code |-> lastCommit.code]
    BY <1>2 DEF DeleteLast, DeleteText, Entered
  <2> QED BY <2>1 DEF WordInv
<1>3. ASSUME UNCHANGED <<lastCommit, picked>>, state' = "del" => UNCHANGED <<state, del>> PROVE WordInv'
  BY <1>3 DEF WordInv
<1>4. CASE BackSpace \/ AppEdits \/ AddFromHistory \/ AddFromClipboard \/ AskForCode \/ Confirm \/ Reset \/ ReloadTable
  BY <1>3, <1>4
     DEF BackSpace, AppEdits, AddFromHistory, AddFromClipboard, Entered, AskForCode, Confirm, Reset, LeaveState,
         ReloadTable, ghostVars
<1>5. CASE Left \/ Right
  BY <1>3, <1>5 DEF Left, Right, Resize
<1>6. CASE PanelTakes \/ DialogOk \/ DialogExit \/ PanelDies \/ PanelStarts \/ UNCHANGED vars
  BY <1>3, <1>6
     DEF PanelTakes, DialogOk, DialogExit, PanelDies, PanelStarts, EngineRests, ghostVars, vars, engineVars
<1> QED BY <1>1, <1>2, <1>4, <1>5, <1>6 DEF Next

LEMMA ForgetStep ==
  ASSUME Types, WordInv, [Next]_vars, ~UNCHANGED vars, request'.op = "del", AllHanzi(picked.text)
  PROVE  request'.text = picked.text /\ request'.code = picked.code
<1>1. NoRequest.op # "del"
  BY DEF NoRequest
<1>2. CASE Confirm
  <2>1. state = "del" /\ request'.text = del.text /\ request'.code = del.code
    BY <1>2 DEF Confirm, Types
  <2>2. picked.text \in Seq(HanziChars)
    <3> DEFINE text == picked.text
    <3>1. text \in Seq(Chars) /\ Len(text) \in Nat /\ DOMAIN text = 1 .. Len(text)
      BY LenProperties DEF Types
    <3>2. \A i \in 1 .. Len(text) : text[i] \in HanziChars
      BY <3>1 DEF AllHanzi, ToSet
    <3>3. text = [i \in 1 .. Len(text) |-> text[i]]
      BY <3>1
    <3> HIDE DEF text
    <3>4. text \in [1 .. Len(text) -> HanziChars]
      BY <3>2, <3>3
    <3>5. text \in Seq(HanziChars)
      BY <3>1, <3>4, SeqDef
    <3> QED BY <3>5 DEF text
  <2>3. Hanzi(picked.text) = picked.text
    BY <2>2, HanziOfHanzi
  <2> QED BY <2>1, <2>3 DEF WordInv
<1>3. CASE DialogOk
  BY <1>1, <1>3 DEF DialogOk
<1>4. CASE ~Confirm /\ ~DialogOk
  <2>1. \A c, mark : Commit(c, mark) => request' = NoRequest
    BY DEF Commit
  <2>2. \A n : Resize(n) => request' = NoRequest
    BY DEF Resize
  <2>3. BackSpace \/ AppEdits \/ AddFromHistory \/ AddFromClipboard \/ AskForCode \/ DeleteLast \/ Reset
          => request' = NoRequest
    BY DEF BackSpace, AppEdits, AddFromHistory, AddFromClipboard, AskForCode, DeleteLast, Reset, Entered
  <2>4. ReloadTable \/ PanelTakes \/ DialogExit \/ PanelDies \/ PanelStarts => request' = NoRequest
    BY DEF ReloadTable, PanelTakes, DialogExit, PanelDies, PanelStarts, EngineRests
  <2> QED BY <1>1, <1>4, <2>1, <2>2, <2>3, <2>4 DEF Next, Left, Right
<1> QED BY <1>2, <1>3, <1>4

\* The word asked to be forgotten is the candidate last picked, with its code, for
\* words of Chinese characters, whatever mark was committed with it.
THEOREM ForgetsOnlyThePicked == Spec => ForgetsTheWordPicked
<1>1. Types /\ WordInv /\ [Next]_vars =>
        [request'.op = "del" /\ AllHanzi(picked.text) =>
           request'.text = picked.text /\ request'.code = picked.code]_vars
  BY ForgetStep
<1> QED BY <1>1, TypesInit, TypesStep, WordInit, WordStep, PTL DEF Spec, ForgetsTheWordPicked
=============================================================================
