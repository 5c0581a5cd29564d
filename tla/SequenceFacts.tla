---------------------------- MODULE SequenceFacts ----------------------------
(* Facts about sequences of every length on which several of the proofs      *)
(* rest: what becomes of something that takes the members of one in order    *)
(* (InOrder), and the pages that are cut from one (CandidateOps).  A module   *)
(* about queues takes the first kind by INSTANCE, with its own After.        *)
EXTENDS CandidateOps, InOrder, SequenceTheorems, WellFoundedInduction, TLAPS

\* A nonempty set of natural numbers has a least member.
LEMMA LeastMember ==
  ASSUME NEW S, S \subseteq Nat, S # {}
  PROVE  \E i \in S : \A j \in S : i <= j
<1>1. PICK i \in S : \A j \in S : <<j, i>> \notin OpToRel(<, Nat)
  BY NatLessThanWellFounded, WFMin
<1>2. \A j \in S : ~(j < i)
  BY <1>1 DEF OpToRel
<1> QED BY <1>2

-----------------------------------------------------------------------------
(* Taken in order. *)

\* The recursion of Outcome has a solution, and so the outcomes of the beginnings
\* of a sequence follow from one another.
LEMMA OutcomeExists ==
  ASSUME NEW base, NEW seq, NEW len \in Nat, len = Len(seq)
  PROVE  \E after : /\ after[0] = base
                    /\ \A n \in 1 .. len : after[n] = After(after[n - 1], seq[n])
                    /\ Outcome(base, seq) = after[len]
<1> DEFINE Solves(f, m) == f = [n \in 0 .. m |-> IF n = 0 THEN base ELSE After(f[n - 1], seq[n])]
           Without == {m \in Nat : ~\E f : Solves(f, m)}
<1>1. Without = {}
  <2> SUFFICES ASSUME Without # {} PROVE FALSE
    OBVIOUS
  <2>1. PICK m \in Without : \A k \in Without : m <= k
    BY LeastMember
  <2>2. CASE m = 0
    <3> DEFINE g == [n \in 0 .. 0 |-> base]
    <3>1. Solves(g, 0)
      OBVIOUS
    <3> QED BY <2>1, <2>2, <3>1
  <2>3. CASE m # 0
    <3>1. m \in Nat /\ m - 1 \in Nat /\ m - 1 < m
      BY <2>1, <2>3
    <3>2. PICK f : Solves(f, m - 1)
      <4> HIDE DEF Solves
      <4> QED BY <2>1, <3>1
    <3> DEFINE g == [n \in 0 .. m |-> IF n = m THEN After(f[m - 1], seq[m]) ELSE f[n]]
    <3>3. \A n \in 0 .. m : g[n] = IF n = 0 THEN base ELSE After(g[n - 1], seq[n])
      <4> SUFFICES ASSUME NEW n \in 0 .. m
                   PROVE  g[n] = IF n = 0 THEN base ELSE After(g[n - 1], seq[n])
        OBVIOUS
      <4>1. CASE n = m
        BY <2>3, <3>1, <4>1
      <4>2. CASE n # m
        <5>1. n \in 0 .. m - 1
          BY <3>1, <4>2
        <5>2. f[n] = IF n = 0 THEN base ELSE After(f[n - 1], seq[n])
          BY <3>2, <5>1
        <5>3. g[n] = f[n] /\ (n # 0 => g[n - 1] = f[n - 1])
          BY <3>1, <5>1
        <5> QED BY <5>2, <5>3
      <4> QED BY <4>1, <4>2
    <3>4. Solves(g, m)
      <4> HIDE DEF g
      <4>1. g = [n \in 0 .. m |-> g[n]]
        BY DEF g
      <4> QED BY <3>3, <4>1
    <3> QED BY <2>1, <3>4
  <2> QED BY <2>2, <2>3
<1>2. PICK f : Solves(f, len)
  BY <1>1
<1> DEFINE chosen == CHOOSE g : Solves(g, len)
<1>3. Solves(chosen, len)
  BY <1>2
<1>4. Outcome(base, seq) = chosen[len]
  BY Zenon DEF Outcome
<1> HIDE DEF chosen
<1> QED BY <1>3, <1>4

\* Two functions that go on in the same way are the same to the end.
LEMMA SameSteps ==
  ASSUME NEW f, NEW g, NEW n \in Nat, f[0] = g[0],
         \A i \in 1 .. n : f[i - 1] = g[i - 1] => f[i] = g[i]
  PROVE  f[n] = g[n]
<1> DEFINE Apart == {i \in 0 .. n : f[i] # g[i]}
<1> SUFFICES ASSUME Apart # {} PROVE FALSE
  OBVIOUS
<1>1. PICK i \in Apart : \A j \in Apart : i <= j
  <2>1. Apart \subseteq Nat
    OBVIOUS
  <2> HIDE DEF Apart
  <2> QED BY <2>1, LeastMember
<1>2. i \in 1 .. n /\ i - 1 \notin Apart
  BY <1>1
<1> QED BY <1>1, <1>2

\* One sequence is taken after the other.
LEMMA OutcomeOfConcat ==
  ASSUME NEW S, NEW base, NEW s \in Seq(S), NEW t \in Seq(S)
  PROVE  Outcome(base, s \o t) = Outcome(Outcome(base, s), t)
<1> DEFINE m == Len(s)
           n == Len(t)
           middle == Outcome(base, s)
           st == s \o t
<1>1. /\ m \in Nat /\ n \in Nat /\ Len(st) = m + n
      /\ \A i \in 1 .. m : st[i] = s[i]
      /\ \A i \in 1 .. n : st[m + i] = t[i]
  BY ConcatProperties, LenProperties
<1> HIDE DEF middle, st, m, n
<1>2. PICK f : f[0] = base /\ (\A i \in 1 .. m : f[i] = After(f[i - 1], s[i])) /\ middle = f[m]
  BY <1>1, OutcomeExists DEF middle, m
<1>3. PICK g : /\ g[0] = middle /\ \A i \in 1 .. n : g[i] = After(g[i - 1], t[i])
               /\ Outcome(middle, t) = g[n]
  BY <1>1, OutcomeExists DEF n
<1>4. PICK h : /\ h[0] = base /\ \A i \in 1 .. m + n : h[i] = After(h[i - 1], st[i])
               /\ Outcome(base, st) = h[m + n]
  <2>1. m + n \in Nat /\ m + n = Len(st)
    BY <1>1
  <2> QED BY <2>1, OutcomeExists
<1>5. h[m] = middle
  <2>1. h[0] = f[0]
    BY <1>1, <1>2, <1>4
  <2>2. ASSUME NEW i \in 1 .. m, h[i - 1] = f[i - 1] PROVE h[i] = f[i]
    <3>1. i \in 1 .. m + n /\ st[i] = s[i]
      BY <1>1
    <3>2. h[i] = After(h[i - 1], st[i])
      BY <1>4, <3>1
    <3>3. f[i] = After(f[i - 1], s[i])
      BY <1>2, <3>1
    <3> QED BY <2>2, <3>1, <3>2, <3>3
  <2>3. h[m] = f[m]
    BY <1>1, <2>1, <2>2, SameSteps
  <2> QED BY <1>2, <2>3
<1>6. h[m + n] = g[n]
  <2> DEFINE k == [i \in 0 .. n |-> h[m + i]]
  <2>1. k[0] = g[0]
    BY <1>1, <1>3, <1>5
  <2>2. ASSUME NEW i \in 1 .. n, k[i - 1] = g[i - 1] PROVE k[i] = g[i]
    <3>1. /\ i \in 0 .. n /\ i - 1 \in 0 .. n /\ m + i \in 1 .. m + n
          /\ (m + i) - 1 = m + (i - 1) /\ st[m + i] = t[i]
      BY <1>1
    <3>2. h[m + i] = After(h[(m + i) - 1], st[m + i])
      BY <1>4, <3>1
    <3>3. g[i] = After(g[i - 1], t[i])
      BY <1>3, <3>1
    <3>4. k[i] = h[m + i] /\ k[i - 1] = h[m + (i - 1)]
      BY <3>1
    <3> QED BY <2>2, <3>1, <3>2, <3>3, <3>4
  <2>3. k[n] = h[m + n]
    BY <1>1
  <2> HIDE DEF k
  <2>4. k[n] = g[n]
    BY <1>1, <2>1, <2>2, SameSteps
  <2> QED BY <2>3, <2>4
<1> QED BY <1>1, <1>3, <1>4, <1>6 DEF middle, st

\* Nothing taken, or just one.
LEMMA OutcomeOfNone ==
  ASSUME NEW base PROVE Outcome(base, <<>>) = base
<1> DEFINE none == <<>>
<1>1. 0 \in Nat /\ 0 = Len(none)
  OBVIOUS
<1> HIDE DEF none
<1>2. \E f : f[0] = base /\ Outcome(base, none) = f[0]
  BY <1>1, OutcomeExists
<1> QED BY <1>2 DEF none

LEMMA OutcomeOfOne ==
  ASSUME NEW base, NEW m PROVE Outcome(base, <<m>>) = After(base, m)
<1> DEFINE one == <<m>>
           k == 1
<1>1. k \in Nat /\ k = Len(one) /\ one[k] = m /\ k \in 1 .. k /\ k - 1 = 0
  OBVIOUS
<1> HIDE DEF one, k
<1>2. PICK f : f[0] = base /\ (\A n \in 1 .. k : f[n] = After(f[n - 1], one[n])) /\ Outcome(base, one) = f[k]
  BY <1>1, OutcomeExists
<1>3. f[k] = After(f[0], m)
  BY <1>1, <1>2
<1>4. Outcome(base, one) = After(base, m)
  BY <1>2, <1>3
<1> QED BY <1>4 DEF one

\* What is added at the end is taken last, ...
LEMMA OutcomeOfAppend ==
  ASSUME NEW S, NEW base, NEW s \in Seq(S), NEW m \in S
  PROVE  Outcome(base, Append(s, m)) = After(Outcome(base, s), m)
<1> DEFINE one == <<m>>
<1>1. Append(s, m) = s \o one /\ one \in Seq(S)
  BY AppendIsConcat
<1>2. \A x : Outcome(x, one) = After(x, m)
  BY OutcomeOfOne
<1> HIDE DEF one
<1>3. Outcome(base, s \o one) = Outcome(Outcome(base, s), one)
  BY <1>1, OutcomeOfConcat
<1> QED BY <1>1, <1>2, <1>3

\* ... and what is taken from the front is taken first.
LEMMA OutcomeOfTail ==
  ASSUME NEW S, NEW base, NEW s \in Seq(S), s # <<>>
  PROVE  Outcome(After(base, Head(s)), Tail(s)) = Outcome(base, s)
<1>1. s = <<Head(s)>> \o Tail(s) /\ <<Head(s)>> \in Seq(S) /\ Tail(s) \in Seq(S)
  <2>1. Head(s) \in S /\ Tail(s) \in Seq(S)
    BY HeadTailProperties
  <2>2. <<Head(s)>> \o Tail(s) \in Seq(S) /\ Len(<<Head(s)>> \o Tail(s)) = Len(s)
    BY <2>1, HeadTailProperties, ConcatProperties
  <2>3. ASSUME NEW i \in 1 .. Len(s) PROVE s[i] = (<<Head(s)>> \o Tail(s))[i]
    BY <2>1, HeadTailProperties, ConcatProperties
  <2> QED BY <2>1, <2>2, <2>3, SeqEqual
<1> DEFINE one == <<Head(s)>>
           rest == Tail(s)
<1>2. Outcome(base, one) = After(base, Head(s))
  BY OutcomeOfOne
<1>3. s = one \o rest /\ one \in Seq(S) /\ rest \in Seq(S)
  BY <1>1
<1> HIDE DEF one, rest
<1>4. Outcome(base, one \o rest) = Outcome(Outcome(base, one), rest)
  BY <1>3, OutcomeOfConcat
<1>5. Outcome(After(base, Head(s)), rest) = Outcome(base, s)
  BY <1>2, <1>3, <1>4
<1> QED BY <1>5 DEF rest

\* What every member keeps is kept to the end.
LEMMA OutcomeStays ==
  ASSUME NEW S, NEW T, NEW base \in T, NEW s \in Seq(S),
         \A x \in T, m \in S : After(x, m) \in T
  PROVE  Outcome(base, s) \in T
<1> DEFINE n == Len(s)
<1>1. n \in Nat /\ \A i \in 1 .. n : s[i] \in S
  BY LenProperties, ElementOfSeq
<1>2. PICK f : f[0] = base /\ (\A i \in 1 .. n : f[i] = After(f[i - 1], s[i])) /\ Outcome(base, s) = f[n]
  BY <1>1, OutcomeExists
<1> HIDE DEF n
<1> DEFINE Outside == {i \in 0 .. n : f[i] \notin T}
<1>3. ASSUME Outside # {} PROVE FALSE
  <2>1. Outside \subseteq Nat
    BY <1>1
  <2> HIDE DEF Outside
  <2>2. PICK i \in Outside : \A j \in Outside : i <= j
    BY <1>3, <2>1, LeastMember
  <2> USE DEF Outside
  <2>3. i \in 1 .. n /\ i - 1 \in 0 .. n /\ i - 1 \notin Outside
    BY <1>1, <1>2, <2>2
  <2>4. f[i] = After(f[i - 1], s[i])
    BY <1>2, <2>3
  <2> QED BY <1>1, <2>2, <2>3, <2>4
<1>4. n \in 0 .. n /\ n \notin Outside
  BY <1>1, <1>3
<1> QED BY <1>2, <1>4

\* After each member the value is one of those there may be by then.
LEMMA OutcomeFollows ==
  ASSUME NEW S, NEW R, NEW base \in R[0], NEW s \in Seq(S),
         \A n \in 1 .. Len(s) : \A x \in R[n - 1] : After(x, s[n]) \in R[n]
  PROVE  Outcome(base, s) \in R[Len(s)]
<1> DEFINE len == Len(s)
<1>1. len \in Nat /\ \A n \in 1 .. len : \A x \in R[n - 1] : After(x, s[n]) \in R[n]
  BY LenProperties
<1>2. PICK f : f[0] = base /\ (\A i \in 1 .. len : f[i] = After(f[i - 1], s[i])) /\ Outcome(base, s) = f[len]
  BY <1>1, OutcomeExists
<1> HIDE DEF len
<1> DEFINE Outside == {i \in 0 .. len : f[i] \notin R[i]}
<1>3. ASSUME Outside # {} PROVE FALSE
  <2>1. Outside \subseteq Nat
    BY <1>1
  <2> HIDE DEF Outside
  <2>2. PICK i \in Outside : \A j \in Outside : i <= j
    BY <1>3, <2>1, LeastMember
  <2> USE DEF Outside
  <2>3. i \in 1 .. len /\ i - 1 \in 0 .. len /\ i - 1 \notin Outside
    BY <1>1, <1>2, <2>2
  <2>4. f[i] = After(f[i - 1], s[i]) /\ f[i - 1] \in R[i - 1]
    BY <1>2, <2>3
  <2> QED BY <1>1, <2>2, <2>3, <2>4
<1>4. len \in 0 .. len /\ len \notin Outside
  BY <1>1, <1>3
<1> QED BY <1>2, <1>4 DEF len

\* What one member brings about and no other undoes is so in the end.
LEMMA OutcomeReaches ==
  ASSUME NEW S, NEW D, NEW T, NEW base \in D, NEW s \in Seq(S), NEW k \in 1 .. Len(s),
         \A x \in D, m \in S : After(x, m) \in D,
         \A x \in D : After(x, s[k]) \in T,
         \A x \in D \cap T, m \in S : After(x, m) \in T
  PROVE  Outcome(base, s) \in T
<1> DEFINE before == SubSeq(s, 1, k - 1)
           with   == SubSeq(s, 1, k)
           rest   == SubSeq(s, k + 1, Len(s))
           Both   == D \cap T
<1>1. Len(s) \in Nat /\ k \in Int /\ k - 1 \in Int /\ k + 1 \in Int /\ \A i \in 1 .. Len(s) : s[i] \in S
  BY LenProperties, ElementOfSeq
<1>2. before \in Seq(S) /\ with \in Seq(S) /\ rest \in Seq(S) /\ s[k] \in S
  <2>1. /\ \A i \in 1 .. k - 1 : s[i] \in S
        /\ \A i \in 1 .. k : s[i] \in S
        /\ \A i \in k + 1 .. Len(s) : s[i] \in S
    BY <1>1
  <2> QED BY <1>1, <2>1, SubSeqProperties
<1>3. with = Append(before, s[k])
  <2>1. 1 \in 1 .. Len(s) /\ k \in 1 .. Len(s)
    BY <1>1
  <2>2. with = before \o <<s[k]>>
    BY <2>1, SubSeqRecursiveSecond
  <2> HIDE DEF with, before
  <2> QED BY <1>2, <2>2, AppendIsConcat
<1>4. s = with \o rest
  <2>1. 1 \in 1 .. Len(s) + 1 /\ k \in 1 - 1 .. Len(s) /\ Len(s) \in k .. Len(s)
    BY <1>1
  <2>2. with \o rest = SubSeq(s, 1, Len(s))
    BY <2>1, ConcatAdjacentSubSeq
  <2> HIDE DEF with, rest
  <2> QED BY <2>2, SubSeqFull
<1> HIDE DEF before, with, rest
<1>5. Outcome(base, before) \in D
  BY <1>2, OutcomeStays
<1>6. Outcome(base, with) \in Both
  BY <1>2, <1>3, <1>5, OutcomeOfAppend
<1>7. Outcome(Outcome(base, with), rest) \in Both
  <2>1. \A x \in Both, m \in S : After(x, m) \in Both
    OBVIOUS
  <2> HIDE DEF Both
  <2> QED BY <1>2, <1>6, <2>1, OutcomeStays
<1>8. Outcome(base, with \o rest) = Outcome(Outcome(base, with), rest)
  BY <1>2, OutcomeOfConcat
<1> QED BY <1>4, <1>7, <1>8

\* Two values that every member keeps related are related to the end.
LEMMA OutcomesStayRelated ==
  ASSUME NEW S, NEW R, NEW b, NEW c, <<b, c>> \in R, NEW s \in Seq(S),
         \A x, y : \A m \in S : <<x, y>> \in R => <<After(x, m), After(y, m)>> \in R
  PROVE  <<Outcome(b, s), Outcome(c, s)>> \in R
<1> DEFINE n == Len(s)
<1>1. n \in Nat /\ \A i \in 1 .. n : s[i] \in S
  BY LenProperties, ElementOfSeq
<1>2. PICK f : f[0] = b /\ (\A i \in 1 .. n : f[i] = After(f[i - 1], s[i])) /\ Outcome(b, s) = f[n]
  BY <1>1, OutcomeExists
<1>3. PICK g : g[0] = c /\ (\A i \in 1 .. n : g[i] = After(g[i - 1], s[i])) /\ Outcome(c, s) = g[n]
  BY <1>1, OutcomeExists
<1> HIDE DEF n
<1> DEFINE Outside == {i \in 0 .. n : <<f[i], g[i]>> \notin R}
<1>4. ASSUME Outside # {} PROVE FALSE
  <2>1. Outside \subseteq Nat
    BY <1>1
  <2> HIDE DEF Outside
  <2>2. PICK i \in Outside : \A j \in Outside : i <= j
    BY <1>4, <2>1, LeastMember
  <2> USE DEF Outside
  <2>3. i \in 1 .. n /\ i - 1 \in 0 .. n /\ i - 1 \notin Outside
    <3>1. <<f[0], g[0]>> \in R
      BY <1>2, <1>3
    <3>2. i \in 0 .. n /\ i # 0
      BY <2>2, <3>1
    <3>3. i \in 1 .. n /\ i - 1 \in 0 .. n /\ i - 1 < i
      BY <1>1, <3>2
    <3> HIDE DEF Outside
    <3> QED BY <2>1, <2>2, <3>2, <3>3
  <2>4. f[i] = After(f[i - 1], s[i]) /\ g[i] = After(g[i - 1], s[i])
    BY <1>2, <1>3, <2>3
  <2> QED BY <1>1, <2>2, <2>3, <2>4
<1>5. n \in 0 .. n /\ n \notin Outside
  BY <1>1, <1>4
<1> QED BY <1>2, <1>3, <1>5

\* The members of a sequence that grows at its end and shrinks at its front.
LEMMA MembersOfAppend ==
  ASSUME NEW S, NEW s \in Seq(S), NEW m
  PROVE  ToSet(Append(s, m)) = ToSet(s) \cup {m}
<1>1. Append(s, m) \in Seq(S \cup {m}) /\ s \in Seq(S \cup {m})
  BY SeqMonotonic, AppendProperties
<1>2. /\ DOMAIN s = 1 .. Len(s) /\ DOMAIN Append(s, m) = 1 .. Len(s) + 1 /\ Len(s) \in Nat
      /\ \A i \in 1 .. Len(s) : Append(s, m)[i] = s[i]
      /\ Append(s, m)[Len(s) + 1] = m
  BY <1>1, AppendProperties, LenProperties
<1> QED BY <1>2 DEF ToSet

LEMMA MembersOfTail ==
  ASSUME NEW S, NEW s \in Seq(S), s # <<>>
  PROVE  ToSet(s) = ToSet(Tail(s)) \cup {Head(s)}
<1>1. /\ DOMAIN s = 1 .. Len(s) /\ Len(s) \in Nat \ {0} /\ Head(s) = s[1]
      /\ Tail(s) \in Seq(S) /\ Len(Tail(s)) = Len(s) - 1 /\ DOMAIN Tail(s) = 1 .. Len(s) - 1
      /\ \A i \in 1 .. Len(s) - 1 : Tail(s)[i] = s[i + 1]
  BY HeadTailProperties, LenProperties, EmptySeq
<1>2. \A i \in 1 .. Len(s) : i = 1 \/ (i - 1 \in 1 .. Len(s) - 1 /\ s[i] = Tail(s)[i - 1])
  BY <1>1
<1>3. ToSet(s) \subseteq ToSet(Tail(s)) \cup {Head(s)}
  <2> DEFINE t == Tail(s)
  <2>1. DOMAIN t = 1 .. Len(s) - 1 /\ \A i \in 1 .. Len(s) : i = 1 \/ (i - 1 \in 1 .. Len(s) - 1 /\ s[i] = t[i - 1])
    BY <1>1, <1>2
  <2> HIDE DEF t
  <2>2. \A i \in 1 .. Len(s) : s[i] = s[1] \/ s[i] \in ToSet(t)
    BY <2>1 DEF ToSet
  <2>3. \A x \in ToSet(s) : \E i \in 1 .. Len(s) : x = s[i]
    BY <1>1 DEF ToSet
  <2> QED BY <1>1, <2>2, <2>3 DEF t
<1>4. Head(s) \in ToSet(s)
  BY <1>1 DEF ToSet
<1>5. ToSet(Tail(s)) \subseteq ToSet(s)
  <2>1. \A i \in 1 .. Len(s) - 1 : i + 1 \in 1 .. Len(s)
    BY <1>1
  <2> QED BY <1>1, <2>1 DEF ToSet
<1> QED BY <1>3, <1>4, <1>5

-----------------------------------------------------------------------------
(* Pages. *)

\* Pages of w candidates cover n candidates, and the last one is not empty.
LEMMA PagesCover ==
  ASSUME NEW n \in Nat \ {0}, NEW w \in Nat \ {0}
  PROVE  /\ PagesFor(n, w) \in Nat \ {0}
         /\ (PagesFor(n, w) - 1) * w < n
         /\ n <= PagesFor(n, w) * w
<1> DEFINE q == n \div w
           r == n % w
<1>1. q \in Int /\ r \in 0 .. w - 1 /\ n = w * q + r
  OBVIOUS
<1> HIDE DEF q, r
<1>2. q \in Nat /\ r \in 0 .. w - 1 /\ n = w * q + r
  <2>1. ASSUME q < 0 PROVE w * q + w <= 0
    <3>1. \A a, b \in Int : a >= 0 /\ b <= 0 => a * b <= 0
      OBVIOUS
    <3>2. w * (q + 1) <= 0
      BY <1>1, <2>1, <3>1
    <3> QED BY <1>1, <3>2
  <2> QED BY <1>1, <2>1
<1>3. CASE r = 0
  <2>1. q # 0
    BY <1>2, <1>3
  <2>2. PagesFor(n, w) = q
    BY <1>3 DEF PagesFor, q, r
  <2>3. (q - 1) * w = w * q - w /\ q * w = w * q
    BY <1>2
  <2> QED BY <1>2, <1>3, <2>1, <2>2, <2>3
<1>4. CASE r # 0
  <2>1. PagesFor(n, w) = q + 1
    BY <1>4 DEF PagesFor, q, r
  <2>2. q * w = w * q /\ (q + 1) * w = w * q + w
    BY <1>2
  <2> QED BY <1>2, <1>4, <2>1, <2>2
<1> QED BY <1>3, <1>4

\* A page is where it starts, as long as the width and the candidates let it
\* be, and has the texts of the candidates there.
LEMMA PageFacts ==
  ASSUME NEW S, NEW all \in Seq(S), NEW start \in Nat, NEW w \in Nat \ {0}, start < Len(all)
  PROVE  /\ Len(PageTexts(all, start, w)) = Smaller(start + w, Len(all)) - start
         /\ DOMAIN PageTexts(all, start, w) = 1 .. Smaller(start + w, Len(all)) - start
         /\ \A j \in 1 .. Smaller(start + w, Len(all)) - start :
              PageTexts(all, start, w)[j] = all[start + j].text
<1> DEFINE n == Smaller(start + w, Len(all)) - start
           T == {all[start + j].text : j \in 1 .. n}
<1>1. n \in Nat
  BY DEF Smaller
<1>2. PageTexts(all, start, w) = [j \in 1 .. n |-> all[start + j].text]
  BY DEF PageTexts
<1> HIDE DEF n
<1>3. PageTexts(all, start, w) \in [1 .. n -> T]
  BY <1>2
<1> HIDE DEF T
<1>4. Len(PageTexts(all, start, w)) = n
  <2>1. PageTexts(all, start, w) \in Seq(T)
    BY <1>1, <1>3, SeqDef
  <2>2. DOMAIN PageTexts(all, start, w) = 1 .. n
    BY <1>2
  <2> QED BY <1>1, <2>1, <2>2, LenProperties
<1> QED BY <1>2, <1>4 DEF n
=============================================================================
