------------------------------- MODULE Erasure -------------------------------
(***************************************************************************)
(* Queues that lose some of their elements, as std::erase_if and loops with *)
(* a condition leave them, and what is true of what is left.  Kept is the  *)
(* library's SelectSeq with a set for a test, which a proof can reason     *)
(* about.                                                                  *)
(***************************************************************************)
EXTENDS Integers, Sequences, Functions, NaturalsInduction, WellFoundedInduction, TLAPS

\* The elements of a queue that are in S, in their order.
Kept(queue, S) ==
    LET kept[n \in 0 .. Len(queue)] ==
            IF n = 0 THEN << >>
            ELSE IF queue[n] \in S THEN Append(kept[n - 1], queue[n])
            ELSE kept[n - 1]
    IN  kept[Len(queue)]

\* std::erase and std::erase_if: a queue without the elements of gone.
Erased(queue, gone) == Kept(queue, Range(queue) \ gone)

-----------------------------------------------------------------------------

\* A non-empty set of natural numbers has a least element.
LEMMA LeastNatural ==
    ASSUME NEW S \in SUBSET Nat, S # {}
    PROVE  \E m \in S : \A n \in S : m <= n
<1> DEFINE Less == {ss \in Nat \X Nat : ss[1] < ss[2]}
<1>1. IsWellFoundedOn(Less, Nat) BY NatLessThanWellFounded DEF OpToRel
<1> HIDE DEF Less
<1>2. PICK m \in S : \A n \in S : ~(<<n, m>> \in Less) BY <1>1, WFMin
<1>3. ASSUME NEW n \in S PROVE m <= n
  <2>1. n < m => <<n, m>> \in Less BY DEF Less
  <2> QED BY <1>2, <2>1
<1> QED BY <1>3

LEMMA EmptyRange == Range(<< >>) = {} /\ IsInjective(<< >>)
BY DEF Range, IsInjective

LEMMA NoRange ==
    ASSUME NEW T, NEW q \in Seq(T)
    PROVE  /\ Range(q) \in SUBSET T
           /\ q = << >> <=> Range(q) = {}
           /\ q # << >> => Head(q) \in Range(q) /\ Head(q) = q[1]
<1>1. /\ Len(q) \in Nat /\ DOMAIN q = 1 .. Len(q) /\ \A i \in DOMAIN q : q[i] \in T
      /\ q = << >> <=> Len(q) = 0 /\ q # << >> => Head(q) = q[1]
  OBVIOUS
<1>2. q # << >> => 1 \in DOMAIN q BY <1>1
<1>3. q = << >> => Range(q) = {} BY EmptyRange
<1>4. Range(q) \in SUBSET T BY <1>1 DEF Range
<1>5. q # << >> => Head(q) = q[1] /\ Head(q) \in Range(q) BY <1>1, <1>2 DEF Range
<1>6. q # << >> => Range(q) # {} BY <1>5
<1> QED BY <1>3, <1>4, <1>5, <1>6

LEMMA AppendList ==
    ASSUME NEW T, NEW q \in Seq(T), NEW t \in T
    PROVE  /\ Append(q, t) \in Seq(T) /\ Range(Append(q, t)) = Range(q) \cup {t}
           /\ IsInjective(q) /\ t \notin Range(q) => IsInjective(Append(q, t))
<1> DEFINE a == Append(q, t)
<1>1. /\ a \in Seq(T) /\ Len(a) = Len(q) + 1 /\ Len(q) \in Nat
      /\ DOMAIN a = 1 .. Len(q) + 1 /\ DOMAIN q = 1 .. Len(q)
      /\ a[Len(q) + 1] = t /\ \A i \in 1 .. Len(q) : a[i] = q[i]
  OBVIOUS
<1> HIDE DEF a
<1>2. Range(a) = Range(q) \cup {t}
  <2>1. ASSUME NEW i \in DOMAIN a PROVE a[i] \in Range(q) \cup {t}
    BY <1>1 DEF Range
  <2>2. ASSUME NEW i \in DOMAIN q PROVE q[i] \in Range(a)
    <3>1. i \in DOMAIN a /\ a[i] = q[i] BY <1>1
    <3> QED BY <3>1 DEF Range
  <2>3. t \in Range(a)
    <3>1. Len(q) + 1 \in DOMAIN a BY <1>1
    <3> QED BY <1>1, <3>1 DEF Range
  <2> QED BY <2>1, <2>2, <2>3 DEF Range
<1>3. ASSUME IsInjective(q), t \notin Range(q) PROVE IsInjective(a)
  <2> SUFFICES ASSUME NEW i \in DOMAIN a, NEW j \in DOMAIN a, a[i] = a[j] PROVE i = j
    BY DEF IsInjective
  <2>1. \A k \in DOMAIN q : q[k] # t BY <1>3 DEF Range
  <2>2. \A k, l \in DOMAIN q : q[k] = q[l] => k = l BY <1>3 DEF IsInjective
  <2> QED BY <1>1, <2>1, <2>2
<1> QED BY <1>1, <1>2, <1>3 DEF a

\* What is left of a queue: the elements of S, each as often as before, and the
\* first of them in front.
LEMMA KeptList ==
    ASSUME NEW T, NEW q \in Seq(T), NEW S
    PROVE  /\ Kept(q, S) \in Seq(T) /\ Range(Kept(q, S)) = Range(q) \cap S
           /\ IsInjective(q) => IsInjective(Kept(q, S))
           /\ Kept(q, S) # << >> => \E i \in DOMAIN q :
                 /\ q[i] \in S /\ Head(Kept(q, S)) = q[i]
                 /\ \A j \in DOMAIN q : q[j] \in S => i <= j
<1> DEFINE N == Len(q)
           Next1(f, n) == IF q[n] \in S THEN Append(f[n - 1], q[n]) ELSE f[n - 1]
           Builds(f, n) == /\ f = [k \in 0 .. n |-> f[k]] /\ f[0] = << >>
                           /\ \A k \in 1 .. n : f[k] = Next1(f, k)
           Has(n) == \E f : Builds(f, n)
<1>1. N \in Nat /\ DOMAIN q = 1 .. N /\ \A k \in 1 .. N : q[k] \in T OBVIOUS
<1>2. \A n \in Nat : Has(n)
  <2> DEFINE Bad == {n \in Nat : ~Has(n)}
  <2> SUFFICES ASSUME Bad # {} PROVE FALSE OBVIOUS
  <2>1. PICK m \in Bad : \A n \in Bad : m <= n
    <3> HIDE DEF Has
    <3> QED BY LeastNatural
  <2>2. CASE m = 0
    <3>1. Builds([k \in 0 .. 0 |-> << >>], 0) OBVIOUS
    <3> QED BY <2>1, <2>2, <3>1
  <2>3. CASE m # 0
    <3>1. m - 1 \in Nat /\ m \in Nat BY <2>3
    <3>2. m - 1 \notin Bad
      <4> HIDE DEF Bad
      <4> QED BY <2>1, <3>1
    <3>3. PICK g : Builds(g, m - 1) BY <3>1, <3>2
    <3> DEFINE h == [k \in 0 .. m |-> IF k = m THEN Next1(g, m) ELSE g[k]]
    <3>4. h = [k \in 0 .. m |-> h[k]] /\ h[0] = << >> BY <2>3, <3>1, <3>3
    <3>5. ASSUME NEW k \in 1 .. m PROVE h[k] = Next1(h, k)
      <4>1. h[k - 1] = g[k - 1] BY <3>1
      <4>2. CASE k = m BY <3>1, <4>1, <4>2
      <4>3. CASE k # m
        <5>1. k \in 1 .. m - 1 BY <3>1, <4>3
        <5>2. g[k] = Next1(g, k) BY <3>3, <5>1
        <5>3. h[k] = g[k] BY <3>1, <4>3
        <5> HIDE DEF h
        <5> QED BY <4>1, <5>2, <5>3
      <4> QED BY <4>2, <4>3
    <3>6. Builds(h, m)
      <4> HIDE DEF h
      <4> QED BY <3>4, <3>5
    <3> QED BY <2>1, <3>6
  <2> QED BY <2>2, <2>3
<1> DEFINE kept[n \in 0 .. N] ==
               IF n = 0 THEN << >>
               ELSE IF q[n] \in S THEN Append(kept[n - 1], q[n]) ELSE kept[n - 1]
<1>3. kept = [n \in 0 .. N |-> IF n = 0 THEN << >>
                               ELSE IF q[n] \in S THEN Append(kept[n - 1], q[n])
                               ELSE kept[n - 1]]
  <2>1. PICK f : Builds(f, N) BY <1>1, <1>2
  <2>2. f = [n \in 0 .. N |-> IF n = 0 THEN << >>
                              ELSE IF q[n] \in S THEN Append(f[n - 1], q[n])
                              ELSE f[n - 1]]
    <3>1. ASSUME NEW n \in 0 .. N
          PROVE  f[n] = IF n = 0 THEN << >>
                        ELSE IF q[n] \in S THEN Append(f[n - 1], q[n]) ELSE f[n - 1]
      <4>1. CASE n = 0 BY <2>1, <4>1
      <4>2. CASE n # 0
        <5>1. n \in 1 .. N BY <1>1, <4>2
        <5> QED BY <2>1, <4>2, <5>1
      <4> QED BY <4>1, <4>2
    <3> QED BY <2>1, <3>1
  <2> QED BY <2>2
<1>4. Kept(q, S) = kept[N] BY DEF Kept
<1> HIDE DEF kept
<1> DEFINE First(n) == {q[i] : i \in 1 .. n}
           Good(n) == /\ kept[n] \in Seq(T) /\ Range(kept[n]) = First(n) \cap S
                      /\ IsInjective(q) => IsInjective(kept[n])
                      /\ kept[n] # << >> => \E i \in 1 .. n :
                            /\ q[i] \in S /\ Head(kept[n]) = q[i]
                            /\ \A j \in 1 .. n : q[j] \in S => i <= j
<1>5. \A n \in 0 .. N : Good(n)
  <2> DEFINE Bad == {n \in 0 .. N : ~Good(n)}
  <2> SUFFICES ASSUME Bad # {} PROVE FALSE OBVIOUS
  <2>1. Bad \in SUBSET Nat BY <1>1
  <2>2. PICK m \in Bad : \A n \in Bad : m <= n
    <3> HIDE DEF Bad
    <3> QED BY <2>1, LeastNatural
  <2>3. CASE m = 0
    <3>1. kept[0] = << >> BY <1>1, <1>3
    <3>2. First(0) = {} OBVIOUS
    <3>3. Good(0) BY <3>1, <3>2, EmptyRange
    <3> QED BY <2>2, <2>3, <3>3
  <2>4. CASE m # 0
    <3>1. m \in 1 .. N /\ m - 1 \in 0 .. N BY <1>1, <2>4
    <3>2. m - 1 \notin Bad
      <4> HIDE DEF Bad
      <4> QED BY <1>1, <2>2, <3>1
    <3>3. Good(m - 1) BY <3>1, <3>2
    <3>4. kept[m] = IF q[m] \in S THEN Append(kept[m - 1], q[m]) ELSE kept[m - 1]
      BY <1>3, <2>4, <3>1
    <3>5. First(m) = First(m - 1) \cup {q[m]} /\ 1 .. m = (1 .. m - 1) \cup {m}
      <4>1. 1 .. m = (1 .. m - 1) \cup {m} BY <3>1
      <4> QED BY <4>1
    <3>6. q[m] \in T BY <1>1, <3>1
    <3>7. IsInjective(q) => q[m] \notin First(m - 1)
      <4> SUFFICES ASSUME IsInjective(q), NEW i \in 1 .. m - 1, q[i] = q[m] PROVE FALSE
        OBVIOUS
      <4>1. i \in DOMAIN q /\ m \in DOMAIN q /\ i # m BY <1>1, <3>1
      <4> QED BY <4>1 DEF IsInjective
    <3>8. \A i \in 1 .. m - 1 : q[i] \in S => kept[m - 1] # << >>
      <4>1. \A i \in 1 .. m - 1 : q[i] \in First(m - 1) OBVIOUS
      <4> HIDE DEF First
      <4> QED BY <3>3, <4>1, EmptyRange
    <3> HIDE DEF First
    <3>9. Good(m)
      <4>1. CASE q[m] \notin S BY <3>1, <3>3, <3>4, <3>5, <4>1
      <4>2. CASE q[m] \in S
        <5> DEFINE k == kept[m - 1]
                   a == Append(k, q[m])
        <5>1. k \in Seq(T) /\ kept[m] = a BY <3>3, <3>4, <4>2
        <5>2. a \in Seq(T) /\ Range(a) = (First(m - 1) \cap S) \cup {q[m]}
          BY <3>3, <3>6, <5>1, AppendList
        <5>3. IsInjective(q) => IsInjective(a)
          BY <3>3, <3>6, <3>7, <5>1, AppendList
        <5>4. (First(m - 1) \cap S) \cup {q[m]} = First(m) \cap S BY <3>5, <4>2
        <5>5. \E i \in 1 .. m : /\ q[i] \in S /\ Head(a) = q[i]
                                /\ \A j \in 1 .. m : q[j] \in S => i <= j
          <6>1. CASE k = << >>
            <7>1. Head(a) = q[m] BY <6>1
            <7>2. \A j \in 1 .. m - 1 : q[j] \notin S BY <3>8, <6>1
            <7> QED BY <3>1, <3>5, <4>2, <7>1, <7>2
          <6>2. CASE k # << >>
            <7>1. Head(a) = Head(k) BY <5>1, <6>2
            <7>2. PICK i \in 1 .. m - 1 : /\ q[i] \in S /\ Head(k) = q[i]
                                          /\ \A j \in 1 .. m - 1 : q[j] \in S => i <= j
              BY <3>3, <6>2
            <7>3. i \in 1 .. m /\ i <= m BY <3>1
            <7> QED BY <3>5, <7>1, <7>2, <7>3
          <6> QED BY <6>1, <6>2
        <5> HIDE DEF a, k
        <5> QED BY <5>1, <5>2, <5>3, <5>4, <5>5
      <4> QED BY <4>1, <4>2
    <3> QED BY <2>2, <3>9
  <2> QED BY <2>3, <2>4
<1>6. First(N) = Range(q) BY <1>1 DEF Range
<1> HIDE DEF First
<1>7. N \in 0 .. N BY <1>1
<1>8. Good(N) BY <1>5, <1>7
<1> QED BY <1>1, <1>4, <1>6, <1>8

LEMMA ErasedList ==
    ASSUME NEW T, NEW q \in Seq(T), NEW gone
    PROVE  /\ Erased(q, gone) \in Seq(T) /\ Range(Erased(q, gone)) = Range(q) \ gone
           /\ IsInjective(q) => IsInjective(Erased(q, gone))
<1>1. Range(q) \cap (Range(q) \ gone) = Range(q) \ gone OBVIOUS
<1> QED BY <1>1, KeptList DEF Erased
=============================================================================
