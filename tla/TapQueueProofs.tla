---------------------------- MODULE TapQueueProofs ----------------------------
(***************************************************************************)
(* The circular queue of the Windows driver is a queue, for every capacity *)
(* and every kind of element: push appends, pop takes the head, extract    *)
(* takes an item out, and the array and the indexes keep their ranges.     *)
(* Before that, the laws of Keep and OmitAt, for all sequences.            *)
(***************************************************************************)
EXTENDS TapQueue, Subsequences, SequenceTheorems, WellFoundedInduction, TLAPS

\* Induction over the natural numbers, for a set: the library states it for an
\* operator.
LEMMA NatSetInduction ==
    ASSUME NEW T, 0 \in T, \A n \in Nat : n \in T => n + 1 \in T
    PROVE  Nat \subseteq T
<1> DEFINE Out == Nat \ T
<1>1. SUFFICES ASSUME Out # {} PROVE FALSE
  OBVIOUS
<1>2. PICK x \in Out : \A y \in Out : ~(<<y, x>> \in OpToRel(<, Nat))
  <2>1. IsWellFoundedOn(OpToRel(<, Nat), Nat)
    BY NatLessThanWellFounded
  <2>2. Out \subseteq Nat
    OBVIOUS
  <2> QED
    BY <1>1, <2>1, <2>2, WFMin
<1>3. x \in Nat /\ x # 0
  OBVIOUS
<1>4. x - 1 \in Nat /\ (x - 1) + 1 = x /\ x - 1 < x
  BY <1>3
<1>5. x - 1 \in Out
  BY <1>4
<1>6. <<x - 1, x>> \in OpToRel(<, Nat)
  BY <1>3, <1>4 DEF OpToRel
<1> QED
  BY <1>2, <1>5, <1>6

\* The recursive function exists, so it is what its definition says.
LEMMA KeptStep ==
    ASSUME NEW S, NEW s \in Seq(S), NEW T
    PROVE  /\ Kept(s, T)[0] = <<>>
           /\ \A n \in 1 .. Len(s) :
                Kept(s, T)[n] = IF s[n] \in T THEN Append(Kept(s, T)[n - 1], s[n])
                                              ELSE Kept(s, T)[n - 1]
<1> DEFINE Turn(n, e) == IF s[n] \in T THEN Append(e, s[n]) ELSE e
           Runs(m, f) == f = [n \in 0 .. m |-> IF n = 0 THEN <<>>
                                               ELSE IF s[n] \in T THEN Append(f[n - 1], s[n])
                                               ELSE f[n - 1]]
           len == Len(s)
<1>1. len \in Nat
  OBVIOUS
<1>2. Kept(s, T) = CHOOSE f : Runs(len, f)
  BY DEF Kept
<1> HIDE DEF len
<1>3. \A m \in Nat : \E f : Runs(m, f)
  <2> DEFINE U == {m \in Nat : \E f : Runs(m, f)}
  <2>1. 0 \in U
    <3> DEFINE f == [n \in 0 .. 0 |-> <<>>]
    <3>1. Runs(0, f)
      OBVIOUS
    <3> HIDE DEF f
    <3>2. \E g : Runs(0, g)
      BY <3>1
    <3> QED
      BY <3>2
  <2>2. ASSUME NEW m \in Nat, m \in U
        PROVE  m + 1 \in U
    <3>1. PICK f : Runs(m, f)
      BY <2>2
    <3> DEFINE g == [n \in 0 .. m + 1 |-> IF n = m + 1 THEN Turn(n, f[m]) ELSE f[n]]
    <3>2. ASSUME NEW n \in 0 .. m + 1
          PROVE  g[n] = IF n = 0 THEN <<>> ELSE Turn(n, g[n - 1])
      <4>1. CASE n = m + 1
        <5>1. n - 1 = m /\ m \in 0 .. m + 1 /\ m # m + 1 /\ n # 0
          BY <4>1
        <5> HIDE DEF Turn
        <5>2. g[n - 1] = f[m] /\ g[n] = Turn(n, f[m])
          BY <4>1, <5>1
        <5> QED
          BY <5>1, <5>2
      <4>2. CASE n # m + 1
        <5>1. n \in 0 .. m
          BY <4>2
        <5>2. g[n] = f[n] /\ f[n] = IF n = 0 THEN <<>> ELSE Turn(n, f[n - 1])
          BY <3>1, <4>2, <5>1
        <5>3. n # 0 => n - 1 \in 0 .. m + 1 /\ n - 1 # m + 1
          BY <5>1
        <5> HIDE DEF Turn
        <5>4. n # 0 => g[n - 1] = f[n - 1]
          BY <5>3
        <5> QED
          BY <5>2, <5>4
      <4> QED
        BY <4>1, <4>2
    <3>3. Runs(m + 1, g)
      <4> HIDE DEF g
      <4>1. g = [n \in 0 .. m + 1 |-> g[n]]
        BY DEF g
      <4> QED
        BY <3>2, <4>1
    <3> HIDE DEF g
    <3>4. \E h : Runs(m + 1, h)
      BY <3>3
    <3> QED
      BY <3>4
  <2> HIDE DEF U
  <2>3. Nat \subseteq U
    BY <2>1, <2>2, NatSetInduction
  <2> QED
    BY <2>3 DEF U
<1>4. Runs(len, Kept(s, T))
  <2>1. \E f : Runs(len, f)
    BY <1>1, <1>3
  <2> QED
    BY <1>2, <2>1
<1>5. Kept(s, T)[0] = <<>>
  BY <1>1, <1>4
<1>6. ASSUME NEW n \in 1 .. len
      PROVE  Kept(s, T)[n] = Turn(n, Kept(s, T)[n - 1])
  <2>1. n \in 0 .. len /\ n # 0
    BY <1>1
  <2> QED
    BY <1>4, <2>1
<1> QED
  BY <1>5, <1>6 DEF len

\* What is kept is a sequence of elements of s that lie in T.
LEMMA KeptElements ==
    ASSUME NEW S, NEW s \in Seq(S), NEW T
    PROVE  \A n \in 0 .. Len(s) :
             /\ Kept(s, T)[n] \in Seq(S)
             /\ \A i \in 1 .. Len(Kept(s, T)[n]) :
                  /\ Kept(s, T)[n][i] \in T
                  /\ \E j \in 1 .. n : s[j] = Kept(s, T)[n][i]
<1> DEFINE K == Kept(s, T)
           len == Len(s)
           Good(n) == /\ K[n] \in Seq(S)
                      /\ \A i \in 1 .. Len(K[n]) :
                           /\ K[n][i] \in T
                           /\ \E j \in 1 .. n : s[j] = K[n][i]
           U == {n \in Nat : n <= len => Good(n)}
<1>1. len \in Nat /\ \A n \in 1 .. len : s[n] \in S
  OBVIOUS
<1>2. /\ K[0] = <<>>
      /\ \A n \in 1 .. len : K[n] = IF s[n] \in T THEN Append(K[n - 1], s[n]) ELSE K[n - 1]
  BY KeptStep
<1> HIDE DEF K, len
<1>3. 0 \in U
  <2>1. Good(0)
    BY <1>2
  <2> QED
    BY <2>1
<1>4. ASSUME NEW n \in Nat, n \in U
      PROVE  n + 1 \in U
  <2> SUFFICES ASSUME n + 1 <= len PROVE Good(n + 1)
    OBVIOUS
  <2>1. n + 1 \in 1 .. len /\ (n + 1) - 1 = n
    BY <1>1
  <2>2. Good(n)
    BY <1>1, <1>4, <2>1
  <2>3. CASE s[n + 1] \notin T
    <3>1. K[n + 1] = K[n]
      BY <1>2, <2>1, <2>3
    <3>2. \A j \in 1 .. n : j \in 1 .. n + 1
      OBVIOUS
    <3> QED
      BY <2>2, <3>1, <3>2
  <2>4. CASE s[n + 1] \in T
    <3> DEFINE e == K[n]
               x == s[n + 1]
    <3>1. K[n + 1] = Append(e, x) /\ x \in S /\ e \in Seq(S)
      BY <1>1, <1>2, <2>1, <2>2, <2>4
    <3>2. \A j \in 1 .. n : j \in 1 .. n + 1
      OBVIOUS
    <3>3. \A i \in 1 .. Len(e) : e[i] \in T /\ \E j \in 1 .. n + 1 : s[j] = e[i]
      BY <2>2, <3>2
    <3>4. x \in T /\ \E j \in 1 .. n + 1 : s[j] = x
      BY <2>4
    <3> HIDE DEF e, x
    <3>5. /\ Append(e, x) \in Seq(S) /\ Len(Append(e, x)) = Len(e) + 1
          /\ \A i \in 1 .. Len(e) + 1 : Append(e, x)[i] = IF i <= Len(e) THEN e[i] ELSE x
      BY <3>1, AppendProperties
    <3>6. Len(e) \in Nat
      BY <3>1
    <3>7. \A i \in 1 .. Len(Append(e, x)) :
            (i \in 1 .. Len(e) /\ Append(e, x)[i] = e[i]) \/ Append(e, x)[i] = x
      BY <3>5, <3>6
    <3> QED
      BY <3>1, <3>3, <3>4, <3>5, <3>7
  <2> QED
    BY <2>3, <2>4
<1> HIDE DEF U
<1>5. Nat \subseteq U
  BY <1>3, <1>4, NatSetInduction
<1>6. ASSUME NEW n \in 0 .. len
      PROVE  Good(n)
  BY <1>1, <1>5 DEF U
<1> QED
  BY <1>6 DEF K, len

\* Only what is kept matters.
LEMMA KeptSame ==
    ASSUME NEW S, NEW s \in Seq(S), NEW t \in Seq(S), NEW T, NEW U,
           NEW m \in Nat, m <= Len(s), m <= Len(t),
           \A i \in 1 .. m : s[i] = t[i] /\ (s[i] \in T <=> s[i] \in U)
    PROVE  \A n \in 0 .. m : Kept(s, T)[n] = Kept(t, U)[n]
<1> DEFINE K == Kept(s, T)
           L == Kept(t, U)
           W == {n \in Nat : n <= m => K[n] = L[n]}
<1>1. /\ K[0] = <<>> /\ L[0] = <<>>
      /\ \A n \in 1 .. m : K[n] = IF s[n] \in T THEN Append(K[n - 1], s[n]) ELSE K[n - 1]
      /\ \A n \in 1 .. m : L[n] = IF t[n] \in U THEN Append(L[n - 1], t[n]) ELSE L[n - 1]
  <2>1. \A n \in 1 .. m : n \in 1 .. Len(s) /\ n \in 1 .. Len(t)
    BY LenProperties
  <2> QED
    BY <2>1, KeptStep
<1> HIDE DEF K, L
<1>2. 0 \in W
  BY <1>1
<1>3. ASSUME NEW n \in Nat, n \in W
      PROVE  n + 1 \in W
  <2> SUFFICES ASSUME n + 1 <= m PROVE K[n + 1] = L[n + 1]
    OBVIOUS
  <2>1. n + 1 \in 1 .. m /\ (n + 1) - 1 = n /\ K[n] = L[n]
    BY <1>3
  <2> QED
    BY <1>1, <2>1
<1> HIDE DEF W
<1>4. Nat \subseteq W
  BY <1>2, <1>3, NatSetInduction
<1> QED
  BY <1>4 DEF W, K, L

LEMMA KeepSeq ==
    ASSUME NEW S, NEW s \in Seq(S), NEW T
    PROVE  /\ Keep(s, T) \in Seq(S)
           /\ \A i \in 1 .. Len(Keep(s, T)) :
                Keep(s, T)[i] \in T /\ \E j \in 1 .. Len(s) : s[j] = Keep(s, T)[i]
<1>1. Len(s) \in 0 .. Len(s)
  BY LenProperties
<1> QED
  BY <1>1, KeptElements DEF Keep

LEMMA KeepEmpty ==
    ASSUME NEW T
    PROVE  Keep(<<>>, T) = <<>>
<1>1. <<>> \in Seq({}) /\ Len(<<>>) = 0
  OBVIOUS
<1> QED
  BY <1>1, KeptStep DEF Keep

\* Sequences that agree, and sets that agree on them, keep the same.
LEMMA KeepAgree ==
    ASSUME NEW S, NEW s \in Seq(S), NEW T, NEW U,
           \A i \in 1 .. Len(s) : s[i] \in T <=> s[i] \in U
    PROVE  Keep(s, T) = Keep(s, U)
<1>1. Len(s) \in Nat /\ Len(s) <= Len(s) /\ Len(s) \in 0 .. Len(s)
  BY LenProperties
<1> QED
  BY <1>1, KeptSame DEF Keep

LEMMA KeepAppend ==
    ASSUME NEW S, NEW s \in Seq(S), NEW x \in S, NEW T
    PROVE  Keep(Append(s, x), T) = IF x \in T THEN Append(Keep(s, T), x) ELSE Keep(s, T)
<1> DEFINE t == Append(s, x)
           m == Len(s)
<1>1. /\ t \in Seq(S) /\ Len(t) = m + 1
      /\ \A i \in 1 .. m : t[i] = s[i]
      /\ t[m + 1] = x
  BY AppendProperties
<1>2. m \in Nat /\ m + 1 \in 1 .. m + 1 /\ (m + 1) - 1 = m /\ m <= m + 1 /\ m \in 0 .. m
  BY LenProperties
<1> HIDE DEF t, m
<1>3. \A n \in 0 .. m : Kept(s, T)[n] = Kept(t, T)[n]
  <2>1. m <= Len(s) /\ m <= Len(t)
    BY <1>1, <1>2 DEF m
  <2>2. \A i \in 1 .. m : s[i] = t[i] /\ (s[i] \in T <=> s[i] \in T)
    BY <1>1
  <2> QED
    BY <1>1, <1>2, <2>1, <2>2, KeptSame
<1>4. Kept(t, T)[m + 1] = IF t[m + 1] \in T THEN Append(Kept(t, T)[(m + 1) - 1], t[m + 1])
                                            ELSE Kept(t, T)[(m + 1) - 1]
  BY <1>1, <1>2, KeptStep
<1>5. Keep(t, T) = Kept(t, T)[m + 1] /\ Keep(s, T) = Kept(s, T)[m]
  BY <1>1 DEF Keep, m
<1> QED
  BY <1>1, <1>2, <1>3, <1>4, <1>5 DEF t

\* What is kept of what is kept.
LEMMA KeepKeep ==
    ASSUME NEW S, NEW s \in Seq(S), NEW T, NEW U
    PROVE  Keep(Keep(s, T), U) = Keep(s, T \cap U)
<1> DEFINE K == Kept(s, T)
           L == Kept(s, T \cap U)
           len == Len(s)
           W == {n \in Nat : n <= len => Keep(K[n], U) = L[n]}
<1>1. len \in Nat /\ \A n \in 1 .. len : s[n] \in S
  OBVIOUS
<1>2. /\ K[0] = <<>> /\ L[0] = <<>>
      /\ \A n \in 1 .. len : K[n] = IF s[n] \in T THEN Append(K[n - 1], s[n]) ELSE K[n - 1]
      /\ \A n \in 1 .. len : L[n] = IF s[n] \in T \cap U THEN Append(L[n - 1], s[n]) ELSE L[n - 1]
  BY KeptStep
<1>3. \A n \in 0 .. len : K[n] \in Seq(S)
  BY KeptElements
<1>4. Keep(s, T) = K[len] /\ Keep(s, T \cap U) = L[len]
  BY DEF Keep
<1> HIDE DEF K, L, len
<1>5. 0 \in W
  BY <1>2, KeepEmpty
<1>6. ASSUME NEW n \in Nat, n \in W
      PROVE  n + 1 \in W
  <2> SUFFICES ASSUME n + 1 <= len PROVE Keep(K[n + 1], U) = L[n + 1]
    OBVIOUS
  <2>1. n + 1 \in 1 .. len /\ (n + 1) - 1 = n /\ Keep(K[n], U) = L[n] /\ n \in 0 .. len
    BY <1>1, <1>6
  <2>2. s[n + 1] \in S /\ K[n] \in Seq(S)
    BY <1>1, <1>3, <2>1
  <2> DEFINE x == s[n + 1]
             e == K[n]
  <2>3. Keep(Append(e, x), U) = IF x \in U THEN Append(Keep(e, U), x) ELSE Keep(e, U)
    <3>1. x \in S /\ e \in Seq(S)
      BY <2>2
    <3> HIDE DEF x, e
    <3> QED
      BY <3>1, KeepAppend
  <2> QED
    BY <1>2, <2>1, <2>3
<1> HIDE DEF W
<1>7. Nat \subseteq W
  BY <1>5, <1>6, NatSetInduction
<1>8. len \in W /\ len <= len
  BY <1>1, <1>7
<1> QED
  BY <1>4, <1>8 DEF W

\* An element that is not kept can go.
LEMMA KeepOmit ==
    ASSUME NEW S, NEW s \in Seq(S), NEW T, NEW k \in 1 .. Len(s), s[k] \notin T
    PROVE  OmitAt(s, k) \in Seq(S) /\ Keep(OmitAt(s, k), T) = Keep(s, T)
<1> DEFINE K == Kept(s, T)
           t == OmitAt(s, k)
           L == Kept(t, T)
           len == Len(s)
           Agree(n) == /\ n < k => L[n] = K[n]
                       /\ k - 1 <= n => L[n] = K[n + 1]
           W == {n \in Nat : n <= len - 1 => Agree(n)}
<1>1. len \in Nat /\ (\A n \in 1 .. len : s[n] \in S) /\ k \in 1 .. len /\ len - 1 \in Nat
  <2>1. len \in Nat /\ (\A n \in 1 .. len : s[n] \in S)
    OBVIOUS
  <2> HIDE DEF len
  <2> QED
    BY <2>1 DEF len
<1>2. t = [i \in 1 .. len - 1 |-> s[IF i < k THEN i ELSE i + 1]]
  BY DEF OmitAt
<1>3. \A n \in 1 .. len : K[n] = IF s[n] \in T THEN Append(K[n - 1], s[n]) ELSE K[n - 1]
  BY KeptStep
<1>4. K[0] = <<>>
  BY KeptStep
<1>5. Keep(s, T) = K[len]
  BY DEF Keep
<1>6. t \in Seq(S) /\ Len(t) = len - 1 /\ \A i \in 1 .. len - 1 : t[i] = s[IF i < k THEN i ELSE i + 1]
  <2> HIDE DEF t, len
  <2>1. \A i \in 1 .. len - 1 : (IF i < k THEN i ELSE i + 1) \in 1 .. len
    BY <1>1
  <2>2. \A i \in 1 .. len - 1 : s[IF i < k THEN i ELSE i + 1] \in S
    BY <1>1, <2>1
  <2> QED
    BY <1>1, <1>2, <2>2
<1>7. /\ L[0] = <<>>
      /\ \A n \in 1 .. len - 1 : L[n] = IF t[n] \in T THEN Append(L[n - 1], t[n]) ELSE L[n - 1]
  <2> HIDE DEF t, len
  <2> QED
    BY <1>6, KeptStep
<1>8. Keep(t, T) = L[len - 1]
  <2> HIDE DEF t, len
  <2> QED
    BY <1>6 DEF Keep
<1>9. K[k] = K[k - 1]
  <2> HIDE DEF K, len
  <2> QED
    BY <1>1, <1>3
<1> HIDE DEF K, L, t, len
<1>10. 0 \in W
  <2>1. k - 1 <= 0 => k = 1
    BY <1>1
  <2> QED
    BY <1>4, <1>7, <1>9, <2>1
<1>11. ASSUME NEW n \in Nat, n \in W
       PROVE  n + 1 \in W
  <2> SUFFICES ASSUME n + 1 <= len - 1 PROVE Agree(n + 1)
    OBVIOUS
  <2>1. n + 1 \in 1 .. len - 1 /\ (n + 1) - 1 = n /\ Agree(n)
    BY <1>1, <1>11
  <2>2. L[n + 1] = IF t[n + 1] \in T THEN Append(L[n], t[n + 1]) ELSE L[n]
    BY <1>7, <2>1
  <2>3. CASE n + 1 < k
    <3>1. t[n + 1] = s[n + 1] /\ n + 1 \in 1 .. len /\ n < k
      BY <1>1, <1>6, <2>1, <2>3
    <3>2. K[n + 1] = IF s[n + 1] \in T THEN Append(K[n], s[n + 1]) ELSE K[n]
      BY <1>3, <2>1, <3>1
    <3>3. L[n + 1] = K[n + 1]
      BY <2>1, <2>2, <3>1, <3>2
    <3>4. k - 1 <= n + 1 => n + 1 = k - 1
      BY <1>1, <2>3
    <3>5. n + 1 = k - 1 => (n + 1) + 1 = k
      BY <1>1
    <3> QED
      BY <1>9, <3>3, <3>4, <3>5
  <2>4. CASE ~ (n + 1 < k)
    <3>0. t[n + 1] = s[(n + 1) + 1]
      BY <1>6, <2>1, <2>4
    <3>1. t[n + 1] = s[(n + 1) + 1] /\ (n + 1) + 1 \in 1 .. len /\ ((n + 1) + 1) - 1 = n + 1 /\ k - 1 <= n
      BY <1>1, <2>1, <2>4, <3>0
    <3>2. K[(n + 1) + 1] = IF s[(n + 1) + 1] \in T THEN Append(K[n + 1], s[(n + 1) + 1]) ELSE K[n + 1]
      BY <1>3, <3>1
    <3>3. L[n] = K[n + 1]
      BY <2>1, <3>1
    <3> QED
      BY <2>2, <2>4, <3>1, <3>2, <3>3
  <2> QED
    BY <2>3, <2>4
<1> HIDE DEF W
<1>12. Nat \subseteq W
  BY <1>10, <1>11, NatSetInduction
<1>13. len - 1 \in W /\ len - 1 <= len - 1 /\ k - 1 <= len - 1 /\ (len - 1) + 1 = len
  BY <1>1, <1>12
<1>14. L[len - 1] = K[len]
  BY <1>13 DEF W
<1> QED
  BY <1>5, <1>6, <1>8, <1>14 DEF t

\* The first element, and what is kept of the rest.
LEMMA KeepHead ==
    ASSUME NEW S, NEW s \in Seq(S), s # <<>>, NEW T
    PROVE  /\ Head(s) \notin T => Keep(s, T) = Keep(Tail(s), T)
           /\ Head(s) \in T => /\ Keep(s, T) # <<>>
                               /\ Head(Keep(s, T)) = Head(s)
                               /\ Tail(Keep(s, T)) = Keep(Tail(s), T)
<1> DEFINE t == Tail(s)
           K == Kept(s, T)
           L == Kept(t, T)
           len == Len(s)
           From(n) == /\ Head(s) \notin T => K[n + 1] = L[n]
                      /\ Head(s) \in T => K[n + 1] = <<Head(s)>> \o L[n]
           W == {n \in Nat : n <= len - 1 => From(n)}
<1>1. len \in Nat /\ (\A n \in 1 .. len : s[n] \in S) /\ len # 0 /\ Head(s) = s[1]
  OBVIOUS
<1>2. t \in Seq(S) /\ Len(t) = len - 1 /\ \A n \in 1 .. len - 1 : t[n] = s[n + 1]
  OBVIOUS
<1>3. /\ K[0] = <<>>
      /\ \A n \in 1 .. len : K[n] = IF s[n] \in T THEN Append(K[n - 1], s[n]) ELSE K[n - 1]
  BY KeptStep
<1>4. Keep(s, T) = K[len]
  BY DEF Keep
<1> HIDE DEF t, len
<1>5. /\ L[0] = <<>>
      /\ \A n \in 1 .. len - 1 : L[n] = IF t[n] \in T THEN Append(L[n - 1], t[n]) ELSE L[n - 1]
  BY <1>2, KeptStep
<1>6. \A n \in 0 .. len - 1 : L[n] \in Seq(S)
  BY <1>2, KeptElements
<1>7. Keep(t, T) = L[len - 1]
  BY <1>2 DEF Keep
<1> HIDE DEF K, L
<1>8. Head(s) \in S
  BY <1>1
<1>9. 0 \in W
  <2>1. 1 \in 1 .. len /\ 1 - 1 = 0 /\ 0 + 1 = 1
    BY <1>1
  <2>2. K[1] = IF s[1] \in T THEN Append(K[0], s[1]) ELSE K[0]
    BY <1>3, <2>1
  <2>3. Append(<<>>, s[1]) = <<s[1]>> /\ <<s[1]>> \o <<>> = <<s[1]>>
    BY <1>1, <1>8
  <2>4. From(0)
    BY <1>1, <1>3, <1>5, <2>1, <2>2, <2>3
  <2> QED
    BY <2>4
<1>10. ASSUME NEW n \in Nat, n \in W
       PROVE  n + 1 \in W
  <2> SUFFICES ASSUME n + 1 <= len - 1 PROVE From(n + 1)
    OBVIOUS
  <2>1. /\ n + 1 \in 1 .. len - 1 /\ (n + 1) - 1 = n /\ n \in 0 .. len - 1
        /\ (n + 1) + 1 \in 1 .. len /\ ((n + 1) + 1) - 1 = n + 1
    BY <1>1
  <2>2. From(n)
    BY <1>1, <1>10, <2>1
  <2> DEFINE x == t[n + 1]
             e == L[n]
  <2>3. x = s[(n + 1) + 1] /\ x \in S /\ e \in Seq(S)
    BY <1>1, <1>2, <1>6, <2>1
  <2>4. L[n + 1] = IF x \in T THEN Append(e, x) ELSE e
    BY <1>5, <2>1
  <2>5. K[(n + 1) + 1] = IF x \in T THEN Append(K[n + 1], x) ELSE K[n + 1]
    BY <1>3, <2>1, <2>3
  <2>6. /\ Head(s) \notin T => K[n + 1] = e
        /\ Head(s) \in T => K[n + 1] = <<Head(s)>> \o e
    BY <2>2
  <2>7. <<Head(s)>> \o Append(e, x) = Append(<<Head(s)>> \o e, x)
    <3> HIDE DEF e, x
    <3> QED
      BY <1>8, <2>3
  <2>8. /\ Head(s) \notin T => K[(n + 1) + 1] = L[n + 1]
        /\ Head(s) \in T => K[(n + 1) + 1] = <<Head(s)>> \o L[n + 1]
    <3> HIDE DEF e, x
    <3>1. CASE x \in T
      <4>1. L[n + 1] = Append(e, x) /\ K[(n + 1) + 1] = Append(K[n + 1], x)
        BY <2>4, <2>5, <3>1, Zenon
      <4> QED
        BY <2>6, <2>7, <4>1, Zenon
    <3>2. CASE x \notin T
      <4>1. L[n + 1] = e /\ K[(n + 1) + 1] = K[n + 1]
        BY <2>4, <2>5, <3>2, Zenon
      <4> QED
        BY <2>6, <4>1, Zenon
    <3> QED
      BY <3>1, <3>2
  <2> QED
    BY <2>8
  <1> HIDE DEF W
<1>11. Nat \subseteq W
  BY <1>9, <1>10, NatSetInduction
<1>12. len - 1 \in W /\ len - 1 <= len - 1 /\ (len - 1) + 1 = len /\ len - 1 \in 0 .. len - 1
  BY <1>1, <1>11
<1>13. /\ Head(s) \notin T => K[len] = L[len - 1]
       /\ Head(s) \in T => K[len] = <<Head(s)>> \o L[len - 1]
  BY <1>12 DEF W
<1>14. ASSUME NEW x \in S, NEW e \in Seq(S)
       PROVE  <<x>> \o e # <<>> /\ Head(<<x>> \o e) = x /\ Tail(<<x>> \o e) = e
  OBVIOUS
<1>15. L[len - 1] \in Seq(S)
  BY <1>6, <1>12
<1>16. Keep(t, T) \in Seq(S) /\ (Head(s) \notin T => Keep(s, T) = Keep(t, T))
       /\ (Head(s) \in T => Keep(s, T) = <<Head(s)>> \o Keep(t, T))
  BY <1>4, <1>7, <1>13, <1>15, Zenon
<1>17. CASE Head(s) \in T
  <2>1. /\ <<Head(s)>> \o Keep(t, T) # <<>> /\ Head(<<Head(s)>> \o Keep(t, T)) = Head(s)
        /\ Tail(<<Head(s)>> \o Keep(t, T)) = Keep(t, T)
    BY <1>8, <1>14, <1>16, Zenon
  <2>2. Keep(s, T) = <<Head(s)>> \o Keep(t, T)
    BY <1>16, <1>17, Zenon
  <2>3. Keep(s, T) # <<>> /\ Head(Keep(s, T)) = Head(s) /\ Tail(Keep(s, T)) = Keep(t, T)
    BY <2>1, <2>2, Zenon
  <2> QED
    BY <1>17, <2>3, Zenon DEF t
<1>18. CASE Head(s) \notin T
  BY <1>16, <1>18, Zenon DEF t
<1> QED
  BY <1>17, <1>18, Zenon

-----------------------------------------------------------------------------
(* The queue. *)

\* NewQueue (mem.c): the empty queue.
THEOREM QueueInitEmpty ==
    ASSUME NEW S, NEW cap \in Nat \ {0}
    PROVE  QueueInit(cap) \in Queues(S, cap) /\ Contents(cap, QueueInit(cap)) = <<>>
<1>1. [i \in 0 .. cap - 1 |-> None] \in [0 .. cap - 1 -> S \cup {None}]
  OBVIOUS
<1>2. QueueInit(cap) \in Queues(S, cap)
  BY <1>1 DEF QueueInit, Queues
<1>3. Contents(cap, QueueInit(cap)) = <<>>
  BY DEF Contents, QueueInit
<1> QED
  BY <1>2, <1>3

\* The contents of a queue are a sequence of as many elements as it counts.
LEMMA ContentsSeq ==
    ASSUME NEW S, NEW cap \in Nat \ {0}, NEW q \in Queues(S, cap)
    PROVE  /\ Contents(cap, q) \in Seq(S \cup {None})
           /\ Len(Contents(cap, q)) = q.size
<1>1. q.base \in 0 .. cap - 1 /\ q.size \in 0 .. cap /\ q.data \in [0 .. cap - 1 -> S \cup {None}]
  BY DEF Queues
<1>2. ASSUME NEW i \in 1 .. q.size
      PROVE  q.data[AddIndex(cap, q.base, i - 1)] \in S \cup {None}
  <2>1. i - 1 \in 0 .. cap
    BY <1>1
  <2>2. AddIndex(cap, q.base, i - 1) \in 0 .. cap - 1
    BY <1>1, <2>1 DEF AddIndex
  <2> QED
    BY <1>1, <2>2
<1>3. Contents(cap, q) \in [1 .. q.size -> S \cup {None}]
  BY <1>2 DEF Contents
<1>4. q.size \in Nat
  BY <1>1
<1> QED
  BY <1>3, <1>4

\* QueuePush (mem.c), on a queue that is not full: the item is appended, the
\* others stay, and nothing is written outside of the array.
THEOREM QueuePushAppends ==
    ASSUME NEW S, NEW cap \in Nat \ {0}, NEW q \in Queues(S, cap), NEW item \in S,
           ~QueueFull(cap, q)
    PROVE  /\ QueuePush(cap, q, item) \in Queues(S, cap)
           /\ Contents(cap, QueuePush(cap, q, item)) = Append(Contents(cap, q), item)
<1> DEFINE at == AddIndex(cap, q.base, q.size)
           new == QueuePush(cap, q, item)
<1>1. q.base \in 0 .. cap - 1 /\ q.size \in 0 .. cap - 1 /\ q.data \in [0 .. cap - 1 -> S \cup {None}]
  BY DEF Queues, QueueFull
<1>2. at \in 0 .. cap - 1
  BY <1>1 DEF AddIndex
<1> HIDE DEF at
<1>3. /\ new = [base |-> q.base, size |-> q.size + 1, data |-> [q.data EXCEPT ![at] = item]]
      /\ new.base = q.base /\ new.size = q.size + 1
      /\ new.data = [q.data EXCEPT ![at] = item]
  <2>1. q = [base |-> q.base, size |-> q.size, data |-> q.data]
    BY DEF Queues
  <2>2. new = [[q EXCEPT !.data[at] = item] EXCEPT !.size = q.size + 1]
    BY DEF QueuePush, at
  <2>3. [q EXCEPT !.data[at] = item]
        = [base |-> q.base, size |-> q.size, data |-> [q.data EXCEPT ![at] = item]]
    BY <2>1
  <2>4. new = [base |-> q.base, size |-> q.size + 1, data |-> [q.data EXCEPT ![at] = item]]
    BY <2>2, <2>3
  <2> QED
    BY <2>4
<1> HIDE DEF new
<1>4. new \in Queues(S, cap)
  <2>1. [q.data EXCEPT ![at] = item] \in [0 .. cap - 1 -> S \cup {None}]
    BY <1>1, <1>2
  <2>2. q.size + 1 \in 0 .. cap
    BY <1>1
  <2> QED
    BY <1>1, <1>3, <2>1, <2>2 DEF Queues
<1>5. Contents(cap, new) \in Seq(S \cup {None}) /\ Len(Contents(cap, new)) = q.size + 1
  <2>1. Contents(cap, new) \in Seq(S \cup {None}) /\ Len(Contents(cap, new)) = new.size
    BY <1>4, ContentsSeq
  <2> QED
    BY <1>3, <2>1
<1>6. Contents(cap, q) \in Seq(S \cup {None}) /\ Len(Contents(cap, q)) = q.size
  BY ContentsSeq
<1>7. ASSUME NEW i \in 1 .. q.size + 1
      PROVE  Contents(cap, new)[i] = Append(Contents(cap, q), item)[i]
  <2>1. Contents(cap, new)[i] = new.data[AddIndex(cap, q.base, i - 1)]
    BY <1>3 DEF Contents
  <2>2. CASE i = q.size + 1
    <3>1. AddIndex(cap, q.base, i - 1) = at
      BY <1>1, <2>2 DEF at
    <3>2. new.data[at] = item
      BY <1>1, <1>2, <1>3
    <3>3. Append(Contents(cap, q), item)[i] = item
      BY <1>6, <2>2
    <3> QED
      BY <2>1, <3>1, <3>2, <3>3
  <2>3. CASE i # q.size + 1
    <3>1. i \in 1 .. q.size /\ i - 1 \in 0 .. cap - 1 /\ i - 1 # q.size
      BY <1>1, <2>3
    <3>2. AddIndex(cap, q.base, i - 1) # at
      BY <1>1, <3>1 DEF at, AddIndex
    <3>3. AddIndex(cap, q.base, i - 1) \in 0 .. cap - 1
      BY <1>1, <3>1 DEF AddIndex
    <3>4. new.data[AddIndex(cap, q.base, i - 1)] = q.data[AddIndex(cap, q.base, i - 1)]
      BY <1>1, <1>3, <3>2, <3>3
    <3>5. Contents(cap, q)[i] = q.data[AddIndex(cap, q.base, i - 1)]
      BY <3>1 DEF Contents
    <3>6. Append(Contents(cap, q), item)[i] = Contents(cap, q)[i]
      BY <1>6, <3>1
    <3> QED
      BY <2>1, <3>4, <3>5, <3>6
  <2> QED
    BY <2>2, <2>3
<1>8. Append(Contents(cap, q), item) \in Seq(S \cup {None} \cup {item})
      /\ Len(Append(Contents(cap, q), item)) = q.size + 1
  BY <1>6
<1>9. Contents(cap, new) = Append(Contents(cap, q), item)
  BY <1>5, <1>7, <1>8, SeqEqual, SMT
<1> QED
  BY <1>4, <1>9 DEF new

\* QueuePop (mem.c), on a queue that is not empty: it returns the oldest item,
\* which is the head, and leaves the rest in its order.
THEOREM QueuePopTakesHead ==
    ASSUME NEW S, NEW cap \in Nat \ {0}, NEW q \in Queues(S, cap), q.size # 0
    PROVE  /\ QueuePop(cap, q) \in Queues(S, cap)
           /\ Oldest(q) = Head(Contents(cap, q))
           /\ Contents(cap, QueuePop(cap, q)) = Tail(Contents(cap, q))
<1> DEFINE new == QueuePop(cap, q)
<1>1. q.base \in 0 .. cap - 1 /\ q.size \in 1 .. cap /\ q.data \in [0 .. cap - 1 -> S \cup {None}]
  BY DEF Queues
<1>2. AddIndex(cap, q.base, 1) \in 0 .. cap - 1
  BY <1>1 DEF AddIndex
<1>3. /\ new = [base |-> AddIndex(cap, q.base, 1), size |-> q.size - 1,
                data |-> [q.data EXCEPT ![q.base] = None]]
      /\ new.base = AddIndex(cap, q.base, 1) /\ new.size = q.size - 1
      /\ new.data = [q.data EXCEPT ![q.base] = None]
  <2>1. q = [base |-> q.base, size |-> q.size, data |-> q.data]
    BY DEF Queues
  <2>2. new = [base |-> AddIndex(cap, q.base, 1), size |-> q.size - 1,
               data |-> [q.data EXCEPT ![q.base] = None]]
    <3> DEFINE next == AddIndex(cap, q.base, 1)
               moved == [q EXCEPT !.base = next]
               shorter == [moved EXCEPT !.size = q.size - 1]
    <3> HIDE DEF next
    <3>1. moved = [base |-> next, size |-> q.size, data |-> q.data]
      BY <2>1
    <3>2. new = [shorter EXCEPT !.data[q.base] = None]
      BY DEF QueuePop, next
    <3> HIDE DEF moved
    <3>3. shorter = [base |-> next, size |-> q.size - 1, data |-> q.data]
      BY <3>1
    <3> HIDE DEF shorter
    <3>4. new = [base |-> next, size |-> q.size - 1, data |-> [q.data EXCEPT ![q.base] = None]]
      BY <3>2, <3>3
    <3> QED
      BY <3>4 DEF next
  <2> QED
    BY <2>2
<1> HIDE DEF new
<1>4. new \in Queues(S, cap)
  <2>1. [q.data EXCEPT ![q.base] = None] \in [0 .. cap - 1 -> S \cup {None}]
    BY <1>1
  <2>2. q.size - 1 \in 0 .. cap
    BY <1>1
  <2> QED
    BY <1>2, <1>3, <2>1, <2>2 DEF Queues
<1>5. Contents(cap, q) \in Seq(S \cup {None}) /\ Len(Contents(cap, q)) = q.size
  BY ContentsSeq
<1>6. Contents(cap, new) \in Seq(S \cup {None}) /\ Len(Contents(cap, new)) = q.size - 1
  <2>1. Contents(cap, new) \in Seq(S \cup {None}) /\ Len(Contents(cap, new)) = new.size
    BY <1>4, ContentsSeq
  <2> QED
    BY <1>3, <2>1
<1>7. AddIndex(cap, q.base, 0) = q.base
  BY <1>1 DEF AddIndex
<1>8. Oldest(q) = Head(Contents(cap, q))
  <2>1. Contents(cap, q)[1] = q.data[AddIndex(cap, q.base, 0)]
    BY <1>1 DEF Contents
  <2> QED
    BY <1>1, <1>5, <1>7, <2>1 DEF Oldest
<1>9. ASSUME NEW i \in 1 .. q.size - 1
      PROVE  Contents(cap, new)[i] = Tail(Contents(cap, q))[i]
  <2>1. i \in 1 .. new.size /\ i - 1 \in 0 .. cap - 1 /\ i + 1 \in 1 .. q.size
        /\ i \in 0 .. cap - 1 /\ i # 0
    BY <1>1, <1>3
  <2>2. Contents(cap, new)[i] = new.data[AddIndex(cap, AddIndex(cap, q.base, 1), i - 1)]
    BY <1>3, <2>1 DEF Contents
  <2>3. AddIndex(cap, AddIndex(cap, q.base, 1), i - 1) = AddIndex(cap, q.base, i)
    <3>1. CASE q.base + 1 >= cap
      <4>1. AddIndex(cap, q.base, 1) = 0 /\ q.base = cap - 1
        BY <1>1, <3>1 DEF AddIndex
      <4>2. AddIndex(cap, 0, i - 1) = i - 1
        BY <2>1 DEF AddIndex
      <4>3. AddIndex(cap, q.base, i) = i - 1
        BY <2>1, <4>1 DEF AddIndex
      <4> QED
        BY <4>1, <4>2, <4>3
    <3>2. CASE q.base + 1 < cap
      <4>1. AddIndex(cap, q.base, 1) = q.base + 1
        BY <1>1, <3>2 DEF AddIndex
      <4>2. AddIndex(cap, q.base + 1, i - 1) = AddIndex(cap, q.base, i)
        BY <1>1, <2>1, <3>2 DEF AddIndex
      <4> QED
        BY <4>1, <4>2
    <3> QED
      BY <1>1, <3>1, <3>2
  <2>4. AddIndex(cap, q.base, i) # q.base /\ AddIndex(cap, q.base, i) \in 0 .. cap - 1
    BY <1>1, <2>1 DEF AddIndex
  <2>5. new.data[AddIndex(cap, q.base, i)] = q.data[AddIndex(cap, q.base, i)]
    BY <1>1, <1>3, <2>4
  <2>6. Contents(cap, q)[i + 1] = q.data[AddIndex(cap, q.base, i)]
    <3>1. (i + 1) - 1 = i
      BY <2>1
    <3> QED
      BY <2>1, <3>1 DEF Contents
  <2>7. Tail(Contents(cap, q))[i] = Contents(cap, q)[i + 1]
    BY <1>1, <1>5, <2>1
  <2> QED
    BY <2>2, <2>3, <2>5, <2>6, <2>7
<1>10. Tail(Contents(cap, q)) \in Seq(S \cup {None}) /\ Len(Tail(Contents(cap, q))) = q.size - 1
  BY <1>1, <1>5
<1>11. Contents(cap, new) = Tail(Contents(cap, q))
  BY <1>1, <1>6, <1>9, <1>10
<1> QED
  BY <1>4, <1>8, <1>11 DEF new

\* The elements of a queue.
Elems(cap, q) == {Contents(cap, q)[i] : i \in 1 .. q.size}

\* A queue that holds elements of S, each once, and None in its other slots.
QueueOK(S, cap, q) ==
  /\ q \in Queues(S, cap)
  /\ \A i \in 1 .. q.size : Contents(cap, q)[i] \in S
  /\ \A i, j \in 1 .. q.size : Contents(cap, q)[i] = Contents(cap, q)[j] => i = j
  /\ \A k \in 0 .. cap - 1 :
       (\A i \in 1 .. q.size : AddIndex(cap, q.base, i - 1) # k) => q.data[k] = None

\* What the operations do to the elements.
LEMMA EmptyQueue ==
    ASSUME NEW S, NEW cap \in Nat \ {0}
    PROVE  QueueOK(S, cap, QueueInit(cap)) /\ Elems(cap, QueueInit(cap)) = {}
<1>1. QueueInit(cap) \in Queues(S, cap)
  BY QueueInitEmpty
<1>2. /\ QueueInit(cap).size = 0
      /\ \A k \in 0 .. cap - 1 : QueueInit(cap).data[k] = None
  BY DEF QueueInit
<1> QED
  BY <1>1, <1>2 DEF QueueOK, Elems

\* The size of a queue is zero when it has no element.
LEMMA ElemsOfQueue ==
    ASSUME NEW S, NEW cap \in Nat \ {0}, NEW q, QueueOK(S, cap, q)
    PROVE  /\ q \in Queues(S, cap) /\ q.size \in 0 .. cap
           /\ Elems(cap, q) \subseteq S
           /\ (q.size > 0) <=> (\E x : x \in Elems(cap, q))
<1>1. q \in Queues(S, cap) /\ q.size \in 0 .. cap
  BY DEF QueueOK, Queues
<1>2. q.size # 0 => 1 \in 1 .. q.size
  BY <1>1
<1> QED
  BY <1>1, <1>2 DEF QueueOK, Elems

LEMMA PushElems ==
    ASSUME NEW S, NEW cap \in Nat \ {0}, NEW q, QueueOK(S, cap, q), NEW item \in S,
           ~QueueFull(cap, q), item \notin Elems(cap, q)
    PROVE  /\ QueueOK(S, cap, QueuePush(cap, q, item))
           /\ Elems(cap, QueuePush(cap, q, item)) = Elems(cap, q) \cup {item}
           /\ QueuePush(cap, q, item).size = q.size + 1
<1> DEFINE new == QueuePush(cap, q, item)
           c == Contents(cap, q)
           d == Contents(cap, new)
           at == AddIndex(cap, q.base, q.size)
<1>1. /\ q \in Queues(S, cap) /\ q.base \in 0 .. cap - 1 /\ q.size \in 0 .. cap - 1
      /\ q.data \in [0 .. cap - 1 -> S \cup {None}]
  BY DEF QueueOK, Queues, QueueFull
<1>2. new \in Queues(S, cap) /\ d = Append(c, item)
  BY <1>1, QueuePushAppends
<1>3. new.base = q.base /\ new.size = q.size + 1 /\ new.data = [q.data EXCEPT ![at] = item]
  BY <1>1 DEF QueuePush, Queues
<1>4. c \in Seq(S \cup {None}) /\ Len(c) = q.size
  BY <1>1, ContentsSeq
<1>5. /\ \A i \in 1 .. q.size : c[i] \in S /\ c[i] # item
      /\ \A i, j \in 1 .. q.size : c[i] = c[j] => i = j
  BY DEF QueueOK, Elems
<1> HIDE DEF new, c, d
<1>6. d[q.size + 1] = item /\ \A i \in 1 .. q.size : d[i] = c[i]
  BY <1>2, <1>4, <1>1
<1>7. \A i \in 1 .. new.size : i \in 1 .. q.size \/ i = q.size + 1
  BY <1>1, <1>3
<1>8. \A i \in 1 .. new.size : d[i] \in S
  BY <1>5, <1>6, <1>7
<1>9. \A i, j \in 1 .. new.size : d[i] = d[j] => i = j
  BY <1>5, <1>6, <1>7
<1>10. ASSUME NEW k \in 0 .. cap - 1,
              \A i \in 1 .. new.size : AddIndex(cap, new.base, i - 1) # k
       PROVE  new.data[k] = None
  <2>1. \A i \in 1 .. q.size : AddIndex(cap, q.base, i - 1) # k
    BY <1>1, <1>3, <1>10
  <2>2. q.size + 1 \in 1 .. new.size /\ (q.size + 1) - 1 = q.size
    BY <1>1, <1>3
  <2>3. k # at
    BY <1>3, <1>10, <2>2
  <2>4. q.data[k] = None
    BY <2>1 DEF QueueOK
  <2> QED
    BY <1>1, <1>3, <2>3, <2>4
<1>11. {d[i] : i \in 1 .. new.size} = {c[i] : i \in 1 .. q.size} \cup {item}
  <2>1. q.size + 1 \in 1 .. new.size /\ \A i \in 1 .. q.size : i \in 1 .. new.size
    BY <1>1, <1>3
  <2> QED
    BY <2>1, <1>6, <1>7
<1> QED
  BY <1>2, <1>3, <1>8, <1>9, <1>10, <1>11 DEF QueueOK, Elems, new, c, d

LEMMA PopElems ==
    ASSUME NEW S, NEW cap \in Nat \ {0}, NEW q, QueueOK(S, cap, q), q.size > 0
    PROVE  /\ QueueOK(S, cap, QueuePop(cap, q))
           /\ Oldest(q) \in Elems(cap, q)
           /\ Elems(cap, QueuePop(cap, q)) = Elems(cap, q) \ {Oldest(q)}
           /\ QueuePop(cap, q).size = q.size - 1
<1> DEFINE new == QueuePop(cap, q)
           c == Contents(cap, q)
           d == Contents(cap, new)
<1>1. /\ q \in Queues(S, cap) /\ q.base \in 0 .. cap - 1 /\ q.size \in 1 .. cap
      /\ q.data \in [0 .. cap - 1 -> S \cup {None}]
  BY DEF QueueOK, Queues
<1>2. new \in Queues(S, cap) /\ d = Tail(c) /\ Oldest(q) = Head(c)
  BY <1>1, QueuePopTakesHead
<1>3. /\ new.base = AddIndex(cap, q.base, 1) /\ new.size = q.size - 1
      /\ new.data = [q.data EXCEPT ![q.base] = None]
  BY <1>1 DEF QueuePop, Queues
<1>4. c \in Seq(S \cup {None}) /\ Len(c) = q.size
  BY <1>1, ContentsSeq
<1>5. /\ \A i \in 1 .. q.size : c[i] \in S
      /\ \A i, j \in 1 .. q.size : c[i] = c[j] => i = j
  BY DEF QueueOK
<1> HIDE DEF new, c, d
<1>6. Oldest(q) = c[1] /\ \A i \in 1 .. new.size : d[i] = c[i + 1]
  BY <1>1, <1>2, <1>3, <1>4
<1>7. \A i \in 1 .. new.size : i + 1 \in 1 .. q.size /\ i + 1 # 1
  BY <1>1, <1>3
<1>8. \A i \in 1 .. new.size : d[i] \in S
  BY <1>5, <1>6, <1>7
<1>9. ASSUME NEW i \in 1 .. new.size, NEW j \in 1 .. new.size, d[i] = d[j]
      PROVE  i = j
  <2>1. i + 1 = j + 1
    BY <1>5, <1>6, <1>7, <1>9
  <2> QED
    BY <2>1
<1>10. ASSUME NEW k \in 0 .. cap - 1,
              \A i \in 1 .. new.size : AddIndex(cap, new.base, i - 1) # k
       PROVE  new.data[k] = None
  <2>1. CASE k = q.base
    BY <1>1, <1>3, <2>1
  <2>2. CASE k # q.base
    <3>1. ASSUME NEW i \in 1 .. q.size
          PROVE  AddIndex(cap, q.base, i - 1) # k
      <4>1. CASE i = 1
        BY <1>1, <2>2, <4>1 DEF AddIndex
      <4>2. CASE i # 1
        <5>1. i - 1 \in 1 .. new.size
          BY <1>1, <1>3, <4>2
        <5>2. AddIndex(cap, new.base, (i - 1) - 1) = AddIndex(cap, q.base, i - 1)
          <6>1. CASE q.base + 1 >= cap
            <7>1. new.base = 0 /\ q.base = cap - 1
              BY <1>1, <1>3, <6>1 DEF AddIndex
            <7>2. AddIndex(cap, 0, (i - 1) - 1) = (i - 1) - 1
              BY <1>1, <4>2 DEF AddIndex
            <7>3. AddIndex(cap, q.base, i - 1) = (i - 1) - 1
              BY <1>1, <4>2, <7>1 DEF AddIndex
            <7> QED
              BY <7>1, <7>2, <7>3
          <6>2. CASE q.base + 1 < cap
            <7>1. new.base = q.base + 1
              BY <1>1, <1>3, <6>2 DEF AddIndex
            <7>2. AddIndex(cap, q.base + 1, (i - 1) - 1) = AddIndex(cap, q.base, i - 1)
              BY <1>1, <4>2, <6>2 DEF AddIndex
            <7> QED
              BY <7>1, <7>2
          <6> QED
            BY <1>1, <6>1, <6>2
        <5> QED
          BY <1>10, <5>1, <5>2
      <4> QED
        BY <4>1, <4>2
    <3>2. q.data[k] = None
      BY <3>1 DEF QueueOK
    <3> QED
      BY <1>1, <1>3, <2>2, <3>2
  <2> QED
    BY <2>1, <2>2
<1>11. {d[i] : i \in 1 .. new.size} = {c[i] : i \in 1 .. q.size} \ {Oldest(q)}
  <2>1. 1 \in 1 .. q.size
    BY <1>1
  <2>2. ASSUME NEW i \in 1 .. q.size, c[i] # c[1]
        PROVE  i - 1 \in 1 .. new.size /\ d[i - 1] = c[i]
    <3>1. i - 1 \in 1 .. new.size /\ (i - 1) + 1 = i
      BY <1>1, <1>3, <2>2
    <3> QED
      BY <3>1, <1>6
  <2>3. \A i \in 1 .. new.size : d[i] = c[i + 1] /\ c[i + 1] # c[1]
    BY <2>1, <1>5, <1>6, <1>7
  <2> QED
    BY <2>2, <2>3, <1>6, <1>7
<1>12. Oldest(q) \in {c[i] : i \in 1 .. q.size}
  BY <1>1, <1>6
<1> QED
  BY <1>2, <1>3, <1>8, <1>9, <1>10, <1>11, <1>12 DEF QueueOK, Elems, new, c, d

\* Place k is the only one at which q may hold the item.
OnlyAt(cap, q, item, k) ==
  \A i \in 1 .. q.size : Contents(cap, q)[i] = item <=> i = k

\* The loop of QueueExtract after n turns, with the item at place k: it kept the
\* elements before n but the one at k, closed up.
Extracting(S, cap, q, k, n, s) ==
  LET m == IF n < k THEN n ELSE n - 1
  IN  /\ s \in [src : 0 .. cap - 1, dest : 0 .. cap - 1, size : Int,
                kept : [0 .. cap - 1 -> S \cup {None}]]
      /\ s.src = AddIndex(cap, q.base, n)
      /\ s.dest = AddIndex(cap, q.base, m)
      /\ s.size = q.size - (n - m)
      /\ \A i \in 1 .. m : s.kept[AddIndex(cap, q.base, i - 1)]
                           = Contents(cap, q)[IF i < k THEN i ELSE i + 1]
      /\ \A j \in 0 .. cap - 1 :
           (\A i \in 1 .. m : AddIndex(cap, q.base, i - 1) # j) => s.kept[j] = None

\* Two small steps of QUEUE_ADD_INDEX are one.
LEMMA AddIndexNext ==
    ASSUME NEW cap \in Nat \ {0}, NEW b \in 0 .. cap - 1, NEW i \in 0 .. cap - 1
    PROVE  /\ AddIndex(cap, b, i) \in 0 .. cap - 1
           /\ AddIndex(cap, b, i + 1) \in 0 .. cap - 1
           /\ AddIndex(cap, AddIndex(cap, b, i), 1) = AddIndex(cap, b, i + 1)
<1>1. AddIndex(cap, b, i) \in 0 .. cap - 1
  BY DEF AddIndex
<1>2. AddIndex(cap, b, i + 1) \in 0 .. cap - 1
  BY DEF AddIndex
<1>3. CASE b + i >= cap
  <2>1. AddIndex(cap, b, i) = b + i - cap /\ AddIndex(cap, b, i + 1) = b + i - cap + 1
    BY <1>3 DEF AddIndex
  <2>2. AddIndex(cap, b + i - cap, 1) = b + i - cap + 1
    BY <1>3 DEF AddIndex
  <2> QED
    BY <1>1, <1>2, <2>1, <2>2
<1>4. CASE b + i < cap
  <2>1. AddIndex(cap, b, i) = b + i
    BY <1>4 DEF AddIndex
  <2>2. AddIndex(cap, b + i, 1) = AddIndex(cap, b, i + 1)
    BY <1>4 DEF AddIndex
  <2> QED
    BY <1>1, <1>2, <2>1, <2>2
<1> QED
  BY <1>3, <1>4

\* Different offsets reach different slots.
LEMMA AddIndexDistinct ==
    ASSUME NEW cap \in Nat \ {0}, NEW b \in 0 .. cap - 1,
           NEW i \in 0 .. cap - 1, NEW j \in 0 .. cap - 1,
           AddIndex(cap, b, i) = AddIndex(cap, b, j)
    PROVE  i = j
BY DEF AddIndex

\* A turn of the loop keeps its invariant.
LEMMA ExtractTurn ==
    ASSUME NEW S, NEW cap \in Nat \ {0}, NEW q, QueueOK(S, cap, q), NEW item,
           NEW k \in 1 .. q.size + 1,
           OnlyAt(cap, q, item, k),
           NEW n \in 0 .. q.size - 1, NEW s, Extracting(S, cap, q, k, n, s)
    PROVE  Extracting(S, cap, q, k, n + 1, ExtractStep(cap, item, s, q.data))
<1> DEFINE b == q.base
           size == q.size
           c == Contents(cap, q)
           m == IF n < k THEN n ELSE n - 1
           new == ExtractStep(cap, item, s, q.data)
<1>1. /\ q \in Queues(S, cap) /\ b \in 0 .. cap - 1 /\ size \in 0 .. cap
      /\ q.data \in [0 .. cap - 1 -> S \cup {None}]
  BY DEF QueueOK, Queues
<1>2. /\ s \in [src : 0 .. cap - 1, dest : 0 .. cap - 1, size : Int,
                kept : [0 .. cap - 1 -> S \cup {None}]]
      /\ s.src = AddIndex(cap, b, n) /\ s.dest = AddIndex(cap, b, m)
      /\ s.size = size - (n - m)
      /\ \A i \in 1 .. m : s.kept[AddIndex(cap, b, i - 1)] = c[IF i < k THEN i ELSE i + 1]
      /\ \A j \in 0 .. cap - 1 :
           (\A i \in 1 .. m : AddIndex(cap, b, i - 1) # j) => s.kept[j] = None
  BY DEF Extracting
<1>3. n \in 0 .. cap - 1 /\ m \in 0 .. n /\ m \in 0 .. cap - 1 /\ n + 1 \in 1 .. size
      /\ (n + 1) - 1 = n
  BY <1>1
<1>4. q.data[s.src] = c[n + 1]
  BY <1>2, <1>3 DEF Contents
<1>5. c[n + 1] = item <=> n + 1 = k
  BY <1>3 DEF OnlyAt
<1>11. m = (IF n < k THEN n ELSE n - 1)
  OBVIOUS
<1> HIDE DEF m
<1>12. b \in 0 .. cap - 1 /\ m \in 0 .. n
  BY <1>1, <1>3
<1>13. s.src = AddIndex(cap, b, n) /\ s.dest = AddIndex(cap, b, m) /\ s.size = size - (n - m)
       /\ s.size \in Int
  BY <1>2
<1>14. size \in Nat
  BY <1>1
<1> HIDE DEF b, size
<1>6. AddIndex(cap, s.src, 1) = AddIndex(cap, b, n + 1) /\ AddIndex(cap, b, n + 1) \in 0 .. cap - 1
  BY <1>3, <1>12, <1>13, AddIndexNext
<1>7. AddIndex(cap, s.dest, 1) = AddIndex(cap, b, m + 1) /\ AddIndex(cap, b, m + 1) \in 0 .. cap - 1
  BY <1>3, <1>12, <1>13, AddIndexNext
<1>8. s = [src |-> s.src, dest |-> s.dest, size |-> s.size, kept |-> s.kept]
  BY <1>2
<1>9. CASE n + 1 = k
  <2>1. new = [s EXCEPT !.size = s.size - 1, !.src = AddIndex(cap, s.src, 1)]
    BY <1>4, <1>5, <1>9 DEF ExtractStep
  <2>2. new = [src |-> AddIndex(cap, b, n + 1), dest |-> s.dest, size |-> s.size - 1, kept |-> s.kept]
    BY <1>6, <1>8, <2>1
  <2>3. m = n /\ (IF n + 1 < k THEN n + 1 ELSE (n + 1) - 1) = m
    BY <1>3, <1>9, <1>11
  <2> HIDE DEF new, c, m
  <2>4. /\ new.src = AddIndex(cap, b, n + 1) /\ new.dest = s.dest /\ new.size = s.size - 1
        /\ new.kept = s.kept
        /\ new \in [src : 0 .. cap - 1, dest : 0 .. cap - 1, size : Int,
                    kept : [0 .. cap - 1 -> S \cup {None}]]
    BY <2>2, <1>2, <1>6
  <2>5. new.size = size - ((n + 1) - m)
    <3>1. new.size = s.size - 1
      BY <2>4
    <3>2. n \in Nat /\ m \in Nat
      BY <1>3, <1>12
    <3> QED
      BY <1>13, <1>14, <3>1, <3>2
  <2> QED
    BY <1>2, <2>3, <2>4, <2>5 DEF Extracting, new, c, b, size
<1>10. CASE n + 1 # k
  <2>1. new = [s EXCEPT !.dest = AddIndex(cap, s.dest, 1), !.src = AddIndex(cap, s.src, 1),
                        !.kept = [s.kept EXCEPT ![s.dest] = q.data[s.src]]]
    BY <1>4, <1>5, <1>10 DEF ExtractStep
  <2> DEFINE kept == [s.kept EXCEPT ![s.dest] = c[n + 1]]
  <2>2. new = [src |-> AddIndex(cap, b, n + 1), dest |-> AddIndex(cap, b, m + 1),
               size |-> s.size, kept |-> kept]
    BY <1>4, <1>6, <1>7, <1>8, <2>1
  <2>3. c[n + 1] \in S
    BY <1>3 DEF QueueOK, size
  <2>4. (IF n + 1 < k THEN n + 1 ELSE (n + 1) - 1) = m + 1
    BY <1>3, <1>10, <1>11
  <2>5. c[n + 1] = c[IF m + 1 < k THEN m + 1 ELSE (m + 1) + 1]
    BY <1>3, <1>10, <1>11
  <2> HIDE DEF new, c, m
  <2>6. kept \in [0 .. cap - 1 -> S \cup {None}]
    BY <1>2, <2>3
  <2>7. /\ new.src = AddIndex(cap, b, n + 1) /\ new.dest = AddIndex(cap, b, m + 1)
        /\ new.size = s.size /\ new.kept = kept
        /\ new \in [src : 0 .. cap - 1, dest : 0 .. cap - 1, size : Int,
                    kept : [0 .. cap - 1 -> S \cup {None}]]
    BY <2>2, <2>6, <1>2, <1>6, <1>7
  <2>8. new.size = size - ((n + 1) - (m + 1))
    BY <1>3, <1>12, <1>13, <1>14, <2>7
  <2>9. ASSUME NEW i \in 1 .. m + 1
        PROVE  kept[AddIndex(cap, b, i - 1)] = c[IF i < k THEN i ELSE i + 1]
    <3>1. CASE i = m + 1
      <4>1. i - 1 = m
        BY <1>3, <3>1
      <4> QED
        BY <1>2, <2>5, <3>1, <4>1
    <3>2. CASE i # m + 1
      <4>1. i \in 1 .. m /\ i - 1 \in 0 .. cap - 1 /\ i - 1 # m
        BY <1>3, <3>2
      <4>2. AddIndex(cap, b, i - 1) # s.dest
        BY <1>3, <1>12, <1>13, <4>1, AddIndexDistinct
      <4> QED
        BY <1>1, <1>2, <4>1, <4>2, AddIndexNext
    <3> QED
      BY <3>1, <3>2
  <2>10. ASSUME NEW j \in 0 .. cap - 1,
                \A i \in 1 .. m + 1 : AddIndex(cap, b, i - 1) # j
         PROVE  kept[j] = None
    <3>1. m + 1 \in 1 .. m + 1 /\ (m + 1) - 1 = m /\ \A i \in 1 .. m : i \in 1 .. m + 1
      BY <1>3
    <3>2. j # s.dest
      BY <1>2, <2>10, <3>1
    <3> QED
      BY <1>2, <2>10, <3>1, <3>2
  <2> HIDE DEF kept
  <2> QED
    BY <2>4, <2>7, <2>8, <2>9, <2>10 DEF Extracting, new, c, b, size
<1> QED
  BY <1>9, <1>10

\* The queue new is q without the element at place k (or q, if k is past its
\* end), with None in the slots it does not use.
WithoutAt(S, cap, q, k, new) ==
  /\ new \in Queues(S, cap)
  /\ new.size = IF k <= q.size THEN q.size - 1 ELSE q.size
  /\ \A i \in 1 .. new.size :
       Contents(cap, new)[i] = Contents(cap, q)[IF i < k THEN i ELSE i + 1]
  /\ \A j \in 0 .. cap - 1 :
       (\A i \in 1 .. new.size : AddIndex(cap, new.base, i - 1) # j) => new.data[j] = None

\* QueueExtract (mem.c), on a queue that holds the item at most once: the item
\* is taken out, the others close up in their order, and a queue without it
\* stays as it is.
THEOREM QueueExtractTakesOut ==
    ASSUME NEW S, NEW cap \in Nat \ {0}, NEW q, QueueOK(S, cap, q), NEW item,
           NEW k \in 1 .. q.size + 1, OnlyAt(cap, q, item, k)
    PROVE  WithoutAt(S, cap, q, k, QueueExtract(cap, q, item))
<1> DEFINE new == QueueExtract(cap, q, item)
           init == [src |-> q.base, dest |-> q.base, size |-> q.size,
                    kept |-> [i \in 0 .. cap - 1 |-> None]]
           Turn(s) == ExtractStep(cap, item, s, q.data)
           Runs(m, f) == f = [n \in 0 .. m |-> IF n = 0 THEN init ELSE Turn(f[n - 1])]
           loop == CHOOSE f : Runs(q.size, f)
<1>1. /\ q \in Queues(S, cap) /\ q.base \in 0 .. cap - 1 /\ q.size \in 0 .. cap
      /\ q.data \in [0 .. cap - 1 -> S \cup {None}] /\ q.size \in Nat
  BY DEF QueueOK, Queues
<1>2. new = [base |-> q.base, size |-> loop[q.size].size, data |-> loop[q.size].kept]
  BY DEF QueueExtract
<1> HIDE DEF new, init, Turn
<1>3. \A m \in Nat : \E f : Runs(m, f)
  <2> DEFINE T == {m \in Nat : \E f : Runs(m, f)}
  <2>1. 0 \in T
    <3> DEFINE f == [n \in 0 .. 0 |-> init]
    <3>1. f = [n \in 0 .. 0 |-> IF n = 0 THEN init ELSE Turn(f[n - 1])]
      OBVIOUS
    <3> QED
      BY <3>1
  <2>2. ASSUME NEW m \in Nat, m \in T
        PROVE  m + 1 \in T
    <3>1. PICK f : Runs(m, f)
      BY <2>2
    <3> DEFINE g == [n \in 0 .. m + 1 |-> IF n = m + 1 THEN Turn(f[m]) ELSE f[n]]
    <3>2. ASSUME NEW n \in 0 .. m + 1
          PROVE  g[n] = IF n = 0 THEN init ELSE Turn(g[n - 1])
      <4>1. CASE n = m + 1
        <5>1. n - 1 = m /\ m \in 0 .. m + 1 /\ m # m + 1 /\ n # 0
          BY <4>1
        <5>2. g[n - 1] = f[m] /\ g[n] = Turn(f[m])
          BY <4>1, <5>1
        <5> QED
          BY <5>1, <5>2
      <4>2. CASE n # m + 1
        <5>1. n \in 0 .. m
          BY <4>2
        <5>2. g[n] = f[n] /\ f[n] = IF n = 0 THEN init ELSE Turn(f[n - 1])
          BY <3>1, <4>2, <5>1
        <5>3. n # 0 => n - 1 \in 0 .. m + 1 /\ n - 1 # m + 1
          BY <5>1
        <5>4. n # 0 => g[n - 1] = f[n - 1]
          BY <5>3
        <5> QED
          BY <5>2, <5>4
      <4> QED
        BY <4>1, <4>2
    <3>3. Runs(m + 1, g)
      <4> HIDE DEF g
      <4>1. g = [n \in 0 .. m + 1 |-> g[n]]
        BY DEF g
      <4> QED
        BY <3>2, <4>1
    <3> HIDE DEF g
    <3>4. \E f2 : Runs(m + 1, f2)
      BY <3>3
    <3> QED
      BY <3>4
  <2> HIDE DEF T
  <2>3. Nat \subseteq T
    BY <2>1, <2>2, NatSetInduction
  <2> QED
    BY <2>3 DEF T
<1>4. Runs(q.size, loop)
  BY <1>1, <1>3
<1> HIDE DEF loop
<1>5. loop[0] = init
  BY <1>1, <1>4
<1>6. ASSUME NEW n \in 0 .. q.size - 1
      PROVE  loop[n + 1] = Turn(loop[n])
  <2>1. n + 1 \in 0 .. q.size /\ n + 1 # 0 /\ (n + 1) - 1 = n
    BY <1>1
  <2> QED
    BY <1>4, <2>1
<1>7. Extracting(S, cap, q, k, q.size, loop[q.size])
  <2> DEFINE T == {n \in Nat : n <= q.size => Extracting(S, cap, q, k, n, loop[n])}
  <2>1. 0 \in T
    <3>1. AddIndex(cap, q.base, 0) = q.base
      BY <1>1 DEF AddIndex
    <3>2. 0 < k /\ q.size - (0 - 0) = q.size
      BY <1>1
    <3>3. init \in [src : 0 .. cap - 1, dest : 0 .. cap - 1, size : Int,
                    kept : [0 .. cap - 1 -> S \cup {None}]]
      BY <1>1 DEF init
    <3>4. Extracting(S, cap, q, k, 0, init)
      BY <3>1, <3>2, <3>3 DEF Extracting, init
    <3> QED
      BY <3>4, <1>5
  <2>2. ASSUME NEW n \in Nat, n \in T
        PROVE  n + 1 \in T
    <3>1. CASE n + 1 <= q.size
      <4>1. n \in 0 .. q.size - 1 /\ Extracting(S, cap, q, k, n, loop[n])
        BY <1>1, <2>2, <3>1
      <4>2. Extracting(S, cap, q, k, n + 1, Turn(loop[n]))
        BY <4>1, ExtractTurn DEF Turn
      <4> QED
        BY <1>6, <4>1, <4>2
    <3>2. CASE ~(n + 1 <= q.size)
      BY <3>2
    <3> QED
      BY <3>1, <3>2
  <2> HIDE DEF T
  <2>3. Nat \subseteq T
    BY <2>1, <2>2, NatSetInduction
  <2>4. q.size \in T
    BY <1>1, <2>3
  <2> QED
    BY <1>1, <2>4 DEF T
<1> DEFINE s == loop[q.size]
           m == IF q.size < k THEN q.size ELSE q.size - 1
<1>8. new.base = q.base /\ new.size = s.size /\ new.data = s.kept
  BY <1>2
<1>9. /\ s.kept \in [0 .. cap - 1 -> S \cup {None}] /\ s.size = q.size - (q.size - m)
      /\ \A i \in 1 .. m : s.kept[AddIndex(cap, q.base, i - 1)]
                           = Contents(cap, q)[IF i < k THEN i ELSE i + 1]
      /\ \A j \in 0 .. cap - 1 :
           (\A i \in 1 .. m : AddIndex(cap, q.base, i - 1) # j) => s.kept[j] = None
  BY <1>7 DEF Extracting
<1> HIDE DEF s
<1>10. m \in 0 .. cap /\ q.size - (q.size - m) = m
       /\ m = (IF k <= q.size THEN q.size - 1 ELSE q.size)
  BY <1>1
<1> HIDE DEF m
<1>11. new.size = m
  BY <1>8, <1>9, <1>10
<1>12. new \in Queues(S, cap)
  <2>1. new = [base |-> q.base, size |-> m, data |-> s.kept]
    BY <1>2, <1>8, <1>11
  <2> QED
    BY <1>1, <1>9, <1>10, <2>1 DEF Queues
<1>13. ASSUME NEW i \in 1 .. new.size
       PROVE  Contents(cap, new)[i] = Contents(cap, q)[IF i < k THEN i ELSE i + 1]
  <2>1. Contents(cap, new)[i] = s.kept[AddIndex(cap, q.base, i - 1)]
    BY <1>8 DEF Contents
  <2> QED
    BY <1>9, <1>11, <2>1
<1> QED
  BY <1>8, <1>9, <1>10, <1>11, <1>12, <1>13 DEF new, WithoutAt

\* The same on the elements: the item is no longer among them, and the queue
\* changed exactly if it was.
LEMMA ExtractElems ==
    ASSUME NEW S, NEW cap \in Nat \ {0}, NEW q, QueueOK(S, cap, q), NEW item
    PROVE  /\ QueueOK(S, cap, QueueExtract(cap, q, item))
           /\ Elems(cap, QueueExtract(cap, q, item)) = Elems(cap, q) \ {item}
           /\ QueueExtract(cap, q, item) # q <=> item \in Elems(cap, q)
           /\ QueueExtract(cap, q, item).size <= q.size
<1> DEFINE new == QueueExtract(cap, q, item)
           c == Contents(cap, q)
           d == Contents(cap, new)
<1>1. /\ q \in Queues(S, cap) /\ q.base \in 0 .. cap - 1 /\ q.size \in 0 .. cap
      /\ q.data \in [0 .. cap - 1 -> S \cup {None}]
  BY DEF QueueOK, Queues
<1>2. /\ \A i \in 1 .. q.size : c[i] \in S
      /\ \A i, j \in 1 .. q.size : c[i] = c[j] => i = j
      /\ \A j \in 0 .. cap - 1 :
           (\A i \in 1 .. q.size : AddIndex(cap, q.base, i - 1) # j) => q.data[j] = None
  BY DEF QueueOK
<1>3. PICK k \in 1 .. q.size + 1 : \A i \in 1 .. q.size : c[i] = item <=> i = k
  <2>1. CASE \E i \in 1 .. q.size : c[i] = item
    <3>1. PICK i \in 1 .. q.size : c[i] = item
      BY <2>1
    <3>2. \A j \in 1 .. q.size : c[j] = item <=> j = i
      BY <3>1, <1>2
    <3>3. i \in 1 .. q.size + 1
      BY <1>1
    <3> QED
      BY <3>2, <3>3
  <2>2. CASE ~\E i \in 1 .. q.size : c[i] = item
    <3>1. q.size + 1 \in 1 .. q.size + 1 /\ \A i \in 1 .. q.size : i # q.size + 1
      BY <1>1
    <3> QED
      BY <2>2, <3>1
  <2> QED
    BY <2>1, <2>2
<1>4. /\ new \in Queues(S, cap)
      /\ new.size = IF k <= q.size THEN q.size - 1 ELSE q.size
      /\ \A i \in 1 .. new.size : d[i] = c[IF i < k THEN i ELSE i + 1]
      /\ \A j \in 0 .. cap - 1 :
           (\A i \in 1 .. new.size : AddIndex(cap, new.base, i - 1) # j) => new.data[j] = None
  <2>1. OnlyAt(cap, q, item, k)
    BY <1>3 DEF OnlyAt
  <2>2. WithoutAt(S, cap, q, k, new)
    BY <2>1, QueueExtractTakesOut
  <2> QED
    BY <2>2 DEF WithoutAt
<1> HIDE DEF c, d, new
<1> DEFINE Was(i) == IF i < k THEN i ELSE i + 1
<1>5. /\ \A i \in 1 .. new.size : Was(i) \in 1 .. q.size /\ Was(i) # k /\ d[i] = c[Was(i)]
      /\ \A i, j \in 1 .. new.size : Was(i) = Was(j) => i = j
  BY <1>1, <1>4
<1>6. ASSUME NEW x \in 1 .. q.size, x # k
      PROVE  \E i \in 1 .. new.size : Was(i) = x
  <2>1. CASE x < k
    <3>1. x \in 1 .. new.size /\ Was(x) = x
      BY <1>1, <1>4, <2>1
    <3> QED
      BY <3>1
  <2>2. CASE x > k
    <3>1. x - 1 \in 1 .. new.size /\ Was(x - 1) = x
      BY <1>1, <1>4, <2>2
    <3> QED
      BY <3>1
  <2> QED
    BY <1>6, <2>1, <2>2
<1>7. new.size \in 0 .. q.size
  BY <1>1, <1>4
<1> HIDE DEF Was
<1>8. QueueOK(S, cap, new)
  <2>1. \A i \in 1 .. new.size : d[i] \in S
    BY <1>2, <1>5
  <2>2. \A i, j \in 1 .. new.size : d[i] = d[j] => i = j
    BY <1>2, <1>5
  <2> QED
    BY <1>4, <2>1, <2>2 DEF QueueOK, d
<1>9. {d[i] : i \in 1 .. new.size} = {c[i] : i \in 1 .. q.size} \ {item}
  <2>1. \A i \in 1 .. new.size : c[Was(i)] # item
    BY <1>3, <1>5
  <2>2. \A x \in 1 .. q.size : c[x] # item => \E i \in 1 .. new.size : d[i] = c[x]
    BY <1>3, <1>5, <1>6
  <2> QED
    BY <1>5, <2>1, <2>2
<1>10. ASSUME item \in {c[i] : i \in 1 .. q.size}
       PROVE  new # q
  <2>1. PICK i \in 1 .. q.size : c[i] = item
    BY <1>10
  <2>2. k = i
    BY <1>3, <2>1
  <2>3. k <= q.size /\ new.size = q.size - 1
    BY <1>1, <1>4, <2>2
  <2>4. new.size # q.size
    BY <1>1, <2>3
  <2> QED
    BY <2>4
<1>11. ASSUME item \notin {c[i] : i \in 1 .. q.size}
       PROVE  new = q
  <2>1. k = q.size + 1
    <3>1. k \notin 1 .. q.size
      BY <1>3, <1>11
    <3> QED
      BY <1>1, <3>1
  <2>2. new.size = q.size
    BY <1>1, <1>4, <2>1
  <2>3. \A i \in 1 .. q.size : d[i] = c[i]
    <3>1. \A i \in 1 .. q.size : i < k
      BY <1>1, <2>1
    <3> QED
      BY <2>2, <3>1, <1>4
  <2>4. new.base = q.base
    BY DEF new, QueueExtract
  <2>5. new.data \in [0 .. cap - 1 -> S \cup {None}]
    BY <1>4 DEF Queues
  <2>6. ASSUME NEW j \in 0 .. cap - 1
        PROVE  new.data[j] = q.data[j]
    <3>1. CASE \E i \in 1 .. q.size : AddIndex(cap, q.base, i - 1) = j
      <4>1. PICK i \in 1 .. q.size : AddIndex(cap, q.base, i - 1) = j
        BY <3>1
      <4>2. d[i] = new.data[j] /\ c[i] = q.data[j]
        BY <2>2, <2>4, <4>1 DEF Contents, d, c
      <4> QED
        BY <2>3, <4>2
    <3>2. CASE ~\E i \in 1 .. q.size : AddIndex(cap, q.base, i - 1) = j
      BY <1>2, <1>4, <2>2, <2>4, <3>2
    <3> QED
      BY <3>1, <3>2
  <2>7. new.data = q.data
    BY <1>1, <2>5, <2>6
  <2>8. new = [base |-> new.base, size |-> new.size, data |-> new.data]
        /\ q = [base |-> q.base, size |-> q.size, data |-> q.data]
    BY <1>1, <1>4 DEF Queues
  <2> QED
    BY <2>2, <2>4, <2>7, <2>8
<1>12. Elems(cap, q) = {c[i] : i \in 1 .. q.size}
       /\ Elems(cap, new) = {d[i] : i \in 1 .. new.size}
  BY DEF Elems, c, d
<1>13. Elems(cap, new) = Elems(cap, q) \ {item}
  BY <1>9, <1>12
<1>14. new # q <=> item \in Elems(cap, q)
  BY <1>10, <1>11, <1>12
<1>15. new.size <= q.size
  BY <1>1, <1>7
<1> QED
  BY <1>8, <1>13, <1>14, <1>15 DEF new

\* A queue's contents are a sequence of its elements.
LEMMA ContentsOfQueue ==
    ASSUME NEW S, NEW cap \in Nat \ {0}, NEW q, QueueOK(S, cap, q)
    PROVE  /\ Contents(cap, q) \in Seq(S) /\ Len(Contents(cap, q)) = q.size
           /\ \A x : x \in Elems(cap, q) <=>
                       \E i \in 1 .. Len(Contents(cap, q)) : Contents(cap, q)[i] = x
<1>1. q \in Queues(S, cap) /\ q.size \in Nat /\ \A i \in 1 .. q.size : Contents(cap, q)[i] \in S
  BY DEF QueueOK, Queues
<1>2. Contents(cap, q) \in Seq(S \cup {None}) /\ Len(Contents(cap, q)) = q.size
  BY <1>1, ContentsSeq
<1>3. Contents(cap, q) \in Seq(S)
  BY <1>1, <1>2
<1> QED
  BY <1>2, <1>3 DEF Elems

\* QueueExtract leaves out the place of the item.
LEMMA ExtractContents ==
    ASSUME NEW S, NEW cap \in Nat \ {0}, NEW q, QueueOK(S, cap, q), NEW item,
           item \in Elems(cap, q)
    PROVE  \E k \in 1 .. Len(Contents(cap, q)) :
             /\ Contents(cap, q)[k] = item
             /\ Contents(cap, QueueExtract(cap, q, item)) = OmitAt(Contents(cap, q), k)
<1> DEFINE new == QueueExtract(cap, q, item)
           c == Contents(cap, q)
<1>1. q \in Queues(S, cap) /\ q.size \in 0 .. cap
  BY DEF QueueOK, Queues
<1>2. PICK k \in 1 .. q.size : c[k] = item
  BY DEF Elems
<1>3. \A i \in 1 .. q.size : c[i] = item <=> i = k
  BY <1>2 DEF QueueOK
<1>4. k \in 1 .. q.size + 1 /\ k <= q.size
  BY <1>1
<1>5. WithoutAt(S, cap, q, k, new)
  <2>1. OnlyAt(cap, q, item, k)
    BY <1>3 DEF OnlyAt
  <2> QED
    BY <1>4, <2>1, QueueExtractTakesOut
<1>6. /\ new.size = q.size - 1
      /\ \A i \in 1 .. new.size : Contents(cap, new)[i] = c[IF i < k THEN i ELSE i + 1]
  BY <1>4, <1>5 DEF WithoutAt
<1>7. Len(c) = q.size
  BY <1>1, ContentsSeq
<1>8. Contents(cap, new) = [i \in 1 .. q.size - 1 |-> Contents(cap, new)[i]]
  BY <1>6 DEF Contents
<1> HIDE DEF c, new
<1>9. Contents(cap, new) = OmitAt(c, k)
  BY <1>6, <1>7, <1>8 DEF OmitAt
<1> QED
  BY <1>2, <1>7, <1>9 DEF c, new
=============================================================================
