------------------------------ MODULE PartsProofs ------------------------------
(***************************************************************************)
(* Proofs about the parts of Device that handle sequences: the boot file   *)
(* and the tuning files of the cameras, and the serial links; for any      *)
(* units, files, cameras, names of ports and bounds.  Folds over sequences *)
(* are taken apart first.                                                  *)
(***************************************************************************)
EXTENDS Device, InductionFacts, SequenceTheorems, FiniteSetTheorems, TLAPS

-----------------------------------------------------------------------------
(* Sequences and folds.                                                    *)

\* What holds of the empty sequence, and of a sequence with one more element
\* when it holds of the sequence, holds of all sequences.
LEMMA SequenceInduction ==
  ASSUME NEW A, NEW S, <<>> \in S,
         \A s \in Seq(A) : \A x \in A : s \in S => Append(s, x) \in S
  PROVE  Seq(A) \subseteq S
<1>1. PICK N : N = {n \in Nat : \A s \in Seq(A) : Len(s) = n => s \in S}
  OBVIOUS
<1>2. 0 \in N
  <2>1. \A s \in Seq(A) : Len(s) = 0 => s = <<>>
    OBVIOUS
  <2> QED
    BY <1>1, <2>1
<1>3. ASSUME NEW n \in Nat, n \in N
      PROVE  n + 1 \in N
  <2>1. ASSUME NEW s \in Seq(A), Len(s) = n + 1
        PROVE  s \in S
    <3>1. s # <<>>
      BY <2>1
    <3>2. /\ Front(s) \in Seq(A) /\ Last(s) \in A /\ Append(Front(s), Last(s)) = s
          /\ Len(Front(s)) = n
      <4>1. \A i \in 1 .. n : s[i] \in A
        BY <2>1
      <4>2. n \in Int /\ 1 \in Int
        OBVIOUS
      <4>3. PICK f : f = SubSeq(s, 1, n)
        OBVIOUS
      <4>4. /\ f \in Seq(A) /\ Len(f) = IF 1 <= n THEN n - 1 + 1 ELSE 0
            /\ \A i \in 1 .. (n - 1 + 1) : f[i] = s[1 + i - 1]
        BY <4>1, <4>2, <4>3, SubSeqProperties
      <4>5. Len(f) = n /\ \A i \in 1 .. n : f[i] = s[i]
        BY <4>4
      <4>6. PICK a : a = Append(f, s[n + 1])
        OBVIOUS
      <4>7. s[n + 1] \in A
        BY <2>1
      <4>8. /\ a \in Seq(A) /\ Len(a) = n + 1 /\ a[n + 1] = s[n + 1]
            /\ \A i \in 1 .. n : a[i] = f[i]
        BY <4>4, <4>5, <4>6, <4>7, AppendProperties
      <4>9. \A i \in 1 .. Len(a) : a[i] = s[i]
        BY <4>5, <4>8
      <4>10. a = s
        <5>1. Len(a) = Len(s) /\ a \in Seq(A)
          BY <4>8, <2>1
        <5> QED
          BY <5>1, <4>9, SeqEqual
      <4>11. Front(s) = f /\ Last(s) = s[n + 1]
        BY <4>3, <2>1 DEF Front, Last
      <4> QED
        BY <4>4, <4>5, <4>6, <4>7, <4>10, <4>11
    <3>3. Front(s) \in S
      BY <1>1, <1>3, <3>2
    <3> QED
      BY <3>2, <3>3
  <2> QED
    BY <1>1, <2>1
<1>4. Nat \subseteq N
  BY <1>2, <1>3, SetInduction
<1> QED
  BY <1>1, <1>4

LEMMA MaxFacts ==
  ASSUME NEW n \in Nat, NEW t \in SUBSET (1 .. (n + 1)), n + 1 \in t
  PROVE  Max(t) = n + 1
<1>1. \A y \in t : y \in Int /\ n + 1 >= y
  OBVIOUS
<1>2. \E x \in t : \A y \in t : x >= y
  BY <1>1
<1>3. PICK k : k = Max(t)
  OBVIOUS
<1>4. k \in t /\ \A y \in t : k >= y
  BY <1>2, <1>3 DEF Max
<1>5. k \in Int /\ n + 1 >= k /\ k >= n + 1
  BY <1>1, <1>4
<1>6. k = n + 1
  BY <1>5
<1> QED
  BY <1>3, <1>6

\* The recursive function that a fold over a sequence is made of is there: F says
\* what becomes of a value with the i-th element.
FoldOver(n, base, F, u) ==
  \A t \in SUBSET (1 .. n) : u[t] = IF t = {} THEN base ELSE F[u[t \ {Max(t)}]][Max(t)]

LEMMA FoldExists ==
  ASSUME NEW V, NEW base \in V, NEW m \in Nat, NEW F \in [V -> [1 .. m -> V]]
  PROVE  \E u \in [SUBSET (1 .. m) -> V] : FoldOver(m, base, F, u)
<1>1. PICK N : N = {n \in Nat : n <= m => \E u \in [SUBSET (1 .. n) -> V] : FoldOver(n, base, F, u)}
  OBVIOUS
<1>2. 0 \in N
  <2>1. PICK u : u = [t \in SUBSET (1 .. 0) |-> base]
    OBVIOUS
  <2>2. \A t \in SUBSET (1 .. 0) : t = {} /\ u[t] = base
    BY <2>1
  <2>3. u \in [SUBSET (1 .. 0) -> V] /\ FoldOver(0, base, F, u)
    BY <2>1, <2>2 DEF FoldOver
  <2> QED
    BY <1>1, <2>3
<1>3. \A n \in Nat : n \in N => n + 1 \in N
  <2> SUFFICES ASSUME NEW n \in Nat, n \in N
               PROVE  n + 1 \in N
    OBVIOUS
  <2>0. PICK k \in Nat : k = n + 1
    OBVIOUS
  <2>1. CASE ~(k <= m)
    BY <2>0, <2>1, <1>1
  <2>2. CASE k <= m
    <3>1. n <= m /\ k \in 1 .. m
      BY <2>0, <2>2
    <3>2. PICK u \in [SUBSET (1 .. n) -> V] : FoldOver(n, base, F, u)
      BY <1>1, <3>1
    <3>3. PICK v : v = [t \in SUBSET (1 .. k) |-> IF k \in t THEN F[u[t \ {k}]][k] ELSE u[t]]
      OBVIOUS
    <3>4. \A t \in SUBSET (1 .. k) : t \ {k} \in SUBSET (1 .. n) /\ (k \notin t => t \in SUBSET (1 .. n))
      BY <2>0
    <3>5. \A t \in SUBSET (1 .. n) : t \in SUBSET (1 .. k) /\ k \notin t
      BY <2>0
    <3>6. v \in [SUBSET (1 .. k) -> V]
      <4>1. ASSUME NEW t \in SUBSET (1 .. k)
            PROVE  v[t] \in V
        <5>1. CASE k \in t
          <6>1. F[u[t \ {k}]] \in [1 .. m -> V]
            BY <3>4
          <6>2. F[u[t \ {k}]][k] \in V
            BY <6>1, <3>1
          <6> QED
            BY <5>1, <3>3, <6>2
        <5>2. CASE k \notin t
          BY <5>2, <3>3, <3>4
        <5> QED
          BY <5>1, <5>2
      <4> QED
        BY <4>1, <3>3
    <3>7. \A t \in SUBSET (1 .. n) : v[t] = u[t]
      BY <3>3, <3>5
    <3>8. ASSUME NEW t \in SUBSET (1 .. k)
          PROVE  v[t] = IF t = {} THEN base ELSE F[v[t \ {Max(t)}]][Max(t)]
      <4>1. CASE k \in t
        <5>1. Max(t) = k /\ t # {}
          BY <4>1, <2>0, MaxFacts
        <5>2. v[t \ {k}] = u[t \ {k}] /\ v[t] = F[u[t \ {k}]][k]
          BY <4>1, <3>3, <3>4, <3>7
        <5> QED
          BY <5>1, <5>2
      <4>2. CASE k \notin t
        <5>1. t \in SUBSET (1 .. n)
          BY <4>2, <3>4
        <5>2. t \ {Max(t)} \in SUBSET (1 .. n)
          BY <5>1
        <5>3. v[t] = u[t] /\ v[t \ {Max(t)}] = u[t \ {Max(t)}]
          BY <5>1, <5>2, <3>7
        <5>4. u[t] = IF t = {} THEN base ELSE F[u[t \ {Max(t)}]][Max(t)]
          BY <3>2, <5>1 DEF FoldOver
        <5> QED
          BY <5>3, <5>4
      <4> QED
        BY <4>1, <4>2
    <3>9. FoldOver(k, base, F, v)
      BY <3>8 DEF FoldOver
    <3> QED
      BY <1>1, <2>0, <3>6, <3>9
  <2> QED
    BY <2>1, <2>2
<1>4. Nat \subseteq N
  BY <1>2, <1>3, SetInduction
<1>5. m \in N /\ m <= m
  BY <1>4
<1> QED
  BY <1>1, <1>5

\* Some number of a set of numbers up to n is the greatest of them.
LEMMA MaxIsIn ==
  ASSUME NEW n \in Nat, NEW t \in SUBSET (1 .. n), t # {}
  PROVE  Max(t) \in t /\ \A y \in t : y <= Max(t)
<1>1. PICK d : d = {n - y : y \in t}
  OBVIOUS
<1>2. d \subseteq Nat /\ d # {}
  <2>1. PICK y : y \in t
    OBVIOUS
  <2>2. n - y \in d /\ \A x \in d : x \in Nat
    BY <1>1, <2>1
  <2> QED
    BY <2>2
<1>3. PICK e \in d : \A y \in d : e <= y
  BY <1>2, LeastNatural
<1>4. PICK x \in t : e = n - x
  BY <1>1
<1>5. ASSUME NEW y \in t
      PROVE  x >= y
  <2>1. n - y \in d
    BY <1>1
  <2>2. n - x <= n - y /\ x \in Int /\ y \in Int
    BY <1>3, <1>4, <2>1
  <2> QED
    BY <2>2
<1>6. PICK k : k = Max(t)
  OBVIOUS
<1>7. k \in t /\ \A y \in t : k >= y
  BY <1>5, <1>6 DEF Max
<1>8. \A y \in t : y <= k
  BY <1>7
<1> QED
  BY <1>6, <1>7, <1>8

-----------------------------------------------------------------------------
(* The lines of some kinds in a file.                                      *)

LEMMA KeptPrefixes ==
  ASSUME NEW f \in Seq(Lines), NEW K
  PROVE  \E g : /\ g[0] = <<>> /\ OfKinds(f, K) = g[Len(f)]
                /\ \A i \in 1 .. Len(f) :
                     g[i] = IF f[i].kind \in K THEN Append(g[i - 1], f[i]) ELSE g[i - 1]
<1>1. PICK n \in Nat : n = Len(f)
  OBVIOUS
<1>2. DOMAIN f = 1 .. n /\ \A i \in 1 .. n : f[i] \in Lines
  BY <1>1
<1>3. PICK F : F = [v \in Seq(Lines) |-> [i \in 1 .. n |-> IF f[i].kind \in K THEN Append(v, f[i]) ELSE v]]
  OBVIOUS
<1>4. F \in [Seq(Lines) -> [1 .. n -> Seq(Lines)]]
  BY <1>2, <1>3
<1>5. PICK u \in [SUBSET (1 .. n) -> Seq(Lines)] : FoldOver(n, <<>>, F, u)
  <2>1. <<>> \in Seq(Lines)
    OBVIOUS
  <2> QED
    BY <1>4, <2>1, FoldExists
<1> DEFINE Is(w) == w = [t \in SUBSET (1 .. n) |->
                           IF t = {} THEN <<>>
                           ELSE IF f[Max(t)].kind \in K THEN Append(w[t \ {Max(t)}], f[Max(t)])
                           ELSE w[t \ {Max(t)}]]
<1>6. Is(u)
  <2>1. ASSUME NEW t \in SUBSET (1 .. n)
        PROVE  u[t] = IF t = {} THEN <<>>
                      ELSE IF f[Max(t)].kind \in K THEN Append(u[t \ {Max(t)}], f[Max(t)])
                      ELSE u[t \ {Max(t)}]
    <3>1. CASE t = {}
      BY <3>1, <1>5 DEF FoldOver
    <3>2. CASE t # {}
      <4>1. Max(t) \in 1 .. n
        BY <3>2, MaxIsIn
      <4>2. t \ {Max(t)} \in SUBSET (1 .. n) /\ u[t \ {Max(t)}] \in Seq(Lines)
        OBVIOUS
      <4>3. u[t] = F[u[t \ {Max(t)}]][Max(t)]
        BY <3>2, <1>5 DEF FoldOver
      <4> QED
        BY <3>2, <4>1, <4>2, <4>3, <1>3
    <3> QED
      BY <3>1, <3>2
  <2> QED
    BY <2>1
<1>7. PICK w : w = CHOOSE v : Is(v)
  OBVIOUS
<1>8. Is(w)
  BY <1>6, <1>7
<1>9. OfKinds(f, K) = w[1 .. n]
  BY <1>2, <1>7 DEF OfKinds, FoldLeft, MapThenFoldSet
<1>10. PICK g : g = [i \in 0 .. n |-> w[1 .. i]]
  OBVIOUS
<1>11. g[0] = <<>> /\ OfKinds(f, K) = g[n]
  <2>1. 1 .. 0 = {} /\ 0 \in 0 .. n /\ n \in 0 .. n
    OBVIOUS
  <2>2. w[{}] = <<>>
    BY <1>8
  <2> QED
    BY <1>9, <1>10, <2>1, <2>2
<1>12. ASSUME NEW i \in 1 .. n
       PROVE  g[i] = IF f[i].kind \in K THEN Append(g[i - 1], f[i]) ELSE g[i - 1]
  <2>1. PICK j \in Nat : j = i - 1
    OBVIOUS
  <2>2. j + 1 = i /\ (1 .. i) \ {i} = 1 .. j /\ i \in 1 .. i /\ 1 .. i \in SUBSET (1 .. n)
    BY <2>1
  <2>3. Max(1 .. i) = i
    BY <2>1, <2>2, MaxFacts
  <2>4. g[i] = w[1 .. i] /\ g[i - 1] = w[1 .. j]
    BY <1>10, <2>1
  <2>5. w[1 .. i] = IF f[i].kind \in K THEN Append(w[1 .. j], f[i]) ELSE w[1 .. j]
    BY <1>8, <2>2, <2>3
  <2> QED
    BY <2>4, <2>5
<1> QED
  BY <1>1, <1>11, <1>12

LEMMA OfKindsEmpty ==
  ASSUME NEW K PROVE OfKinds(<<>>, K) = <<>>
<1>0. <<>> \in Seq(Lines)
  OBVIOUS
<1>1. PICK e \in Seq(Lines) : e = <<>>
  BY <1>0
<1>2. Len(e) = 0
  BY <1>1
<1>3. PICK g : g[0] = <<>> /\ OfKinds(e, K) = g[Len(e)]
  BY KeptPrefixes
<1> QED
  BY <1>1, <1>2, <1>3

LEMMA OfKindsAppend ==
  ASSUME NEW f \in Seq(Lines), NEW x \in Lines, NEW K
  PROVE  OfKinds(Append(f, x), K) = IF x.kind \in K THEN Append(OfKinds(f, K), x) ELSE OfKinds(f, K)
<1>1. PICK n \in Nat : n = Len(f)
  OBVIOUS
<1>2. PICK a : a = Append(f, x)
  OBVIOUS
<1>3. /\ a \in Seq(Lines) /\ Len(a) = n + 1 /\ a[n + 1] = x
      /\ \A i \in 1 .. n : a[i] = f[i]
  BY <1>1, <1>2
<1>4. PICK g : /\ g[0] = <<>> /\ OfKinds(f, K) = g[n]
               /\ \A i \in 1 .. n : g[i] = IF f[i].kind \in K THEN Append(g[i - 1], f[i]) ELSE g[i - 1]
  BY <1>1, KeptPrefixes
<1>5. PICK h : /\ h[0] = <<>> /\ OfKinds(a, K) = h[n + 1]
               /\ \A i \in 1 .. (n + 1) : h[i] = IF a[i].kind \in K THEN Append(h[i - 1], a[i]) ELSE h[i - 1]
  BY <1>3, KeptPrefixes
<1>6. PICK N : N = {i \in Nat : i <= n => h[i] = g[i]}
  OBVIOUS
<1>7. 0 \in N
  BY <1>4, <1>5, <1>6
<1>8. \A i \in Nat : i \in N => i + 1 \in N
  <2> SUFFICES ASSUME NEW i \in Nat, i \in N, i + 1 <= n
               PROVE  h[i + 1] = g[i + 1]
    BY <1>6
  <2>1. PICK j \in 1 .. n : j = i + 1
    OBVIOUS
  <2>2. j - 1 = i /\ j \in 1 .. (n + 1) /\ i <= n
    BY <2>1
  <2>3. h[i] = g[i]
    BY <1>6, <2>2
  <2>4. h[j] = IF f[j].kind \in K THEN Append(h[i], f[j]) ELSE h[i]
    BY <1>3, <1>5, <2>2
  <2>5. g[j] = IF f[j].kind \in K THEN Append(g[i], f[j]) ELSE g[i]
    BY <1>4, <2>2
  <2> QED
    BY <2>1, <2>3, <2>4, <2>5
<1>9. n \in N
  BY <1>7, <1>8, SetInduction
<1>10. h[n] = g[n]
  BY <1>6, <1>9
<1>11. n + 1 \in 1 .. (n + 1) /\ (n + 1) - 1 = n
  OBVIOUS
<1>12. h[n + 1] = IF x.kind \in K THEN Append(h[n], x) ELSE h[n]
  BY <1>3, <1>5, <1>11
<1> QED
  BY <1>2, <1>4, <1>5, <1>10, <1>12

\* The lines of some kinds.
Of(K) == {l \in Lines : l.kind \in K}

LEMMA OfSubset ==
  ASSUME NEW J, NEW K, J \subseteq K, NEW f \in Seq(Of(J))
  PROVE  f \in Seq(Of(K))
<1>1. \A i \in DOMAIN f : f[i] \in Of(K)
  BY DEF Of
<1> QED
  BY <1>1

LEMMA AllOf ==
  ASSUME NEW f \in Seq(Lines), NEW K, \A i \in DOMAIN f : f[i].kind \in K
  PROVE  f \in Seq(Of(K))
<1>1. \A i \in DOMAIN f : f[i] \in Of(K)
  BY DEF Of
<1> QED
  BY <1>1

LEMMA OfLines ==
  ASSUME NEW J, NEW f \in Seq(Of(J))
  PROVE  f \in Seq(Lines)
<1>1. \A i \in DOMAIN f : f[i] \in Lines
  BY DEF Of
<1> QED
  BY <1>1

LEMMA OfKindsIn ==
  ASSUME NEW J, NEW K, NEW f \in Seq(Of(J))
  PROVE  OfKinds(f, K) \in Seq(Of(J \cap K))
<1>1. PICK S : S = {s \in Seq(Of(J)) : OfKinds(s, K) \in Seq(Of(J \cap K))}
  OBVIOUS
<1>2. <<>> \in S
  <2>1. OfKinds(<<>>, K) = <<>>
    BY OfKindsEmpty
  <2>2. <<>> \in Seq(Of(J)) /\ <<>> \in Seq(Of(J \cap K))
    OBVIOUS
  <2> QED
    BY <1>1, <2>1, <2>2
<1>3. \A s \in Seq(Of(J)) : \A x \in Of(J) : s \in S => Append(s, x) \in S
  <2> SUFFICES ASSUME NEW s \in Seq(Of(J)), NEW x \in Of(J), s \in S
               PROVE  Append(s, x) \in S
    OBVIOUS
  <2>1. s \in Seq(Lines) /\ x \in Lines /\ Append(s, x) \in Seq(Of(J))
    BY OfLines DEF Of
  <2>2. OfKinds(Append(s, x), K) = IF x.kind \in K THEN Append(OfKinds(s, K), x) ELSE OfKinds(s, K)
    BY <2>1, OfKindsAppend
  <2>3. OfKinds(s, K) \in Seq(Of(J \cap K))
    BY <1>1
  <2>4. x.kind \in K => x \in Of(J \cap K)
    BY DEF Of
  <2>5. OfKinds(Append(s, x), K) \in Seq(Of(J \cap K))
    <3>1. CASE x.kind \in K
      <4>1. Append(OfKinds(s, K), x) \in Seq(Of(J \cap K))
        BY <3>1, <2>3, <2>4
      <4> QED
        BY <3>1, <4>1, <2>2
    <3>2. CASE x.kind \notin K
      BY <3>2, <2>2, <2>3
    <3> QED
      BY <3>1, <3>2
  <2> QED
    BY <1>1, <2>1, <2>5
<1> QED
  BY <1>1, <1>2, <1>3, SequenceInduction

LEMMA OfKindsSeq ==
  ASSUME NEW K, NEW f \in Seq(Lines)
  PROVE  OfKinds(f, K) \in Seq(Of(K))
<1>1. Of(Kinds) = Lines
  BY DEF Of, Lines
<1>2. OfKinds(f, K) \in Seq(Of(Kinds \cap K))
  BY <1>1, OfKindsIn
<1> QED
  BY <1>2, OfSubset

LEMMA ConcatAppend ==
  ASSUME NEW A, NEW s \in Seq(A), NEW r \in Seq(A), NEW x \in A
  PROVE  s \o Append(r, x) = Append(s \o r, x) /\ s \o <<>> = s /\ <<>> \o s = s
  OBVIOUS

LEMMA OfKindsConcat ==
  ASSUME NEW K, NEW f \in Seq(Lines), NEW r \in Seq(Lines)
  PROVE  OfKinds(f \o r, K) = OfKinds(f, K) \o OfKinds(r, K)
<1>1. PICK S : S = {s \in Seq(Lines) : OfKinds(f \o s, K) = OfKinds(f, K) \o OfKinds(s, K)}
  OBVIOUS
<1>0. \A s \in Seq(Lines) : OfKinds(s, K) \in Seq(Lines)
  BY OfKindsSeq, OfLines
<1>2. <<>> \in S
  <2>1. f \o <<>> = f /\ OfKinds(f, K) \o <<>> = OfKinds(f, K)
    BY <1>0
  <2>2. OfKinds(<<>>, K) = <<>>
    BY OfKindsEmpty
  <2>3. OfKinds(f \o <<>>, K) = OfKinds(f, K) \o OfKinds(<<>>, K)
    BY <2>1, <2>2
  <2>4. <<>> \in Seq(Lines)
    OBVIOUS
  <2> QED
    BY <1>1, <2>3, <2>4
<1>3. \A s \in Seq(Lines) : \A x \in Lines : s \in S => Append(s, x) \in S
  <2> SUFFICES ASSUME NEW s \in Seq(Lines), NEW x \in Lines, s \in S
               PROVE  Append(s, x) \in S
    OBVIOUS
  <2>1. f \o Append(s, x) = Append(f \o s, x) /\ f \o s \in Seq(Lines) /\ Append(s, x) \in Seq(Lines)
    OBVIOUS
  <2>2. OfKinds(Append(f \o s, x), K)
          = IF x.kind \in K THEN Append(OfKinds(f \o s, K), x) ELSE OfKinds(f \o s, K)
    BY <2>1, OfKindsAppend
  <2>3. OfKinds(Append(s, x), K) = IF x.kind \in K THEN Append(OfKinds(s, K), x) ELSE OfKinds(s, K)
    BY OfKindsAppend
  <2>4. OfKinds(f, K) \o Append(OfKinds(s, K), x) = Append(OfKinds(f, K) \o OfKinds(s, K), x)
    BY <1>0, ConcatAppend
  <2>5. OfKinds(f \o s, K) = OfKinds(f, K) \o OfKinds(s, K)
    BY <1>1
  <2>6. OfKinds(f \o Append(s, x), K) = OfKinds(f, K) \o OfKinds(Append(s, x), K)
    BY <2>1, <2>2, <2>3, <2>4, <2>5
  <2> QED
    BY <1>1, <2>1, <2>6
<1> QED
  BY <1>1, <1>2, <1>3, SequenceInduction

LEMMA OfKindsTwice ==
  ASSUME NEW J, NEW K, NEW f \in Seq(Lines)
  PROVE  OfKinds(OfKinds(f, J), K) = OfKinds(f, J \cap K)
<1>1. PICK S : S = {s \in Seq(Lines) : OfKinds(OfKinds(s, J), K) = OfKinds(s, J \cap K)}
  OBVIOUS
<1>2. <<>> \in S
  BY <1>1, OfKindsEmpty
<1>3. \A s \in Seq(Lines) : \A x \in Lines : s \in S => Append(s, x) \in S
  <2> SUFFICES ASSUME NEW s \in Seq(Lines), NEW x \in Lines, s \in S
               PROVE  Append(s, x) \in S
    OBVIOUS
  <2>1. PICK t \in Seq(Lines) : t = OfKinds(s, J)
    BY OfKindsSeq, OfLines
  <2>2. OfKinds(Append(s, x), J) = IF x.kind \in J THEN Append(t, x) ELSE t
    BY <2>1, OfKindsAppend
  <2>3. OfKinds(Append(s, x), J \cap K)
          = IF x.kind \in J \cap K THEN Append(OfKinds(s, J \cap K), x) ELSE OfKinds(s, J \cap K)
    BY OfKindsAppend
  <2>4. OfKinds(Append(t, x), K) = IF x.kind \in K THEN Append(OfKinds(t, K), x) ELSE OfKinds(t, K)
    BY OfKindsAppend
  <2>5. OfKinds(t, K) = OfKinds(s, J \cap K)
    BY <1>1, <2>1
  <2>6. OfKinds(OfKinds(Append(s, x), J), K) = OfKinds(Append(s, x), J \cap K)
    <3>1. CASE x.kind \in J
      <4>1. OfKinds(OfKinds(Append(s, x), J), K) = OfKinds(Append(t, x), K)
        BY <3>1, <2>2
      <4>2. x.kind \in J \cap K <=> x.kind \in K
        BY <3>1
      <4>3. OfKinds(Append(s, x), J \cap K) = IF x.kind \in K THEN Append(OfKinds(t, K), x) ELSE OfKinds(t, K)
        BY <2>3, <2>5, <4>2
      <4> QED
        BY <2>4, <4>1, <4>3
    <3>2. CASE x.kind \notin J
      BY <3>2, <2>1, <2>2, <2>3, <2>5
    <3> QED
      BY <3>1, <3>2
  <2>7. Append(s, x) \in Seq(Lines)
    OBVIOUS
  <2> QED
    BY <1>1, <2>6, <2>7
<1> QED
  BY <1>1, <1>2, <1>3, SequenceInduction

LEMMA OfKindsNone ==
  ASSUME NEW J, NEW K, J \cap K = {}, NEW f \in Seq(Of(J))
  PROVE  OfKinds(f, K) = <<>>
<1>1. OfKinds(f, K) \in Seq(Of({}))
  BY OfKindsIn
<1>2. Of({}) = {}
  BY DEF Of
<1> QED
  BY <1>1, <1>2

Unmarked == Seq(Of(Kinds \ {"marker"}))

\* A file with a marker is what comes before the first marker, the marker, and a
\* rest.
LEMMA MarkerSplits ==
  ASSUME NEW f \in Seq(Lines), f \notin Unmarked
  PROVE  \E q \in Unmarked, m \in Of({"marker"}), r \in Seq(Lines) : f = Append(q, m) \o r
<1> DEFINE Splits(s) == \E q \in Unmarked, m \in Of({"marker"}), r \in Seq(Lines) : s = Append(q, m) \o r
<1>1. PICK S : S = {s \in Seq(Lines) : s \in Unmarked \/ Splits(s)}
  OBVIOUS
<1>2. <<>> \in S
  BY <1>1 DEF Unmarked
<1>3. \A s \in Seq(Lines) : \A x \in Lines : s \in S => Append(s, x) \in S
  <2> SUFFICES ASSUME NEW s \in Seq(Lines), NEW x \in Lines, s \in S
               PROVE  Append(s, x) \in S
    OBVIOUS
  <2>1. Append(s, x) \in Seq(Lines)
    OBVIOUS
  <2>2. CASE s \in Unmarked /\ x.kind # "marker"
    <3>1. x \in Of(Kinds \ {"marker"})
      BY <2>2 DEF Of, Lines
    <3>2. Append(s, x) \in Unmarked
      BY <2>2, <3>1 DEF Unmarked
    <3> QED
      BY <1>1, <2>1, <3>2
  <2>3. CASE s \in Unmarked /\ x.kind = "marker"
    <3>1. x \in Of({"marker"}) /\ <<>> \in Seq(Lines)
      BY <2>3 DEF Of
    <3>2. Append(s, x) = Append(s, x) \o <<>>
      BY <2>1
    <3>3. Splits(Append(s, x))
      BY <2>3, <3>1, <3>2
    <3> QED
      BY <1>1, <2>1, <3>3
  <2>4. CASE Splits(s)
    <3>1. PICK q \in Unmarked, m \in Of({"marker"}), r \in Seq(Lines) : s = Append(q, m) \o r
      BY <2>4
    <3>2. Append(q, m) \in Seq(Lines)
      BY OfLines DEF Unmarked, Of
    <3>3. Append(s, x) = Append(q, m) \o Append(r, x) /\ Append(r, x) \in Seq(Lines)
      <4>1. PICK p \in Seq(Lines) : p = Append(q, m)
        BY <3>2
      <4>2. p \o Append(r, x) = Append(p \o r, x)
        BY ConcatAppend
      <4>3. Append(r, x) \in Seq(Lines)
        OBVIOUS
      <4> QED
        BY <3>1, <4>1, <4>2, <4>3
    <3>4. Splits(Append(s, x))
      BY <3>3
    <3> QED
      BY <1>1, <2>1, <3>4
  <2> QED
    BY <1>1, <2>2, <2>3, <2>4
<1>4. f \in S
  BY <1>1, <1>2, <1>3, SequenceInduction
<1> QED
  BY <1>1, <1>4

LEMMA UpToFirst ==
  ASSUME NEW q \in Unmarked, NEW m \in Of({"marker"}), NEW r \in Seq(Lines)
  PROVE  /\ UpToMarker(Append(q, m) \o r) = Append(q, m)
         /\ Append(q, m) \o r \in Seq(Lines) \ Unmarked
         /\ Append(q, m) \in Seq(Lines)
<1>0. q \in Seq(Lines) /\ m \in Lines /\ m.kind = "marker"
  BY OfLines DEF Unmarked, Of
<1>1. PICK n \in Nat : n = Len(q)
  BY <1>0
<1>2. PICK p : p = Append(q, m)
  OBVIOUS
<1>3. /\ p \in Seq(Lines) /\ Len(p) = n + 1 /\ p[n + 1] = m
      /\ \A i \in 1 .. n : p[i] = q[i]
  BY <1>0, <1>1, <1>2
<1>4. PICK l \in Nat : l = Len(r)
  OBVIOUS
<1>5. PICK f : f = p \o r
  OBVIOUS
<1>6. /\ f \in Seq(Lines) /\ Len(f) = (n + 1) + l
      /\ \A i \in 1 .. (n + 1) : f[i] = p[i]
  <2>0. p \in Seq(Lines)
    BY <1>3
  <2>1. f \in Seq(Lines) /\ Len(f) = Len(p) + Len(r)
    BY <2>0, <1>5
  <2>2. \A i \in 1 .. Len(p) : f[i] = p[i]
    BY <2>0, <1>5
  <2> QED
    BY <1>3, <1>4, <2>1, <2>2
<1>7. PICK k \in Nat : k = n + 1
  OBVIOUS
<1>8. k \in 1 .. Len(f) /\ f[k].kind = "marker"
  BY <1>0, <1>3, <1>6, <1>7
<1>9. \A i \in 1 .. n : f[i].kind # "marker"
  <2>1. \A i \in 1 .. n : q[i].kind # "marker"
    BY <1>1 DEF Unmarked, Of
  <2> QED
    BY <2>1, <1>3, <1>6
<1>10. PICK I : I = {i \in 1 .. Len(f) : f[i].kind = "marker"}
  OBVIOUS
<1>11. k \in I /\ \A i \in I : k <= i
  BY <1>6, <1>7, <1>8, <1>9, <1>10
<1>12. Min(I) = k
  <2>1. PICK a : a = Min(I)
    OBVIOUS
  <2>2. a \in I /\ \A i \in I : a <= i
    BY <1>11, <2>1 DEF Min
  <2>3. a \in Nat /\ a <= k /\ k <= a
    BY <1>10, <1>11, <2>2
  <2>4. a = k
    BY <2>3
  <2> QED
    BY <2>1, <2>4
<1>13. UpToMarker(f) = SubSeq(f, 1, k)
  <2>1. SelectInSeq(f, LAMBDA x : x.kind = "marker") = Min(I)
    BY <1>10, <1>11 DEF SelectInSeq
  <2>2. \E i \in DOMAIN f : f[i].kind = "marker"
    BY <1>6, <1>8
  <2> QED
    BY <1>12, <2>1, <2>2 DEF UpToMarker
<1>14. SubSeq(f, 1, k) = p
  <2>1. PICK c : c = SubSeq(f, 1, k)
    OBVIOUS
  <2>2. \A i \in 1 .. k : f[i] \in Lines
    BY <1>6, <1>7
  <2>3. c \in Seq(Lines) /\ Len(c) = k /\ \A i \in 1 .. k : c[i] = f[i]
    BY <1>6, <1>7, <2>1, <2>2
  <2>4. \A i \in 1 .. Len(c) : c[i] = p[i]
    BY <1>6, <1>7, <2>3
  <2>5. Len(c) = Len(p)
    BY <1>3, <1>7, <2>3
  <2>6. c = p
    BY <1>3, <2>3, <2>4, <2>5, SeqEqual
  <2> QED
    BY <2>1, <2>6
<1>15. f \notin Unmarked
  BY <1>8 DEF Unmarked, Of
<1> QED
  BY <1>2, <1>3, <1>5, <1>6, <1>13, <1>14, <1>15

LEMMA UpToEnd ==
  ASSUME NEW f \in Unmarked
  PROVE  UpToMarker(f) = f
<1>1. \A i \in DOMAIN f : f[i].kind # "marker"
  BY DEF Unmarked, Of
<1> QED
  BY <1>1 DEF UpToMarker

LEMMA UpToMarkerIn ==
  ASSUME NEW J, NEW f \in Seq(Of(J))
  PROVE  UpToMarker(f) \in Seq(Of(J))
<1>0. f \in Seq(Lines)
  BY OfLines
<1>1. CASE f \in Unmarked
  BY <1>1, UpToEnd
<1>2. CASE f \notin Unmarked
  <2>1. PICK q \in Unmarked, m \in Of({"marker"}), r \in Seq(Lines) : f = Append(q, m) \o r
    BY <1>0, <1>2, MarkerSplits
  <2>2. PICK p : p = Append(q, m)
    OBVIOUS
  <2>3. UpToMarker(f) = p /\ p \in Seq(Lines) /\ f = p \o r
    BY <2>1, <2>2, UpToFirst
  <2>4. \A i \in 1 .. Len(p) : i \in DOMAIN f /\ p[i] = f[i]
    BY <2>3
  <2>5. \A i \in 1 .. Len(p) : p[i] \in Of(J)
    BY <2>4
  <2>6. p \in Seq(Of(J))
    BY <2>3, <2>5
  <2> QED
    BY <2>3, <2>6
<1> QED
  BY <1>1, <1>2

-----------------------------------------------------------------------------
(* What is made of a boot file.                                            *)

NoOverlay == Seq(Of(Kinds \ {"overlay"}))
OwnKinds == {"own", "append", "marker"}
ExtlinuxKinds == {"own", "append", "overlay"}

Distinct(f) == \A i, j \in OverlaysIn(f) : i # j => f[i].port # f[j].port

\* A file that no setup was cut short in and that no other one has disturbed.
SoundFile(f) ==
  /\ f \in Seq(Lines)
  /\ Own(f) = Own(original)
  /\ original \notin Unmarked => f \notin Unmarked /\ UpToMarker(f) \in NoOverlay
  /\ is_rockchip_platform \/ original \notin Unmarked => Distinct(f)

\* What holds of any file, whatever became of the setups that wrote it.
AnyFile(f) ==
  /\ f \in Seq(Lines)
  /\ is_rockchip_platform => f \in Seq(Of(ExtlinuxKinds))

\* A camera, or the camera detection of the firmware: in any file that no two
\* setups wrote at once, one that is cut short too.
OneDetection(f) == f \in NoOverlay \/ f \in Seq(Of(Kinds \ {"auto1"}))

UnitOK == board \in Boards /\ original \in BootFiles[board] /\ second \in Camera2[board] \cup {NoSecond}

LEMMA NoOverlayIsDistinct ==
  ASSUME NEW f \in NoOverlay PROVE OverlaysIn(f) = {} /\ Distinct(f)
<1>1. \A i \in DOMAIN f : f[i].kind # "overlay"
  BY DEF NoOverlay, Of
<1> QED
  BY <1>1 DEF OverlaysIn, Distinct

LEMMA OriginalIsSound ==
  ASSUME UnitOK PROVE SoundFile(original) /\ AnyFile(original) /\ OneDetection(original)
<1>1. original \in Seq(Lines)
  BY CameraAssumption DEF UnitOK
<1>2. \A i \in DOMAIN original : original[i] \in Lines /\ original[i].kind # "overlay"
  BY <1>1, CameraAssumption DEF UnitOK
<1>3. original \in NoOverlay
  <2>1. \A i \in DOMAIN original : original[i].kind \in Kinds \ {"overlay"}
    BY <1>2 DEF Lines
  <2> QED
    BY <1>1, <2>1, AllOf DEF NoOverlay
<1>4. is_rockchip_platform => original \in Seq(Of(ExtlinuxKinds))
  <2> SUFFICES ASSUME is_rockchip_platform PROVE original \in Seq(Of(ExtlinuxKinds))
    OBVIOUS
  <2>1. \A i \in DOMAIN original : original[i].kind \in {"own", "append"}
    BY CameraAssumption DEF UnitOK, is_rockchip_platform
  <2>2. \A i \in DOMAIN original : original[i].kind \in ExtlinuxKinds
    BY <2>1 DEF ExtlinuxKinds
  <2> QED
    BY <1>1, <2>2, AllOf
<1>5. UpToMarker(original) \in NoOverlay
  BY <1>3, UpToMarkerIn DEF NoOverlay
<1> QED
  BY <1>1, <1>3, <1>4, <1>5, NoOverlayIsDistinct DEF SoundFile, AnyFile, OneDetection

LEMMA SmallConcat ==
  ASSUME NEW A, NEW x \in A, NEW y \in A
  PROVE  /\ <<>> \o <<>> = <<>> /\ <<>> \o <<x>> = <<x>>
         /\ <<x>> \o <<>> = <<x>> /\ <<x>> \o <<y>> = <<x, y>>
<1>1. PICK c : c = <<x>> \o <<y>>
  OBVIOUS
<1>2. c \in Seq(A) /\ Len(c) = 2 /\ c[1] = x /\ c[2] = y
  BY <1>1
<1>3. PICK d \in Seq(A) : d = <<x, y>> /\ Len(d) = 2
  <2>1. <<x, y>> \in Seq(A) /\ Len(<<x, y>>) = 2
    OBVIOUS
  <2> QED
    BY <2>1
<1>4. \A i \in 1 .. 2 : c[i] = d[i]
  BY <1>2, <1>3
<1>5. c = d
  BY <1>2, <1>3, <1>4, SeqEqual
<1>6. <<>> \o <<>> = <<>>
  OBVIOUS
<1>7. <<>> \o <<x>> = <<x>> /\ <<x>> \o <<>> = <<x>>
  BY ConcatEmptySeq
<1> QED
  BY <1>1, <1>3, <1>5, <1>6, <1>7

LEMMA SmallAreDistinct ==
  ASSUME NEW x, NEW y, x.port # y.port
  PROVE  Distinct(<<>>) /\ Distinct(<<x>>) /\ Distinct(<<x, y>>)
<1>1. Distinct(<<>>)
  BY DEF Distinct, OverlaysIn
<1>2. Distinct(<<x>>)
  BY DEF Distinct, OverlaysIn
<1>3. Distinct(<<x, y>>)
  BY DEF Distinct, OverlaysIn
<1> QED
  BY <1>1, <1>2, <1>3

\* The overlays of one setup are on different ports.
LEMMA OverlaysAre ==
  ASSUME UnitOK, NEW id, is_rockchip_platform => id \in DOMAIN Profiles
  PROVE  /\ Overlays(id) \in Seq(Of({"overlay"}))
         /\ Distinct(Overlays(id))
         /\ is_rockchip_platform => \E x \in Of({"overlay"}) : Overlays(id) = <<x>>
<1>1. \A i \in DOMAIN Profiles : Profiles[i].sensor \in Sensors /\ Profiles[i].rock \in Sensors
  BY DEF Sensors
<1>2. \A sensor \in Sensors, port \in Cams \cup {"none"} :
        /\ Overlay(sensor, port) \in Of({"overlay"})
        /\ Overlay(sensor, port).port = port
  BY DEF Of, Overlay, Lines, Kinds
<1>3. CASE is_rockchip_platform
  <2>1. PICK x \in Of({"overlay"}) : x = Overlay(Profiles[id].rock, "none")
    BY <1>1, <1>2, <1>3
  <2>2. Overlays(id) = <<x>>
    BY <1>3, <2>1 DEF Overlays
  <2>3. Distinct(<<x>>)
    BY DEF Distinct, OverlaysIn
  <2> QED
    BY <2>1, <2>2, <2>3
<1>4. CASE ~is_rockchip_platform
  <2>1. second.port \in Cams \cup {"none"} /\ second.port2 \in Cams \cup {"none"}
    BY CameraAssumption DEF UnitOK, NoSecond
  <2>2. PICK p, c : p = Ports.primary /\ c = Ports.secondary /\ p \in Cams /\ c \in Cams /\ p # c
    BY <2>1 DEF Ports, PortOf, Cams
  <2>3. PICK a : a = IF \E i \in Primary(id) : Profiles[i].sensor # "none"
                     THEN <<Overlay(Profiles[id].sensor, p)>> ELSE <<>>
    OBVIOUS
  <2>4. PICK b : b = IF \E i \in Secondary : Profiles[i].sensor # "none"
                     THEN <<Overlay(Profiles[second.id].sensor, c)>> ELSE <<>>
    OBVIOUS
  <2>5. Overlays(id) = a \o b
    BY <1>4, <2>2, <2>3, <2>4 DEF Overlays
  <2>6. a = <<>> \/ \E x \in Of({"overlay"}) : a = <<x>> /\ x.port = p
    BY <2>2, <2>3, <1>1, <1>2 DEF Primary, Profile
  <2>7. b = <<>> \/ \E x \in Of({"overlay"}) : b = <<x>> /\ x.port = c
    BY <2>2, <2>4, <1>1, <1>2 DEF Secondary, Profile
  <2>8. CASE a = <<>> \/ b = <<>>
    <3>1. Overlays(id) = <<>> \/ \E x \in Of({"overlay"}) : Overlays(id) = <<x>>
      BY <2>5, <2>6, <2>7, <2>8, SmallConcat
    <3>2. CASE Overlays(id) = <<>>
      <4>1. Distinct(<<>>) /\ <<>> \in Seq(Of({"overlay"}))
        BY DEF Distinct, OverlaysIn
      <4> QED
        BY <1>4, <3>2, <4>1
    <3>3. CASE \E x \in Of({"overlay"}) : Overlays(id) = <<x>>
      <4>1. PICK x \in Of({"overlay"}) : Overlays(id) = <<x>>
        BY <3>3
      <4>2. Distinct(<<x>>) /\ <<x>> \in Seq(Of({"overlay"}))
        BY DEF Distinct, OverlaysIn
      <4> QED
        BY <1>4, <4>1, <4>2
    <3> QED
      BY <3>1, <3>2, <3>3
  <2>9. CASE a # <<>> /\ b # <<>>
    <3>1. PICK x \in Of({"overlay"}) : a = <<x>> /\ x.port = p
      BY <2>6, <2>9
    <3>2. PICK y \in Of({"overlay"}) : b = <<y>> /\ y.port = c
      BY <2>7, <2>9
    <3>3. Overlays(id) = <<x, y>>
      BY <2>5, <3>1, <3>2, SmallConcat
    <3>4. Distinct(<<x, y>>)
      BY <2>2, <3>1, <3>2, SmallAreDistinct
    <3>5. <<x, y>> \in Seq(Of({"overlay"}))
      OBVIOUS
    <3> QED
      BY <1>4, <3>3, <3>4, <3>5
  <2> QED
    BY <2>8, <2>9
<1> QED
  BY <1>3, <1>4

LEMMA DistinctConcat ==
  ASSUME NEW p \in NoOverlay, NEW a \in Seq(Lines), Distinct(a)
  PROVE  Distinct(p \o a)
<1>0. p \in Seq(Lines)
  BY OfLines DEF NoOverlay
<1>1. PICK n \in Nat, k \in Nat : n = Len(p) /\ k = Len(a)
  BY <1>0
<1>2. PICK c : c = p \o a
  OBVIOUS
<1>3. c \in Seq(Lines) /\ Len(c) = n + k
  BY <1>0, <1>1, <1>2, ConcatProperties
<1>4. \A i \in 1 .. (n + k) : c[i] = IF i <= n THEN p[i] ELSE a[i - n]
  BY <1>0, <1>1, <1>2, ConcatProperties
<1>5. \A i \in 1 .. n : p[i].kind # "overlay"
  BY <1>1 DEF NoOverlay, Of
<1>6. DOMAIN c = 1 .. (n + k) /\ DOMAIN a = 1 .. k
  BY <1>1, <1>3
<1>7. ASSUME NEW i \in OverlaysIn(c)
      PROVE  i \in Int /\ i - n \in OverlaysIn(a) /\ c[i] = a[i - n]
  <2>1. i \in 1 .. (n + k) /\ c[i].kind = "overlay"
    BY <1>6 DEF OverlaysIn
  <2>2. ~(i <= n)
    BY <1>4, <1>5, <2>1
  <2>3. i - n \in 1 .. k /\ c[i] = a[i - n]
    BY <1>4, <2>1, <2>2
  <2> QED
    BY <1>6, <2>1, <2>3 DEF OverlaysIn
<1>8. ASSUME NEW i \in OverlaysIn(c), NEW j \in OverlaysIn(c), i # j
      PROVE  c[i].port # c[j].port
  <2>1. i - n # j - n
    BY <1>7, <1>8
  <2>2. a[i - n].port # a[j - n].port
    BY <1>7, <2>1 DEF Distinct
  <2> QED
    BY <1>7, <2>2
<1>9. Distinct(c)
  BY <1>8 DEF Distinct
<1> QED
  BY <1>2, <1>9

LEMMA OneOf ==
  ASSUME NEW K, NEW x \in Of(K) PROVE <<x>> \in Seq(Of(K))
  OBVIOUS

LEMMA AddedIs ==
  ASSUME NEW o \in Seq(Of({"overlay"}))
  PROVE  /\ Added(o) \in Seq(Of({"vc4", "auto0", "overlay"}))
         /\ Distinct(o) => Distinct(Added(o))
         /\ o = <<>> => Added(o) \in NoOverlay
<1>1. Line("vc4") \in Of({"vc4"}) /\ Line("auto0") \in Of({"auto0"})
  <2>1. "none" \in Sensors
    BY DEF Sensors
  <2> QED
    BY <2>1 DEF Of, Line, Lines, Kinds
<1>2. PICK v : v = <<Line("vc4")>>
  OBVIOUS
<1>3. PICK w : w = <<Line("auto0")>>
  OBVIOUS
<1>4. /\ v \in Seq(Of({"vc4"})) /\ w \in Seq(Of({"auto0"}))
      /\ v \in NoOverlay /\ w \in NoOverlay
      /\ v \in Seq(Of({"vc4", "auto0", "overlay"})) /\ w \in Seq(Of({"vc4", "auto0", "overlay"}))
  <2>1. v \in Seq(Of({"vc4"})) /\ w \in Seq(Of({"auto0"}))
    BY <1>1, <1>2, <1>3, OneOf
  <2>2. /\ {"vc4"} \subseteq Kinds \ {"overlay"} /\ {"auto0"} \subseteq Kinds \ {"overlay"}
        /\ {"vc4"} \subseteq {"vc4", "auto0", "overlay"} /\ {"auto0"} \subseteq {"vc4", "auto0", "overlay"}
    BY DEF Kinds
  <2> QED
    BY <2>1, <2>2, OfSubset DEF NoOverlay
<1>5. o \in Seq(Lines) /\ o \in Seq(Of({"vc4", "auto0", "overlay"}))
  BY OfLines, OfSubset
<1>6. CASE o = <<>>
  <2>1. Added(o) = v
    <3>1. Added(o) = v \o <<>>
      BY <1>2, <1>6 DEF Added
    <3>2. v \o <<>> = v
      BY <1>4, ConcatEmptySeq
    <3> QED
      BY <3>1, <3>2
  <2> QED
    BY <1>4, <2>1, NoOverlayIsDistinct
<1>7. CASE o # <<>>
  <2>1. Added(o) = v \o (w \o o)
    BY <1>2, <1>3, <1>7 DEF Added
  <2>2. w \o o \in Seq(Of({"vc4", "auto0", "overlay"}))
    BY <1>4, <1>5, ConcatProperties
  <2>3. v \o (w \o o) \in Seq(Of({"vc4", "auto0", "overlay"}))
    BY <1>4, <2>2, ConcatProperties
  <2>4. Distinct(o) => Distinct(w \o o)
    BY <1>4, <1>5, DistinctConcat
  <2>5. w \o o \in Seq(Lines)
    BY <2>2, OfLines
  <2>6. Distinct(o) => Distinct(v \o (w \o o))
    BY <1>4, <2>4, <2>5, DistinctConcat
  <2> QED
    BY <1>7, <2>1, <2>3, <2>6
<1> QED
  BY <1>6, <1>7

LEMMA OwnIs ==
  ASSUME NEW f \in Seq(Lines)
  PROVE  Own(f) = OfKinds(UpToMarker(f), OwnKinds) /\ UpToMarker(f) \in Seq(Lines)
<1>1. Of(Kinds) = Lines
  BY DEF Of, Lines
<1> QED
  BY <1>1, UpToMarkerIn DEF Own, OwnKinds

\* What update_boot_config makes of a sound config.txt is sound.
LEMMA ConfigIsSound ==
  ASSUME ~is_rockchip_platform, NEW f, SoundFile(f), NEW o \in Seq(Of({"overlay"})), Distinct(o)
  PROVE  SoundFile(ConfigWith(f, o))
<1>1. f \in Seq(Lines) /\ Own(f) = Own(original)
  BY DEF SoundFile
<1>2. PICK a : a = Added(o)
  OBVIOUS
<1>3. /\ a \in Seq(Of({"vc4", "auto0", "overlay"})) /\ a \in Seq(Lines)
      /\ Distinct(a) /\ OfKinds(a, OwnKinds) = <<>>
  <2>1. a \in Seq(Of({"vc4", "auto0", "overlay"})) /\ Distinct(a)
    BY <1>2, AddedIs
  <2>2. {"vc4", "auto0", "overlay"} \cap OwnKinds = {}
    BY DEF OwnKinds
  <2> QED
    BY <2>1, <2>2, OfLines, OfKindsNone
<1>4. PICK K : K = Kept(o)
  OBVIOUS
<1>5. K \cap OwnKinds = OwnKinds /\ "marker" \in K
  BY <1>4 DEF Kept, OwnKinds, Kinds
<1>6. PICK u : u = UpToMarker(f)
  OBVIOUS
<1>7. u \in Seq(Lines) /\ Own(f) = OfKinds(u, OwnKinds)
  BY <1>1, <1>6, OwnIs
<1>8. PICK p : p = OfKinds(u, K)
  OBVIOUS
<1>9. p \in Seq(Lines) /\ OfKinds(p, OwnKinds) = OfKinds(u, OwnKinds)
  BY <1>5, <1>7, <1>8, OfKindsSeq, OfLines, OfKindsTwice
<1>10. ConfigWith(f, o) = p \o a /\ p \o a \in Seq(Lines)
  <2>1. ConfigWith(f, o) = p \o a
    BY <1>2, <1>4, <1>6, <1>8 DEF ConfigWith
  <2> QED
    BY <2>1, <1>3, <1>9, ConcatProperties
<1>11. CASE f \in Unmarked
  <2>1. u = f /\ original \in Unmarked
    BY <1>6, <1>11, UpToEnd DEF SoundFile
  <2>2. p \in Unmarked
    <3>1. p \in Seq(Of((Kinds \ {"marker"}) \cap K))
      BY <1>8, <1>11, <2>1, OfKindsIn DEF Unmarked
    <3> QED
      BY <3>1, OfSubset DEF Unmarked
  <2>3. p \o a \in Unmarked
    <3>1. {"vc4", "auto0", "overlay"} \subseteq Kinds \ {"marker"}
      BY DEF Kinds
    <3>2. a \in Unmarked
      BY <1>3, <3>1, OfSubset DEF Unmarked
    <3> QED
      BY <2>2, <3>2, ConcatProperties DEF Unmarked
  <2>4. Own(p \o a) = OfKinds(p \o a, OwnKinds)
    BY <1>10, <2>3, UpToEnd, OwnIs
  <2>5. OfKinds(p \o a, OwnKinds) = OfKinds(p, OwnKinds) \o <<>>
    BY <1>3, <1>9, OfKindsConcat
  <2>6. OfKinds(p, OwnKinds) \o <<>> = OfKinds(p, OwnKinds)
    BY <1>9, OfKindsSeq, ConcatEmptySeq
  <2> QED
    BY <1>1, <1>7, <1>9, <1>10, <2>1, <2>4, <2>5, <2>6 DEF SoundFile
<1>12. CASE f \notin Unmarked
  <2>1. PICK q \in Unmarked, m \in Of({"marker"}), r \in Seq(Lines) : f = Append(q, m) \o r
    BY <1>1, <1>12, MarkerSplits
  <2>2. u = Append(q, m)
    BY <1>6, <2>1, UpToFirst
  <2>3. PICK s \in Unmarked : s = OfKinds(q, K)
    <3>1. OfKinds(q, K) \in Seq(Of((Kinds \ {"marker"}) \cap K))
      BY OfKindsIn DEF Unmarked
    <3> QED
      BY <3>1, OfSubset DEF Unmarked
  <2>4. p = Append(s, m)
    <3>1. q \in Seq(Lines) /\ m \in Lines /\ m.kind \in K
      BY <1>5, OfLines DEF Unmarked, Of
    <3> QED
      BY <1>8, <2>2, <2>3, <3>1, OfKindsAppend
  <2>5. UpToMarker(p \o a) = p /\ p \o a \notin Unmarked
    BY <1>3, <2>4, UpToFirst
  <2>6. Own(p \o a) = OfKinds(p, OwnKinds)
    BY <1>10, <2>5, OwnIs
  <2>7. ASSUME original \notin Unmarked
        PROVE  p \in NoOverlay /\ Distinct(p \o a)
    <3>1. u \in NoOverlay
      BY <1>6, <2>7 DEF SoundFile
    <3>2. p \in Seq(Of((Kinds \ {"overlay"}) \cap K))
      BY <1>8, <3>1, OfKindsIn DEF NoOverlay
    <3>3. p \in NoOverlay
      BY <3>2, OfSubset DEF NoOverlay
    <3> QED
      BY <1>3, <3>3, DistinctConcat
  <2> QED
    BY <1>1, <1>7, <1>9, <1>10, <2>5, <2>6, <2>7 DEF SoundFile
<1> QED
  BY <1>11, <1>12

LEMMA ConfigIsAny ==
  ASSUME ~is_rockchip_platform, NEW f, AnyFile(f), NEW o \in Seq(Of({"overlay"}))
  PROVE  AnyFile(ConfigWith(f, o)) /\ (OneDetection(f) => OneDetection(ConfigWith(f, o)))
<1>1. f \in Seq(Lines)
  BY DEF AnyFile
<1>2. PICK a : a = Added(o)
  OBVIOUS
<1>3. a \in Seq(Of({"vc4", "auto0", "overlay"})) /\ a \in Seq(Of(Kinds \ {"auto1"})) /\ a \in Seq(Lines)
  <2>1. a \in Seq(Of({"vc4", "auto0", "overlay"}))
    BY <1>2, AddedIs
  <2>2. {"vc4", "auto0", "overlay"} \subseteq Kinds \ {"auto1"}
    BY DEF Kinds
  <2> QED
    BY <2>1, <2>2, OfSubset, OfLines
<1>4. PICK K : K = Kept(o)
  OBVIOUS
<1>5. PICK u : u = UpToMarker(f)
  OBVIOUS
<1>6. u \in Seq(Lines)
  BY <1>1, <1>5, OwnIs
<1>7. PICK p : p = OfKinds(u, K)
  OBVIOUS
<1>8. p \in Seq(Lines)
  BY <1>6, <1>7, OfKindsSeq, OfLines
<1>9. ConfigWith(f, o) = p \o a /\ p \o a \in Seq(Lines)
  <2>1. ConfigWith(f, o) = p \o a
    BY <1>2, <1>4, <1>5, <1>7 DEF ConfigWith
  <2> QED
    BY <2>1, <1>3, <1>8, ConcatProperties
<1>10. ASSUME p \in Seq(Of(Kinds \ {"auto1"}))
       PROVE  p \o a \in Seq(Of(Kinds \ {"auto1"}))
  BY <1>3, <1>10, ConcatProperties
<1>11. CASE o # <<>>
  <2>1. p \in Seq(Of(K))
    BY <1>6, <1>7, OfKindsSeq
  <2>2. K \subseteq Kinds \ {"auto1"}
    BY <1>4, <1>11 DEF Kept
  <2> QED
    BY <1>9, <1>10, <2>1, <2>2, OfSubset DEF AnyFile, OneDetection
<1>12. CASE o = <<>> /\ f \in NoOverlay
  <2>1. u \in NoOverlay /\ a \in NoOverlay
    BY <1>2, <1>5, <1>12, UpToMarkerIn, AddedIs DEF NoOverlay
  <2>2. p \in Seq(Of((Kinds \ {"overlay"}) \cap K))
    BY <1>7, <2>1, OfKindsIn DEF NoOverlay
  <2>3. p \in NoOverlay
    BY <2>2, OfSubset DEF NoOverlay
  <2>4. p \o a \in NoOverlay
    BY <2>1, <2>3, ConcatProperties DEF NoOverlay
  <2> QED
    BY <1>9, <2>4 DEF AnyFile, OneDetection
<1>13. CASE f \in Seq(Of(Kinds \ {"auto1"}))
  <2>1. u \in Seq(Of(Kinds \ {"auto1"}))
    BY <1>5, <1>13, UpToMarkerIn
  <2>2. p \in Seq(Of((Kinds \ {"auto1"}) \cap K))
    BY <1>7, <2>1, OfKindsIn
  <2> QED
    BY <1>9, <1>10, <2>2, OfSubset DEF AnyFile, OneDetection
<1> QED
  BY <1>9, <1>11, <1>12, <1>13 DEF AnyFile, OneDetection

LEMMA CutInTwo ==
  ASSUME NEW A, NEW s \in Seq(A), NEW k \in 1 .. Len(s)
  PROVE  /\ SubSeq(s, 1, k - 1) \in Seq(A) /\ SubSeq(s, k, Len(s)) \in Seq(A)
         /\ SubSeq(s, 1, k - 1) \o SubSeq(s, k, Len(s)) = s
<1>1. PICK n \in Nat, j \in Nat : n = Len(s) /\ j = k - 1
  OBVIOUS
<1>2. PICK a, b : a = SubSeq(s, 1, k - 1) /\ b = SubSeq(s, k, Len(s))
  OBVIOUS
<1>3. \A i \in 1 .. n : s[i] \in A
  BY <1>1
<1>4. a \in Seq(A) /\ Len(a) = j /\ \A i \in 1 .. j : a[i] = s[i]
  <2>1. \A i \in 1 .. j : s[i] \in A
    BY <1>1, <1>3
  <2>2. a = SubSeq(s, 1, j)
    BY <1>1, <1>2
  <2> QED
    BY <2>1, <2>2
<1>5. b \in Seq(A) /\ Len(b) = n - j /\ \A i \in 1 .. (n - j) : b[i] = s[j + i]
  <2>1. \A i \in k .. n : s[i] \in A
    BY <1>1, <1>3
  <2>2. b = SubSeq(s, k, n) /\ k \in Int /\ n \in Int /\ k = j + 1 /\ k <= n
    BY <1>1, <1>2
  <2>3. b \in Seq(A) /\ Len(b) = n - k + 1 /\ \A i \in 1 .. (n - k + 1) : b[i] = s[k + i - 1]
    BY <2>1, <2>2, SubSeqProperties
  <2>4. n - k + 1 = n - j /\ \A i \in 1 .. (n - j) : k + i - 1 = j + i
    BY <2>2
  <2> QED
    BY <2>3, <2>4
<1>6. PICK c : c = a \o b
  OBVIOUS
<1>7. c \in Seq(A) /\ Len(c) = j + (n - j)
  BY <1>4, <1>5, <1>6, ConcatProperties
<1>8. \A i \in 1 .. (j + (n - j)) : c[i] = IF i <= j THEN a[i] ELSE b[i - j]
  BY <1>4, <1>5, <1>6, ConcatProperties
<1>9. \A i \in 1 .. n : c[i] = s[i]
  <2> SUFFICES ASSUME NEW i \in 1 .. n PROVE c[i] = s[i]
    OBVIOUS
  <2>1. CASE i <= j
    BY <1>1, <1>4, <1>8, <2>1
  <2>2. CASE ~(i <= j)
    <3>1. i - j \in 1 .. (n - j) /\ j + (i - j) = i /\ i \in 1 .. (j + (n - j))
      BY <1>1, <2>2
    <3> QED
      BY <1>5, <1>8, <2>2, <3>1
  <2> QED
    BY <2>1, <2>2
<1>10. Len(c) = Len(s)
  BY <1>1, <1>7
<1>11. c = s
  BY <1>1, <1>7, <1>9, <1>10, SeqEqual
<1> QED
  BY <1>2, <1>4, <1>5, <1>6, <1>11

\* What update_extlinux makes of a file: the former overlays give way to the new
\* one, which is put in somewhere.
LEMMA ExtlinuxIs ==
  ASSUME NEW f \in Seq(Lines), NEW o \in Seq(Lines)
  PROVE  \E a, b \in Seq(Lines) :
           /\ a \o b = OfKinds(f, Kinds \ {"overlay"})
           /\ ExtlinuxWith(f, o) = (a \o o) \o b
<1>1. PICK s \in Seq(Lines) : s = OfKinds(f, Kinds \ {"overlay"})
  BY OfKindsSeq, OfLines
<1>2. PICK I : I = {i \in 1 .. Len(s) : s[i].kind = "append"}
  OBVIOUS
<1>3. PICK at : at = SelectInSeq(s, LAMBDA l : l.kind = "append")
  OBVIOUS
<1>4. at = IF I # {} THEN Min(I) ELSE 0
  BY <1>2, <1>3 DEF SelectInSeq
<1>5. ExtlinuxWith(f, o) = IF at = 0 THEN s \o o ELSE (SubSeq(s, 1, at - 1) \o o) \o SubSeq(s, at, Len(s))
  BY <1>1, <1>3 DEF ExtlinuxWith
<1>6. CASE at = 0
  <2>1. <<>> \in Seq(Lines) /\ s \o <<>> = s
    OBVIOUS
  <2>2. PICK c \in Seq(Lines) : c = s \o o
    BY ConcatProperties
  <2>3. c \o <<>> = c
    OBVIOUS
  <2>4. ExtlinuxWith(f, o) = (s \o o) \o <<>>
    BY <1>5, <1>6, <2>2, <2>3
  <2> QED
    BY <1>1, <2>1, <2>4
<1>7. CASE at # 0
  <2>1. I # {}
    BY <1>4, <1>7
  <2>2. I \subseteq Nat
    BY <1>2
  <2>3. PICK x \in I : \A y \in I : x <= y
    BY <2>1, <2>2, LeastNatural
  <2>4. at \in I
    <3>1. Min(I) \in I
      BY <2>3 DEF Min
    <3> QED
      BY <1>4, <2>1, <3>1
  <2>5. at \in 1 .. Len(s)
    BY <1>2, <2>4
  <2>6. PICK a, b : a = SubSeq(s, 1, at - 1) /\ b = SubSeq(s, at, Len(s))
    OBVIOUS
  <2>7. a \in Seq(Lines) /\ b \in Seq(Lines) /\ a \o b = s
    BY <2>5, <2>6, CutInTwo
  <2>8. ExtlinuxWith(f, o) = (a \o o) \o b
    BY <1>5, <1>7, <2>6
  <2> QED
    BY <1>1, <2>7, <2>8
<1> QED
  BY <1>6, <1>7

LEMMA ConcatOf ==
  ASSUME NEW J, NEW a \in Seq(Lines), NEW b \in Seq(Lines), a \o b \in Seq(Of(J))
  PROVE  a \in Seq(Of(J)) /\ b \in Seq(Of(J))
<1>1. PICK n \in Nat, k \in Nat : n = Len(a) /\ k = Len(b)
  OBVIOUS
<1>2. PICK c : c = a \o b
  OBVIOUS
<1>3. Len(c) = n + k /\ c \in Seq(Of(J)) /\ \A i \in 1 .. (n + k) : c[i] = IF i <= n THEN a[i] ELSE b[i - n]
  BY <1>1, <1>2, ConcatProperties
<1>4. \A i \in 1 .. (n + k) : c[i].kind \in J
  BY <1>3 DEF Of
<1>5. \A i \in DOMAIN a : a[i].kind \in J
  <2> SUFFICES ASSUME NEW i \in 1 .. n PROVE a[i].kind \in J
    BY <1>1
  <2>1. i \in 1 .. (n + k) /\ i <= n
    OBVIOUS
  <2> QED
    BY <1>3, <1>4, <2>1
<1>6. \A i \in DOMAIN b : b[i].kind \in J
  <2> SUFFICES ASSUME NEW i \in 1 .. k PROVE b[i].kind \in J
    BY <1>1
  <2>1. PICK j \in 1 .. (n + k) : j = n + i
    OBVIOUS
  <2>2. ~(j <= n) /\ j - n = i
    BY <2>1
  <2> QED
    BY <1>3, <1>4, <2>2
<1> QED
  BY <1>5, <1>6, AllOf

LEMMA OneOverlay ==
  ASSUME NEW a \in NoOverlay, NEW b \in NoOverlay, NEW x
  PROVE  Distinct((a \o <<x>>) \o b)
<1>1. PICK n \in Nat, k \in Nat : n = Len(a) /\ k = Len(b)
  BY DEF NoOverlay
<1>2. PICK A : A = Of(Kinds \ {"overlay"}) \cup {x}
  OBVIOUS
<1>3. a \in Seq(A) /\ b \in Seq(A)
  <2>1. \A s \in NoOverlay : s \in Seq(A)
    <3> SUFFICES ASSUME NEW s \in NoOverlay PROVE s \in Seq(A)
      OBVIOUS
    <3>1. \A i \in DOMAIN s : s[i] \in A
      BY <1>2 DEF NoOverlay
    <3> QED
      BY <3>1 DEF NoOverlay
  <2> QED
    BY <2>1
<1>10. PICK y \in Seq(A) : y = <<x>> /\ Len(y) = 1
  <2>1. <<x>> \in Seq(A) /\ Len(<<x>>) = 1
    BY <1>2
  <2> QED
    BY <2>1
<1>4. PICK c : c = (a \o <<x>>) \o b
  OBVIOUS
<1>5. PICK d \in Seq(A) : /\ d = a \o y /\ Len(d) = n + 1
                         /\ \A i \in 1 .. (n + 1) : d[i] = IF i <= n THEN a[i] ELSE y[i - n]
  <2>1. PICK d : d = a \o y
    OBVIOUS
  <2>2. d \in Seq(A) /\ Len(d) = n + 1
    BY <1>1, <1>3, <1>10, <2>1, ConcatProperties
  <2>3. \A i \in 1 .. (n + 1) : d[i] = IF i <= n THEN a[i] ELSE y[i - n]
    BY <1>1, <1>3, <1>10, <2>1, ConcatProperties
  <2> QED
    BY <2>1, <2>2, <2>3
<1>11. c = d \o b
  BY <1>4, <1>5, <1>10
<1>6. c \in Seq(A) /\ Len(c) = (n + 1) + k
  <2>1. d \o b \in Seq(A) /\ Len(d \o b) = Len(d) + Len(b)
    BY <1>3, ConcatProperties
  <2> QED
    BY <1>1, <1>5, <1>11, <2>1
<1>7. \A i \in 1 .. ((n + 1) + k) : c[i] = IF i <= n + 1 THEN d[i] ELSE b[i - (n + 1)]
  BY <1>1, <1>3, <1>5, <1>11, ConcatProperties
<1>8. (\A i \in 1 .. n : a[i].kind # "overlay") /\ (\A i \in 1 .. k : b[i].kind # "overlay")
  BY <1>1 DEF NoOverlay, Of
<1>9. ASSUME NEW i \in OverlaysIn(c)
      PROVE  i = n + 1
  <2>1. i \in 1 .. ((n + 1) + k) /\ c[i].kind = "overlay"
    BY <1>6 DEF OverlaysIn
  <2>2. CASE i <= n
    <3>1. i \in 1 .. n /\ i \in 1 .. (n + 1)
      BY <2>1, <2>2
    <3>2. d[i] = a[i]
      BY <1>5, <2>2, <3>1
    <3>4. i <= n + 1
      BY <3>1
    <3>3. c[i] = a[i]
      BY <1>7, <2>1, <3>2, <3>4
    <3> QED
      BY <1>8, <2>1, <3>1, <3>3
  <2>3. CASE ~(i <= n + 1)
    <3>1. i - (n + 1) \in 1 .. k
      BY <2>1, <2>3
    <3>2. c[i] = b[i - (n + 1)]
      BY <1>7, <2>1, <2>3
    <3> QED
      BY <1>8, <2>1, <3>1, <3>2
  <2> QED
    BY <2>1, <2>2, <2>3
<1> QED
  BY <1>4, <1>9 DEF Distinct

LEMMA ExtlinuxIsAny ==
  ASSUME NEW f \in Seq(Of(ExtlinuxKinds)), NEW o \in Seq(Of({"overlay"}))
  PROVE  ExtlinuxWith(f, o) \in Seq(Of(ExtlinuxKinds))
<1>1. f \in Seq(Lines) /\ o \in Seq(Lines)
  BY OfLines
<1>2. PICK a \in Seq(Lines), b \in Seq(Lines) :
        /\ a \o b = OfKinds(f, Kinds \ {"overlay"})
        /\ ExtlinuxWith(f, o) = (a \o o) \o b
  BY <1>1, ExtlinuxIs
<1>3. a \o b \in Seq(Of(ExtlinuxKinds))
  <2>1. OfKinds(f, Kinds \ {"overlay"}) \in Seq(Of(ExtlinuxKinds \cap (Kinds \ {"overlay"})))
    BY OfKindsIn
  <2>2. PICK J, s : J = ExtlinuxKinds \cap (Kinds \ {"overlay"}) /\ s = OfKinds(f, Kinds \ {"overlay"})
    OBVIOUS
  <2>3. J \subseteq ExtlinuxKinds /\ s \in Seq(Of(J))
    BY <2>1, <2>2
  <2>4. s \in Seq(Of(ExtlinuxKinds))
    BY <2>3, OfSubset
  <2> QED
    BY <1>2, <2>2, <2>4
<1>4. a \in Seq(Of(ExtlinuxKinds)) /\ b \in Seq(Of(ExtlinuxKinds))
  BY <1>3, ConcatOf
<1>5. o \in Seq(Of(ExtlinuxKinds))
  BY OfSubset DEF ExtlinuxKinds
<1>6. a \o o \in Seq(Of(ExtlinuxKinds))
  BY <1>4, <1>5, ConcatProperties
<1>7. (a \o o) \o b \in Seq(Of(ExtlinuxKinds))
  BY <1>4, <1>6, ConcatProperties
<1> QED
  BY <1>2, <1>7

LEMMA ExtlinuxIsSound ==
  ASSUME UnitOK, is_rockchip_platform, NEW f \in Seq(Of(ExtlinuxKinds)), SoundFile(f),
         NEW x \in Of({"overlay"})
  PROVE  SoundFile(ExtlinuxWith(f, <<x>>))
<1>0. PICK o \in Seq(Of({"overlay"})) : o = <<x>>
  BY OneOf
<1>1. f \in Seq(Lines) /\ o \in Seq(Lines)
  BY OfLines
<1>2. PICK a \in Seq(Lines), b \in Seq(Lines) :
        /\ a \o b = OfKinds(f, Kinds \ {"overlay"})
        /\ ExtlinuxWith(f, o) = (a \o o) \o b
  BY <1>1, ExtlinuxIs
<1>3. PICK e \in Seq(Of(ExtlinuxKinds)) : e = ExtlinuxWith(f, o)
  BY ExtlinuxIsAny
<1>4. \A s \in Seq(Of(ExtlinuxKinds)) : s \in Unmarked /\ Own(s) = OfKinds(s, OwnKinds)
  <2>1. ExtlinuxKinds \subseteq Kinds \ {"marker"}
    BY DEF ExtlinuxKinds, Kinds
  <2> SUFFICES ASSUME NEW s \in Seq(Of(ExtlinuxKinds)) PROVE s \in Unmarked /\ Own(s) = OfKinds(s, OwnKinds)
    OBVIOUS
  <2>2. s \in Unmarked /\ s \in Seq(Lines)
    BY <2>1, OfSubset, OfLines DEF Unmarked
  <2> QED
    BY <2>2, UpToEnd, OwnIs
<1>5. original \in Unmarked
  <2>1. original \in Seq(Of(ExtlinuxKinds))
    BY OriginalIsSound DEF AnyFile
  <2> QED
    BY <1>4, <2>1
<1>6. OfKinds(e, OwnKinds) = OfKinds(f, OwnKinds)
  <2>1. OfKinds(o, OwnKinds) = <<>>
    <3>1. {"overlay"} \cap OwnKinds = {}
      BY DEF OwnKinds
    <3> QED
      BY <3>1, OfKindsNone
  <2>2. PICK d \in Seq(Lines) : d = a \o o
    BY <1>1, ConcatProperties
  <2>9. e = d \o b
    BY <1>2, <1>3, <2>2
  <2>3. OfKinds(d \o b, OwnKinds) = OfKinds(d, OwnKinds) \o OfKinds(b, OwnKinds)
    BY OfKindsConcat
  <2>4. OfKinds(d, OwnKinds) = OfKinds(a, OwnKinds) \o OfKinds(o, OwnKinds)
    <3>1. OfKinds(a \o o, OwnKinds) = OfKinds(a, OwnKinds) \o OfKinds(o, OwnKinds)
      BY <1>1, OfKindsConcat
    <3> QED
      BY <2>2, <3>1
  <2>5. OfKinds(a, OwnKinds) \o <<>> = OfKinds(a, OwnKinds)
    BY OfKindsSeq, ConcatEmptySeq
  <2>6. OfKinds(a, OwnKinds) \o OfKinds(b, OwnKinds) = OfKinds(a \o b, OwnKinds)
    BY OfKindsConcat
  <2>7. OfKinds(a \o b, OwnKinds) = OfKinds(f, (Kinds \ {"overlay"}) \cap OwnKinds)
    <3>1. OfKinds(OfKinds(f, Kinds \ {"overlay"}), OwnKinds) = OfKinds(f, (Kinds \ {"overlay"}) \cap OwnKinds)
      BY <1>1, OfKindsTwice
    <3> QED
      BY <1>2, <3>1
  <2>8. (Kinds \ {"overlay"}) \cap OwnKinds = OwnKinds
    BY DEF Kinds, OwnKinds
  <2> QED
    BY <2>1, <2>3, <2>4, <2>5, <2>6, <2>7, <2>8, <2>9
<1>7. Distinct(e)
  <2>1. a \o b \in NoOverlay
    BY <1>1, <1>2, OfKindsSeq DEF NoOverlay
  <2>2. a \in NoOverlay /\ b \in NoOverlay
    BY <2>1, ConcatOf DEF NoOverlay
  <2> QED
    BY <1>0, <1>2, <1>3, <2>2, OneOverlay
<1>8. e \in Seq(Lines) /\ Own(e) = Own(original)
  BY <1>4, <1>6, OfLines DEF SoundFile
<1>9. SoundFile(e)
  BY <1>5, <1>7, <1>8 DEF SoundFile
<1> QED
  BY <1>0, <1>3, <1>9

\* What a setup writes.
LEMMA WrittenIsSound ==
  ASSUME UnitOK, NEW f, SoundFile(f), AnyFile(f), NEW id, is_rockchip_platform => id \in DOMAIN Profiles
  PROVE  SoundFile(FileWith(f, id))
<1>1. PICK o : o = Overlays(id)
  OBVIOUS
<1>2. /\ o \in Seq(Of({"overlay"})) /\ Distinct(o)
      /\ is_rockchip_platform => \E x \in Of({"overlay"}) : o = <<x>>
  BY <1>1, OverlaysAre
<1>3. CASE is_rockchip_platform
  <2>1. PICK x \in Of({"overlay"}) : o = <<x>>
    BY <1>2, <1>3
  <2>2. SoundFile(ExtlinuxWith(f, <<x>>))
    BY <1>3, ExtlinuxIsSound DEF AnyFile
  <2> QED
    BY <1>1, <1>3, <2>1, <2>2 DEF FileWith
<1>4. CASE ~is_rockchip_platform
  BY <1>1, <1>2, <1>4, ConfigIsSound DEF FileWith
<1> QED
  BY <1>3, <1>4

LEMMA WrittenIsAny ==
  ASSUME UnitOK, NEW f, AnyFile(f), NEW id, is_rockchip_platform => id \in DOMAIN Profiles
  PROVE  AnyFile(FileWith(f, id)) /\ (OneDetection(f) => OneDetection(FileWith(f, id)))
<1>1. PICK o : o = Overlays(id)
  OBVIOUS
<1>2. o \in Seq(Of({"overlay"}))
  BY <1>1, OverlaysAre
<1>3. CASE is_rockchip_platform
  <2>1. ExtlinuxWith(f, o) \in Seq(Of(ExtlinuxKinds))
    BY <1>2, <1>3, ExtlinuxIsAny DEF AnyFile
  <2>2. ExtlinuxKinds \subseteq Kinds \ {"auto1"}
    BY DEF ExtlinuxKinds, Kinds
  <2>3. AnyFile(ExtlinuxWith(f, o)) /\ OneDetection(ExtlinuxWith(f, o))
    BY <2>1, <2>2, OfSubset, OfLines DEF AnyFile, OneDetection
  <2> QED
    BY <1>1, <1>3, <2>3 DEF FileWith
<1>4. CASE ~is_rockchip_platform
  BY <1>1, <1>2, <1>4, ConfigIsAny DEF FileWith
<1> QED
  BY <1>3, <1>4

\* What a shorter text leaves of a longer one.
LEMMA TailsAre ==
  ASSUME NEW A, NEW f \in Seq(A), NEW rest \in Tails(f)
  PROVE  rest \in Seq(A)
<1>1. CASE rest = <<>>
  BY <1>1
<1>2. CASE rest # <<>>
  <2>1. PICK k \in 2..Len(f) : rest = SubSeq(f, k, Len(f))
    BY <1>2 DEF Tails
  <2>2. k \in 1..Len(f)
    OBVIOUS
  <2> QED
    BY <2>1, <2>2, CutInTwo
<1> QED
  BY <1>1, <1>2

LEMMA NothingLeft == Tails(<<>>) = {<<>>}
<1>1. 2..Len(<<>>) = {}
  OBVIOUS
<1> QED
  BY <1>1 DEF Tails

\* What is on the disk after the write of one setup over the file of another.
LEMMA OverwrittenIsAny ==
  ASSUME NEW w, AnyFile(w), NEW f, AnyFile(f), NEW rest \in Tails(f)
  PROVE  AnyFile(w \o rest)
<1>1. w \in Seq(Lines) /\ rest \in Seq(Lines)
  BY TailsAre DEF AnyFile
<1>2. w \o rest \in Seq(Lines)
  BY <1>1, ConcatProperties
<1>3. ASSUME is_rockchip_platform
      PROVE  w \o rest \in Seq(Of(ExtlinuxKinds))
  <2>1. w \in Seq(Of(ExtlinuxKinds)) /\ rest \in Seq(Of(ExtlinuxKinds))
    BY <1>3, TailsAre DEF AnyFile
  <2> QED
    BY <2>1, ConcatProperties
<1> QED
  BY <1>2, <1>3 DEF AnyFile

-----------------------------------------------------------------------------
(* What the steps of Device are to the cameras.                            *)

\* A thread begins to apply a config, or has done so.
Begins(t) ==
  /\ At(t, "none")
  /\ threads' = [threads EXCEPT ![t].at = "load"]
  /\ raced' = (raced \/ \E u \in 0..Threads : Applying(u))
  /\ camera' \in {camera} \cup Ids[board]
  /\ UNCHANGED <<unit, bootFile, tuning, torn>>

Ends(t) ==
  /\ threads[t].at \in {"applied", "refused"}
  /\ threads' = [threads EXCEPT ![t] = NoThread]
  /\ UNCHANGED <<unit, bootFile, tuning, camera, torn, raced>>

Stops == Stop /\ camera' \in {camera, NoCamera} /\ second' \in {second, NoSecond}

LEMMA CameraActs ==
  ASSUME [Next]_vars
  PROVE  /\ board' = board
         /\ \/ UNCHANGED cvars
            \/ \E t \in 0..Threads : Begins(t) \/ Ends(t) \/ ApplyStep(t)
            \/ Stops
<1>0. 0 \in 0..Threads /\ \A t \in 1..Threads : t \in 0..Threads
  BY CameraAssumption
<1>1. CASE MainStep
  <2>1. CASE FirstMounts
    <3>1. Begins(0)
      BY <2>1 DEF FirstMounts, StartApplying, Begins
    <3> QED
      BY <1>0, <2>1, <3>1 DEF FirstMounts, config
  <2>2. CASE FirstCameraEnds
    <3>1. Ends(0)
      BY <2>2 DEF FirstCameraEnds, Ends
    <3> QED
      BY <1>0, <2>2, <3>1 DEF FirstCameraEnds, config
  <2>3. CASE CloseGate
    BY <2>3 DEF CloseGate
  <2>4. CASE PowerOn \/ EarlyScreen \/ run_firstboot_tasks \/ FirstResizeEnds \/ GetReady
    BY <2>4 DEF PowerOn, EarlyScreen, run_firstboot_tasks, FirstResizeEnds, GetReady, config
  <2>5. CASE LinkSerial \/ StartServices \/ start_ground_video_if_needed
    BY <2>5 DEF LinkSerial, StartServices, start_ground_video_if_needed, config
  <2> QED
    BY <1>1, <2>1, <2>2, <2>3, <2>4, <2>5 DEF MainStep
<1>2. CASE Requests
  <2>1. CASE \E t \in 1..Threads, id \in Ids[board] : handle_camera_setup_request(id, t)
    <3>1. PICK t \in 1..Threads, id \in Ids[board] : handle_camera_setup_request(id, t)
      BY <2>1
    <3>2. UNCHANGED cvars \/ Begins(t)
      BY <3>1 DEF handle_camera_setup_request, Begins, cvars, unit
    <3> QED
      BY <1>0, <3>1, <3>2 DEF handle_camera_setup_request, config
  <2>2. CASE handle_partition_resize_request \/ ResizeAnswered \/ PartitionsRequested \/ RoleChanges
    BY <2>2 DEF handle_partition_resize_request, ResizeAnswered, PartitionsRequested, RoleChanges, config
  <2>3. CASE \E action \in Actions : handle_video_request(action)
    BY <2>3 DEF handle_video_request, config
  <2>4. CASE \E r \in LinkRequests : LinkRequested(r)
    BY <2>4 DEF LinkRequested, config
  <2> QED
    BY <1>2, <2>1, <2>2, <2>3, <2>4 DEF Requests
<1>3. CASE \E t \in 0..Threads : CameraStep(t) \/ CameraThreadEnds(t)
  <2>1. PICK t \in 0..Threads : CameraStep(t) \/ CameraThreadEnds(t)
    BY <1>3
  <2>2. board' = board /\ (ApplyStep(t) \/ Ends(t))
    BY <2>1 DEF CameraStep, CameraThreadEnds, Ends, config
  <2> QED
    BY <2>2
<1>4. CASE Reboot \/ PowerCut \/ Restart
  BY <1>4 DEF Reboot, PowerCut, Restart, PowerOff, ProcessEnds, ConfigKept, Stops
<1>5. CASE ResizeOn \/ VideoOn \/ LinkOn \/ WorkerStarts \/ WorkerEnds \/ Recorded
  BY <1>5 DEF ResizeOn, VideoOn, LinkOn, WorkerStarts, WorkerEnds, Recorded, config
<1>6. CASE OpenHdOn \/ UserAndScreen \/ Plugging
  BY <1>6 DEF OpenHdOn, UserAndScreen, Plugging, config
<1>7. CASE UNCHANGED vars
  BY <1>7 DEF vars, config
<1> QED
  BY <1>1, <1>2, <1>3, <1>4, <1>5, <1>6, <1>7 DEF Next

-----------------------------------------------------------------------------
(* The types of the cameras.                                               *)

\* On a Radxa board a thread leaves the tuning alone, and it only writes for a
\* camera with a profile.
Fits(place, id) ==
  is_rockchip_platform =>
    place \in {"none", "load", "applied", "refused"} \/ (place \in {"read", "open", "write"} /\ id \in DOMAIN Profiles)
WritesProfiles == \A t \in 0..Threads : Fits(threads[t].at, threads[t].id)

CameraInv ==
  /\ board \in Boards /\ CameraTypeOK /\ WritesProfiles
  /\ AnyFile(bootFile) /\ \A t \in 0..Threads : AnyFile(threads[t].file)

ThreadRecord == [at : Positions, id : Ids[board] \cup {NoCamera}, file : Seq(Lines)]

LEMMA CameraInvInit == Init => CameraInv
<1> SUFFICES ASSUME Init PROVE CameraInv
  OBVIOUS
<1>1. /\ CameraInit /\ board \in Boards
      /\ second \in Camera2[board] \cup {NoSecond} /\ camera \in Ids[board] \cup {NoCamera}
  BY DeviceAssumption DEF Init, CameraInit
<1>2. UnitOK /\ bootFile = original
  BY <1>1 DEF UnitOK, CameraInit
<1>3. AnyFile(bootFile)
  BY <1>2, OriginalIsSound
<1>4. AnyFile(<<>>)
  BY DEF AnyFile
<1>5. NoThread \in ThreadRecord /\ NoThread.file = <<>> /\ NoThread.at = "none"
  BY DEF ThreadRecord, NoThread, Positions
<1>6. threads \in [0..Threads -> ThreadRecord] /\ \A t \in 0..Threads : threads[t] = NoThread
  BY <1>1, <1>5 DEF CameraInit
<1>7. CameraTypeOK
  BY <1>1, <1>2, <1>3, <1>6 DEF CameraTypeOK, CameraInit, ThreadRecord, UnitOK, AnyFile
<1> QED
  BY <1>1, <1>3, <1>4, <1>5, <1>6, <1>7 DEF CameraInv, WritesProfiles, Fits

\* What a step makes of the thread that takes it: where it is, for which camera,
\* with which file.
Thread(t, place, id, file) ==
  /\ threads' \in [0..Threads -> ThreadRecord]
  /\ threads'[t].at = place /\ threads'[t].id = id /\ threads'[t].file = file
  /\ \A u \in 0..Threads : u # t => threads'[u] = threads[u]

LEMMA ThreadSet ==
  ASSUME CameraTypeOK, NEW t \in 0..Threads, NEW r \in ThreadRecord,
         threads' = [threads EXCEPT ![t] = r]
  PROVE  Thread(t, r.at, r.id, r.file)
<1>1. threads \in [0..Threads -> ThreadRecord]
  BY DEF CameraTypeOK, ThreadRecord
<1> QED
  BY <1>1 DEF Thread

LEMMA ThreadGoes ==
  ASSUME CameraTypeOK, NEW t \in 0..Threads, NEW place \in Positions,
         threads' = [threads EXCEPT ![t].at = place]
  PROVE  Thread(t, place, threads[t].id, threads[t].file)
<1>1. threads \in [0..Threads -> ThreadRecord]
  BY DEF CameraTypeOK, ThreadRecord
<1>2. PICK r : r = [threads[t] EXCEPT !.at = place]
  OBVIOUS
<1>3. r \in ThreadRecord /\ r.at = place /\ r.id = threads[t].id /\ r.file = threads[t].file
  BY <1>1, <1>2 DEF ThreadRecord
<1>4. threads' = [threads EXCEPT ![t] = r]
  BY <1>2
<1> QED
  BY <1>3, <1>4, ThreadSet

LEMMA ThreadTakes ==
  ASSUME CameraTypeOK, NEW t \in 0..Threads, NEW place \in Positions, NEW file \in Seq(Lines),
         threads' = [threads EXCEPT ![t].at = place, ![t].file = file]
  PROVE  Thread(t, place, threads[t].id, file)
<1>1. threads \in [0..Threads -> ThreadRecord]
  BY DEF CameraTypeOK, ThreadRecord
<1>2. PICK r : r = [at |-> place, id |-> threads[t].id, file |-> file]
  OBVIOUS
<1>3. r \in ThreadRecord /\ r.at = place /\ r.id = threads[t].id /\ r.file = file
  BY <1>1, <1>2 DEF ThreadRecord
<1>4. PICK h : h = [threads EXCEPT ![t].at = place]
  OBVIOUS
<1>5. threads' = [h EXCEPT ![t].file = file]
  BY <1>4
<1>6. h[t] = [threads[t] EXCEPT !.at = place] /\ h \in [0..Threads -> ThreadRecord]
  BY <1>1, <1>4 DEF ThreadRecord
<1>7. [h[t] EXCEPT !.file = file] = r
  <2>1. threads[t] = [at |-> threads[t].at, id |-> threads[t].id, file |-> threads[t].file]
    BY <1>1 DEF ThreadRecord
  <2>2. h[t] = [at |-> place, id |-> threads[t].id, file |-> threads[t].file]
    BY <1>6, <2>1
  <2> QED
    BY <1>2, <2>2
<1>8. threads' = [h EXCEPT ![t] = r]
  BY <1>5, <1>7
<1>9. threads' \in [0..Threads -> ThreadRecord] /\ threads'[t] = r
  BY <1>3, <1>6, <1>8
<1>10. \A u \in 0..Threads : u # t => threads'[u] = threads[u]
  BY <1>1, <1>4, <1>6, <1>8
<1> QED
  BY <1>3, <1>9, <1>10 DEF Thread

TuningFiles == [current : {"stock", "custom", "torn", "none"}, backup : {"stock", "custom", "torn", "none"}]

LEMMA ThreadKeeps ==
  ASSUME CameraInv, NEW t \in 0..Threads, NEW place, NEW id, NEW file, Thread(t, place, id, file),
         AnyFile(file), Fits(place, id),
         UNCHANGED <<board, original, second>>, AnyFile(bootFile'),
         camera' \in Ids[board] \cup {NoCamera}, tuning' \in TuningFiles,
         torn' \in BOOLEAN, raced' \in BOOLEAN
  PROVE  CameraInv'
<1>1. \A f : AnyFile(f) => AnyFile(f)'
  BY DEF AnyFile, is_rockchip_platform
<1>2. CameraTypeOK'
  BY DEF CameraInv, CameraTypeOK, Thread, ThreadRecord, AnyFile, TuningFiles
<1>3. WritesProfiles'
  <2>1. \A p, i : Fits(p, i) => Fits(p, i)'
    BY DEF Fits, is_rockchip_platform
  <2>2. \A u \in 0..Threads : Fits(threads'[u].at, threads'[u].id)
    BY DEF CameraInv, WritesProfiles, Thread
  <2> QED
    BY <2>1, <2>2 DEF WritesProfiles
<1>4. \A u \in 0..Threads : AnyFile(threads'[u].file)
  BY DEF CameraInv, Thread
<1> QED
  BY <1>1, <1>2, <1>3, <1>4 DEF CameraInv

LEMMA ApplyStepTypes ==
  ASSUME CameraInv, NEW t \in 0..Threads, ApplyStep(t), board' = board
  PROVE  CameraInv'
<1>0. /\ CameraTypeOK /\ AnyFile(bootFile) /\ AnyFile(threads[t].file) /\ UnitOK
      /\ threads \in [0..Threads -> ThreadRecord] /\ threads[t] \in ThreadRecord
      /\ tuning \in TuningFiles /\ torn \in BOOLEAN /\ raced \in BOOLEAN
      /\ camera \in Ids[board] \cup {NoCamera}
  BY DEF CameraInv, CameraTypeOK, ThreadRecord, TuningFiles, UnitOK
<1>e. AnyFile(<<>>) /\ <<>> \in Seq(Lines)
  BY DEF AnyFile
<1>p. Positions = {"none", "load", "backup", "install", "clear", "restore", "discard", "read", "open",
                   "write", "applied", "refused"}
  BY DEF Positions
<1>f. Fits(threads[t].at, threads[t].id)
  BY DEF CameraInv, WritesProfiles
<1>1. CASE Load(t)
  <2>1. PICK place \in Positions :
          /\ threads' = [threads EXCEPT ![t] = [at |-> place, id |-> camera, file |-> <<>>]]
          /\ Fits(place, camera)
    <3> DEFINE chosen == Chosen(camera)
               tunes == ~is_rockchip_platform /\ chosen # {}
               place == CASE tunes /\ 42 \in chosen /\ tuning.backup = "none" -> "backup"
                          [] tunes /\ 33 \in chosen /\ tuning.backup # "none" -> "clear"
                          [] chosen # {} -> "read"
                          [] chosen = {} /\ camera \in ConfigurationOnly -> "applied"
                          [] OTHER -> "refused"
    <3>1. threads' = [threads EXCEPT ![t] = [at |-> place, id |-> camera, file |-> <<>>]]
      BY <1>1 DEF Load
    <3>2. is_rockchip_platform /\ chosen # {} => camera \in DOMAIN Profiles
      BY DEF Chosen, Primary, Profile
    <3>3. /\ place \in Positions /\ (chosen = {} => place \in {"applied", "refused"})
          /\ is_rockchip_platform => place \in {"read", "applied", "refused"}
      <4> HIDE DEF chosen
      <4> QED
        BY <1>p
    <3>4. Fits(place, camera)
      <4> HIDE DEF place, chosen
      <4> QED
        BY <3>2, <3>3 DEF Fits
    <3> HIDE DEF place
    <3> QED
      BY <3>1, <3>3, <3>4
  <2>2. PICK r \in ThreadRecord : r = [at |-> place, id |-> camera, file |-> <<>>]
    BY <1>0, <1>e DEF ThreadRecord
  <2>3. Thread(t, place, camera, <<>>)
    BY <1>0, <2>1, <2>2, ThreadSet
  <2>4. UNCHANGED <<original, second, bootFile, camera, tuning, torn, raced>>
    BY <1>1 DEF Load, unit
  <2> QED
    BY <1>0, <1>e, <2>1, <2>3, <2>4, ThreadKeeps
<1>2. CASE Backup(t) \/ Install(t) \/ Clear(t) \/ Restore(t) \/ Discard(t)
  <2>1. PICK place \in Positions : threads' = [threads EXCEPT ![t].at = place]
    BY <1>2, <1>p DEF Backup, Install, Clear, Restore, Discard, To
  <2>2. Fits(place, threads[t].id)
    BY <1>2, <1>f DEF Fits, Backup, Install, Clear, Restore, Discard, At
  <2>3. Thread(t, place, threads[t].id, threads[t].file)
    BY <1>0, <2>1, ThreadGoes
  <2>4. UNCHANGED <<original, second, bootFile, camera, raced>>
    BY <1>2 DEF Backup, Install, Clear, Restore, Discard, unit
  <2>5. tuning' \in TuningFiles /\ torn' \in BOOLEAN
    BY <1>0, <1>2 DEF Backup, Install, Clear, Restore, Discard, Copied, Copies, TuningFiles
  <2> QED
    BY <1>0, <2>2, <2>3, <2>4, <2>5, ThreadKeeps
<1>3. CASE Read(t)
  <2>1. UNCHANGED <<original, second, bootFile, camera, tuning, torn, raced>>
    BY <1>3 DEF Read, unit
  <2>2. CASE threads' = [threads EXCEPT ![t].at = "open", ![t].file = bootFile]
    <3>1. Thread(t, "open", threads[t].id, bootFile)
      BY <1>0, <1>p, <2>2, ThreadTakes DEF AnyFile
    <3>2. Fits("open", threads[t].id)
      BY <1>3, <1>f DEF Fits, Read, At
    <3> QED
      BY <1>0, <2>1, <3>1, <3>2, ThreadKeeps
  <2>3. CASE To(t, "refused")
    <3>1. Thread(t, "refused", threads[t].id, threads[t].file)
      BY <1>0, <1>p, <2>3, ThreadGoes DEF To
    <3>2. Fits("refused", threads[t].id)
      BY DEF Fits
    <3> QED
      BY <1>0, <2>1, <3>1, <3>2, ThreadKeeps
  <2> QED
    BY <1>3, <2>2, <2>3 DEF Read
<1>4. CASE Open(t)
  <2>1. UNCHANGED <<original, second, camera, tuning, torn, raced>>
    BY <1>4 DEF Open, unit
  <2>2. CASE To(t, "write") /\ bootFile' = <<>>
    <3>1. Thread(t, "write", threads[t].id, threads[t].file)
      BY <1>0, <1>p, <2>2, ThreadGoes DEF To
    <3>2. Fits("write", threads[t].id)
      BY <1>4, <1>f DEF Fits, Open, At
    <3> QED
      BY <1>0, <1>e, <2>1, <2>2, <3>1, <3>2, ThreadKeeps
  <2>3. CASE threads' = [threads EXCEPT ![t].at = "refused", ![t].file = <<>>] /\ UNCHANGED bootFile
    <3>1. Thread(t, "refused", threads[t].id, <<>>)
      BY <1>0, <1>e, <1>p, <2>3, ThreadTakes
    <3>2. Fits("refused", threads[t].id)
      BY DEF Fits
    <3> QED
      BY <1>0, <1>e, <2>1, <2>3, <3>1, <3>2, ThreadKeeps
  <2> QED
    BY <1>4, <2>2, <2>3 DEF Open
<1>5. CASE Write(t)
  <2>1. UNCHANGED <<original, second, camera, tuning, torn, raced>>
    BY <1>5 DEF Write, unit
  <2>2. Thread(t, "applied", threads[t].id, <<>>)
    BY <1>0, <1>e, <1>p, <1>5, ThreadTakes DEF Write
  <2>3. PICK rest \in Tails(bootFile) : bootFile' = FileWith(threads[t].file, threads[t].id) \o rest
    BY <1>5 DEF Write
  <2>4. is_rockchip_platform => threads[t].id \in DOMAIN Profiles
    BY <1>5, <1>f DEF Write, At, Fits
  <2>5. AnyFile(bootFile')
    <3>1. PICK w : w = FileWith(threads[t].file, threads[t].id) /\ AnyFile(w)
      BY <1>0, <2>4, WrittenIsAny
    <3> QED
      BY <1>0, <2>3, <3>1, OverwrittenIsAny
  <2>6. Fits("applied", threads[t].id)
    BY DEF Fits
  <2> QED
    BY <1>0, <1>e, <2>1, <2>2, <2>5, <2>6, ThreadKeeps
<1> QED
  BY <1>1, <1>2, <1>3, <1>4, <1>5 DEF ApplyStep

LEMMA StopTypes ==
  ASSUME CameraInv, Stops, board' = board
  PROVE  CameraInv'
<1>1. /\ CameraTypeOK /\ AnyFile(bootFile) /\ camera \in Ids[board] \cup {NoCamera}
      /\ tuning \in TuningFiles /\ torn \in BOOLEAN /\ raced \in BOOLEAN
  BY DEF CameraInv, CameraTypeOK, TuningFiles
<1>2. NoThread \in ThreadRecord /\ NoThread.file = <<>> /\ NoThread.at = "none"
  BY DEF ThreadRecord, NoThread, Positions
<1>3. threads' \in [0..Threads -> ThreadRecord] /\ \A u \in 0..Threads : threads'[u] = NoThread
  BY <1>2 DEF Stops, Stop
<1>4. /\ UNCHANGED <<original, bootFile, raced>>
      /\ camera' \in Ids[board] \cup {NoCamera} /\ second' \in Camera2[board] \cup {NoSecond}
  BY <1>1 DEF Stops, Stop, CameraTypeOK
<1>5. PICK c \in {tuning.current, "torn"}, b \in {tuning.backup, "torn"} :
        tuning' = [current |-> c, backup |-> b]
  BY DEF Stops, Stop
<1>6. tuning' \in TuningFiles
  BY <1>1, <1>5 DEF TuningFiles
<1>7. torn' \in BOOLEAN
  BY DEF Stops, Stop
<1>8. \A f : AnyFile(f) => AnyFile(f)'
  BY DEF AnyFile, is_rockchip_platform
<1>9. AnyFile(<<>>)
  BY DEF AnyFile
<1>10. CameraTypeOK'
  BY <1>1, <1>3, <1>4, <1>6, <1>7 DEF CameraTypeOK, ThreadRecord, TuningFiles
<1>11. WritesProfiles'
  BY <1>2, <1>3 DEF WritesProfiles, Fits
<1> QED
  BY <1>1, <1>2, <1>3, <1>4, <1>8, <1>9, <1>10, <1>11 DEF CameraInv

LEMMA BeginTypes ==
  ASSUME CameraInv, NEW t \in 0..Threads, Begins(t) \/ Ends(t), board' = board
  PROVE  CameraInv'
<1>0. /\ CameraTypeOK /\ AnyFile(bootFile) /\ AnyFile(threads[t].file)
      /\ tuning \in TuningFiles /\ torn \in BOOLEAN /\ raced \in BOOLEAN
      /\ camera \in Ids[board] \cup {NoCamera}
  BY DEF CameraInv, CameraTypeOK, TuningFiles
<1>1. CASE Begins(t)
  <2>1. Thread(t, "load", threads[t].id, threads[t].file)
    BY <1>0, <1>1, ThreadGoes DEF Begins, Positions
  <2>2. Fits("load", threads[t].id)
    BY DEF Fits
  <2>3. /\ UNCHANGED <<original, second, bootFile, tuning, torn>>
        /\ camera' \in Ids[board] \cup {NoCamera} /\ raced' \in BOOLEAN
    BY <1>0, <1>1 DEF Begins, unit
  <2> QED
    BY <1>0, <2>1, <2>2, <2>3, ThreadKeeps
<1>2. CASE Ends(t)
  <2>5. NoThread \in ThreadRecord /\ NoThread.at = "none" /\ NoThread.file = <<>>
    BY DEF ThreadRecord, NoThread, Positions
  <2>1. PICK r \in ThreadRecord : r = NoThread /\ r.at = "none" /\ r.file = <<>>
    BY <2>5
  <2>2. Thread(t, "none", r.id, <<>>)
    BY <1>0, <1>2, <2>1, ThreadSet DEF Ends
  <2>3. Fits("none", r.id) /\ AnyFile(<<>>)
    BY DEF Fits, AnyFile
  <2>4. UNCHANGED <<original, second, bootFile, camera, tuning, torn, raced>>
    BY <1>2 DEF Ends, unit
  <2> QED
    BY <1>0, <2>2, <2>3, <2>4, ThreadKeeps
<1> QED
  BY <1>1, <1>2

LEMMA CameraInvStep ==
  ASSUME CameraInv, [Next]_vars
  PROVE  CameraInv'
<1>1. CASE UNCHANGED cvars /\ board' = board
  <2>1. \A f : AnyFile(f) => AnyFile(f)'
    BY <1>1 DEF AnyFile, is_rockchip_platform
  <2>2. CameraTypeOK'
    BY <1>1 DEF CameraInv, CameraTypeOK, cvars, unit
  <2>3. WritesProfiles'
    BY <1>1 DEF CameraInv, WritesProfiles, Fits, is_rockchip_platform, cvars
  <2> QED
    BY <1>1, <2>1, <2>2, <2>3 DEF CameraInv, cvars
<1> QED
  BY <1>1, CameraActs, ApplyStepTypes, BeginTypes, StopTypes

-----------------------------------------------------------------------------
(* Setups one at a time, and none cut short.                               *)

Undisturbed == ~torn /\ ~raced
OneApplies == ~raced => \A t, u \in 0..Threads : Applying(t) /\ Applying(u) => t = u

\* Where a thread is in the switch between cameras, and the tuning files then.
TuningAt(place) ==
  /\ place = "backup" => tuning.backup = "none"
  /\ place \in {"install", "clear", "restore", "discard"} => tuning.backup = "stock"
  /\ place = "discard" => tuning.current = "stock"
TuningInv ==
  Undisturbed =>
    /\ tuning.backup \in {"none", "stock"}
    /\ tuning.backup = "none" => tuning.current = "stock"
    /\ \A t \in 0..Threads : TuningAt(threads[t].at)

FileInv ==
  Undisturbed =>
    /\ ~Writing => SoundFile(bootFile)
    /\ \A t \in 0..Threads : threads[t].at \in {"open", "write"} => SoundFile(threads[t].file)

\* As long as no two setups were under way at once: a camera or the detection of
\* the firmware in every file, and a file that is being written is still empty.
DetectionInv ==
  ~raced =>
    /\ OneDetection(bootFile)
    /\ \A t \in 0..Threads : OneDetection(threads[t].file) /\ (At(t, "write") => bootFile = <<>>)

\* Only the thread that takes a step changes.
LEMMA OthersStay ==
  ASSUME CameraInv, NEW t \in 0..Threads, Begins(t) \/ Ends(t) \/ ApplyStep(t)
  PROVE  \A u \in 0..Threads : u # t => threads'[u] = threads[u]
<1>1. threads \in [0..Threads -> ThreadRecord]
  BY DEF CameraInv, CameraTypeOK, ThreadRecord
<1>2. CameraTypeOK /\ bootFile \in Seq(Lines) /\ <<>> \in Seq(Lines)
  BY DEF CameraInv, CameraTypeOK
<1>3. CASE Read(t) \/ Open(t) \/ Write(t)
  <2>1. CASE \E place \in Positions : threads' = [threads EXCEPT ![t].at = place]
    BY <1>2, <2>1, ThreadGoes DEF Thread
  <2>2. CASE \E place \in Positions, file \in Seq(Lines) :
               threads' = [threads EXCEPT ![t].at = place, ![t].file = file]
    BY <1>2, <2>2, ThreadTakes DEF Thread
  <2> QED
    BY <1>2, <1>3, <2>1, <2>2 DEF Read, Open, Write, To, Positions
<1>4. CASE Begins(t) \/ Ends(t) \/ Load(t) \/ Backup(t) \/ Install(t) \/ Clear(t) \/ Restore(t) \/ Discard(t)
  <2>1. \E r : threads' = [threads EXCEPT ![t] = r]
    BY <1>4 DEF Begins, Ends, Load, Backup, Install, Clear, Restore, Discard, To
  <2> QED
    BY <1>1, <2>1
<1> QED
  BY <1>3, <1>4 DEF ApplyStep

LEMMA OneAppliesStep ==
  ASSUME CameraInv, OneApplies, [Next]_vars
  PROVE  OneApplies'
<1>1. CASE UNCHANGED cvars
  BY <1>1 DEF OneApplies, Applying, cvars
<1>2. CASE Stops
  <2>1. \A t \in 0..Threads : threads'[t].at = "none"
    BY <1>2 DEF Stops, Stop, NoThread
  <2> QED
    BY <2>1 DEF OneApplies, Applying
<1>3. ASSUME NEW t \in 0..Threads, Begins(t) \/ Ends(t) \/ ApplyStep(t)
      PROVE  OneApplies'
  <2>1. \A u \in 0..Threads : u # t => threads'[u] = threads[u]
    BY <1>3, OthersStay
  <2>2. ~raced' => ~raced
    BY <1>3 DEF Begins, Ends, ApplyStep, Load, Backup, Install, Clear, Restore, Discard, Read, Open, Write
  <2>3. ~raced' => \A u \in 0..Threads : u # t => ~Applying(u) \/ ~Applying(t)'
    <3>1. CASE Begins(t)
      BY <3>1 DEF Begins
    <3>2. CASE Ends(t)
      <4>1. threads'[t].at = "none"
        BY <3>2 DEF Ends, NoThread, CameraInv, CameraTypeOK
      <4> QED
        BY <4>1 DEF Applying
    <3>3. CASE ApplyStep(t)
      <4>1. Applying(t)
        BY <3>3 DEF ApplyStep, Load, Backup, Install, Clear, Restore, Discard, Read, Open, Write, At, Applying
      <4> QED
        BY <2>2, <4>1 DEF OneApplies
    <3> QED
      BY <1>3, <3>1, <3>2, <3>3
  <2>4. \A u \in 0..Threads : u # t => (Applying(u)' <=> Applying(u))
    BY <2>1 DEF Applying
  <2> QED
    BY <2>2, <2>3, <2>4 DEF OneApplies
<1> QED
  BY <1>1, <1>2, <1>3, CameraActs

\* What a thread that does not apply anything says of the tuning: nothing.
LEMMA IdleTuning ==
  ASSUME NEW t, ~Applying(t)
  PROVE  TuningAt(threads[t].at)
BY DEF Applying, TuningAt

LEMMA StaysDisturbed ==
  ASSUME [Next]_vars, Undisturbed'
  PROVE  Undisturbed
<1>1. CASE UNCHANGED cvars
  BY <1>1 DEF cvars, Undisturbed
<1>2. CASE Stops
  BY <1>2 DEF Stops, Stop, Undisturbed
<1>3. ASSUME NEW t \in 0..Threads, Begins(t) \/ Ends(t)
      PROVE  Undisturbed
  <2>1. torn' = torn
    BY <1>3 DEF Begins, Ends
  <2>2. ~raced' => ~raced
    BY <1>3 DEF Begins, Ends
  <2> QED
    BY <2>1, <2>2 DEF Undisturbed
<1>4. ASSUME NEW t \in 0..Threads, Load(t) \/ Clear(t) \/ Discard(t) \/ Read(t) \/ Open(t) \/ Write(t)
      PROVE  Undisturbed
  BY <1>4 DEF Load, Clear, Discard, Read, Open, Write, Undisturbed
<1>5. ASSUME NEW t \in 0..Threads, Backup(t) \/ Install(t) \/ Restore(t)
      PROVE  Undisturbed
  <2>1. raced' = raced /\ \E from, c : Copies(from, c)
    BY <1>5 DEF Backup, Install, Restore
  <2> QED
    BY <2>1 DEF Copies, Undisturbed
<1> QED
  BY <1>1, <1>2, <1>3, <1>4, <1>5, CameraActs DEF ApplyStep

\* The three steps that read and write the boot file, and what each makes of its
\* thread.
LEMMA ReadGoes ==
  ASSUME CameraInv, NEW t \in 0..Threads, Read(t)
  PROVE  \/ threads'[t].at = "open" /\ threads'[t].file = bootFile
         \/ threads'[t].at = "refused"
<1>1. CameraTypeOK /\ bootFile \in Seq(Lines) /\ {"open", "refused"} \subseteq Positions
  BY DEF CameraInv, CameraTypeOK, Positions
<1>2. CASE threads' = [threads EXCEPT ![t].at = "open", ![t].file = bootFile]
  <2>1. Thread(t, "open", threads[t].id, bootFile)
    BY <1>1, <1>2, ThreadTakes
  <2> QED
    BY <2>1 DEF Thread
<1>3. CASE To(t, "refused")
  BY <1>1, <1>3, ThreadGoes DEF Thread, To
<1> QED
  BY <1>2, <1>3 DEF Read

LEMMA OpenGoes ==
  ASSUME CameraInv, NEW t \in 0..Threads, Open(t)
  PROVE  \/ threads'[t].at = "write" /\ threads'[t].file = threads[t].file
         \/ threads'[t].at = "refused" /\ bootFile' = bootFile
<1>1. CameraTypeOK /\ <<>> \in Seq(Lines) /\ {"write", "refused"} \subseteq Positions
  BY DEF CameraInv, CameraTypeOK, Positions
<1>2. CASE threads' = [threads EXCEPT ![t].at = "refused", ![t].file = <<>>] /\ UNCHANGED bootFile
  BY <1>1, <1>2, ThreadTakes DEF Thread
<1>3. CASE To(t, "write")
  BY <1>1, <1>3, ThreadGoes DEF Thread, To
<1> QED
  BY <1>2, <1>3 DEF Open

LEMMA WriteGoes ==
  ASSUME CameraInv, NEW t \in 0..Threads, Write(t)
  PROVE  threads'[t].at = "applied"
<1>1. CameraTypeOK /\ <<>> \in Seq(Lines) /\ "applied" \in Positions
  BY DEF CameraInv, CameraTypeOK, Positions
<1> QED
  BY <1>1, ThreadTakes DEF Write, Thread

LEMMA TuningInvStep ==
  ASSUME CameraInv, OneApplies, TuningInv, [Next]_vars
  PROVE  TuningInv'
<1> SUFFICES ASSUME Undisturbed'
             PROVE  /\ (tuning.backup \in {"none", "stock"})'
                    /\ (tuning.backup = "none" => tuning.current = "stock")'
                    /\ \A t \in 0..Threads : TuningAt(threads[t].at)'
  BY DEF TuningInv
<1>0. Undisturbed
  BY StaysDisturbed
<1>1. /\ tuning.backup \in {"none", "stock"}
      /\ tuning.backup = "none" => tuning.current = "stock"
      /\ \A t \in 0..Threads : TuningAt(threads[t].at)
      /\ tuning \in TuningFiles /\ threads \in [0..Threads -> ThreadRecord]
  BY <1>0 DEF TuningInv, CameraInv, CameraTypeOK, TuningFiles, ThreadRecord
<1>2. CASE UNCHANGED cvars
  BY <1>1, <1>2 DEF cvars, TuningAt
<1>3. CASE Stops
  <2>1. tuning' = tuning
    BY <1>3 DEF Stops, Stop, Undisturbed
  <2>2. \A t \in 0..Threads : threads'[t].at = "none"
    BY <1>3 DEF Stops, Stop, NoThread
  <2> QED
    BY <1>1, <2>1, <2>2 DEF TuningAt
<1>4. ASSUME NEW t \in 0..Threads, Begins(t) \/ Ends(t) \/ ApplyStep(t)
      PROVE  /\ (tuning.backup \in {"none", "stock"})'
             /\ (tuning.backup = "none" => tuning.current = "stock")'
             /\ \A u \in 0..Threads : TuningAt(threads[u].at)'
  <2>1. \A u \in 0..Threads : u # t => threads'[u] = threads[u]
    BY <1>4, OthersStay
  <2>2. CASE tuning' = tuning /\ TuningAt(threads[t].at)'
    <3>1. \A u \in 0..Threads : TuningAt(threads[u].at)'
      BY <1>1, <2>1, <2>2 DEF TuningAt
    <3> QED
      BY <1>1, <2>2, <3>1
  <2>3. CASE Begins(t) \/ Ends(t) \/ Read(t) \/ Open(t) \/ Write(t)
    <3>1. threads'[t].at \in {"none", "load", "open", "write", "applied", "refused"}
      <4>1. CASE Ends(t)
        BY <1>1, <4>1 DEF Ends, NoThread
      <4>2. CASE Begins(t)
        BY <1>1, <4>2 DEF Begins, ThreadRecord
      <4>3. CASE Read(t)
        BY <1>1, <4>3, ReadGoes
      <4>4. CASE Open(t)
        BY <1>1, <4>4, OpenGoes
      <4>5. CASE Write(t)
        BY <1>1, <4>5, WriteGoes
      <4> QED
        BY <2>3, <4>1, <4>2, <4>3, <4>4, <4>5
    <3>2. tuning' = tuning
      BY <2>3 DEF Begins, Ends, Read, Open, Write
    <3> QED
      BY <2>2, <3>1, <3>2 DEF TuningAt
  <2>4. CASE Load(t)
    <3>1. tuning' = tuning
      BY <2>4 DEF Load
    <3>2. threads'[t].at = "backup" => tuning.backup = "none"
      BY <1>1, <2>4 DEF Load
    <3>3. threads'[t].at = "clear" => tuning.backup # "none"
      BY <1>1, <2>4 DEF Load
    <3>4. threads'[t].at \in {"backup", "clear", "read", "applied", "refused"}
      BY <1>1, <2>4 DEF Load
    <3> QED
      BY <1>1, <2>2, <3>1, <3>2, <3>3, <3>4 DEF TuningAt
  <2>5. CASE Backup(t) \/ Install(t) \/ Clear(t) \/ Restore(t) \/ Discard(t)
    <3>1. \A u \in 0..Threads : u # t => ~Applying(u)
      <4>1. Applying(t)
        BY <2>5 DEF Backup, Install, Clear, Restore, Discard, At, Applying
      <4> QED
        BY <1>0, <4>1 DEF OneApplies, Undisturbed
    <3>2. \A u \in 0..Threads : u # t => TuningAt(threads[u].at)'
      BY <2>1, <3>1 DEF Applying, TuningAt
    <3>3. /\ tuning'.backup \in {"none", "stock"}
          /\ tuning'.backup = "none" => tuning'.current = "stock"
          /\ TuningAt(threads[t].at)'
      <4>1. TuningAt(threads[t].at)
        BY <1>1
      <4>2. CASE Backup(t)
        <5>1. threads'[t].at = "install"
          BY <1>1, <4>2 DEF Backup, To
        <5>2. tuning.current = "stock"
          BY <1>1, <4>1, <4>2 DEF Backup, At, TuningAt
        <5>3. tuning'.backup = "stock"
          BY <1>1, <4>2, <5>2 DEF Backup, Copied, Copies, Undisturbed, TuningFiles
        <5> QED
          BY <5>1, <5>3 DEF TuningAt
      <4>3. CASE Install(t)
        <5>1. threads'[t].at = "read"
          BY <1>1, <4>3 DEF Install, To
        <5>2. tuning'.backup = "stock"
          BY <1>1, <4>1, <4>3 DEF Install, At, TuningAt, TuningFiles
        <5> QED
          BY <5>1, <5>2 DEF TuningAt
      <4>4. CASE Clear(t)
        <5>1. threads'[t].at = "restore"
          BY <1>1, <4>4 DEF Clear, To
        <5>2. tuning'.backup = "stock"
          BY <1>1, <4>1, <4>4 DEF Clear, At, TuningAt, TuningFiles
        <5> QED
          BY <5>1, <5>2 DEF TuningAt
      <4>5. CASE Restore(t)
        <5>1. threads'[t].at = "discard"
          BY <1>1, <4>5 DEF Restore, To
        <5>2. tuning.backup = "stock"
          BY <4>1, <4>5 DEF Restore, At, TuningAt
        <5>3. tuning'.backup = "stock" /\ tuning'.current = "stock"
          BY <1>1, <4>5, <5>2 DEF Restore, Copied, Copies, Undisturbed, TuningFiles
        <5> QED
          BY <5>1, <5>3 DEF TuningAt
      <4>6. CASE Discard(t)
        <5>1. threads'[t].at = "read"
          BY <1>1, <4>6 DEF Discard, To
        <5>2. tuning'.backup = "none" /\ tuning'.current = "stock"
          BY <1>1, <4>1, <4>6 DEF Discard, At, TuningAt, TuningFiles
        <5> QED
          BY <5>1, <5>2 DEF TuningAt
      <4> QED
        BY <2>5, <4>2, <4>3, <4>4, <4>5, <4>6
    <3> QED
      BY <3>2, <3>3
  <2> QED
    BY <1>4, <2>3, <2>4, <2>5 DEF ApplyStep
<1> QED
  BY <1>2, <1>3, <1>4, CameraActs

\* What a setup writes is all there is, if no other one is under way.
LEMMA WritesAll ==
  ASSUME CameraInv, DetectionInv, NEW t \in 0..Threads, Write(t), ~raced
  PROVE  bootFile' = FileWith(threads[t].file, threads[t].id)
<1>1. bootFile = <<>>
  BY DEF DetectionInv, Write
<1>2. PICK w : w = FileWith(threads[t].file, threads[t].id)
  OBVIOUS
<1>3. PICK rest \in Tails(bootFile) : bootFile' = w \o rest
  BY <1>2 DEF Write
<1>4. rest = <<>>
  BY <1>1, <1>3, NothingLeft
<1>5. is_rockchip_platform => threads[t].id \in DOMAIN Profiles
  BY DEF CameraInv, WritesProfiles, Fits, Write, At
<1>6. UnitOK /\ AnyFile(threads[t].file)
  BY DEF CameraInv, CameraTypeOK, UnitOK
<1>7. w \in Seq(Lines)
  BY <1>2, <1>5, <1>6, WrittenIsAny DEF AnyFile
<1>8. w \o <<>> = w
  BY <1>7, ConcatEmptySeq
<1> QED
  BY <1>2, <1>3, <1>4, <1>8

LEMMA DetectionInvStep ==
  ASSUME CameraInv, OneApplies, DetectionInv, [Next]_vars
  PROVE  DetectionInv'
<1> SUFFICES ASSUME ~raced'
             PROVE  /\ OneDetection(bootFile')
                    /\ \A t \in 0..Threads : /\ OneDetection(threads'[t].file)
                                             /\ threads'[t].at = "write" => bootFile' = <<>>
  BY DEF DetectionInv, OneDetection, NoOverlay, At
<1>0. ~raced
  BY CameraActs DEF cvars, Begins, Ends, Stops, Stop, ApplyStep, Load, Backup, Install, Clear, Restore,
     Discard, Read, Open, Write
<1>1. /\ OneDetection(bootFile)
      /\ \A t \in 0..Threads : OneDetection(threads[t].file) /\ (threads[t].at = "write" => bootFile = <<>>)
      /\ threads \in [0..Threads -> ThreadRecord] /\ UnitOK /\ CameraTypeOK
  BY <1>0 DEF DetectionInv, CameraInv, CameraTypeOK, ThreadRecord, UnitOK, At
<1>e. OneDetection(<<>>) /\ <<>> \in Seq(Lines)
  BY DEF OneDetection, NoOverlay
<1>2. CASE UNCHANGED cvars
  BY <1>1, <1>2 DEF cvars
<1>3. CASE Stops
  <2>1. bootFile' = bootFile
    BY <1>3 DEF Stops, Stop
  <2>2. \A t \in 0..Threads : threads'[t].at = "none" /\ threads'[t].file = <<>>
    BY <1>3 DEF Stops, Stop, NoThread
  <2> QED
    BY <1>1, <1>e, <2>1, <2>2
<1>4. ASSUME NEW t \in 0..Threads, Begins(t) \/ Ends(t) \/ ApplyStep(t)
      PROVE  /\ OneDetection(bootFile')
             /\ \A u \in 0..Threads : /\ OneDetection(threads'[u].file)
                                      /\ threads'[u].at = "write" => bootFile' = <<>>
  <2>1. \A u \in 0..Threads : u # t => threads'[u] = threads[u]
    BY <1>4, OthersStay
  <2>2. ASSUME OneDetection(bootFile'), OneDetection(threads'[t].file),
               threads'[t].at = "write" => bootFile' = <<>>,
               bootFile' = bootFile \/ \A u \in 0..Threads : u # t => threads[u].at # "write"
        PROVE  /\ OneDetection(bootFile')
               /\ \A u \in 0..Threads : /\ OneDetection(threads'[u].file)
                                        /\ threads'[u].at = "write" => bootFile' = <<>>
    BY <1>1, <2>1, <2>2
  <2>3. ASSUME Applying(t)
        PROVE  \A u \in 0..Threads : u # t => threads[u].at # "write"
    BY <1>0, <2>3 DEF OneApplies, Applying
  <2>4. CASE Begins(t) \/ Ends(t) \/ Load(t) \/ Backup(t) \/ Install(t) \/ Clear(t) \/ Restore(t) \/ Discard(t)
    <3>1. bootFile' = bootFile
      BY <2>4 DEF Begins, Ends, Load, Backup, Install, Clear, Restore, Discard
    <3>2. threads'[t].at # "write" /\ threads'[t].file \in {threads[t].file, <<>>}
      <4>1. CASE Ends(t)
        BY <1>1, <4>1 DEF Ends, NoThread
      <4>2. CASE Load(t)
        BY <1>1, <4>2 DEF Load
      <4>3. CASE Begins(t)
        BY <1>1, <4>3 DEF Begins, ThreadRecord
      <4>4. CASE Backup(t) \/ Install(t) \/ Clear(t) \/ Restore(t) \/ Discard(t)
        <5>1. PICK place \in Positions \ {"write"} : threads' = [threads EXCEPT ![t].at = place]
          BY <4>4 DEF Backup, Install, Clear, Restore, Discard, To, Positions
        <5>2. Thread(t, place, threads[t].id, threads[t].file)
          BY <1>1, <5>1, ThreadGoes
        <5> QED
          BY <5>1, <5>2 DEF Thread
      <4> QED
        BY <2>4, <4>1, <4>2, <4>3, <4>4
    <3> QED
      BY <1>1, <1>e, <2>2, <3>1, <3>2
  <2>5. CASE Read(t)
    <3>1. bootFile' = bootFile
      BY <2>5 DEF Read
    <3>2. threads'[t].at # "write" /\ threads'[t].file \in {threads[t].file, bootFile}
      <4>1. CASE threads' = [threads EXCEPT ![t].at = "open", ![t].file = bootFile]
        <5>1. Thread(t, "open", threads[t].id, bootFile)
          BY <1>1, <4>1, ThreadTakes DEF CameraTypeOK, Positions
        <5> QED
          BY <5>1 DEF Thread
      <4>2. CASE To(t, "refused")
        <5>1. Thread(t, "refused", threads[t].id, threads[t].file)
          BY <1>1, <4>2, ThreadGoes DEF To, Positions
        <5> QED
          BY <5>1 DEF Thread
      <4> QED
        BY <2>5, <4>1, <4>2 DEF Read
    <3> QED
      BY <1>1, <2>2, <3>1, <3>2
  <2>6. CASE Open(t)
    <3>1. \A u \in 0..Threads : u # t => threads[u].at # "write"
      BY <2>3, <2>6 DEF Open, At, Applying
    <3>2. CASE To(t, "write") /\ bootFile' = <<>>
      <4>1. Thread(t, "write", threads[t].id, threads[t].file)
        BY <1>1, <3>2, ThreadGoes DEF To, Positions
      <4> QED
        BY <1>1, <1>e, <2>2, <3>1, <3>2, <4>1 DEF Thread
    <3>3. CASE threads' = [threads EXCEPT ![t].at = "refused", ![t].file = <<>>] /\ UNCHANGED bootFile
      <4>1. Thread(t, "refused", threads[t].id, <<>>)
        BY <1>1, <1>e, <3>3, ThreadTakes DEF Positions
      <4> QED
        BY <1>1, <1>e, <2>2, <3>3, <4>1 DEF Thread
    <3> QED
      BY <2>6, <3>2, <3>3 DEF Open
  <2>7. CASE Write(t)
    <3>1. \A u \in 0..Threads : u # t => threads[u].at # "write"
      BY <2>3, <2>7 DEF Write, At, Applying
    <3>2. Thread(t, "applied", threads[t].id, <<>>)
      BY <1>1, <1>e, <2>7, ThreadTakes DEF Write, Positions
    <3>3. is_rockchip_platform => threads[t].id \in DOMAIN Profiles
      BY <2>7 DEF CameraInv, WritesProfiles, Fits, Write, At
    <3>4. OneDetection(FileWith(threads[t].file, threads[t].id))
      BY <1>1, <3>3, WrittenIsAny DEF CameraInv
    <3>5. OneDetection(bootFile')
      BY <1>0, <2>7, <3>4, WritesAll
    <3> QED
      BY <1>e, <2>2, <3>1, <3>2, <3>5 DEF Thread
  <2> QED
    BY <1>4, <2>4, <2>5, <2>6, <2>7 DEF ApplyStep
<1> QED
  BY <1>2, <1>3, <1>4, CameraActs

LEMMA FileInvStep ==
  ASSUME CameraInv, OneApplies, DetectionInv, FileInv, [Next]_vars
  PROVE  FileInv'
<1> SUFFICES ASSUME Undisturbed'
             PROVE  /\ (~Writing => SoundFile(bootFile))'
                    /\ \A t \in 0..Threads : (threads[t].at \in {"open", "write"} => SoundFile(threads[t].file))'
  BY DEF FileInv
<1>0. Undisturbed
  BY StaysDisturbed
<1>1. /\ ~Writing => SoundFile(bootFile)
      /\ \A t \in 0..Threads : threads[t].at \in {"open", "write"} => SoundFile(threads[t].file)
      /\ threads \in [0..Threads -> ThreadRecord] /\ UnitOK
  BY <1>0 DEF FileInv, CameraInv, CameraTypeOK, ThreadRecord, UnitOK
<1>2. \A f : original' = original /\ SoundFile(f) => SoundFile(f)'
  BY CameraActs DEF SoundFile, is_rockchip_platform
<1>3. CASE UNCHANGED cvars
  BY <1>1, <1>2, <1>3 DEF cvars, unit, Writing, At
<1>4. CASE Stops
  <2>1. ~Writing /\ bootFile' = bootFile /\ original' = original
    BY <1>4 DEF Stops, Stop, Undisturbed, Writing, At
  <2>2. \A t \in 0..Threads : threads'[t].at = "none"
    BY <1>4 DEF Stops, Stop, NoThread
  <2> QED
    BY <1>1, <1>2, <2>1, <2>2
<1>5. ASSUME NEW t \in 0..Threads, Begins(t) \/ Ends(t) \/ ApplyStep(t)
      PROVE  /\ (~Writing => SoundFile(bootFile))'
             /\ \A u \in 0..Threads : (threads[u].at \in {"open", "write"} => SoundFile(threads[u].file))'
  <2>1. \A u \in 0..Threads : u # t => threads'[u] = threads[u]
    BY <1>5, OthersStay
  <2>2. original' = original
    BY <1>5 DEF Begins, Ends, ApplyStep, Load, Backup, Install, Clear, Restore, Discard, Read, Open, Write, unit
  <2>3. ASSUME threads'[t].at \in {"open", "write"} => SoundFile(threads'[t].file)
        PROVE  \A u \in 0..Threads : (threads[u].at \in {"open", "write"} => SoundFile(threads[u].file))'
    BY <1>1, <1>2, <2>1, <2>2, <2>3
  <2>4. ASSUME Applying(t)
        PROVE  \A u \in 0..Threads : u # t => threads'[u].at # "write" /\ threads[u].at # "write"
    BY <1>0, <2>1, <2>4 DEF OneApplies, Undisturbed, Applying
  <2>5. CASE Begins(t) \/ Ends(t) \/ Load(t) \/ Backup(t) \/ Install(t) \/ Clear(t) \/ Restore(t) \/ Discard(t)
    <3>1. bootFile' = bootFile
      BY <2>5 DEF Begins, Ends, Load, Backup, Install, Clear, Restore, Discard
    <3>2. threads'[t].at \notin {"open", "write"} /\ threads[t].at # "write"
      <4>1. CASE Ends(t)
        BY <1>1, <4>1 DEF Ends, NoThread
      <4>2. CASE Load(t)
        BY <1>1, <4>2 DEF Load, At
      <4>3. CASE Begins(t)
        BY <1>1, <4>3 DEF Begins, At, ThreadRecord
      <4>4. CASE Backup(t) \/ Install(t) \/ Clear(t) \/ Restore(t) \/ Discard(t)
        BY <1>1, <4>4 DEF Backup, Install, Clear, Restore, Discard, At, To, ThreadRecord
      <4> QED
        BY <2>5, <4>1, <4>2, <4>3, <4>4
    <3>3. Writing' <=> Writing
      BY <2>1, <3>2 DEF Writing, At
    <3> QED
      BY <1>1, <1>2, <2>2, <2>3, <3>1, <3>2, <3>3
  <2>6. CASE Read(t)
    <3>1. Applying(t) /\ threads[t].at # "write" /\ bootFile' = bootFile
      BY <2>6 DEF Read, At, Applying
    <3>2. ~Writing
      BY <2>4, <3>1 DEF Writing, At
    <3>3. threads'[t].at \in {"open", "write"} => SoundFile(threads'[t].file)
      BY <1>1, <2>6, <3>2, ReadGoes
    <3> QED
      BY <1>1, <1>2, <2>2, <2>3, <3>1, <3>2, <3>3
  <2>7. CASE Open(t)
    <3>1. Applying(t) /\ threads[t].at = "open"
      BY <2>7 DEF Open, At, Applying
    <3>2. ~Writing
      BY <2>4, <3>1 DEF Writing, At
    <3>3. threads'[t].at \in {"open", "write"} => SoundFile(threads'[t].file)
      BY <1>1, <2>7, <3>1, OpenGoes
    <3>4. ~Writing' => bootFile' = bootFile
      BY <2>7, OpenGoes DEF Writing, At
    <3> QED
      BY <1>1, <1>2, <2>2, <2>3, <3>2, <3>3, <3>4
  <2>8. CASE Write(t)
    <3>1. Applying(t) /\ threads[t].at = "write" /\ threads'[t].at = "applied"
      BY <2>8, WriteGoes DEF Write, At, Applying
    <3>2. SoundFile(threads[t].file) /\ AnyFile(threads[t].file)
      BY <1>1, <3>1 DEF CameraInv
    <3>3. is_rockchip_platform => threads[t].id \in DOMAIN Profiles
      BY <3>1 DEF CameraInv, WritesProfiles, Fits
    <3>4. SoundFile(bootFile')
      BY <1>0, <1>1, <2>8, <3>2, <3>3, WritesAll, WrittenIsSound DEF Undisturbed
    <3> QED
      BY <1>2, <2>2, <2>3, <3>1, <3>4
  <2> QED
    BY <1>5, <2>5, <2>6, <2>7, <2>8 DEF ApplyStep
<1> QED
  BY <1>3, <1>4, <1>5, CameraActs

-----------------------------------------------------------------------------
(* The camera's theorems.                                                  *)

CameraIInv == CameraInv /\ OneApplies /\ TuningInv /\ DetectionInv /\ FileInv

LEMMA CameraIInvInit == Init => CameraIInv
<1> SUFFICES ASSUME Init PROVE CameraIInv
  OBVIOUS
<1>1. CameraInv
  BY CameraInvInit
<1>2. /\ tuning.current = "stock" /\ tuning.backup = "none" /\ bootFile = original
      /\ \A t \in 0..Threads : threads[t].at = "none"
  BY DEF Init, CameraInit, NoThread
<1>3. SoundFile(bootFile) /\ OneDetection(bootFile)
  BY <1>1, <1>2, OriginalIsSound DEF CameraInv, CameraTypeOK, UnitOK
<1>4. \A t \in 0..Threads : OneDetection(threads[t].file)
  <2>1. OneDetection(<<>>)
    BY DEF OneDetection, NoOverlay
  <2>2. \A t \in 0..Threads : threads[t].file = <<>>
    BY DEF Init, CameraInit, NoThread
  <2> QED
    BY <2>1, <2>2
<1> QED
  BY <1>1, <1>2, <1>3, <1>4
     DEF CameraIInv, OneApplies, Applying, TuningInv, TuningAt, DetectionInv, At, FileInv

THEOREM CamerasStayInv == Spec => []CameraIInv
<1>1. CameraIInv /\ [Next]_vars => CameraIInv'
  BY CameraInvStep, OneAppliesStep, TuningInvStep, DetectionInvStep, FileInvStep DEF CameraIInv
<1> QED
  BY CameraIInvInit, <1>1, PTL DEF Spec

\* The types of the camera's state.
THEOREM CameraTypes == Spec => []CameraTypeOK
<1>1. CameraIInv => CameraTypeOK
  BY DEF CameraIInv, CameraInv
<1> QED
  BY <1>1, CamerasStayInv, PTL

\* Whatever cameras a user switches between, and whenever the power goes, the
\* tuning file that came with the unit is in one of its two places, as long as no copy
\* fails and no two setups are under way at once: apply_rpi_tuning_in removes the
\* backup last.
THEOREM TuningIsKept == Spec => []StockTuningIsKept
<1>1. CameraIInv => StockTuningIsKept
  BY DEF CameraIInv, TuningInv, Undisturbed, StockTuningIsKept
<1> QED
  BY <1>1, CamerasStayInv, PTL

\* Whatever cameras were set up, one after the other and never two at once, on
\* whatever boot file a board came with: update_boot_config and update_extlinux
\* keep all that its owner wrote above the marker, leave no two cameras on one
\* port, and never leave a camera together with the camera detection of the
\* firmware.
THEOREM BootFileStaysSound == Spec => []BootFileIsSound
<1>1. CameraIInv => BootFileIsSound
  <2> SUFFICES ASSUME CameraIInv PROVE BootFileIsSound
    OBVIOUS
  <2>1. ~raced /\ OverlaysIn(bootFile) # {} => \A i \in DOMAIN bootFile : bootFile[i].kind # "auto1"
    <3>1. CASE bootFile \in NoOverlay
      BY <3>1, NoOverlayIsDistinct
    <3>2. CASE bootFile \in Seq(Of(Kinds \ {"auto1"}))
      BY <3>2 DEF Of
    <3> QED
      BY <3>1, <3>2 DEF CameraIInv, DetectionInv, OneDetection
  <2>2. ASSUME ~Writing, ~torn, ~raced
        PROVE  SoundFile(bootFile)
    BY <2>2 DEF CameraIInv, FileInv, Undisturbed
  <2>3. (\E i \in DOMAIN original : original[i].kind = "marker") => original \notin Unmarked
    BY DEF Unmarked, Of
  <2> QED
    BY <2>1, <2>2, <2>3 DEF BootFileIsSound, SoundFile, Distinct
<1> QED
  BY <1>1, CamerasStayInv, PTL

-----------------------------------------------------------------------------
(* The serial ports that are found.                                        *)

Names == ToSet(ScanNames)
Canonicals == {Canonical(n) : n \in Names}

LEMMA FoundPrefixes ==
  ASSUME NEW f \in Seq(Names)
  PROVE  \E g : /\ g[0] = <<>> /\ FoldLeft(append_candidate, <<>>, f) = g[Len(f)]
                /\ \A i \in 1 .. Len(f) : g[i] = append_candidate(g[i - 1], f[i])
<1>1. PICK n \in Nat : n = Len(f)
  OBVIOUS
<1>2. DOMAIN f = 1 .. n /\ \A i \in 1 .. n : f[i] \in Names
  BY <1>1
<1>3. PICK F : F = [v \in Seq(Names) |-> [i \in 1 .. n |-> append_candidate(v, f[i])]]
  OBVIOUS
<1>4. F \in [Seq(Names) -> [1 .. n -> Seq(Names)]]
  BY <1>2, <1>3 DEF append_candidate
<1>5. PICK u \in [SUBSET (1 .. n) -> Seq(Names)] : FoldOver(n, <<>>, F, u)
  <2>1. <<>> \in Seq(Names)
    OBVIOUS
  <2> QED
    BY <1>4, <2>1, FoldExists
<1> DEFINE Is(w) == w = [t \in SUBSET (1 .. n) |->
                           IF t = {} THEN <<>> ELSE append_candidate(w[t \ {Max(t)}], f[Max(t)])]
<1>6. Is(u)
  <2>1. ASSUME NEW t \in SUBSET (1 .. n)
        PROVE  u[t] = IF t = {} THEN <<>> ELSE append_candidate(u[t \ {Max(t)}], f[Max(t)])
    <3>1. CASE t = {}
      BY <3>1, <1>5 DEF FoldOver
    <3>2. CASE t # {}
      <4>1. Max(t) \in 1 .. n
        BY <3>2, MaxIsIn
      <4>2. t \ {Max(t)} \in SUBSET (1 .. n) /\ u[t \ {Max(t)}] \in Seq(Names)
        OBVIOUS
      <4>3. u[t] = F[u[t \ {Max(t)}]][Max(t)]
        BY <3>2, <1>5 DEF FoldOver
      <4> QED
        BY <3>2, <4>1, <4>2, <4>3, <1>3
    <3> QED
      BY <3>1, <3>2
  <2> QED
    BY <2>1
<1>7. PICK w : w = CHOOSE v : Is(v)
  OBVIOUS
<1>8. Is(w)
  BY <1>6, <1>7
<1>9. FoldLeft(append_candidate, <<>>, f) = w[1 .. n]
  BY <1>2, <1>7 DEF FoldLeft, MapThenFoldSet
<1>10. PICK g : g = [i \in 0 .. n |-> w[1 .. i]]
  OBVIOUS
<1>11. g[0] = <<>> /\ FoldLeft(append_candidate, <<>>, f) = g[n]
  <2>1. 1 .. 0 = {} /\ 0 \in 0 .. n /\ n \in 0 .. n
    OBVIOUS
  <2>2. w[{}] = <<>>
    BY <1>8
  <2> QED
    BY <1>9, <1>10, <2>1, <2>2
<1>12. ASSUME NEW i \in 1 .. n
       PROVE  g[i] = append_candidate(g[i - 1], f[i])
  <2>1. PICK j \in Nat : j = i - 1
    OBVIOUS
  <2>2. j + 1 = i /\ (1 .. i) \ {i} = 1 .. j /\ i \in 1 .. i /\ 1 .. i \in SUBSET (1 .. n)
    BY <2>1
  <2>3. Max(1 .. i) = i
    BY <2>1, <2>2, MaxFacts
  <2>4. g[i] = w[1 .. i] /\ g[i - 1] = w[1 .. j]
    BY <1>10, <2>1
  <2>5. w[1 .. i] = append_candidate(w[1 .. j], f[i])
    BY <1>8, <2>2, <2>3
  <2> QED
    BY <2>4, <2>5
<1> QED
  BY <1>1, <1>11, <1>12

LEMMA PreferenceIs ==
  ASSUME NEW b \in Boards
  PROVE  /\ Preference[b] \in Seq(Names)
         /\ \A name \in Names : \E i \in 1 .. Len(Preference[b]) : Preference[b][i] = name
<1>1. PICK k \in Seq(Names) : k = KnownSerials[b]
  BY SerialAssumption DEF Names
<1>2. PICK s \in Seq(Names) : s = ScanNames
  BY SerialAssumption DEF Names
<1>3. PICK m \in Nat, n \in Nat : m = Len(k) /\ n = Len(s)
  OBVIOUS
<1>4. PICK f : f = k \o s
  OBVIOUS
<1>5. f = Preference[b]
  BY <1>1, <1>2, <1>4 DEF Preference
<1>6. /\ f \in Seq(Names) /\ Len(f) = m + n
      /\ \A i \in 1 .. (m + n) : f[i] = IF i <= m THEN k[i] ELSE s[i - m]
  BY <1>3, <1>4, ConcatProperties
<1>7. ASSUME NEW name \in Names
      PROVE  \E i \in 1 .. (m + n) : f[i] = name
  <2>1. PICK j \in 1 .. n : s[j] = name
    BY <1>2, <1>3 DEF Names, ToSet
  <2>2. PICK i \in 1 .. (m + n) : i = m + j
    OBVIOUS
  <2>3. ~(i <= m) /\ i - m = j
    BY <2>2
  <2> QED
    BY <1>6, <2>1, <2>3
<1> QED
  BY <1>5, <1>6, <1>7

\* The first place of a port in the order of its board.
LEMMA RankIs ==
  ASSUME NEW b \in Boards, NEW port \in Canonicals
  PROVE  /\ Rank[b][port] \in 1 .. Len(Preference[b])
         /\ Canonical(Preference[b][Rank[b][port]]) = port
         /\ \A j \in 1 .. (Rank[b][port] - 1) : Canonical(Preference[b][j]) # port
<1>1. PICK f \in Seq(Names), n \in Nat : f = Preference[b] /\ n = Len(f)
  BY PreferenceIs
<1>2. PICK I : I = {i \in 1 .. n : Canonical(f[i]) = port}
  OBVIOUS
<1>3. I # {}
  <2>1. PICK name \in Names : Canonical(name) = port
    BY DEF Canonicals
  <2>2. PICK i \in 1 .. n : f[i] = name
    BY <1>1, PreferenceIs
  <2> QED
    BY <1>2, <2>1, <2>2
<1>9. I \subseteq Nat
  BY <1>2
<1>4. PICK x \in I : \A y \in I : x <= y
  BY <1>3, <1>9, LeastNatural
<1> DEFINE P(i) == Canonical(f[i]) = port /\ \A j \in 1 .. (i - 1) : Canonical(f[j]) # port
<1>5. \E i \in DOMAIN f : P(i)
  <2>1. ASSUME NEW j \in 1 .. (x - 1)
        PROVE  Canonical(f[j]) # port
    <3>1. j \in 1 .. n /\ ~(x <= j)
      BY <1>2
    <3> QED
      BY <1>2, <1>4, <3>1
  <2> QED
    BY <1>1, <1>2, <2>1
<1>6. PICK r : r = CHOOSE i \in DOMAIN f : P(i)
  OBVIOUS
<1>7. r \in DOMAIN f /\ P(r)
  BY <1>5, <1>6
<1>8. Rank[b][port] = r
  BY <1>1, <1>6 DEF Rank, Canonicals, Names
<1> QED
  BY <1>1, <1>7, <1>8

\* What is found among the first i names.
RankOf(name) == Rank[board][Canonical(name)]
Found(i, s) ==
  /\ s \in Seq(Names)
  /\ \A k \in 1 .. Len(s) : Canonical(s[k]) \in ports /\ RankOf(s[k]) <= i
  /\ \A k, l \in 1 .. Len(s) : k < l => RankOf(s[k]) < RankOf(s[l])
  /\ \A p \in ports : Rank[board][p] <= i => \E k \in 1 .. Len(s) : Canonical(s[k]) = p

LEMMA FoundMore ==
  ASSUME board \in Boards, ports \subseteq Canonicals, NEW i \in Nat, i + 1 \in 1 .. Len(Preference[board]),
         NEW s, Found(i, s), NEW name, name = Preference[board][i + 1]
  PROVE  Found(i + 1, append_candidate(s, name))
<1>1. PICK f \in Seq(Names), n \in Nat : f = Preference[board] /\ n = Len(f)
  BY PreferenceIs
<1>2. name \in Names /\ f[i + 1] = name /\ i + 1 \in 1 .. n
  BY <1>1
<1>3. PICK c : c = Canonical(name)
  OBVIOUS
<1>4. c \in Canonicals
  BY <1>2, <1>3 DEF Canonicals
<1>5. PICK r \in 1 .. n : r = Rank[board][c] /\ \A j \in 1 .. (r - 1) : Canonical(f[j]) # c
  BY <1>1, <1>4, RankIs
<1>6. r <= i + 1
  <2>1. ~(r <= i + 1) => i + 1 \in 1 .. (r - 1)
    BY <1>2
  <2> QED
    BY <1>2, <1>3, <1>5, <2>1
<1>7. ASSUME NEW p \in ports, Rank[board][p] <= i + 1
      PROVE  Rank[board][p] <= i \/ p = c
  <2>1. Rank[board][p] \in 1 .. n /\ Canonical(f[Rank[board][p]]) = p
    BY <1>1, RankIs
  <2>2. Rank[board][p] <= i \/ Rank[board][p] = i + 1
    BY <1>7, <2>1
  <2> QED
    BY <1>2, <1>3, <2>1, <2>2
<1>8. PICK m \in Nat : m = Len(s)
  BY DEF Found
<1>9. s \in Seq(Names) /\ \A k \in 1 .. m : s[k] \in Names /\ Canonical(s[k]) \in ports /\ RankOf(s[k]) <= i
  BY <1>8 DEF Found
<1>10. \A k \in 1 .. m : RankOf(s[k]) \in Nat
  <2> SUFFICES ASSUME NEW k \in 1 .. m PROVE RankOf(s[k]) \in Nat
    OBVIOUS
  <2>1. Canonical(s[k]) \in Canonicals
    BY <1>9
  <2> QED
    BY <1>1, <2>1, RankIs DEF RankOf
<1>11. CASE c \in ports /\ \A k \in DOMAIN s : Canonical(s[k]) # c
  <2>1. PICK a : a = append_candidate(s, name)
    OBVIOUS
  <2>2. a = Append(s, name)
    BY <1>3, <1>11, <2>1 DEF append_candidate, is_existing_serial_device
  <2>3. a \in Seq(Names) /\ Len(a) = m + 1 /\ a[m + 1] = name /\ \A k \in 1 .. m : a[k] = s[k]
    BY <1>2, <1>8, <1>9, <2>2
  <2>4. ~(r <= i)
    <3>1. r <= i => \E k \in 1 .. m : Canonical(s[k]) = c
      BY <1>5, <1>8, <1>11 DEF Found
    <3> QED
      BY <1>8, <1>9, <1>11, <3>1
  <2>5. r = i + 1 /\ RankOf(a[m + 1]) = r
    BY <1>3, <1>5, <1>6, <2>3, <2>4 DEF RankOf
  <2>6. ASSUME NEW k \in 1 .. (m + 1)
        PROVE  Canonical(a[k]) \in ports /\ RankOf(a[k]) <= i + 1
    <3>1. CASE k = m + 1
      BY <1>3, <1>11, <2>3, <2>5, <3>1
    <3>2. CASE k \in 1 .. m
      BY <1>9, <1>10, <2>3, <3>2
    <3> QED
      BY <3>1, <3>2
  <2>7. ASSUME NEW k \in 1 .. (m + 1), NEW l \in 1 .. (m + 1), k < l
        PROVE  RankOf(a[k]) < RankOf(a[l])
    <3>1. CASE l = m + 1
      <4>1. k \in 1 .. m
        BY <2>7, <3>1
      <4>2. RankOf(a[k]) = RankOf(s[k]) /\ RankOf(s[k]) <= i /\ RankOf(s[k]) \in Nat
        BY <1>9, <1>10, <2>3, <4>1
      <4> QED
        BY <2>5, <3>1, <4>2
    <3>2. CASE l \in 1 .. m
      <4>1. k \in 1 .. m
        BY <2>7, <3>2
      <4>2. RankOf(s[k]) < RankOf(s[l])
        BY <1>8, <2>7, <3>2, <4>1 DEF Found
      <4> QED
        BY <2>3, <3>2, <4>1, <4>2
    <3> QED
      BY <3>1, <3>2
  <2>8. ASSUME NEW p \in ports, Rank[board][p] <= i + 1
        PROVE  \E k \in 1 .. (m + 1) : Canonical(a[k]) = p
    <3>1. CASE p = c
      <4>1. m + 1 \in 1 .. (m + 1)
        OBVIOUS
      <4> QED
        BY <1>3, <2>3, <3>1, <4>1
    <3>2. CASE Rank[board][p] <= i
      <4>1. PICK k \in 1 .. m : Canonical(s[k]) = p
        BY <1>8, <3>2 DEF Found
      <4>2. k \in 1 .. (m + 1) /\ a[k] = s[k]
        BY <2>3
      <4> QED
        BY <4>1, <4>2
    <3> QED
      BY <1>7, <2>8, <3>1, <3>2
  <2>9. Found(i + 1, a)
    BY <2>3, <2>6, <2>7, <2>8 DEF Found
  <2> QED
    BY <2>1, <2>9
<1>12. CASE ~(c \in ports /\ \A k \in DOMAIN s : Canonical(s[k]) # c)
  <2>1. append_candidate(s, name) = s
    BY <1>3, <1>12 DEF append_candidate, is_existing_serial_device
  <2>2. ASSUME NEW p \in ports, Rank[board][p] <= i + 1
        PROVE  \E k \in 1 .. m : Canonical(s[k]) = p
    <3>1. CASE p = c
      BY <1>8, <1>9, <1>12, <3>1
    <3>2. CASE Rank[board][p] <= i
      BY <1>8, <3>2 DEF Found
    <3> QED
      BY <1>7, <2>2, <3>1, <3>2
  <2>3. \A k \in 1 .. m : Canonical(s[k]) \in ports /\ RankOf(s[k]) <= i + 1
    BY <1>9, <1>10
  <2>4. \A k, l \in 1 .. m : k < l => RankOf(s[k]) < RankOf(s[l])
    BY <1>8 DEF Found
  <2>5. Found(i + 1, s)
    BY <1>8, <1>9, <2>2, <2>3, <2>4 DEF Found
  <2> QED
    BY <2>1, <2>5
<1> QED
  BY <1>11, <1>12

\* The ports that are found are all there are, each once, the best first.
LEMMA CandidatesAre ==
  ASSUME board \in Boards, ports \subseteq Canonicals
  PROVE  /\ discover_serial_candidates \in Seq(Names)
         /\ \A k \in 1 .. Len(discover_serial_candidates) : Canonical(discover_serial_candidates[k]) \in ports
         /\ \A k, l \in 1 .. Len(discover_serial_candidates) :
              k < l => RankOf(discover_serial_candidates[k]) < RankOf(discover_serial_candidates[l])
         /\ \A p \in ports : \E k \in 1 .. Len(discover_serial_candidates) :
              Canonical(discover_serial_candidates[k]) = p
<1>1. PICK f \in Seq(Names), n \in Nat : f = Preference[board] /\ n = Len(f)
  BY PreferenceIs
<1>2. PICK g : /\ g[0] = <<>> /\ discover_serial_candidates = g[n]
               /\ \A i \in 1 .. n : g[i] = append_candidate(g[i - 1], f[i])
  BY <1>1, FoundPrefixes DEF discover_serial_candidates
<1>3. PICK N : N = {i \in Nat : i <= n => Found(i, g[i])}
  OBVIOUS
<1>4. \A p \in ports : Rank[board][p] \in 1 .. n
  BY <1>1, RankIs
<1>5. 0 \in N
  <2>1. PICK e \in Seq(Names) : e = <<>> /\ Len(e) = 0
    <3>1. <<>> \in Seq(Names) /\ Len(<<>>) = 0
      OBVIOUS
    <3> QED
      BY <3>1
  <2>2. \A p \in ports : ~(Rank[board][p] <= 0)
    BY <1>4
  <2>3. Found(0, e)
    BY <2>1, <2>2 DEF Found
  <2> QED
    BY <1>2, <1>3, <2>1, <2>3
<1>6. ASSUME NEW i \in Nat, i \in N
      PROVE  i + 1 \in N
  <2> SUFFICES ASSUME i + 1 <= n PROVE Found(i + 1, g[i + 1])
    BY <1>3
  <2>1. i <= n /\ i + 1 \in 1 .. n /\ (i + 1) - 1 = i
    OBVIOUS
  <2>2. PICK s, name : s = g[i] /\ name = f[i + 1]
    OBVIOUS
  <2>3. Found(i, s)
    BY <1>3, <1>6, <2>1, <2>2
  <2>4. Found(i + 1, append_candidate(s, name))
    BY <1>1, <2>1, <2>2, <2>3, FoundMore
  <2>5. g[i + 1] = append_candidate(s, name)
    BY <1>2, <2>1, <2>2
  <2> QED
    BY <2>4, <2>5
<1>7. Nat \subseteq N
  BY <1>5, <1>6, SetInduction
<1>8. Found(n, g[n])
  BY <1>3, <1>7
<1>9. Found(n, discover_serial_candidates)
  BY <1>2, <1>8
<1>10. \A p \in ports : Rank[board][p] <= n
  BY <1>4
<1> QED
  BY <1>9, <1>10 DEF Found

\* A port that is found has as many better ones as there are before it.
LEMMA BetterAre ==
  ASSUME board \in Boards, ports \subseteq Canonicals, NEW f \in Seq(Names), f = discover_serial_candidates,
         NEW k \in 1 .. Len(f)
  PROVE  Cardinality({p \in ports : Rank[board][p] < RankOf(f[k])}) = k - 1
<1>1. PICK m \in Nat : m = Len(f)
  OBVIOUS
<1>2. /\ \A j \in 1 .. m : Canonical(f[j]) \in ports
      /\ \A j, l \in 1 .. m : j < l => RankOf(f[j]) < RankOf(f[l])
      /\ \A p \in ports : \E j \in 1 .. m : Canonical(f[j]) = p
  BY <1>1, CandidatesAre
<1>3. \A j \in 1 .. m : RankOf(f[j]) \in Nat
  <2> SUFFICES ASSUME NEW j \in 1 .. m PROVE RankOf(f[j]) \in Nat
    OBVIOUS
  <2>1. Canonical(f[j]) \in Canonicals
    BY <1>2
  <2>2. Rank[board][Canonical(f[j])] \in 1 .. Len(Preference[board]) /\ Len(Preference[board]) \in Nat
    BY <2>1, RankIs, PreferenceIs
  <2> QED
    BY <2>2 DEF RankOf
<1>4. PICK B : B = {p \in ports : Rank[board][p] < RankOf(f[k])}
  OBVIOUS
<1>5. PICK h : h = [j \in 1 .. (k - 1) |-> Canonical(f[j])]
  OBVIOUS
<1>6. \A j \in 1 .. (k - 1) : j \in 1 .. m /\ j < k
  BY <1>1
<1>7. h \in [1 .. (k - 1) -> B]
  BY <1>1, <1>2, <1>4, <1>5, <1>6 DEF RankOf
<1>8. ASSUME NEW j \in 1 .. (k - 1), NEW l \in 1 .. (k - 1), h[j] = h[l]
      PROVE  j = l
  <2>1. RankOf(f[j]) = RankOf(f[l]) /\ j \in 1 .. m /\ l \in 1 .. m
    BY <1>5, <1>6, <1>8 DEF RankOf
  <2>2. ~(j < l) /\ ~(l < j)
    BY <1>2, <1>3, <2>1
  <2> QED
    BY <2>2
<1>9. ASSUME NEW p \in B
      PROVE  \E j \in 1 .. (k - 1) : h[j] = p
  <2>1. PICK j \in 1 .. m : Canonical(f[j]) = p
    BY <1>2, <1>4
  <2>2. RankOf(f[j]) < RankOf(f[k])
    BY <1>4, <2>1 DEF RankOf
  <2>3. j < k
    <3>1. ~(k < j) /\ j # k
      BY <1>1, <1>2, <1>3, <2>2
    <3> QED
      BY <3>1
  <2>4. j \in 1 .. (k - 1)
    BY <2>3
  <2> QED
    BY <1>5, <2>1, <2>4
<1>10. ExistsBijection(1 .. (k - 1), B)
  BY <1>7, <1>8, <1>9 DEF ExistsBijection, Bijection, Injection, Surjection, IsInjective
<1>11. IsFiniteSet(1 .. (k - 1)) /\ Cardinality(1 .. (k - 1)) = k - 1
  <2>1. k - 1 \in Int /\ 1 \in Int /\ (1 > k - 1 => k - 1 = 0) /\ (k - 1) - 1 + 1 = k - 1
    BY <1>1
  <2> QED
    BY <2>1, FS_Interval
<1> QED
  BY <1>4, <1>10, <1>11, FS_Bijection

-----------------------------------------------------------------------------
(* The links.                                                              *)

LEMMA SerialActs ==
  ASSUME [Next]_vars
  PROVE  board' = board /\ (UNCHANGED svars \/ link_serial_ports \/ AdapterChanges \/ DevGone)
<1>1. CASE MainStep
  <2>1. CASE PowerOn \/ EarlyScreen \/ run_firstboot_tasks \/ FirstResizeEnds
    BY <2>1 DEF PowerOn, EarlyScreen, run_firstboot_tasks, FirstResizeEnds, config
  <2>2. CASE FirstMounts \/ FirstCameraEnds \/ CloseGate \/ GetReady
    BY <2>2 DEF FirstMounts, FirstCameraEnds, CloseGate, GetReady, config
  <2>3. CASE LinkSerial \/ StartServices \/ start_ground_video_if_needed
    BY <2>3 DEF LinkSerial, StartServices, start_ground_video_if_needed, config
  <2> QED
    BY <1>1, <2>1, <2>2, <2>3 DEF MainStep
<1>2. CASE Requests
  BY <1>2 DEF Requests, handle_partition_resize_request, ResizeAnswered, PartitionsRequested,
     handle_camera_setup_request, handle_video_request, RoleChanges, LinkRequested, config
<1>3. CASE ResizeOn \/ VideoOn \/ LinkOn \/ (\E t \in 0..Threads : CameraStep(t) \/ CameraThreadEnds(t))
  BY <1>3 DEF ResizeOn, VideoOn, LinkOn, CameraStep, CameraThreadEnds, config
<1>4. CASE WorkerStarts \/ WorkerEnds \/ Recorded \/ OpenHdOn \/ UserAndScreen \/ Plugging
  BY <1>4 DEF WorkerStarts, WorkerEnds, Recorded, OpenHdOn, UserAndScreen, Plugging, config
<1>5. CASE Reboot \/ PowerCut
  BY <1>5 DEF Reboot, PowerCut, PowerOff, ProcessEnds
<1>6. CASE Restart
  BY <1>6 DEF Restart, ProcessEnds
<1>7. CASE UNCHANGED vars
  BY <1>7 DEF vars, config
<1> QED
  BY <1>1, <1>2, <1>3, <1>4, <1>5, <1>6, <1>7 DEF Next

SerialInv ==
  /\ board \in Boards /\ SerialTypeOK
  /\ ports \subseteq BoardPorts[board] \cup Adapters
  /\ RolesFollowPorts

LEMMA PortsAreCanonical ==
  ASSUME board \in Boards, ports \subseteq BoardPorts[board] \cup Adapters
  PROVE  ports \subseteq Canonicals /\ ports \subseteq Names
<1> SUFFICES ASSUME NEW p \in ports PROVE p \in Canonicals /\ p \in Names
  OBVIOUS
<1>1. p \in Names /\ p \notin DOMAIN Aliases
  BY SerialAssumption DEF Names
<1>2. Canonical(p) = p
  BY <1>1 DEF Canonical
<1> QED
  BY <1>1, <1>2 DEF Canonicals

\* The links that are made are those that RolesFollowPorts asks for.
LEMMA LinksFollow ==
  ASSUME SerialInv, board' = board, link_serial_ports
  PROVE  RolesFollowPorts' /\ links' \in [SerialRoles -> Names \cup {"none"}]
<1>1. ports \subseteq Canonicals /\ board \in Boards
  BY PortsAreCanonical DEF SerialInv
<1>2. PICK f \in Seq(Names), m \in Nat : f = discover_serial_candidates /\ m = Len(f)
  BY <1>1, CandidatesAre
<1>3. /\ \A k \in 1 .. m : f[k] \in Names /\ Canonical(f[k]) \in ports
      /\ \A p \in ports : \E k \in 1 .. m : Canonical(f[k]) = p
  BY <1>1, <1>2, CandidatesAre
<1>4. scanned' = ports /\ occupied' = occupied
  BY DEF link_serial_ports
<1>5. PICK q \in Nat : q = role_count_for_candidate_count(m)
  BY <1>2 DEF role_count_for_candidate_count
<1>6. q = IF m >= 4 THEN 4 ELSE IF m >= 2 THEN 2 ELSE m
  BY <1>5 DEF role_count_for_candidate_count
<1>7. links' = [r \in SerialRoles |-> IF r \notin occupied /\ r <= q THEN f[r] ELSE "none"]
  <2>1. links' = Linked([r \in SerialRoles |-> "none"])
    BY DEF link_serial_ports
  <2> QED
    BY <1>2, <1>5, <2>1 DEF Linked
<1>8. SerialRoles = 1 .. 4
  BY DEF SerialRoles, kSerialRoles
<1>9. "none" \notin Names
  BY SerialAssumption DEF Names
<1>10. ASSUME NEW k \in 1 .. m
       PROVE  Cardinality(Better(Canonical(f[k])))' = k - 1
  <2>1. Better(Canonical(f[k]))' = {p \in ports : Rank[board][p] < RankOf(f[k])}
    BY <1>4 DEF Better, RankOf
  <2> QED
    BY <1>1, <1>2, <2>1, BetterAre
<1>11. ASSUME NEW j \in Nat
       PROVE  (\E p \in scanned : Cardinality(Better(p)) = j)' <=> j + 1 \in 1 .. m
  <2>1. ASSUME NEW p \in ports, Cardinality(Better(p))' = j
        PROVE  j + 1 \in 1 .. m
    <3>1. PICK k \in 1 .. m : Canonical(f[k]) = p
      BY <1>3
    <3>2. j = k - 1
      BY <1>10, <2>1, <3>1
    <3> QED
      BY <3>2
  <2>2. ASSUME j + 1 \in 1 .. m
        PROVE  \E p \in ports : Cardinality(Better(p))' = j
    <3>1. PICK k \in 1 .. m : k = j + 1
      BY <2>2
    <3>2. Canonical(f[k]) \in ports /\ Cardinality(Better(Canonical(f[k])))' = j
      BY <1>3, <1>10, <3>1
    <3> QED
      BY <3>2
  <2> QED
    BY <1>4, <2>1, <2>2
<1>12. ASSUME NEW r \in SerialRoles
       PROVE  /\ links'[r] # "none" <=> r \notin occupied' /\ (\E p \in scanned : Cardinality(Better(p)) = (IF r <= 2 THEN r - 1 ELSE 3))'
              /\ links'[r] # "none" => Canonical(links'[r]) \in scanned' /\ Cardinality(Better(Canonical(links[r])))' = r - 1
              /\ links'[r] \in Names \cup {"none"}
  <2>1. PICK j \in Nat : j = (IF r <= 2 THEN r - 1 ELSE 3)
    BY <1>8
  <2>2. r <= q <=> j + 1 \in 1 .. m
    BY <1>6, <1>8, <2>1
  <2>3. r <= q => r \in 1 .. m
    BY <1>6, <1>8
  <2>4. links'[r] = IF r \notin occupied /\ r <= q THEN f[r] ELSE "none"
    BY <1>7
  <2>5. links'[r] # "none" <=> r \notin occupied /\ r <= q
    BY <1>3, <1>9, <2>3, <2>4
  <2>6. links'[r] # "none" <=> r \notin occupied' /\ (\E p \in scanned : Cardinality(Better(p)) = j)'
    BY <1>4, <1>11, <2>2, <2>5
  <2>7. ASSUME links'[r] # "none"
        PROVE  Canonical(links'[r]) \in scanned' /\ Cardinality(Better(Canonical(links[r])))' = r - 1
    <3>1. r \in 1 .. m /\ links'[r] = f[r]
      BY <2>3, <2>4, <2>5, <2>7
    <3> QED
      BY <1>3, <1>4, <1>10, <3>1
  <2>8. links'[r] \in Names \cup {"none"}
    BY <1>3, <2>3, <2>4
  <2> QED
    BY <2>1, <2>6, <2>7, <2>8
<1> QED
  BY <1>7, <1>12 DEF RolesFollowPorts

LEMMA SerialInvInit == Init => SerialInv
<1> SUFFICES ASSUME Init PROVE SerialInv
  OBVIOUS
<1>1. board \in Boards /\ SerialInit
  BY DeviceAssumption DEF Init
<1>2. SerialRoles = 1 .. 4
  BY DEF SerialRoles, kSerialRoles
<1>3. SerialTypeOK
  BY <1>1, <1>2, SerialAssumption DEF SerialTypeOK, SerialInit
<1>4. RolesFollowPorts
  BY <1>1 DEF SerialInit, RolesFollowPorts
<1> QED
  BY <1>1, <1>3, <1>4 DEF SerialInv, SerialInit

LEMMA SerialInvStep ==
  ASSUME SerialInv, [Next]_vars
  PROVE  SerialInv'
<1>0. board' = board /\ (UNCHANGED svars \/ link_serial_ports \/ AdapterChanges \/ DevGone)
  BY SerialActs
<1>1. CASE UNCHANGED svars
  <2>1. RolesFollowPorts'
    BY <1>0, <1>1 DEF SerialInv, RolesFollowPorts, Better, svars
  <2> QED
    BY <1>0, <1>1, <2>1 DEF SerialInv, SerialTypeOK, svars
<1>2. CASE link_serial_ports
  <2>1. RolesFollowPorts' /\ links' \in [SerialRoles -> Names \cup {"none"}]
    BY <1>0, <1>2, LinksFollow
  <2> QED
    BY <1>0, <1>2, <2>1 DEF SerialInv, SerialTypeOK, link_serial_ports, Names
<1>3. CASE AdapterChanges
  <2>1. ports' \subseteq BoardPorts[board] \cup Adapters
    BY <1>3 DEF SerialInv, AdapterChanges
  <2>2. UNCHANGED <<occupied, links, scanned>>
    BY <1>3 DEF AdapterChanges
  <2>3. RolesFollowPorts'
    BY <1>0, <2>2 DEF SerialInv, RolesFollowPorts, Better
  <2>4. ports' \subseteq ToSet(ScanNames)
    BY <2>1, SerialAssumption DEF SerialInv
  <2> QED
    BY <1>0, <2>1, <2>2, <2>3, <2>4 DEF SerialInv, SerialTypeOK
<1>4. CASE DevGone
  <2>1. RolesFollowPorts'
    BY <1>4 DEF DevGone, RolesFollowPorts
  <2> QED
    BY <1>0, <1>4, <2>1 DEF SerialInv, SerialTypeOK, DevGone
<1> QED
  BY <1>0, <1>1, <1>2, <1>3, <1>4

THEOREM SerialStaysInv == Spec => []SerialInv
<1>1. SerialInv /\ [Next]_vars => SerialInv'
  BY SerialInvStep
<1> QED
  BY SerialInvInit, <1>1, PTL DEF Spec

\* For any names, aliases, boards and adapters, whatever is plugged in or pulled out
\* and however often the process is started anew: link_serial_ports gives each role
\* the port with as many better ones as there are roles before it, two roles or all
\* four, and never two roles the same port.
THEOREM RolesDoFollowPorts == Spec => []RolesFollowPorts
<1>1. SerialInv => RolesFollowPorts
  BY DEF SerialInv
<1> QED
  BY <1>1, SerialStaysInv, PTL

=============================================================================
