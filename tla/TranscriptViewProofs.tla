------------------------- MODULE TranscriptViewProofs -------------------------
(***************************************************************************)
(* What viewers are shown of a transcript, for entries of any kind, texts  *)
(* and lists of blocks of any length, and any limits.                      *)
(***************************************************************************)
EXTENDS TranscriptView, SequenceTheorems, FiniteSetTheorems, WellFoundedInduction, TLAPS

-------------------------------------------------------------------------------
(* Induction and recursion                                                 *)

\* A set of numbers has a least one.
LEMMA Least ==
    ASSUME NEW T \in SUBSET Nat, T # {}
    PROVE  \E n \in T : \A m \in T : n <= m
<1> DEFINE R == OpToRel(<, Nat)
<1>1. IsWellFoundedOn(R, Nat)
  BY NatLessThanWellFounded
<1>2. PICK n \in T : \A m \in T : ~ (<<m, n>> \in R)
  <2> HIDE DEF R
  <2> QED BY <1>1, WFMin
<1>3. \A m \in T : m \in Nat /\ n \in Nat
  OBVIOUS
<1>4. \A m \in T : ~(m < n)
  BY <1>2, <1>3 DEF OpToRel
<1> HIDE DEF R
<1> QED BY <1>3, <1>4

\* A bounded set of numbers has a greatest one, which is its Max.
LEMMA Greatest ==
    ASSUME NEW n \in Nat, NEW T \in SUBSET (0..n), T # {}
    PROVE  Max(T) \in T /\ \A k \in T : k <= Max(T)
<1> DEFINE D == {n - k : k \in T}
<1>1. D \in SUBSET Nat /\ D # {}
  <2>1. \A k \in T : k \in 0..n /\ n - k \in Nat
    OBVIOUS
  <2> QED BY <2>1
<1>2. PICK d \in D : \A e \in D : d <= e
  <2> HIDE DEF D
  <2> QED BY <1>1, Least
<1>3. PICK m \in T : d = n - m
  OBVIOUS
<1>4. \A k \in T : k \in Nat /\ m \in Nat /\ d <= n - k
  BY <1>2
<1>5. \A k \in T : m >= k
  BY <1>3, <1>4
<1>6. \E x \in T : \A y \in T : x >= y
  BY <1>5
<1>7. Max(T) \in T /\ \A y \in T : Max(T) >= y
  BY <1>6 DEF Max
<1> QED BY <1>7

\* Induction up to m.
LEMMA UpTo ==
    ASSUME NEW m \in Nat, NEW T, 0 \in T, \A n \in 1..m : n - 1 \in T => n \in T
    PROVE  \A n \in 0..m : n \in T
<1> DEFINE F == {n \in 0..m : n \notin T}
<1> SUFFICES ASSUME F # {} PROVE FALSE
  OBVIOUS
<1>1. F \in SUBSET Nat
  OBVIOUS
<1>2. PICK n \in F : \A k \in F : n <= k
  <2> HIDE DEF F
  <2> QED BY <1>1, Least
<1>3. n \in 0..m /\ n \notin T /\ n # 0
  OBVIOUS
<1>4. n \in 1..m /\ n - 1 \in 0..m /\ ~(n <= n - 1)
  BY <1>3
<1>5. n - 1 \in T
  BY <1>2, <1>4
<1> QED BY <1>3, <1>4, <1>5

\* A loop of m rounds has its results: f[n] is what g makes of n and f[n - 1].
IsLoop(m, g, d, D) == m \in Nat /\ d \in D /\ \A n \in 1..m : \A x \in D : g[<<n, x>>] \in D

Results(f, m, g, d, D) ==
    f \in [0..m -> D] /\ f[0] = d /\ \A n \in 1..m : f[n] = g[<<n, f[n - 1]>>]

LEMMA Loop ==
    ASSUME NEW m, NEW g, NEW d, NEW D, IsLoop(m, g, d, D)
    PROVE  \E f : Results(f, m, g, d, D)
<1>0. m \in Nat /\ d \in D /\ \A n \in 1..m : \A x \in D : g[<<n, x>>] \in D
  BY DEF IsLoop
<1> DEFINE Is(f, k) == /\ f \in [0..k -> D] /\ f[0] = d
                       /\ \A n \in 1..k : f[n] = g[<<n, f[n - 1]>>]
           T == {k \in 0..m : \E f : Is(f, k)}
<1>1. 0 \in T
  <2> DEFINE f == [n \in 0..0 |-> d]
  <2>1. Is(f, 0) /\ 0 \in 0..m
    BY <1>0
  <2> HIDE DEF Is, f
  <2> QED BY <2>1
<1>2. ASSUME NEW k \in 1..m, k - 1 \in T PROVE k \in T
  <2>1. PICK f : Is(f, k - 1)
    BY <1>2
  <2> DEFINE h == [n \in 0..k |-> IF n = k THEN g[<<k, f[k - 1]>>] ELSE f[n]]
  <2>2. /\ k - 1 \in 0..(k - 1) /\ k \in 0..k /\ k # 0 /\ k \in 0..m /\ 0 \in 0..k
        /\ \A n \in 0..k : n # k => n \in 0..(k - 1)
        /\ \A n \in 1..k : n # k => n \in 1..(k - 1)
        /\ \A n \in 1..k : n \in 0..k /\ n - 1 \in 0..k /\ n - 1 # k
    BY <1>0
  <2>3. /\ \A n \in 0..k : n # k => h[n] = f[n]
        /\ h[k] = g[<<k, f[k - 1]>>]
    BY <2>2
  <2>4. /\ \A n \in 0..(k - 1) : f[n] \in D
        /\ f[0] = d
        /\ \A n \in 1..(k - 1) : f[n] = g[<<n, f[n - 1]>>]
    BY <2>1
  <2>5. g[<<k, f[k - 1]>>] \in D
    BY <1>0, <2>2, <2>4
  <2>6. h \in [0..k -> D]
    BY <2>2, <2>4, <2>5
  <2> HIDE DEF h
  <2>7. h[0] = d
    BY <2>2, <2>3, <2>4
  <2>8. ASSUME NEW n \in 1..k PROVE h[n] = g[<<n, h[n - 1]>>]
    <3>1. h[n - 1] = f[n - 1]
      BY <2>2, <2>3
    <3> QED BY <2>2, <2>3, <2>4, <3>1
  <2>9. Is(h, k)
    BY <2>6, <2>7, <2>8
  <2> HIDE DEF Is
  <2> QED BY <2>2, <2>9
<1>3. m \in T
  <2> HIDE DEF T
  <2> QED BY <1>0, <1>1, <1>2, UpTo
<1> QED BY <1>3 DEF Results

-------------------------------------------------------------------------------
(* Keeping some elements of a sequence                                     *)

\* The loop of Keep.
Kept(s, S) ==
    CHOOSE f : f = [n \in 0..Len(s) |->
        IF n = 0 THEN <<>>
        ELSE IF s[n] \in S THEN Append(f[n - 1], s[n]) ELSE f[n - 1]]

LEMMA KeepIs ==
    ASSUME NEW s, NEW S
    PROVE  Keep(s, S) = Kept(s, S)[Len(s)]
BY DEF Keep, Kept

LEMMA KeptStep ==
    ASSUME NEW U, NEW s \in Seq(U), NEW S
    PROVE  /\ Kept(s, S)[0] = <<>>
           /\ \A n \in 1..Len(s) :
                Kept(s, S)[n] = IF s[n] \in S THEN Append(Kept(s, S)[n - 1], s[n]) ELSE Kept(s, S)[n - 1]
<1> DEFINE m == Len(s)
           Step(n, x) == IF s[n] \in S THEN Append(x, s[n]) ELSE x
           g == [p \in (1..m) \X Seq(U) |-> Step(p[1], p[2])]
           Body(f, n) == IF n = 0 THEN <<>> ELSE Step(n, f[n - 1])
<1>1. m \in Nat /\ <<>> \in Seq(U) /\ \A n \in 1..m : s[n] \in U
  BY LenProperties
<1>2. \A n \in 1..m : \A x \in Seq(U) : g[<<n, x>>] = Step(n, x) /\ Step(n, x) \in Seq(U)
  BY <1>1, AppendProperties
<1> HIDE DEF m, Step
<1>3. IsLoop(m, g, <<>>, Seq(U))
  BY <1>1, <1>2 DEF IsLoop
<1> HIDE DEF g
<1>4. PICK f : Results(f, m, g, <<>>, Seq(U))
  BY <1>3, Loop
<1>5. \A n \in 0..m : n # 0 => n \in 1..m /\ n - 1 \in 0..m
  BY <1>1
<1>6. \A n \in 0..m : f[n] = Body(f, n)
  BY <1>2, <1>4, <1>5 DEF Results
<1>7. f = [n \in 0..m |-> Body(f, n)]
  <2>1. f = [n \in 0..m |-> f[n]]
    BY <1>4 DEF Results
  <2> HIDE DEF Body
  <2> QED BY <1>6, <2>1
<1>8. Kept(s, S) = [n \in 0..m |-> Body(Kept(s, S), n)]
  BY <1>7 DEF Kept, Step, m
<1>9. \A n \in 0..m : Kept(s, S)[n] = Body(Kept(s, S), n)
  <2> HIDE DEF Body
  <2> QED BY <1>8
<1>10. 0 \in 0..m /\ \A n \in 1..m : n \in 0..m /\ n # 0
  BY <1>1
<1> QED BY <1>9, <1>10 DEF m, Step

LEMMA AppendedSet ==
    ASSUME NEW U, NEW s \in Seq(U), NEW x \in U
    PROVE  Append(s, x) \in Seq(U) /\ ToSet(Append(s, x)) = ToSet(s) \cup {x}
<1> DEFINE t == Append(s, x)
<1>1. /\ Len(s) \in Nat /\ DOMAIN s = 1..Len(s)
      /\ t \in Seq(U) /\ DOMAIN t = 1..(Len(s) + 1) /\ t[Len(s) + 1] = x
      /\ \A i \in 1..Len(s) : t[i] = s[i]
  BY AppendProperties, LenProperties
<1>2. 1..(Len(s) + 1) = 1..Len(s) \cup {Len(s) + 1}
  BY <1>1
<1> HIDE DEF t
<1>3. ToSet(t) = {t[i] : i \in 1..Len(s)} \cup {x}
  BY <1>1, <1>2 DEF ToSet
<1>4. {t[i] : i \in 1..Len(s)} = ToSet(s)
  BY <1>1 DEF ToSet
<1> QED BY <1>1, <1>3, <1>4 DEF t

FirstOf(s, n) == {s[i] : i \in 1..n}

\* What is kept of the first n elements.
LEMMA KeptHas ==
    ASSUME NEW U, NEW s \in Seq(U), NEW S, NEW n \in 0..Len(s)
    PROVE  /\ Kept(s, S)[n] \in Seq(U \cap S)
           /\ ToSet(Kept(s, S)[n]) = FirstOf(s, n) \cap S
<1> DEFINE K(k) == Kept(s, S)[k]
           T == {k \in 0..Len(s) : K(k) \in Seq(U \cap S) /\ ToSet(K(k)) = FirstOf(s, k) \cap S}
<1>1. Len(s) \in Nat /\ \A k \in 1..Len(s) : s[k] \in U
  BY LenProperties
<1>2. 0 \in T
  <2>1. K(0) = <<>>
    BY KeptStep
  <2>2. <<>> \in Seq(U \cap S) /\ ToSet(<<>>) = {} /\ FirstOf(s, 0) = {} /\ 0 \in 0..Len(s)
    BY <1>1 DEF ToSet, FirstOf
  <2> QED BY <2>1, <2>2
<1>3. ASSUME NEW k \in 1..Len(s), k - 1 \in T PROVE k \in T
  <2>1. K(k) = IF s[k] \in S THEN Append(K(k - 1), s[k]) ELSE K(k - 1)
    BY KeptStep
  <2>2. K(k - 1) \in Seq(U \cap S) /\ ToSet(K(k - 1)) = FirstOf(s, k - 1) \cap S
    BY <1>3
  <2>3. 1..k = 1..(k - 1) \cup {k} /\ k \in 0..Len(s)
    BY <1>1
  <2>4. FirstOf(s, k) = FirstOf(s, k - 1) \cup {s[k]}
    BY <2>3 DEF FirstOf
  <2> HIDE DEF K
  <2>5. CASE s[k] \in S
    <3>1. s[k] \in U \cap S
      BY <1>1, <2>5
    <3>2. K(k) = Append(K(k - 1), s[k])
      BY <2>1, <2>5
    <3>3. /\ Append(K(k - 1), s[k]) \in Seq(U \cap S)
          /\ ToSet(Append(K(k - 1), s[k])) = ToSet(K(k - 1)) \cup {s[k]}
      BY <2>2, <3>1, AppendedSet
    <3> QED BY <2>2, <2>3, <2>4, <2>5, <3>2, <3>3
  <2>6. CASE s[k] \notin S
    BY <2>1, <2>2, <2>3, <2>4, <2>6
  <2> QED BY <2>5, <2>6
<1>4. n \in T
  <2> HIDE DEF T
  <2> QED BY <1>1, <1>2, <1>3, UpTo
<1> QED BY <1>4

LEMMA KeepHas ==
    ASSUME NEW U, NEW s \in Seq(U), NEW S
    PROVE  Keep(s, S) \in Seq(U \cap S) /\ ToSet(Keep(s, S)) = ToSet(s) \cap S
<1>1. Len(s) \in Nat /\ Len(s) \in 0..Len(s) /\ DOMAIN s = 1..Len(s)
  BY LenProperties
<1>2. ToSet(s) = FirstOf(s, Len(s))
  BY <1>1 DEF ToSet, FirstOf
<1> DEFINE m == Len(s)
<1>3. m \in 0..Len(s)
  BY <1>1
<1>4. /\ Kept(s, S)[m] \in Seq(U \cap S)
      /\ ToSet(Kept(s, S)[m]) = FirstOf(s, m) \cap S
  BY ONLY s \in Seq(U), <1>3, KeptHas
<1> QED BY <1>2, <1>4, KeepIs

-------------------------------------------------------------------------------
(* Ascending sequences                                                     *)

Ascends(s) == \A i, j \in DOMAIN s : i < j => s[i] < s[j]

LEMMA AppendAscends ==
    ASSUME NEW s \in Seq(Nat), Ascends(s), NEW x \in Nat, \A y \in ToSet(s) : y < x
    PROVE  Ascends(Append(s, x))
<1> DEFINE t == Append(s, x)
<1>1. /\ Len(s) \in Nat /\ DOMAIN s = 1..Len(s)
      /\ DOMAIN t = 1..(Len(s) + 1) /\ t[Len(s) + 1] = x
      /\ \A i \in 1..Len(s) : t[i] = s[i]
  BY AppendProperties, LenProperties
<1> HIDE DEF t
<1>2. ASSUME NEW i \in DOMAIN t, NEW j \in DOMAIN t, i < j PROVE t[i] < t[j]
  <2>1. i \in 1..Len(s) /\ s[i] \in ToSet(s)
    BY <1>1, <1>2 DEF ToSet
  <2>2. CASE j = Len(s) + 1
    BY <1>1, <2>1, <2>2
  <2>3. CASE j \in 1..Len(s)
    BY <1>1, <1>2, <2>1, <2>3 DEF Ascends
  <2> QED BY <1>1, <2>2, <2>3
<1> QED BY <1>2 DEF Ascends, t

LEMMA KeepAscends ==
    ASSUME NEW s \in Seq(Nat), Ascends(s), NEW S
    PROVE  Ascends(Keep(s, S))
<1> DEFINE K(k) == Kept(s, S)[k]
           T == {k \in 0..Len(s) : Ascends(K(k))}
<1>1. Len(s) \in Nat /\ DOMAIN s = 1..Len(s) /\ \A k \in 1..Len(s) : s[k] \in Nat
  BY LenProperties
<1>2. 0 \in T
  <2>1. K(0) = <<>>
    BY KeptStep
  <2>2. Ascends(<<>>) /\ 0 \in 0..Len(s)
    BY <1>1 DEF Ascends
  <2> QED BY <2>1, <2>2
<1>3. ASSUME NEW k \in 1..Len(s), k - 1 \in T PROVE k \in T
  <2>1. K(k) = IF s[k] \in S THEN Append(K(k - 1), s[k]) ELSE K(k - 1)
    BY KeptStep
  <2>2. Ascends(K(k - 1)) /\ k - 1 \in 0..Len(s) /\ k \in 0..Len(s)
    BY <1>1, <1>3
  <2>3. K(k - 1) \in Seq(Nat \cap S) /\ ToSet(K(k - 1)) = FirstOf(s, k - 1) \cap S
    <3> DEFINE n == k - 1
               U == Nat
    <3>1. n \in 0..Len(s) /\ s \in Seq(U)
      BY <2>2
    <3> HIDE DEF n, U
    <3>2. Kept(s, S)[n] \in Seq(U \cap S) /\ ToSet(Kept(s, S)[n]) = FirstOf(s, n) \cap S
      BY <3>1, KeptHas
    <3> QED BY <3>2 DEF n, U
  <2>4. K(k - 1) \in Seq(Nat)
    <3>1. Nat \cap S \subseteq Nat
      OBVIOUS
    <3> HIDE DEF K
    <3> QED BY <2>3, <3>1, SeqMonotonic
  <2>5. \A y \in FirstOf(s, k - 1) : y < s[k]
    <3> SUFFICES ASSUME NEW i \in 1..(k - 1) PROVE s[i] < s[k]
      BY DEF FirstOf
    <3> QED BY <1>1 DEF Ascends
  <2> HIDE DEF K
  <2>6. s[k] \in Nat /\ \A y \in ToSet(K(k - 1)) : y < s[k]
    BY <1>1, <2>3, <2>5
  <2>7. Ascends(K(k))
    BY <2>1, <2>2, <2>4, <2>6, AppendAscends
  <2> QED BY <2>2, <2>7
<1>4. Len(s) \in T
  <2>1. Len(s) \in 0..Len(s)
    BY <1>1
  <2> HIDE DEF T
  <2> QED BY <1>1, <1>2, <1>3, <2>1, UpTo
<1> QED BY <1>4, KeepIs

\* An ascending sequence has as many elements as it is long.
LEMMA AscendingCounts ==
    ASSUME NEW s \in Seq(Nat), Ascends(s)
    PROVE  IsFiniteSet(ToSet(s)) /\ Cardinality(ToSet(s)) = Len(s)
<1> DEFINE D == 1..Len(s)
<1>1. Len(s) \in Nat /\ DOMAIN s = D /\ \A k \in D : s[k] \in Nat
  BY LenProperties
<1>2. IsFiniteSet(D) /\ Cardinality(D) = Len(s)
  <2>1. 1 \in Int /\ Len(s) \in Int
    BY <1>1
  <2> QED BY <1>1, <2>1, FS_Interval
<1>3. s \in [D -> ToSet(s)]
  BY <1>1 DEF ToSet
<1>4. \A i, j \in D : s[i] = s[j] => i = j
  <2> SUFFICES ASSUME NEW i \in D, NEW j \in D, s[i] = s[j], i # j PROVE FALSE
    OBVIOUS
  <2>1. i \in Nat /\ j \in Nat /\ s[i] \in Nat /\ (i < j => s[i] < s[j]) /\ (j < i => s[j] < s[i])
    BY <1>1 DEF Ascends
  <2> QED BY <2>1
<1>5. \A y \in ToSet(s) : \E i \in D : s[i] = y
  BY <1>1 DEF ToSet
<1>6. s \in Bijection(D, ToSet(s))
  BY <1>3, <1>4, <1>5 DEF Bijection, Injection, Surjection, IsInjective
<1>7. ExistsBijection(D, ToSet(s))
  BY <1>6 DEF ExistsBijection
<1> HIDE DEF D
<1> QED BY <1>2, <1>7, FS_Bijection

LEMMA LastOfIs ==
    ASSUME NEW U, NEW s \in Seq(U), NEW n \in Nat
    PROVE  /\ LastOf(s, n) \in Seq(U)
           /\ Len(LastOf(s, n)) = IF Len(s) > n THEN n ELSE Len(s)
           /\ \A j \in 1..Len(LastOf(s, n)) :
                 /\ Len(s) - Len(LastOf(s, n)) + j \in 1..Len(s)
                 /\ LastOf(s, n)[j] = s[Len(s) - Len(LastOf(s, n)) + j]
<1> DEFINE m == Len(s)
           t == SubSeq(s, m - n + 1, m)
<1>1. m \in Nat
  BY LenProperties
<1>2. CASE m > n
  <2>1. m - n + 1 \in 1..(m + 1) /\ m \in 0..m /\ m - (m - n + 1) + 1 = n /\ m - n + 1 <= m + 1
    BY <1>1, <1>2
  <2>2. t \in Seq(U) /\ Len(t) = n /\ \A j \in 1..n : t[j] = s[m - n + 1 + j - 1]
    <3> DEFINE a == m - n + 1
    <3>1. a \in 1..(m + 1) /\ m \in 0..m /\ m \in (a - 1)..m
      BY <1>1, <1>2
    <3>2. /\ SubSeq(s, a, m) \in Seq(U)
          /\ Len(SubSeq(s, a, m)) = IF a <= m THEN m - a + 1 ELSE 0
          /\ \A j \in 1..(m - a + 1) : SubSeq(s, a, m)[j] = s[a + j - 1]
      <4> HIDE DEF a
      <4> QED BY <1>1, <3>1, SubSeqProperties
    <3> QED BY <1>1, <1>2, <3>2
  <2>3. \A j \in 1..n : m - n + 1 + j - 1 = m - n + j /\ m - n + j \in 1..m
    BY <1>1, <1>2
  <2>4. LastOf(s, n) = t
    BY <1>2 DEF LastOf
  <2> HIDE DEF t
  <2> QED BY <1>2, <2>2, <2>3, <2>4
<1>3. CASE ~(m > n)
  <2>1. LastOf(s, n) = s
    BY <1>3 DEF LastOf
  <2>2. \A j \in 1..m : m - m + j = j
    BY <1>1
  <2> QED BY <1>1, <1>3, <2>1, <2>2
<1> QED BY <1>2, <1>3

-------------------------------------------------------------------------------
(* Types                                                                   *)

LEMMA Constants ==
    /\ MaxLines \in Nat /\ TailUnits \in Nat /\ MaxOutput \in Nat /\ DETAIL_MAX_LEN \in Nat
    /\ StatusLines \in Nat /\ StatusUnits \in Nat
    /\ VISIBLE_LINES \in Nat /\ VISIBLE_LINES > 0 /\ COLLAPSE_THRESHOLD \in Nat
    /\ COLLAPSE_THRESHOLD > 0 /\ VISIBLE_LINES <= COLLAPSE_THRESHOLD
    /\ \A e \in Entries : IsContent(e.content)
<1>1. \A n \in Nat \ {0} : n > 0
  OBVIOUS
<1> QED BY <1>1, TranscriptTypes, ViewTypes

\* The transcript is a sequence of at most MaxLines entries, of which only the
\* last can be half written (AgentBegins, AgentFinishes).
THEOREM ViewTypeCorrect == Spec => []TypeOK
<1>1. Init => TypeOK
  <2>1. <<>> \in Seq(Entries) /\ Len(<<>>) = 0
    BY EmptySeq
  <2>2. Len(<<>>) <= MaxLines
    BY <2>1, Constants
  <2> QED BY <2>1, <2>2 DEF Init, TypeOK
<1>2. TypeOK /\ [Next]_vars => TypeOK'
  <2> SUFFICES ASSUME TypeOK, [Next]_vars PROVE TypeOK'
    OBVIOUS
  <2>0. file \in Seq(Entries) /\ Len(file) <= MaxLines /\ torn \in BOOLEAN /\ (torn => file # <<>>)
    BY DEF TypeOK
  <2>1. ASSUME NEW e \in Entries, AgentBegins(e) PROVE TypeOK'
    <3>1. /\ Len(file) \in Nat /\ Append(file, e) \in Seq(Entries)
          /\ Len(Append(file, e)) = Len(file) + 1
      BY <2>0, AppendProperties, LenProperties
    <3>2. file' = Append(file, e) /\ torn' = TRUE /\ Len(file) < MaxLines
      BY <2>1 DEF AgentBegins
    <3>3. Len(file') <= MaxLines
      BY <3>1, <3>2, Constants
    <3>4. file' # <<>>
      <4>1. Len(<<>>) = 0 /\ Len(file') # 0
        BY <3>1, <3>2
      <4> QED BY <4>1
    <3> QED BY <3>1, <3>2, <3>3, <3>4 DEF TypeOK
  <2>2. CASE AgentFinishes
    BY <2>0, <2>2 DEF AgentFinishes, TypeOK
  <2>3. CASE UNCHANGED vars
    BY <2>0, <2>3 DEF vars, TypeOK
  <2> QED BY <2>1, <2>2, <2>3 DEF Next
<1> QED BY <1>1, <1>2, PTL DEF Spec

LEMMA FileFacts ==
    ASSUME TypeOK
    PROVE  /\ Len(file) \in Nat /\ DOMAIN file = 1..Len(file)
           /\ FileLen \in Nat /\ FileLen <= 2 * Len(file) /\ 2 * Len(file) <= FileLen + 1
           /\ \A i \in DOMAIN file : file[i] \in Entries
<1>1. file \in Seq(Entries) /\ torn \in BOOLEAN /\ (torn => file # <<>>)
  BY DEF TypeOK
<1>2. /\ Len(file) \in Nat /\ DOMAIN file = 1..Len(file)
      /\ \A i \in DOMAIN file : file[i] \in Entries
  BY <1>1, LenProperties
<1>3. torn => Len(file) > 0
  <2>1. file # <<>> => Len(file) # 0
    BY <1>1, EmptySeq
  <2> QED BY <1>1, <1>2, <2>1
<1>4. FileLen = 2 * Len(file) - (IF torn THEN 1 ELSE 0)
  BY DEF FileLen
<1> QED BY <1>1, <1>2, <1>3, <1>4

-------------------------------------------------------------------------------
(* History                                                                 *)

\* Lines a + 1 to b, in their order.
Interval(a, b) == [k \in 1..(b - a) |-> a + k]

LEMMA IntervalIs ==
    ASSUME NEW a \in Nat, NEW b \in Nat
    PROVE  /\ Interval(a, b) \in Seq(Nat) /\ Ascends(Interval(a, b))
           /\ ToSet(Interval(a, b)) = (a + 1)..b
<1> DEFINE c == IF a <= b THEN b - a ELSE 0
           t == Interval(a, b)
<1>1. c \in Nat /\ 1..(b - a) = 1..c
  OBVIOUS
<1>2. t = [k \in 1..c |-> a + k]
  BY <1>1 DEF Interval
<1>3. t \in [1..c -> Nat]
  BY <1>1, <1>2
<1>4. t \in Seq(Nat)
  BY <1>1, <1>3, SeqDef
<1>5. DOMAIN t = 1..c /\ \A k \in 1..c : t[k] = a + k
  BY <1>2
<1> HIDE DEF t
<1>6. Ascends(t)
  BY <1>1, <1>5 DEF Ascends
<1>7. ToSet(t) = (a + 1)..b
  <2>1. \A k \in 1..c : a + k \in (a + 1)..b
    OBVIOUS
  <2>2. \A i \in (a + 1)..b : i - a \in 1..c /\ a + (i - a) = i
    OBVIOUS
  <2> HIDE DEF c
  <2> QED BY <1>5, <2>1, <2>2 DEF ToSet
<1> QED BY <1>4, <1>6, <1>7 DEF t

\* The lines that the tail has.
LEMMA TailIs ==
    ASSUME NEW len \in Nat, Readable(TailStart(len), len)
    PROVE  \E a, b \in Nat :
               /\ read_tail_lines(len) = Interval(a, b) /\ 2 * b <= len
               /\ \A i \in Nat : 2 * i <= len => i <= b
               /\ \A i \in Nat : i > 0 /\ (TailStart(len) = 0 \/ 2 * i - 2 > TailStart(len)) => i > a
<1> DEFINE start == TailStart(len)
           from  == IF start = 0 THEN 0 ELSE 2 * (start \div 2) + 2
           a == (from + 1) \div 2
           b == len \div 2
<1>1. start \in Nat
  BY Constants DEF TailStart
<1>2. read_tail_lines(len) = parse_lines(from, len)
  BY DEF read_tail_lines
<1>3. parse_lines(from, len) = Interval(a, b)
  BY DEF parse_lines, Interval
<1> HIDE DEF start
<1>4. a \in Nat /\ b \in Nat /\ 2 * b <= len /\ (start = 0 => a = 0) /\ (start # 0 => a = start \div 2 + 1)
  BY <1>1
<1>5. \A i \in Nat : 2 * i <= len => i <= b
  OBVIOUS
<1>6. \A i \in Nat : i > 0 /\ (start = 0 \/ 2 * i - 2 > start) => i > a
  BY <1>1, <1>4
<1>7. read_tail_lines(len) = Interval(a, b)
  BY <1>2, <1>3
<1> HIDE DEF a, b
<1> QED BY <1>4, <1>5, <1>6, <1>7 DEF start

\* It is, in every state.
LEMMA HistoryIs == TypeOK => HistoryIsEnd
<1> SUFFICES ASSUME TypeOK, NEW limit \in 1..MaxLines, Readable(TailStart(FileLen), FileLen)
             PROVE  LET shown   == ToSet(Messages(limit))
                        covered == {i \in DOMAIN file :
                                      /\ IsMessage(file[i]) /\ 2 * i <= FileLen
                                      /\ TailStart(FileLen) = 0 \/ 2 * i - 2 > TailStart(FileLen)}
                    IN  /\ shown \subseteq {i \in DOMAIN file : IsMessage(file[i])}
                        /\ \A i \in covered : i \in shown \/ Cardinality({j \in shown : j > i}) = limit
                        /\ Cardinality(shown) <= limit
  BY DEF HistoryIsEnd
<1> DEFINE start == TailStart(FileLen)
           M == {i \in DOMAIN file : IsMessage(file[i])}
           q == read_tail_lines(FileLen)
           t == Keep(q, M)
           r == LastOf(t, limit)
           covered == {i \in M : 2 * i <= FileLen /\ (start = 0 \/ 2 * i - 2 > start)}
<1>1. limit \in Nat
  BY Constants
<1>2. FileLen \in Nat /\ DOMAIN file = 1..Len(file) /\ Len(file) \in Nat
  BY FileFacts
<1>3. PICK a \in Nat, b \in Nat :
          /\ q = Interval(a, b) /\ 2 * b <= FileLen
          /\ \A i \in Nat : 2 * i <= FileLen => i <= b
          /\ \A i \in Nat : i > 0 /\ (start = 0 \/ 2 * i - 2 > start) => i > a
  BY <1>2, TailIs
<1>4. q \in Seq(Nat) /\ Ascends(q) /\ ToSet(q) = (a + 1)..b
  BY <1>3, IntervalIs
<1> HIDE DEF start, M, q
<1>5. t \in Seq(Nat) /\ Ascends(t) /\ ToSet(t) = ToSet(q) \cap M
  <2> DEFINE U == Nat
  <2>1. q \in Seq(U)
    BY <1>4
  <2> HIDE DEF U
  <2>2. t \in Seq(U \cap M) /\ ToSet(t) = ToSet(q) \cap M
    BY <2>1, KeepHas
  <2>3. t \in Seq(U)
    <3>1. U \cap M \subseteq U
      OBVIOUS
    <3> HIDE DEF t
    <3> QED BY <2>2, <3>1, SeqMonotonic
  <2>4. Ascends(t)
    BY <1>4, KeepAscends
  <2> QED BY <2>2, <2>3, <2>4 DEF U
<1> HIDE DEF t
<1>6. /\ Len(t) \in Nat /\ DOMAIN t = 1..Len(t) /\ \A k \in 1..Len(t) : t[k] \in Nat
  BY <1>5, LenProperties
<1>7. /\ r \in Seq(Nat) /\ Len(r) = (IF Len(t) > limit THEN limit ELSE Len(t))
      /\ \A j \in 1..Len(r) : /\ Len(t) - Len(r) + j \in 1..Len(t)
                              /\ r[j] = t[Len(t) - Len(r) + j]
  BY <1>1, <1>5, LastOfIs
<1>8. Len(r) \in Nat /\ DOMAIN r = 1..Len(r) /\ Len(r) <= Len(t) /\ Len(r) <= limit
  BY <1>1, <1>6, <1>7, LenProperties
<1> HIDE DEF r
<1> DEFINE off == Len(t) - Len(r)
<1>8b. /\ off \in Nat /\ Len(t) = off + Len(r) /\ (off > 0 => Len(r) = limit)
      /\ \A j \in 1..Len(r) : off + j \in 1..Len(t) /\ r[j] = t[off + j]
  <2>1. Len(t) \in Nat /\ Len(r) \in Nat /\ limit \in Nat
        /\ Len(r) = (IF Len(t) > limit THEN limit ELSE Len(t))
    BY <1>1, <1>6, <1>7, <1>8
  <2>2. off \in Nat /\ Len(t) = off + Len(r) /\ (off > 0 => Len(r) = limit)
    BY <2>1
  <2> QED BY <1>7, <2>2
<1> HIDE DEF off, covered
<1>8c. off \in Nat /\ Len(r) \in Nat /\ Len(t) \in Nat /\ Len(t) = off + Len(r)
  BY <1>6, <1>8, <1>8b
<1>9. Ascends(r)
  <2> SUFFICES ASSUME NEW i \in 1..Len(r), NEW j \in 1..Len(r), i < j PROVE r[i] < r[j]
    BY <1>8 DEF Ascends
  <2> DEFINE k == off + i
             l == off + j
  <2>0. k < l
    <3>1. i \in Nat /\ j \in Nat /\ off \in Nat /\ i < j
      BY <1>8c
    <3> QED BY ONLY <3>1
  <2>1. k \in DOMAIN t /\ l \in DOMAIN t /\ r[i] = t[k] /\ r[j] = t[l]
    BY <1>6, <1>8b
  <2> HIDE DEF k, l
  <2> QED BY <1>5, <2>0, <2>1 DEF Ascends
<1>10. IsFiniteSet(ToSet(r)) /\ Cardinality(ToSet(r)) = Len(r)
  BY <1>7, <1>9, AscendingCounts
<1>11. ToSet(r) \subseteq M
  <2>1. ToSet(r) \subseteq ToSet(t)
    BY <1>6, <1>7, <1>8 DEF ToSet
  <2> QED BY <1>5, <2>1
<1>12. ASSUME NEW i \in covered, i \notin ToSet(r) PROVE Cardinality({j \in ToSet(r) : j > i}) = limit
  <2>1. i \in M /\ i \in Nat /\ i > 0 /\ 2 * i <= FileLen /\ (start = 0 \/ 2 * i - 2 > start)
    BY <1>2 DEF M, covered
  <2>2. i > a /\ i <= b
    BY <1>3, <2>1
  <2>3. i \in ToSet(t)
    BY <1>4, <1>5, <2>1, <2>2
  <2>4. PICK k \in 1..Len(t) : i = t[k]
    BY <1>6, <2>3 DEF ToSet
  <2>5. k <= off
    <3> SUFFICES ASSUME k > off PROVE FALSE
      BY <1>6, <1>8b
    <3> DEFINE j == k - off
    <3>0. off \in Nat /\ k \in Nat /\ Len(r) \in Nat /\ k > off /\ k <= off + Len(r)
      BY <1>8c
    <3>1. j \in 1..Len(r) /\ off + j = k
      BY ONLY <3>0
    <3> HIDE DEF j
    <3>2. r[j] = i
      BY <1>8b, <2>4, <3>1
    <3> QED BY <1>8, <1>12, <3>1, <3>2 DEF ToSet
  <2>6. Len(r) = limit
    <3>1. k > 0 /\ k \in Nat
      BY <1>6
    <3> QED BY <1>8b, <2>5, <3>1
  <2>7. ASSUME NEW y \in ToSet(r) PROVE y > i
    <3>1. PICK j \in 1..Len(r) : y = r[j]
      BY <1>8 DEF ToSet
    <3> DEFINE l == off + j
    <3>0. k < l
      <4>1. k \in Nat /\ off \in Nat /\ j \in Nat /\ j > 0 /\ k <= off
        BY <1>8c, <2>5
      <4> QED BY ONLY <4>1
    <3>2. l \in 1..Len(t) /\ y = t[l]
      BY <1>8b, <3>1
    <3> HIDE DEF l
    <3>3. t[k] < t[l]
      BY <1>5, <1>6, <2>4, <3>0, <3>2 DEF Ascends
    <3> QED BY <1>6, <2>4, <3>2, <3>3
  <2>8. {j \in ToSet(r) : j > i} = ToSet(r)
    BY <2>7
  <2> QED BY <1>10, <2>6, <2>8
<1>13. Messages(limit) = r
  BY DEF Messages, r, t, q, M
<1> QED BY <1>8, <1>10, <1>11, <1>12, <1>13 DEF M, start, covered

\* The history is the end of the conversation: the newest messages that the
\* tail has, without a gap, and no more than were asked for (read_messages).
THEOREM HistoryIsEndHolds == Spec => []HistoryIsEnd
BY ViewTypeCorrect, HistoryIs, PTL

-------------------------------------------------------------------------------
(* Cut texts                                                               *)

\* The bytes of the first n characters: the loop of Bytes.
Upto(s) ==
    CHOOSE f : f = [n \in 0..Len(s) |-> IF n = 0 THEN 0 ELSE f[n - 1] + Width(s[n])]

LEMMA BytesIs ==
    ASSUME NEW s
    PROVE  Bytes(s) = Upto(s)[Len(s)]
BY DEF Bytes, Upto

LEMMA UptoStep ==
    ASSUME NEW U, NEW s \in Seq(U)
    PROVE  /\ Upto(s)[0] = 0
           /\ \A n \in 1..Len(s) : Upto(s)[n] = Upto(s)[n - 1] + Width(s[n])
           /\ \A n \in 0..Len(s) : Upto(s)[n] \in Nat
<1> DEFINE m == Len(s)
           Step(n, x) == x + Width(s[n])
           g == [p \in (1..m) \X Nat |-> Step(p[1], p[2])]
           Body(f, n) == IF n = 0 THEN 0 ELSE Step(n, f[n - 1])
<1>1. m \in Nat
  BY LenProperties
<1>2. \A n \in 1..m : \A x \in Nat : g[<<n, x>>] = Step(n, x) /\ Step(n, x) \in Nat
  BY DEF Width
<1> HIDE DEF m, Step
<1>3. IsLoop(m, g, 0, Nat)
  BY <1>1, <1>2 DEF IsLoop
<1> HIDE DEF g
<1>4. PICK f : Results(f, m, g, 0, Nat)
  BY <1>3, Loop
<1>5. \A n \in 0..m : n # 0 => n \in 1..m /\ n - 1 \in 0..m
  BY <1>1
<1>6. \A n \in 0..m : f[n] = Body(f, n)
  BY <1>2, <1>4, <1>5 DEF Results
<1>7. f = [n \in 0..m |-> Body(f, n)]
  <2>1. f = [n \in 0..m |-> f[n]]
    BY <1>4 DEF Results
  <2> HIDE DEF Body
  <2> QED BY <1>6, <2>1
<1>8. Upto(s) = [n \in 0..m |-> Body(Upto(s), n)]
  BY <1>7 DEF Upto, Step, m
<1>9. \A n \in 0..m : Upto(s)[n] = Body(Upto(s), n)
  <2> HIDE DEF Body
  <2> QED BY <1>8
<1>10. 0 \in 0..m /\ \A n \in 1..m : n \in 0..m /\ n # 0
  BY <1>1
<1>11. Upto(s)[0] = 0 /\ \A n \in 1..m : Upto(s)[n] = Step(n, Upto(s)[n - 1])
  BY <1>9, <1>10
<1>12. ASSUME NEW n \in 0..m PROVE Upto(s)[n] \in Nat
  <2> DEFINE T == {k \in 0..m : Upto(s)[k] \in Nat}
  <2>1. 0 \in T
    BY <1>10, <1>11
  <2>2. \A k \in 1..m : k - 1 \in T => k \in T
    BY <1>10, <1>11 DEF Step, Width
  <2> HIDE DEF T
  <2>3. n \in T
    BY <1>1, <2>1, <2>2, UpTo
  <2> QED BY <2>3 DEF T
<1> QED BY <1>11, <1>12 DEF m, Step

LEMMA PrefixIs ==
    ASSUME NEW U, NEW s \in Seq(U), NEW n \in 0..Len(s)
    PROVE  /\ SubSeq(s, 1, n) \in Seq(U) /\ Len(SubSeq(s, 1, n)) = n
           /\ \A j \in 1..n : SubSeq(s, 1, n)[j] = s[j]
           /\ Bytes(SubSeq(s, 1, n)) = Upto(s)[n]
<1> DEFINE p == SubSeq(s, 1, n)
<1>1. Len(s) \in Nat /\ n \in Nat /\ \A i \in 1..n : s[i] \in U
  BY LenProperties
<1>2. p \in Seq(U) /\ Len(p) = n /\ \A j \in 1..n : p[j] = s[j]
  BY <1>1, SubSeqProperties
<1> HIDE DEF p
<1> DEFINE T == {k \in 0..n : Upto(p)[k] = Upto(s)[k]}
<1>3. 0 \in T
  <2>1. Upto(p)[0] = 0 /\ Upto(s)[0] = 0 /\ 0 \in 0..n
    BY <1>1, <1>2, UptoStep
  <2> QED BY <2>1
<1>4. ASSUME NEW k \in 1..n, k - 1 \in T PROVE k \in T
  <2>1. k \in 1..Len(p) /\ k \in 1..Len(s) /\ k \in 0..n
    BY <1>1, <1>2
  <2>2. /\ Upto(p)[k] = Upto(p)[k - 1] + Width(p[k])
        /\ Upto(s)[k] = Upto(s)[k - 1] + Width(s[k])
    BY <1>2, <2>1, UptoStep
  <2> QED BY <1>2, <1>4, <2>1, <2>2
<1>5. n \in T
  <2>1. n \in 0..n
    BY <1>1
  <2> HIDE DEF T
  <2> QED BY <1>1, <1>3, <1>4, <2>1, UpTo
<1>6. Bytes(p) = Upto(s)[n]
  BY <1>2, <1>5, BytesIs
<1> QED BY <1>2, <1>6 DEF p

\* The loop of CutAt.
Down(s, max) ==
    CHOOSE f : f = [end \in 0..max |->
        IF end > 0 /\ ~IsCharBoundary(s, end) THEN f[end - 1] ELSE end]

LEMMA DownStep ==
    ASSUME NEW s, NEW max \in Nat
    PROVE  /\ Down(s, max)[0] = 0
           /\ \A n \in 1..max :
                Down(s, max)[n] = IF IsCharBoundary(s, n) THEN n ELSE Down(s, max)[n - 1]
<1> DEFINE Step(n, x) == IF IsCharBoundary(s, n) THEN n ELSE x
           g == [p \in (1..max) \X Nat |-> Step(p[1], p[2])]
           Body(f, n) == IF n > 0 /\ ~IsCharBoundary(s, n) THEN f[n - 1] ELSE n
<1>1. \A n \in 1..max : \A x \in Nat : g[<<n, x>>] = Step(n, x) /\ Step(n, x) \in Nat
  OBVIOUS
<1>2. IsLoop(max, g, 0, Nat)
  BY <1>1 DEF IsLoop
<1> HIDE DEF g
<1>3. PICK f : Results(f, max, g, 0, Nat)
  BY <1>2, Loop
<1>4. \A n \in 0..max : n \in Nat /\ (n # 0 => n > 0 /\ n \in 1..max /\ n - 1 \in 0..max)
  OBVIOUS
<1>5. \A n \in 0..max : f[n] = Body(f, n)
  <2>1. f[0] = 0 /\ ~(0 > 0)
    BY <1>3 DEF Results
  <2>2. ASSUME NEW n \in 1..max PROVE n > 0 /\ f[n] = Step(n, f[n - 1])
    <3>1. n > 0 /\ n - 1 \in 0..max
      BY <1>4
    <3> HIDE DEF Step
    <3>2. f[n] = g[<<n, f[n - 1]>>] /\ f[n - 1] \in Nat
      BY <1>3, <3>1 DEF Results
    <3> QED BY <1>1, <3>1, <3>2
  <2> QED BY <1>4, <2>1, <2>2
<1>6. f = [n \in 0..max |-> Body(f, n)]
  <2>1. f = [n \in 0..max |-> f[n]]
    BY <1>3 DEF Results
  <2> HIDE DEF Body
  <2> QED BY <1>5, <2>1
<1>7. Down(s, max) = [n \in 0..max |-> Body(Down(s, max), n)]
  BY <1>6 DEF Down
<1>8. \A n \in 0..max : Down(s, max)[n] = Body(Down(s, max), n)
  <2> HIDE DEF Body
  <2> QED BY <1>7
<1>9. 0 \in 0..max /\ ~(0 > 0) /\ \A n \in 1..max : n \in 0..max /\ n > 0
  OBVIOUS
<1> QED BY <1>8, <1>9

\* Where the loop ends: at the last boundary up to max.
LEMMA DownIs ==
    ASSUME NEW s, NEW max \in Nat, IsCharBoundary(s, 0)
    PROVE  /\ Down(s, max)[max] \in 0..max /\ IsCharBoundary(s, Down(s, max)[max])
           /\ \A d \in 0..max : IsCharBoundary(s, d) => d <= Down(s, max)[max]
<1> DEFINE F(n) == Down(s, max)[n]
           Good(n) == /\ F(n) \in 0..n /\ IsCharBoundary(s, F(n))
                      /\ \A d \in 0..n : IsCharBoundary(s, d) => d <= F(n)
           T == {n \in 0..max : Good(n)}
<1>1. F(0) = 0 /\ \A n \in 1..max : F(n) = IF IsCharBoundary(s, n) THEN n ELSE F(n - 1)
  BY DownStep
<1> HIDE DEF F
<1>2. 0 \in T
  BY <1>1
<1>3. ASSUME NEW n \in 1..max, n - 1 \in T PROVE n \in T
  <2>1. Good(n - 1) /\ n \in 0..max /\ n \in Nat /\ n - 1 \in Nat /\ n \in 0..n
    BY <1>3
  <2>2. \A d \in 0..n : d \in Nat /\ d <= n /\ (d # n => d \in 0..(n - 1))
    BY <2>1
  <2>3. F(n - 1) \in 0..n
    BY <2>1
  <2>4. CASE IsCharBoundary(s, n)
    <3>1. F(n) = n
      BY <1>1, <2>4
    <3>2. Good(n)
      BY <2>1, <2>2, <2>4, <3>1
    <3> QED BY <2>1, <3>2
  <2>5. CASE ~IsCharBoundary(s, n)
    <3>1. F(n) = F(n - 1)
      BY <1>1, <2>5
    <3>2. Good(n)
      BY <2>1, <2>2, <2>3, <2>5, <3>1
    <3> QED BY <2>1, <3>2
  <2> QED BY <2>4, <2>5
<1>4. max \in T
  <2>1. max \in 0..max
    OBVIOUS
  <2> HIDE DEF T
  <2> QED BY <1>2, <1>3, <2>1, UpTo
<1> QED BY <1>4 DEF F

LEMMA CutAtIs ==
    ASSUME NEW U, NEW s \in Seq(U), NEW max \in Nat, Bytes(s) > max
    PROVE  \E n \in 0..(Len(s) - 1) :
              /\ CutAt(s, max) = SubSeq(s, 1, n)
              /\ Bytes(SubSeq(s, 1, n)) <= max /\ max < Bytes(SubSeq(s, 1, n + 1))
<1> DEFINE B(n) == Bytes(SubSeq(s, 1, n))
           end == Down(s, max)[max]
           n == CharsBefore(s, end)
<1>1. /\ Len(s) \in Nat /\ 0 \in 0..Len(s)
      /\ \A k \in 0..Len(s) : B(k) = Upto(s)[k]
      /\ B(0) = 0 /\ B(Len(s)) = Bytes(s)
  <2>1. Len(s) \in Nat /\ 0 \in 0..Len(s) /\ Len(s) \in 0..Len(s)
    BY LenProperties
  <2>2. \A k \in 0..Len(s) : B(k) = Upto(s)[k]
    BY PrefixIs
  <2> QED BY <2>1, <2>2, BytesIs, UptoStep
<1>2. \A k \in 1..Len(s) : B(k) > B(k - 1) /\ B(k) \in Nat /\ B(k - 1) \in Nat
  <2> SUFFICES ASSUME NEW k \in 1..Len(s) PROVE B(k) > B(k - 1) /\ B(k) \in Nat /\ B(k - 1) \in Nat
    OBVIOUS
  <2>1. k \in 0..Len(s) /\ k - 1 \in 0..Len(s)
    BY <1>1
  <2>2. /\ Upto(s)[k] = Upto(s)[k - 1] + Width(s[k])
        /\ Upto(s)[k] \in Nat /\ Upto(s)[k - 1] \in Nat
    BY <2>1, UptoStep
  <2> HIDE DEF B
  <2> QED BY <1>1, <2>1, <2>2 DEF Width
<1>3. \A d : IsCharBoundary(s, d) <=> \E k \in 0..Len(s) : B(k) = d
  BY DEF IsCharBoundary
<1>4. CutAt(s, max) = SubSeq(s, 1, n)
  BY DEF CutAt, Down
<1>5. /\ end \in 0..max /\ IsCharBoundary(s, end)
      /\ \A d \in 0..max : IsCharBoundary(s, d) => d <= end
  <2>1. IsCharBoundary(s, 0)
    BY <1>1, <1>3
  <2> QED BY <2>1, DownIs
<1>6. n \in 0..Len(s) /\ B(n) = end
  BY <1>5 DEF CharsBefore, IsCharBoundary
<1> HIDE DEF n, B, end
<1>7. n # Len(s)
  BY <1>1, <1>5, <1>6
<1>8. n \in 0..(Len(s) - 1) /\ n + 1 \in 1..Len(s) /\ (n + 1) - 1 = n /\ n + 1 \in 0..Len(s)
  BY <1>1, <1>6, <1>7
<1>9. max < B(n + 1)
  <2> SUFFICES ASSUME ~(max < B(n + 1)) PROVE FALSE
    OBVIOUS
  <2>1. B(n + 1) > end /\ B(n + 1) \in Nat
    BY <1>2, <1>6, <1>8
  <2>2. B(n + 1) \in 0..max
    BY <2>1
  <2>3. B(n + 1) <= end
    BY <1>3, <1>5, <1>8, <2>2
  <2> QED BY <1>5, <2>1, <2>3
<1>10. B(n) <= max
  BY <1>5, <1>6
<1> QED BY <1>4, <1>8, <1>9, <1>10 DEF B

\* All characters: the provers do not know of a string that it is in STRING.
Chars == STRING \cup {"nl", " ", "..."}

\* What truncate_output and truncate_detail have in common.
Shortened(s, max) == IF Bytes(s) <= max THEN s ELSE CutAt(s, max) \o <<"...">>

LEMMA ShortenedIs ==
    ASSUME NEW s \in Seq(Chars), NEW max \in Nat
    PROVE  IsLongestCut(Shortened(s, max), s, max)
<1>1. Len(s) \in Nat /\ Bytes(s) \in Nat
  <2>1. Len(s) \in 0..Len(s) /\ Len(s) \in Nat
    BY LenProperties
  <2> QED BY <2>1, UptoStep, BytesIs
<1>2. CASE Bytes(s) <= max
  BY <1>2 DEF Shortened, IsLongestCut
<1>3. CASE Bytes(s) > max
  <2>1. PICK n \in 0..(Len(s) - 1) :
            /\ CutAt(s, max) = SubSeq(s, 1, n)
            /\ Bytes(SubSeq(s, 1, n)) <= max /\ max < Bytes(SubSeq(s, 1, n + 1))
    BY <1>1, <1>3, CutAtIs
  <2> DEFINE p == SubSeq(s, 1, n)
             cut == p \o <<"...">>
  <2>2. n \in 0..Len(s) /\ n \in Nat
    BY <1>1
  <2>3. p \in Seq(Chars) /\ Len(p) = n
    BY <2>2, PrefixIs
  <2>4. <<"...">> \in Seq(Chars) /\ Len(<<"...">>) = 1
    <3>1. "..." \in Chars
      BY DEF Chars
    <3> QED BY <3>1
  <2>5. Len(cut) = n + 1
    <3> HIDE DEF p
    <3> QED BY <2>2, <2>3, <2>4, ConcatProperties
  <2>6. Shortened(s, max) = cut
    BY <1>1, <1>3, <2>1 DEF Shortened
  <2>7. Len(cut) - 1 = n
    BY <2>2, <2>5
  <2> HIDE DEF cut
  <2>8. IsLongestCut(cut, s, max)
    BY <1>3, <2>1, <2>7 DEF IsLongestCut, cut
  <2> QED BY <2>6, <2>8
<1> QED BY <1>1, <1>2, <1>3

-------------------------------------------------------------------------------
(* One sequence of many                                                    *)

\* The loop of FlattenSeq.
Flat(q) ==
    CHOOSE f : f = [i \in 1..Len(q) |-> IF i = 1 THEN q[i] ELSE f[i - 1] \o q[i]]

\* f[n] is the first n sequences of q in one, of elements of U.
FlatUpTo(f, q, U) ==
    /\ f[0] = <<>> /\ FlattenSeq(q) = f[Len(q)]
    /\ \A n \in 1..Len(q) : f[n] = f[n - 1] \o q[n]
    /\ \A n \in 0..Len(q) : f[n] \in Seq(U)

LEMMA Flattened ==
    ASSUME NEW U, NEW q \in Seq(Seq(U))
    PROVE  \E f : FlatUpTo(f, q, U)
<1> DEFINE m == Len(q)
           Step(n, x) == x \o q[n]
           g == [p \in (1..m) \X Seq(U) |-> Step(p[1], p[2])]
           Body(f, n) == IF n = 1 THEN q[n] ELSE f[n - 1] \o q[n]
<1>1. m \in Nat /\ <<>> \in Seq(U) /\ \A n \in 1..m : q[n] \in Seq(U)
  BY LenProperties
<1>2. \A n \in 1..m : \A x \in Seq(U) : g[<<n, x>>] = Step(n, x) /\ Step(n, x) \in Seq(U)
  BY <1>1, ConcatProperties
<1> HIDE DEF m, Step
<1>3. IsLoop(m, g, <<>>, Seq(U))
  BY <1>1, <1>2 DEF IsLoop
<1> HIDE DEF g
<1>4. PICK f : Results(f, m, g, <<>>, Seq(U))
  BY <1>3, Loop
<1>5. \A n \in 1..m : n - 1 \in 0..m /\ n \in 0..m /\ n \in Nat
  BY <1>1
<1>6. /\ f[0] = <<>>
      /\ \A n \in 0..m : f[n] \in Seq(U)
  BY <1>4 DEF Results
<1>7. \A n \in 1..m : f[n] = f[n - 1] \o q[n]
  <2> SUFFICES ASSUME NEW n \in 1..m PROVE f[n] = Step(n, f[n - 1])
    BY DEF Step
  <2>1. f[n] = g[<<n, f[n - 1]>>] /\ f[n - 1] \in Seq(U)
    BY <1>4, <1>5, <1>6 DEF Results
  <2> QED BY <1>2, <2>1
<1> DEFINE h == [n \in 1..m |-> f[n]]
<1>8. h = [n \in 1..m |-> Body(h, n)]
  <2> SUFFICES ASSUME NEW n \in 1..m PROVE f[n] = Body(h, n)
    <3> HIDE DEF Body
    <3>1. h = [n \in 1..m |-> h[n]] /\ \A n \in 1..m : h[n] = f[n]
      OBVIOUS
    <3> HIDE DEF h
    <3> QED BY <3>1
  <2>1. CASE n = 1
    <3>0. 1 \in 1..m /\ 1 - 1 = 0
      BY <2>1
    <3>1. f[1] = <<>> \o q[1] /\ q[1] \in Seq(U)
      BY <1>1, <1>6, <1>7, <3>0
    <3>2. f[1] = q[1]
      BY <3>1, ConcatEmptySeq
    <3> QED BY <2>1, <3>2
  <2>2. CASE n # 1
    <3>1. n - 1 \in 1..m
      BY <1>1, <2>2
    <3>2. h[n - 1] = f[n - 1]
      BY <3>1
    <3> HIDE DEF h
    <3> QED BY <1>7, <2>2, <3>2
  <2> QED BY <2>1, <2>2
<1> HIDE DEF h
<1>9. Flat(q) = [n \in 1..m |-> Body(Flat(q), n)]
  BY <1>8 DEF Flat, m
<1>10. \A n \in 1..m : Flat(q)[n] = Body(Flat(q), n)
  <2> HIDE DEF Body
  <2> QED BY <1>9
<1>11. ASSUME NEW n \in 1..m PROVE Flat(q)[n] = f[n]
  <2> DEFINE T == {k \in 0..m : k # 0 => Flat(q)[k] = f[k]}
  <2>1. 0 \in T
    BY <1>1
  <2>2. ASSUME NEW k \in 1..m, k - 1 \in T PROVE k \in T
    <3>1. CASE k = 1
      <4>0. 1 \in 1..m /\ 1 - 1 = 0
        BY <3>1
      <4>1. f[1] = <<>> \o q[1] /\ q[1] \in Seq(U)
        BY <1>1, <1>6, <1>7, <4>0
      <4>2. f[1] = q[1]
        BY <4>1, ConcatEmptySeq
      <4>3. Flat(q)[1] = q[1]
        BY <1>10, <3>1
      <4> QED BY <1>5, <3>1, <4>2, <4>3
    <3>2. CASE k # 1
      <4>1. k - 1 # 0
        BY <1>5, <3>2
      <4>2. Flat(q)[k - 1] = f[k - 1]
        BY <2>2, <4>1
      <4>3. Flat(q)[k] = Flat(q)[k - 1] \o q[k]
        BY <1>10, <3>2
      <4> QED BY <1>5, <1>7, <4>2, <4>3
    <3> QED BY <3>1, <3>2
  <2> HIDE DEF T
  <2>3. n \in T
    BY <1>1, <1>5, <2>1, <2>2, UpTo
  <2> QED BY <1>5, <2>3 DEF T
<1>12. FlattenSeq(q) = f[m]
  <2>1. CASE m = 0
    <3>1. q = <<>>
      BY <2>1, EmptySeq DEF m
    <3> QED BY <1>6, <2>1, <3>1 DEF FlattenSeq, m
  <2>2. CASE m # 0
    <3>1. m \in 1..m
      BY <1>1, <2>2
    <3>2. FlattenSeq(q) = Flat(q)[m]
      BY <2>2 DEF FlattenSeq, Flat, m
    <3> QED BY <1>11, <3>1, <3>2
  <2> QED BY <2>1, <2>2
<1> QED BY <1>6, <1>7, <1>12 DEF FlatUpTo, m

-------------------------------------------------------------------------------
(* Blocks                                                                  *)

LEMMA OwnElements ==
    ASSUME NEW s, NEW n \in Nat, DOMAIN s = 1..n, s = [i \in DOMAIN s |-> s[i]]
    PROVE  s \in Seq(ToSet(s)) /\ Len(s) = n
<1>1. s \in [1..n -> ToSet(s)]
  BY DEF ToSet
<1>2. s \in Seq(ToSet(s))
  BY <1>1, SeqDef
<1> QED BY <1>2, LenProperties

LEMMA TextsOfChars == Texts \subseteq Seq(Chars)
<1> SUFFICES ASSUME NEW s \in Texts PROVE s \in Seq(Chars)
  OBVIOUS
<1>1. STRING \subseteq Chars
  BY DEF Chars
<1> QED BY <1>1, SeqMonotonic DEF Texts

LEMMA FirstPresentIs ==
    ASSUME NEW input, IsInput(input), NEW keys, DOMAIN keys \subseteq Nat, NEW default \in Seq(Chars)
    PROVE  FirstPresent(input, keys, default) \in Seq(Chars)
<1> DEFINE present == {i \in DOMAIN keys : input # None /\ keys[i] \in DOMAIN input}
<1>1. CASE present = {}
  BY <1>1 DEF FirstPresent
<1>2. CASE present # {}
  <2>1. present \in SUBSET Nat
    OBVIOUS
  <2>2. \E n \in present : \A m \in present : n <= m
    <3> HIDE DEF present
    <3> QED BY <1>2, <2>1, Least
  <2>3. Min(present) \in present
    <3> HIDE DEF present
    <3> QED BY <2>2 DEF Min
  <2>4. input # None /\ keys[Min(present)] \in DOMAIN input
    <3> DEFINE k == Min(present)
    <3>1. k \in present
      BY <2>3
    <3> HIDE DEF k
    <3> QED BY <3>1 DEF k
  <2>5. input[keys[Min(present)]] \in Texts
    <3> HIDE DEF present
    <3> QED BY <2>4 DEF IsInput
  <2>6. FirstPresent(input, keys, default) = input[keys[Min(present)]]
    BY <1>2 DEF FirstPresent
  <2> QED BY <2>5, <2>6, TextsOfChars
<1> QED BY <1>1, <1>2

LEMMA DetailIs ==
    ASSUME NEW name, NEW input, IsInput(input)
    PROVE  extract_tool_detail(name, input) \in Seq(Chars)
<1>1. DOMAIN DetailKeys(name) \subseteq Nat
  BY DEF DetailKeys
<1>2. <<>> \in Seq(Chars)
  OBVIOUS
<1> QED BY <1>1, <1>2, FirstPresentIs DEF extract_tool_detail

LEMMA JoinedIs ==
    ASSUME NEW parts \in Seq(Texts)
    PROVE  Joined(parts) = None \/ Joined(parts) \in Seq(Chars)
<1> DEFINE q == [i \in DOMAIN parts |-> IF i = 1 THEN parts[i] ELSE <<"nl">> \o parts[i]]
<1>1. Len(parts) \in Nat /\ DOMAIN parts = 1..Len(parts) /\ \A i \in DOMAIN parts : parts[i] \in Seq(Chars)
  BY LenProperties, TextsOfChars
<1>2. <<"nl">> \in Seq(Chars)
  <2>1. "nl" \in Chars
    BY DEF Chars
  <2> QED BY <2>1
<1>3. \A i \in DOMAIN parts : <<"nl">> \o parts[i] \in Seq(Chars)
  BY <1>1, <1>2, ConcatProperties
<1>4. q \in [1..Len(parts) -> Seq(Chars)]
  BY <1>1, <1>3
<1>5. q \in Seq(Seq(Chars))
  BY <1>1, <1>4, SeqDef
<1> HIDE DEF q
<1>6. FlattenSeq(q) \in Seq(Chars)
  <2>1. PICK f : FlatUpTo(f, q, Chars)
    BY <1>5, Flattened
  <2>2. Len(q) \in 0..Len(q)
    BY <1>5, LenProperties
  <2> QED BY <2>1, <2>2 DEF FlatUpTo
<1> QED BY <1>6 DEF Joined, q

LEMMA OutputIs ==
    ASSUME NEW b, IsBlock(b), b.type = "tool_result"
    PROVE  \/ extract_tool_result_output(b.content) = None
           \/ extract_tool_result_output(b.content) \in Seq(Chars)
<1>1. CASE b.content = None
  BY <1>1 DEF extract_tool_result_output
<1>2. CASE b.content # None /\ DOMAIN b.content = {"text"} /\ b.content.text \in Texts
  <2>1. "text" \in DOMAIN b.content
    BY <1>2
  <2>2. b.content.text \in Seq(Chars)
    BY <1>2, TextsOfChars
  <2> QED BY <1>2, <2>1, <2>2 DEF extract_tool_result_output
<1>3. CASE b.content # None /\ DOMAIN b.content = {"parts"} /\ b.content.parts \in Seq(Texts)
  <2>1. "text" \notin DOMAIN b.content
    BY <1>3
  <2> QED BY <1>3, <2>1, JoinedIs DEF extract_tool_result_output
<1> QED BY <1>1, <1>2, <1>3 DEF IsBlock

\* What the renderers are given.
IsParsed(b) ==
    /\ b.type \in {"text", "tool_use", "tool_result"}
    /\ b.type = "tool_use" => b.detail \in Seq(Chars)
    /\ b.type = "tool_result" => b.output = None \/ b.output \in Seq(Chars)

LEMMA ParsedBlock ==
    ASSUME NEW b, IsBlock(b), Usable(b)
    PROVE  IsParsed(parse_one_block(b))
<1>1. CASE b.type = "text"
  BY <1>1 DEF parse_one_block, IsParsed
<1>2. CASE b.type = "tool_use"
  <2> DEFINE d == extract_tool_detail(b.name, b.input)
             p == [type |-> "tool_use", name |-> b.name, input |-> b.input, detail |-> d]
  <2>1. d \in Seq(Chars)
    BY <1>2, DetailIs DEF IsBlock
  <2>2. parse_one_block(b) = p
    BY <1>2 DEF parse_one_block
  <2> HIDE DEF d
  <2>3. p.type = "tool_use" /\ p.detail = d
    OBVIOUS
  <2> HIDE DEF p
  <2> QED BY <2>1, <2>2, <2>3 DEF IsParsed
<1>3. CASE b.type = "tool_result"
  <2> DEFINE o == extract_tool_result_output(b.content)
             name == IF b.name = None THEN "tool" ELSE b.name
             p == [type |-> "tool_result", name |-> name, output |-> o]
  <2>1. o = None \/ o \in Seq(Chars)
    BY <1>3, OutputIs
  <2>2. parse_one_block(b) = p
    BY <1>3 DEF parse_one_block
  <2> HIDE DEF o, name
  <2>3. p.type = "tool_result" /\ p.output = o
    OBVIOUS
  <2> HIDE DEF p
  <2> QED BY <2>1, <2>2, <2>3 DEF IsParsed
<1> QED BY <1>1, <1>2, <1>3 DEF Usable

LEMMA ParsedContent ==
    ASSUME NEW c, IsContent(c)
    PROVE  /\ parse_content_blocks(c) \in Seq(ToSet(parse_content_blocks(c)))
           /\ \A b \in ToSet(parse_content_blocks(c)) : IsParsed(b)
<1> DEFINE p == parse_content_blocks(c)
<1>1. CASE p = <<>>
  <2>1. ToSet(<<>>) = {}
    BY DEF ToSet
  <2> HIDE DEF p
  <2>2. p \in Seq(ToSet(p)) /\ \A b \in ToSet(p) : IsParsed(b)
    BY <1>1, <2>1
  <2> QED BY <2>2 DEF p
<1>2. CASE p # <<>> /\ DOMAIN c = {"text"}
  <2> DEFINE t == [type |-> "text", text |-> c.text]
  <2>1. p = <<t>>
    BY <1>2 DEF parse_content_blocks
  <2>2. IsParsed(t)
    BY DEF IsParsed
  <2> HIDE DEF t, p
  <2>3. ToSet(p) = {t}
    BY <2>1 DEF ToSet
  <2>4. p \in Seq(ToSet(p)) /\ \A b \in ToSet(p) : IsParsed(b)
    BY <2>1, <2>2, <2>3
  <2> QED BY <2>4 DEF p
<1>3. CASE /\ p # <<>> /\ DOMAIN c = {"blocks"} /\ c.blocks \in Seq(ToSet(c.blocks))
           /\ \A b \in ToSet(c.blocks) : IsBlock(b)
  <2> DEFINE S == {b \in ToSet(c.blocks) : Usable(b)}
             u == Keep(c.blocks, S)
  <2>1. p = [i \in DOMAIN u |-> parse_one_block(u[i])]
    BY <1>3 DEF parse_content_blocks
  <2>2. u \in Seq(ToSet(c.blocks) \cap S)
    <3> HIDE DEF S
    <3> QED BY <1>3, KeepHas
  <2>3. Len(u) \in Nat /\ DOMAIN u = 1..Len(u) /\ \A i \in DOMAIN u : u[i] \in S
    <3> HIDE DEF u
    <3> QED BY <2>2, LenProperties
  <2>4. \A i \in DOMAIN u : IsParsed(parse_one_block(u[i]))
    <3> SUFFICES ASSUME NEW i \in DOMAIN u PROVE IsParsed(parse_one_block(u[i]))
      OBVIOUS
    <3>1. u[i] \in S
      BY <2>3
    <3> HIDE DEF u
    <3>2. IsBlock(u[i]) /\ Usable(u[i])
      BY <1>3, <3>1
    <3> QED BY <3>2, ParsedBlock
  <2> HIDE DEF u, p
  <2>5. DOMAIN p = 1..Len(u) /\ p = [i \in DOMAIN p |-> p[i]]
    BY <2>1, <2>3
  <2>6. p \in Seq(ToSet(p))
    BY <2>3, <2>5, OwnElements
  <2>7. \A b \in ToSet(p) : IsParsed(b)
    BY <2>1, <2>3, <2>4, <2>5 DEF ToSet
  <2> QED BY <2>6, <2>7 DEF p
<1>4. c = None => p = <<>>
  BY DEF parse_content_blocks
<1> QED BY <1>1, <1>2, <1>3, <1>4 DEF IsContent

LEMMA BlocksAre ==
    ASSUME TypeOK, NEW i \in DOMAIN file
    PROVE  /\ Blocks(i) \in Seq(ToSet(Blocks(i)))
           /\ \A b \in ToSet(Blocks(i)) : IsParsed(b)
<1>1. IsContent(file[i].content)
  BY FileFacts, Constants
<1> QED BY <1>1, ParsedContent DEF Blocks

LEMMA OneLine ==
    ASSUME NEW s \in Seq(Chars)
    PROVE  ReplaceAll(s, "nl", " ") \in Seq(Chars)
<1> DEFINE t == [i \in 1..Len(s) |-> IF s[i] = "nl" THEN " " ELSE s[i]]
<1>1. Len(s) \in Nat /\ \A i \in 1..Len(s) : s[i] \in Chars
  BY LenProperties
<1>2. " " \in Chars
  BY DEF Chars
<1>3. t \in [1..Len(s) -> Chars]
  BY <1>1, <1>2
<1>4. t \in Seq(Chars)
  <2> HIDE DEF t
  <2> QED BY <1>1, <1>3, SeqDef
<1> QED BY <1>4 DEF ReplaceAll

LEMMA CutIs == TypeOK => CutIsLongest
<1> SUFFICES ASSUME TypeOK, NEW i \in DOMAIN file, NEW b \in ToSet(Blocks(i))
             PROVE  /\ b.type = "tool_result" /\ b.output # None =>
                          IsLongestCut(truncate_output(b.output, MaxOutput), b.output, MaxOutput)
                    /\ b.type = "tool_use" =>
                          IsLongestCut(truncate_detail(b.detail, DETAIL_MAX_LEN),
                                       ReplaceAll(b.detail, "nl", " "), DETAIL_MAX_LEN)
  BY DEF CutIsLongest
<1>1. IsParsed(b)
  BY BlocksAre
<1>2. ASSUME b.type = "tool_result", b.output # None
      PROVE  IsLongestCut(truncate_output(b.output, MaxOutput), b.output, MaxOutput)
  <2>1. b.output \in Seq(Chars) /\ MaxOutput \in Nat
    BY <1>1, <1>2, Constants DEF IsParsed
  <2>2. truncate_output(b.output, MaxOutput) = Shortened(b.output, MaxOutput)
    BY DEF truncate_output, Shortened
  <2> QED BY <2>1, <2>2, ShortenedIs
<1>3. ASSUME b.type = "tool_use"
      PROVE  IsLongestCut(truncate_detail(b.detail, DETAIL_MAX_LEN),
                          ReplaceAll(b.detail, "nl", " "), DETAIL_MAX_LEN)
  <2> DEFINE o == ReplaceAll(b.detail, "nl", " ")
  <2>1. o \in Seq(Chars) /\ DETAIL_MAX_LEN \in Nat
    BY <1>1, <1>3, OneLine, Constants DEF IsParsed
  <2>2. truncate_detail(b.detail, DETAIL_MAX_LEN) = Shortened(o, DETAIL_MAX_LEN)
    BY DEF truncate_detail, Shortened
  <2> HIDE DEF o
  <2>3. IsLongestCut(Shortened(o, DETAIL_MAX_LEN), o, DETAIL_MAX_LEN)
    BY <2>1, ShortenedIs
  <2> QED BY <2>2, <2>3 DEF o
<1> QED BY <1>2, <1>3

\* A cut text ends between two characters, within its bytes, and has every
\* character there was room for, whatever the widths of its characters
\* (truncate_output, truncate_detail).
THEOREM CutIsLongestHolds == Spec => []CutIsLongest
BY ViewTypeCorrect, CutIs, PTL

-------------------------------------------------------------------------------
(* The status                                                              *)

LEMMA LastOfAscends ==
    ASSUME NEW s \in Seq(Nat), Ascends(s), NEW n \in Nat
    PROVE  /\ LastOf(s, n) \in Seq(Nat) /\ Ascends(LastOf(s, n))
           /\ ToSet(LastOf(s, n)) \subseteq ToSet(s)
<1> DEFINE r == LastOf(s, n)
           off == Len(s) - Len(r)
<1>1. Len(s) \in Nat /\ DOMAIN s = 1..Len(s)
  BY LenProperties
<1>2. /\ r \in Seq(Nat) /\ Len(r) = (IF Len(s) > n THEN n ELSE Len(s))
      /\ \A j \in 1..Len(r) : off + j \in 1..Len(s) /\ r[j] = s[off + j]
  <2> DEFINE U == Nat
  <2>1. s \in Seq(U)
    OBVIOUS
  <2> HIDE DEF U
  <2> QED BY <2>1, LastOfIs DEF U
<1> HIDE DEF r
<1>3. Len(r) \in Nat /\ DOMAIN r = 1..Len(r) /\ off \in Int
  BY <1>1, <1>2, LenProperties
<1> HIDE DEF off
<1>4. Ascends(r)
  <2> SUFFICES ASSUME NEW i \in 1..Len(r), NEW j \in 1..Len(r), i < j PROVE r[i] < r[j]
    BY <1>3 DEF Ascends
  <2> DEFINE k == off + i
             l == off + j
  <2>0. k < l
    <3>1. i \in Int /\ j \in Int /\ off \in Int /\ i < j
      BY <1>3
    <3> QED BY ONLY <3>1
  <2>1. k \in DOMAIN s /\ l \in DOMAIN s /\ r[i] = s[k] /\ r[j] = s[l]
    BY <1>1, <1>2
  <2> HIDE DEF k, l
  <2> QED BY <2>0, <2>1 DEF Ascends
<1>5. ToSet(r) \subseteq ToSet(s)
  BY <1>1, <1>2, <1>3 DEF ToSet
<1> QED BY <1>2, <1>4, <1>5 DEF r

\* The last lines up to the end are all that follow the first of them.
LEMMA LastOfInterval ==
    ASSUME NEW a \in Nat, NEW b \in Nat, NEW n \in Nat,
           NEW i \in ToSet(LastOf(Interval(a, b), n)), NEW j \in Nat, i <= j, j <= b
    PROVE  j \in ToSet(LastOf(Interval(a, b), n))
<1> DEFINE s == Interval(a, b)
           r == LastOf(s, n)
           c == IF a <= b THEN b - a ELSE 0
           off == Len(s) - Len(r)
<1>1. s \in Seq(Nat) /\ Len(s) = c /\ \A k \in 1..c : s[k] = a + k
  <2>1. c \in Nat /\ 1..(b - a) = 1..c
    OBVIOUS
  <2>2. DOMAIN s = 1..c /\ \A k \in 1..c : s[k] = a + k
    BY <2>1 DEF Interval
  <2>3. s \in Seq(Nat)
    BY IntervalIs
  <2> HIDE DEF s, c
  <2> QED BY <2>1, <2>2, <2>3, LenProperties
<1> HIDE DEF s
<1>2. /\ r \in Seq(Nat) /\ Len(r) = (IF c > n THEN n ELSE c)
      /\ \A k \in 1..Len(r) : off + k \in 1..c /\ r[k] = s[off + k]
  <2> DEFINE U == Nat
  <2>1. s \in Seq(U)
    BY <1>1
  <2> HIDE DEF U, c
  <2> QED BY <1>1, <2>1, LastOfIs DEF U
<1> HIDE DEF r
<1>3. c \in Nat /\ Len(r) \in Nat /\ DOMAIN r = 1..Len(r) /\ off = c - Len(r)
  BY <1>1, <1>2, LenProperties
<1>4. PICK k \in 1..Len(r) : i = r[k]
  <2>1. i \in ToSet(r)
    BY DEF r, s
  <2> QED BY <1>3, <2>1 DEF ToSet
<1>5. i = a + off + k /\ off + k \in 1..c
  <2>1. off + k \in 1..c /\ i = s[off + k]
    BY <1>2, <1>4
  <2>2. i = a + (off + k)
    BY <1>1, <2>1
  <2>3. off \in Int /\ k \in Int
    BY <1>3, <1>4
  <2> HIDE DEF off
  <2> QED BY <2>1, <2>2, <2>3
<1>6. c = b - a
  BY <1>5
<1> DEFINE l == j - a - off
           R == Len(r)
<1>7. l \in 1..R /\ off + l = j - a /\ j - a \in 1..c
  <2>1. /\ c \in Nat /\ R \in Nat /\ off = c - R /\ k \in 1..R /\ i = a + off + k
        /\ off + k \in 1..c /\ c = b - a /\ a \in Nat /\ b \in Nat /\ j \in Nat /\ i <= j /\ j <= b
    BY <1>3, <1>4, <1>5, <1>6
  <2> HIDE DEF c, R, off
  <2> QED BY <2>1
<1>8. r[l] = j
  <2>1. r[l] = s[j - a]
    BY <1>2, <1>7
  <2>2. s[j - a] = j
    BY <1>1, <1>7
  <2> QED BY <2>1, <2>2
<1> HIDE DEF l, off, R
<1>9. j \in ToSet(r)
  BY <1>3, <1>7, <1>8 DEF ToSet, R
<1> QED BY <1>9 DEF r, s

LEMMA StatusTailIs ==
    ASSUME TypeOK
    PROVE  /\ StatusTail \in Seq(Nat) /\ Ascends(StatusTail)
           /\ \A i \in ToSet(StatusTail) : i \in Nat /\ i > 0
           /\ \A i \in ToSet(StatusTail), j \in Nat :
                 i <= j /\ 2 * j <= FileLen => j \in ToSet(StatusTail)
<1> DEFINE start == IF FileLen > StatusUnits THEN FileLen - StatusUnits ELSE 0
           a == start \div 2
           b == (FileLen + 1) \div 2
           s == Interval(a, b)
<1>1. FileLen \in Nat /\ StatusUnits \in Nat /\ StatusLines \in Nat
  BY FileFacts, Constants
<1>2. start \in Nat /\ b \in Nat
  BY <1>1
<1>2b. a \in Nat
  <2> HIDE DEF start
  <2> QED BY <1>2
<1>3. CASE StatusTail = <<>>
  <2>1. <<>> \in Seq(Nat) /\ Ascends(<<>>) /\ ToSet(<<>>) = {}
    BY DEF Ascends, ToSet
  <2> QED BY <1>3, <2>1
<1>4. CASE StatusTail = LastOf(s, StatusLines)
  <2> HIDE DEF a, b
  <2>1. s \in Seq(Nat) /\ Ascends(s) /\ ToSet(s) = (a + 1)..b
    BY <1>2, <1>2b, IntervalIs
  <2>2. \A i \in ToSet(s) : i \in Nat /\ i > 0
    BY <1>2, <1>2b, <2>1
  <2>3. ASSUME NEW i \in ToSet(LastOf(s, StatusLines)), NEW j \in Nat, i <= j, 2 * j <= FileLen
        PROVE  j \in ToSet(LastOf(s, StatusLines))
    <3>1. j <= b
      BY <1>1, <2>3 DEF b
    <3> QED BY <1>1, <1>2, <1>2b, <2>3, <3>1, LastOfInterval
  <2> HIDE DEF s
  <2>4. /\ LastOf(s, StatusLines) \in Seq(Nat) /\ Ascends(LastOf(s, StatusLines))
        /\ ToSet(LastOf(s, StatusLines)) \subseteq ToSet(s)
    BY <1>1, <2>1, LastOfAscends
  <2> QED BY <1>4, <2>2, <2>3, <2>4
<1>5. StatusTail = <<>> \/ StatusTail = LastOf(s, StatusLines)
  BY DEF StatusTail, Interval
<1> QED BY <1>3, <1>4, <1>5

\* The loop of parse_jsonl_status.
After ==
    CHOOSE f : f = [n \in 0..Len(StatusTail) |->
        IF n = 0 THEN None ELSE NextId(f[n - 1], StatusTail[n])]

LEMMA AfterStep ==
    ASSUME TypeOK
    PROVE  /\ After[0] = None
           /\ \A n \in 1..Len(StatusTail) : After[n] = NextId(After[n - 1], StatusTail[n])
<1> DEFINE m == Len(StatusTail)
           D == {None} \cup {file[StatusTail[n]].sessionId : n \in 1..m}
           Step(n, x) == NextId(x, StatusTail[n])
           g == [p \in (1..m) \X D |-> Step(p[1], p[2])]
           Body(f, n) == IF n = 0 THEN None ELSE Step(n, f[n - 1])
<1>1. m \in Nat
  BY StatusTailIs, LenProperties
<1>2. None \in D
  OBVIOUS
<1>3. ASSUME NEW n \in 1..m, NEW x \in D PROVE Step(n, x) \in D
  <2>1. file[StatusTail[n]].sessionId \in D
    OBVIOUS
  <2>2. Step(n, x) = x \/ Step(n, x) = file[StatusTail[n]].sessionId
    BY DEF NextId
  <2> HIDE DEF D, Step
  <2> QED BY <2>1, <2>2
<1> HIDE DEF D, m, Step
<1>4. \A n \in 1..m : \A x \in D : g[<<n, x>>] = Step(n, x) /\ Step(n, x) \in D
  BY <1>3
<1>5. IsLoop(m, g, None, D)
  BY <1>1, <1>2, <1>4 DEF IsLoop
<1> HIDE DEF g
<1>6. PICK f : Results(f, m, g, None, D)
  BY <1>5, Loop
<1>7. \A n \in 0..m : n # 0 => n \in 1..m /\ n - 1 \in 0..m
  BY <1>1
<1>8. \A n \in 0..m : f[n] = Body(f, n)
  BY <1>4, <1>6, <1>7 DEF Results
<1>9. f = [n \in 0..m |-> Body(f, n)]
  <2>1. f = [n \in 0..m |-> f[n]]
    BY <1>6 DEF Results
  <2> HIDE DEF Body
  <2> QED BY <1>8, <2>1
<1>10. After = [n \in 0..m |-> Body(After, n)]
  BY <1>9 DEF After, Step, m
<1>11. \A n \in 0..m : After[n] = Body(After, n)
  <2> HIDE DEF Body
  <2> QED BY <1>10
<1>12. 0 \in 0..m /\ \A n \in 1..m : n \in 0..m /\ n # 0
  BY <1>1
<1> QED BY <1>11, <1>12 DEF m, Step

\* Lines that the loop takes an id from.
Seen(i) == WholeInTail(i) /\ IsJournalEntry(file[i]) /\ file[i].sessionId # None

\* After n lines the id is that of the last entry among them that has one.
IdOf(n) ==
    \/ /\ \A l \in 1..n : ~Seen(StatusTail[l])
       /\ After[n] = None
    \/ \E k \in 1..n :
          /\ Seen(StatusTail[k]) /\ \A l \in 1..n : Seen(StatusTail[l]) => l <= k
          /\ After[n] = file[StatusTail[k]].sessionId

LEMMA IdOfAll ==
    ASSUME TypeOK
    PROVE  Len(StatusTail) \in Nat /\ IdOf(Len(StatusTail))
<1> DEFINE m == Len(StatusTail)
           T == {n \in 0..m : IdOf(n)}
<1>1. m \in Nat
  BY StatusTailIs, LenProperties
<1>2. /\ After[0] = None
      /\ \A n \in 1..m : After[n] = NextId(After[n - 1], StatusTail[n])
  BY AfterStep
<1> HIDE DEF m
<1>3. 0 \in T
  <2>1. 0 \in 0..m /\ 1..0 = {}
    BY <1>1
  <2> QED BY <1>2, <2>1 DEF IdOf
<1>4. ASSUME NEW n \in 1..m, n - 1 \in T PROVE n \in T
  <2> DEFINE i == StatusTail[n]
  <2>1. IdOf(n - 1) /\ n \in 0..m /\ After[n] = NextId(After[n - 1], i)
    BY <1>1, <1>2, <1>4
  <2>2. /\ n \in 1..n /\ \A l \in 1..n : l \in Nat /\ l <= n
        /\ 1..n = 1..(n - 1) \cup {n}
    BY <1>1
  <2>3. CASE Seen(i)
    <3>1. After[n] = file[i].sessionId
      BY <2>1, <2>3 DEF NextId, Seen
    <3>2. IdOf(n)
      BY <2>2, <2>3, <3>1 DEF IdOf
    <3> QED BY <2>1, <3>2
  <2>4. CASE ~Seen(i)
    <3>1. After[n] = After[n - 1]
      BY <2>1, <2>4 DEF NextId, Seen
    <3>2. IdOf(n)
      <4>1. CASE (\A l \in 1..(n - 1) : ~Seen(StatusTail[l])) /\ After[n - 1] = None
        BY <2>2, <2>4, <3>1, <4>1 DEF IdOf
      <4>2. CASE \E k \in 1..(n - 1) :
                   /\ Seen(StatusTail[k]) /\ \A l \in 1..(n - 1) : Seen(StatusTail[l]) => l <= k
                   /\ After[n - 1] = file[StatusTail[k]].sessionId
        <5>1. PICK k \in 1..(n - 1) :
                   /\ Seen(StatusTail[k]) /\ \A l \in 1..(n - 1) : Seen(StatusTail[l]) => l <= k
                   /\ After[n - 1] = file[StatusTail[k]].sessionId
          BY <4>2
        <5>2. k \in 1..n /\ \A l \in 1..n : Seen(StatusTail[l]) => l <= k
          BY <2>2, <2>4, <5>1
        <5> QED BY <3>1, <5>1, <5>2 DEF IdOf
      <4> QED BY <2>1, <4>1, <4>2 DEF IdOf
    <3> QED BY <2>1, <3>2
  <2> QED BY <2>3, <2>4
<1>5. m \in T
  <2>1. m \in 0..m
    BY <1>1
  <2> HIDE DEF T
  <2> QED BY <1>1, <1>3, <1>4, <2>1, UpTo
<1> QED BY <1>1, <1>5 DEF m

\* Entries of the whole file that have an id.
Named(i) == 2 * i <= FileLen /\ IsJournalEntry(file[i]) /\ file[i].sessionId # None

LEMMA IdIs == TypeOK => ListedUnderLastId
<1> DEFINE m == Len(StatusTail)
           named == {i \in DOMAIN file : Named(i)}
           id == parse_jsonl_status
<1> SUFFICES ASSUME TypeOK
             PROVE  /\ id = None <=> \A i \in named \cap ToSet(StatusTail) : ~WholeInTail(i)
                    /\ id # None => \E i \in named : /\ id = file[i].sessionId
                                                      /\ \A j \in named : j <= i
  BY DEF ListedUnderLastId, Named
<1>1. id = After[m]
  BY DEF parse_jsonl_status, After
<1>2. m \in Nat /\ IdOf(m)
  BY IdOfAll
<1>3. /\ DOMAIN StatusTail = 1..m /\ Ascends(StatusTail)
      /\ \A i \in ToSet(StatusTail) : i \in Nat /\ i > 0
      /\ \A i \in ToSet(StatusTail), j \in Nat :
            i <= j /\ 2 * j <= FileLen => j \in ToSet(StatusTail)
  BY StatusTailIs, LenProperties
<1>4. /\ Len(file) \in Nat /\ DOMAIN file = 1..Len(file) /\ FileLen \in Nat
      /\ FileLen <= 2 * Len(file) /\ StatusUnits \in Nat
  BY FileFacts, Constants
<1> HIDE DEF m, id
<1>5. ASSUME NEW i \in ToSet(StatusTail)
      PROVE  Seen(i) <=> i \in named /\ WholeInTail(i)
  <2>1. 2 * i <= FileLen => i \in DOMAIN file
    BY <1>3, <1>4
  <2> QED BY <2>1 DEF Seen, WholeInTail, Named
<1>6. CASE (\A l \in 1..m : ~Seen(StatusTail[l])) /\ After[m] = None
  <2>1. \A i \in ToSet(StatusTail) : ~Seen(i)
    BY <1>3, <1>6 DEF ToSet
  <2> QED BY <1>1, <1>5, <1>6, <2>1
<1>7. CASE \E k \in 1..m :
            /\ Seen(StatusTail[k]) /\ \A l \in 1..m : Seen(StatusTail[l]) => l <= k
            /\ After[m] = file[StatusTail[k]].sessionId
  <2>1. PICK k \in 1..m :
            /\ Seen(StatusTail[k]) /\ \A l \in 1..m : Seen(StatusTail[l]) => l <= k
            /\ After[m] = file[StatusTail[k]].sessionId
    BY <1>7
  <2> DEFINE i == StatusTail[k]
  <2>2. i \in ToSet(StatusTail) /\ Seen(i) /\ id = file[i].sessionId
    BY <1>1, <1>3, <2>1 DEF ToSet
  <2>3. i \in named /\ WholeInTail(i) /\ id # None
    BY <1>5, <2>2 DEF Seen
  <2>4. ASSUME NEW j \in named, ~(j <= i) PROVE FALSE
    <3>1. i \in Nat /\ j \in Nat /\ 2 * j <= FileLen /\ i < j
      BY <1>3, <1>4, <2>2, <2>4 DEF Named
    <3>2. j \in ToSet(StatusTail)
      BY <1>3, <2>2, <3>1
    <3>3. WholeInTail(j)
      BY <1>4, <2>3, <3>1 DEF WholeInTail
    <3>4. Seen(j)
      BY <1>5, <2>4, <3>2, <3>3
    <3>5. PICK l \in 1..m : j = StatusTail[l]
      BY <1>3, <3>2 DEF ToSet
    <3>6. l <= k
      BY <2>1, <3>4, <3>5
    <3>7. l = k \/ l < k
      BY <1>2, <3>6
    <3>8. l < k => j < i
      BY <1>3, <3>5 DEF Ascends
    <3> HIDE DEF i
    <3> QED BY <3>1, <3>5, <3>7, <3>8 DEF i
  <2> HIDE DEF i, named
  <2> QED BY <2>2, <2>3, <2>4
<1> QED BY <1>2, <1>6, <1>7 DEF IdOf

\* A file is listed exactly when an entry with an id is among the lines that
\* the daemon looks at, and then under the id of the last one of the whole
\* file (parse_jsonl_status, ListSessions).
THEOREM ListedUnderLastIdHolds == Spec => []ListedUnderLastId
BY ViewTypeCorrect, IdIs, PTL

-------------------------------------------------------------------------------
(* Long outputs                                                            *)

LEMMA KeepAppend ==
    ASSUME NEW U, NEW s \in Seq(U), NEW x \in U, NEW S
    PROVE  Keep(Append(s, x), S) = IF x \in S THEN Append(Keep(s, S), x) ELSE Keep(s, S)
<1> DEFINE t == Append(s, x)
           m == Len(s)
<1>1. /\ m \in Nat /\ t \in Seq(U) /\ Len(t) = m + 1 /\ t[m + 1] = x
      /\ \A i \in 1..m : t[i] = s[i]
  BY AppendProperties, LenProperties
<1> HIDE DEF t
<1>2. /\ Kept(s, S)[0] = <<>> /\ Kept(t, S)[0] = <<>>
      /\ \A n \in 1..m :
           Kept(s, S)[n] = IF s[n] \in S THEN Append(Kept(s, S)[n - 1], s[n]) ELSE Kept(s, S)[n - 1]
      /\ \A n \in 1..Len(t) :
           Kept(t, S)[n] = IF t[n] \in S THEN Append(Kept(t, S)[n - 1], t[n]) ELSE Kept(t, S)[n - 1]
  BY <1>1, KeptStep
<1> HIDE DEF m
<1>3. Kept(t, S)[m] = Kept(s, S)[m]
  <2> DEFINE T == {n \in 0..m : Kept(t, S)[n] = Kept(s, S)[n]}
  <2>1. 0 \in T
    BY <1>1, <1>2
  <2>2. ASSUME NEW n \in 1..m, n - 1 \in T PROVE n \in T
    <3>1. n \in 0..m /\ n \in 1..Len(t) /\ t[n] = s[n] /\ Kept(t, S)[n - 1] = Kept(s, S)[n - 1]
      BY <1>1, <2>2
    <3> QED BY <1>2, <3>1
  <2>3. m \in 0..m
    BY <1>1
  <2> HIDE DEF T
  <2>4. m \in T
    BY <1>1, <2>1, <2>2, <2>3, UpTo
  <2> QED BY <2>4 DEF T
<1>4. m + 1 \in 1..Len(t) /\ (m + 1) - 1 = m
  BY <1>1
<1>5. Kept(t, S)[m + 1] = IF x \in S THEN Append(Kept(s, S)[m], x) ELSE Kept(s, S)[m]
  BY <1>1, <1>2, <1>3, <1>4
<1>6. Keep(t, S) = Kept(t, S)[m + 1] /\ Keep(s, S) = Kept(s, S)[m]
  BY <1>1, KeepIs DEF m
<1> QED BY <1>5, <1>6 DEF t

\* What else is in S does not matter.
LEMMA KeepOwn ==
    ASSUME NEW U, NEW s \in Seq(U), NEW S
    PROVE  Keep(s, S \cap ToSet(s)) = Keep(s, S)
<1> DEFINE m == Len(s)
           R == S \cap ToSet(s)
<1>1. m \in Nat /\ \A n \in 1..m : s[n] \in ToSet(s)
  <2>1. Len(s) \in Nat /\ DOMAIN s = 1..Len(s)
    BY LenProperties
  <2> QED BY <2>1 DEF ToSet
<1>2. \A n \in 1..m : s[n] \in R <=> s[n] \in S
  BY <1>1
<1> HIDE DEF R
<1>3. /\ Kept(s, S)[0] = <<>> /\ Kept(s, R)[0] = <<>>
      /\ \A n \in 1..m :
           Kept(s, S)[n] = IF s[n] \in S THEN Append(Kept(s, S)[n - 1], s[n]) ELSE Kept(s, S)[n - 1]
      /\ \A n \in 1..m :
           Kept(s, R)[n] = IF s[n] \in R THEN Append(Kept(s, R)[n - 1], s[n]) ELSE Kept(s, R)[n - 1]
  BY KeptStep
<1> HIDE DEF m
<1> DEFINE T == {n \in 0..m : Kept(s, R)[n] = Kept(s, S)[n]}
<1>4. 0 \in T
  BY <1>1, <1>3
<1>5. ASSUME NEW n \in 1..m, n - 1 \in T PROVE n \in T
  <2>1. n \in 0..m /\ Kept(s, R)[n - 1] = Kept(s, S)[n - 1]
    BY <1>1, <1>5
  <2> QED BY <1>2, <1>3, <2>1
<1>6. m \in 0..m
  BY <1>1
<1>7. m \in T
  <2> HIDE DEF T
  <2> QED BY <1>1, <1>4, <1>5, <1>6, UpTo
<1>8. Kept(s, R)[m] = Kept(s, S)[m]
  BY <1>7
<1> QED BY <1>8, KeepIs DEF m, R

\* A text has lines unless it is empty.
LEMMA LinesAre ==
    ASSUME NEW s \in Seq(Chars)
    PROVE  /\ lines(s) \in Seq(ToSet(lines(s)))
           /\ lines(s) = <<>> <=> s = <<>>
<1> DEFINE I == [i \in DOMAIN s |-> i]
           B == {i \in DOMAIN s : s[i] = "nl"}
           breaks == Keep(I, B)
           ends == IF s = <<>> \/ Last(s) = "nl" THEN breaks ELSE Append(breaks, Len(s) + 1)
           Line(e, k) == SubSeq(s, (IF k = 1 THEN 0 ELSE e[k - 1]) + 1, e[k] - 1)
<1>1. Len(s) \in Nat /\ DOMAIN s = 1..Len(s) /\ (s = <<>> <=> Len(s) = 0)
  BY LenProperties, EmptySeq
<1>2. I \in Seq(Nat) /\ ToSet(I) = 1..Len(s)
  <2>1. I \in [1..Len(s) -> Nat]
    BY <1>1
  <2>2. I \in Seq(Nat)
    <3> HIDE DEF I
    <3> QED BY <1>1, <2>1, SeqDef
  <2> QED BY <1>1, <2>2 DEF ToSet
<1> HIDE DEF I
<1>3. breaks \in Seq(Nat) /\ ToSet(breaks) = 1..Len(s) \cap B
  <2> DEFINE U == Nat
  <2>1. I \in Seq(U)
    BY <1>2
  <2> HIDE DEF U, B
  <2>2. breaks \in Seq(U \cap B) /\ ToSet(breaks) = ToSet(I) \cap B
    BY <2>1, KeepHas
  <2>3. U \cap B \subseteq U
    OBVIOUS
  <2> HIDE DEF breaks
  <2>4. breaks \in Seq(U)
    BY <2>2, <2>3, SeqMonotonic
  <2> QED BY <1>2, <2>2, <2>4 DEF U
<1> HIDE DEF breaks
<1>4. Len(breaks) \in Nat /\ DOMAIN breaks = 1..Len(breaks)
  BY <1>3, LenProperties
<1>5. ends \in Seq(Nat) /\ (Len(ends) = 0 <=> s = <<>>)
  <2>1. CASE s = <<>>
    <3>1. ToSet(breaks) = {} /\ ends = breaks
      BY <1>1, <1>3, <2>1
    <3>2. Len(breaks) = 0
      <4> SUFFICES ASSUME Len(breaks) # 0 PROVE FALSE
        OBVIOUS
      <4>1. 1 \in DOMAIN breaks
        BY <1>4
      <4> QED BY <3>1, <4>1 DEF ToSet
    <3> QED BY <1>3, <2>1, <3>1, <3>2
  <2>2. CASE s # <<>> /\ Last(s) = "nl"
    <3>1. Len(s) \in 1..Len(s) \cap B
      BY <1>1, <2>2 DEF Last
    <3>2. \E k \in DOMAIN breaks : breaks[k] = Len(s)
      BY <1>3, <3>1 DEF ToSet
    <3>3. Len(breaks) # 0
      BY <1>4, <3>2
    <3> QED BY <1>3, <2>2, <3>3
  <2>3. CASE s # <<>> /\ Last(s) # "nl"
    <3>1. ends = Append(breaks, Len(s) + 1) /\ Len(s) + 1 \in Nat
      BY <1>1, <2>3
    <3>2. ends \in Seq(Nat) /\ Len(ends) = Len(breaks) + 1
      <4> HIDE DEF ends
      <4> QED BY <1>3, <3>1, AppendProperties
    <3>3. Len(ends) # 0
      BY <1>4, <3>2
    <3> QED BY <2>3, <3>2, <3>3
  <2> QED BY <2>1, <2>2, <2>3
<1>6. lines(s) = [k \in DOMAIN ends |-> Line(ends, k)]
  BY DEF lines, ends, breaks, I, B
<1> HIDE DEF ends, Line
<1>7. Len(ends) \in Nat /\ DOMAIN ends = 1..Len(ends)
  BY <1>5, LenProperties
<1>8. DOMAIN lines(s) = 1..Len(ends) /\ lines(s) = [k \in DOMAIN lines(s) |-> lines(s)[k]]
  BY <1>6, <1>7
<1>9. lines(s) \in Seq(ToSet(lines(s))) /\ Len(lines(s)) = Len(ends)
  BY <1>7, <1>8, OwnElements
<1>10. lines(s) = <<>> <=> Len(lines(s)) = 0
  BY <1>9, EmptySeq
<1> QED BY <1>5, <1>9, <1>10

\* A sequence is its first n elements and the rest.
LEMMA Split ==
    ASSUME NEW U, NEW s \in Seq(U), NEW n \in 0..Len(s)
    PROVE  /\ SubSeq(s, 1, n) \o SubSeq(s, n + 1, Len(s)) = s
           /\ Len(SubSeq(s, 1, n)) = n /\ Len(SubSeq(s, n + 1, Len(s))) = Len(s) - n
<1> DEFINE m == Len(s)
           a == SubSeq(s, 1, n)
           b == SubSeq(s, n + 1, m)
<1>1. m \in Nat /\ n \in Nat /\ n <= m /\ s = [i \in 1..m |-> s[i]]
  BY LenProperties
<1>2. a \in Seq(U) /\ Len(a) = n /\ \A j \in 1..n : a[j] = s[j]
  BY PrefixIs
<1>3. /\ b \in Seq(U) /\ Len(b) = m - n
      /\ \A j \in 1..(m - n) : b[j] = s[n + j]
  <2> DEFINE c == n + 1
  <2>1. c \in 1..(m + 1) /\ m \in 0..m /\ m \in (c - 1)..m
    BY <1>1
  <2>2. /\ SubSeq(s, c, m) \in Seq(U)
        /\ Len(SubSeq(s, c, m)) = IF c <= m THEN m - c + 1 ELSE 0
        /\ \A j \in 1..(m - c + 1) : SubSeq(s, c, m)[j] = s[c + j - 1]
    <3>1. c \in Int /\ m \in Int /\ \A i \in c..m : s[i] \in U
      <4>1. \A i \in c..m : i \in 1..m
        BY <1>1
      <4>2. \A i \in 1..m : s[i] \in U
        BY LenProperties
      <4> QED BY <1>1, <4>1, <4>2
    <3> HIDE DEF c, m
    <3> QED BY ONLY <3>1, SubSeqProperties
  <2>3. m - c + 1 = m - n /\ (~(c <= m) => m - n = 0) /\ \A j \in 1..(m - n) : c + j - 1 = n + j
    BY <1>1
  <2> QED BY <2>2, <2>3
<1> HIDE DEF a, b
<1>4. /\ a \o b \in Seq(U) /\ Len(a \o b) = n + (m - n)
      /\ \A i \in 1..(n + (m - n)) : (a \o b)[i] = IF i <= n THEN a[i] ELSE b[i - n]
  BY <1>2, <1>3, ConcatProperties
<1>5. n + (m - n) = m
  BY <1>1
<1>6. ASSUME NEW i \in 1..m PROVE (a \o b)[i] = s[i]
  <2>1. CASE i <= n
    BY <1>1, <1>2, <1>4, <1>5, <2>1
  <2>2. CASE ~(i <= n)
    <3>1. i - n \in 1..(m - n) /\ n + (i - n) = i
      BY <1>1, <2>2
    <3> QED BY <1>3, <1>4, <1>5, <2>2, <3>1
  <2> QED BY <2>1, <2>2
<1>7. a \o b = s
  BY <1>4, <1>5, <1>6, SeqEqual DEF m
<1> QED BY <1>2, <1>3, <1>7 DEF a, b, m

\* x shows all of the output of b, and says how much of it is hidden.
Fits(x, b) ==
    /\ x.visible \o x.hidden = lines(b.output)
    /\ x.announced = Len(x.hidden)
    /\ x.visible # <<>>

\* Blocks whose output is to be shown.
HasOutput(b) ==
    /\ b.type = "tool_result" /\ b.output # None /\ b.output # <<>>
    /\ b.name \notin {"TaskCreate", "TaskUpdate", "TaskGet", "TaskList"}

LEMMA CollapsedIs ==
    ASSUME NEW out \in Seq(Chars), out # <<>>
    PROVE  LET x == Collapsed(out)
           IN  /\ x.kind = "output" /\ x.visible \o x.hidden = lines(out)
               /\ x.announced = Len(x.hidden) /\ x.visible # <<>>
<1> DEFINE all   == lines(out)
           total == Len(all)
           shown == IF total <= COLLAPSE_THRESHOLD THEN total ELSE VISIBLE_LINES
           a == SubSeq(all, 1, shown)
           b == SubSeq(all, shown + 1, total)
           U == ToSet(all)
<1>1. all \in Seq(U) /\ all # <<>>
  BY LinesAre
<1> HIDE DEF all, U
<1>2. total \in Nat /\ total # 0
  BY <1>1, LenProperties, EmptySeq
<1>3. shown \in 0..total /\ shown # 0
  <2> HIDE DEF total
  <2> QED BY <1>2, Constants
<1> HIDE DEF shown
<1>4. a \o b = all /\ Len(a) = shown /\ Len(b) = total - shown
  BY <1>1, <1>3, Split
<1>5. a # <<>>
  <2>1. Len(<<>>) = 0
    OBVIOUS
  <2> HIDE DEF a
  <2> QED BY <1>3, <1>4, <2>1
<1>6. Collapsed(out) = [kind |-> "output", visible |-> a, hidden |-> b, announced |-> total - shown]
  BY DEF Collapsed, all, shown
<1> HIDE DEF a, b, total
<1> QED BY <1>4, <1>5, <1>6 DEF all

\* What the html has for a block.
LEMMA HtmlBlockIs ==
    ASSUME NEW role, NEW b, IsParsed(b)
    PROVE  \/ ~HasOutput(b) /\ HtmlBlock(role, b) = <<>>
           \/ \E x : /\ HtmlBlock(role, b) = <<x>> /\ (x.kind = "output" <=> HasOutput(b))
                     /\ HasOutput(b) => Fits(x, b)
<1>1. CASE b.type = "text"
  <2> DEFINE x == [kind |-> "text", bullet |-> role # "user" /\ ~StartsWithBullet(b.text), text |-> b.text]
  <2>1. HtmlBlock(role, b) = <<x>>
    BY <1>1 DEF HtmlBlock, HtmlText
  <2>2. x.kind # "output" /\ ~HasOutput(b)
    BY <1>1 DEF HasOutput
  <2> HIDE DEF x
  <2> QED BY <2>1, <2>2
<1>2. CASE b.type = "tool_use"
  <2>1. ~HasOutput(b) /\ HtmlBlock(role, b) = HtmlToolUse(b)
    BY <1>2 DEF HasOutput, HtmlBlock
  <2>2. \E x : HtmlToolUse(b) = <<x>> /\ x.kind # "output"
    <3>1. CASE b.name = "TaskCreate"
      <4> DEFINE x == [kind |-> "task", label |-> FirstPresent(b.input, <<"subject">>, b.detail)]
      <4>1. HtmlToolUse(b) = <<x>>
        BY <3>1 DEF HtmlToolUse
      <4>2. x.kind # "output"
        OBVIOUS
      <4> HIDE DEF x
      <4> QED BY <4>1, <4>2
    <3>2. CASE b.name = "TaskUpdate"
      <4> DEFINE x == [kind |-> "task", label |-> FirstPresent(b.input, <<"subject", "taskId">>, <<"Task">>)]
      <4>1. HtmlToolUse(b) = <<x>>
        BY <3>2 DEF HtmlToolUse
      <4>2. x.kind # "output"
        OBVIOUS
      <4> HIDE DEF x
      <4> QED BY <4>1, <4>2
    <3>3. CASE b.name # "TaskCreate" /\ b.name # "TaskUpdate"
      <4> DEFINE x == [kind |-> "tool", name |-> b.name, detail |-> truncate_detail(b.detail, DETAIL_MAX_LEN)]
      <4>1. HtmlToolUse(b) = <<x>>
        BY <3>3 DEF HtmlToolUse
      <4>2. x.kind # "output"
        OBVIOUS
      <4> HIDE DEF x
      <4> QED BY <4>1, <4>2
    <3> QED BY <3>1, <3>2, <3>3
  <2> QED BY <2>1, <2>2
<1>3. CASE b.type = "tool_result"
  <2>1. HtmlBlock(role, b) = HtmlToolResult(b)
    BY <1>3 DEF HtmlBlock
  <2>2. b.output = None \/ b.output \in Seq(Chars)
    BY <1>3 DEF IsParsed
  <2>3. CASE b.name \in {"TaskCreate", "TaskUpdate", "TaskGet"} \/ b.output = None
    <3>1. HtmlToolResult(b) = <<>>
      BY <2>3 DEF HtmlToolResult
    <3> QED BY <2>1, <2>3, <3>1 DEF HasOutput
  <2>4. CASE b.name \notin {"TaskCreate", "TaskUpdate", "TaskGet"} /\ b.output # None /\ b.name = "TaskList"
    <3> DEFINE x == [kind |-> "list", items |-> Keep(lines(b.output), ToSet(lines(b.output)) \ {<<>>})]
    <3>1. HtmlToolResult(b) = <<x>>
      BY <2>4 DEF HtmlToolResult
    <3>2. x.kind # "output" /\ ~HasOutput(b)
      BY <2>4 DEF HasOutput
    <3> HIDE DEF x
    <3> QED BY <2>1, <3>1, <3>2
  <2>5. CASE b.name \notin {"TaskCreate", "TaskUpdate", "TaskGet"} /\ b.output # None /\ b.name # "TaskList"
    <3> DEFINE x == Collapsed(b.output)
    <3>1. HtmlToolResult(b) = IF lines(b.output) = <<>> THEN <<>> ELSE <<x>>
      BY <2>5 DEF HtmlToolResult
    <3>2. lines(b.output) = <<>> <=> b.output = <<>>
      BY <2>2, <2>5, LinesAre
    <3>3. b.output # <<>> => x.kind = "output" /\ Fits(x, b)
      BY <2>2, <2>5, CollapsedIs DEF Fits
    <3>4. HasOutput(b) <=> b.output # <<>>
      BY <1>3, <2>5 DEF HasOutput
    <3> HIDE DEF x
    <3> QED BY <2>1, <3>1, <3>2, <3>3, <3>4
  <2> QED BY <2>3, <2>4, <2>5
<1> QED BY <1>1, <1>2, <1>3 DEF IsParsed

Matched(a, e) == Len(a) = Len(e) /\ \A k \in 1..Len(a) : Fits(a[k], e[k])

LEMMA MatchedAppend ==
    ASSUME NEW A, NEW a \in Seq(A), NEW x \in A, NEW B, NEW e \in Seq(B), NEW y \in B,
           Matched(a, e), Fits(x, y)
    PROVE  Matched(Append(a, x), Append(e, y))
<1> DEFINE m == Len(a)
           r == Append(a, x)
           t == Append(e, y)
<1>1. /\ m \in Nat /\ Len(e) = m
      /\ Len(r) = m + 1 /\ r[m + 1] = x /\ \A i \in 1..m : r[i] = a[i]
      /\ Len(t) = m + 1 /\ t[m + 1] = y /\ \A i \in 1..m : t[i] = e[i]
  BY AppendProperties, LenProperties DEF Matched
<1> HIDE DEF r, t
<1>2. ASSUME NEW k \in 1..(m + 1) PROVE Fits(r[k], t[k])
  <2>1. CASE k = m + 1
    BY <1>1, <2>1
  <2>2. CASE k # m + 1
    <3>1. k \in 1..m
      BY <1>1, <2>2
    <3> QED BY <1>1, <3>1 DEF Matched
  <2> QED BY <2>1, <2>2
<1> QED BY <1>1, <1>2 DEF Matched, r, t

\* Of the blocks of a message those that have an output are shown, in order.
LEMMA RenderIs ==
    ASSUME NEW role, NEW blocks, blocks \in Seq(ToSet(blocks)), \A b \in ToSet(blocks) : IsParsed(b)
    PROVE  LET html == render_html(role, blocks)
               shown == Keep(html, {x \in ToSet(html) : x.kind = "output"})
           IN  /\ \E A : shown \in Seq(A)
               /\ Matched(shown, Keep(blocks, {b \in ToSet(blocks) : HasOutput(b)}))
<1> DEFINE m == Len(blocks)
           V == ToSet(blocks)
           H(n) == HtmlBlock(role, blocks[n])
           q == [n \in DOMAIN blocks |-> H(n)]
           U == UNION {ToSet(H(n)) : n \in 1..m}
           O == {x \in U : x.kind = "output"}
           E == {b \in V : HasOutput(b)}
           html == FlattenSeq(q)
<1>1. /\ m \in Nat /\ DOMAIN blocks = 1..m
      /\ \A n \in 1..m : blocks[n] \in V /\ IsParsed(blocks[n])
  BY LenProperties DEF ToSet
<1>2. ASSUME NEW n \in 1..m
      PROVE  \/ ~HasOutput(blocks[n]) /\ H(n) = <<>>
             \/ \E x \in U : /\ H(n) = <<x>> /\ (x.kind = "output" <=> HasOutput(blocks[n]))
                             /\ HasOutput(blocks[n]) => Fits(x, blocks[n])
  <2>1. CASE ~HasOutput(blocks[n]) /\ H(n) = <<>>
    BY <2>1
  <2>2. CASE \E x : /\ H(n) = <<x>> /\ (x.kind = "output" <=> HasOutput(blocks[n]))
                    /\ HasOutput(blocks[n]) => Fits(x, blocks[n])
    <3>1. PICK x : /\ H(n) = <<x>> /\ (x.kind = "output" <=> HasOutput(blocks[n]))
                   /\ HasOutput(blocks[n]) => Fits(x, blocks[n])
      BY <2>2
    <3> HIDE DEF H, U
    <3>2. x \in ToSet(H(n))
      BY <3>1 DEF ToSet
    <3>3. x \in U
      BY <3>2 DEF U
    <3> QED BY <3>1, <3>3
  <2>3. IsParsed(blocks[n])
    BY <1>1
  <2> QED BY <2>1, <2>2, <2>3, HtmlBlockIs
<1> HIDE DEF U, V, H
<1>3. \A n \in 1..m : H(n) \in Seq(U)
  <2>1. <<>> \in Seq(U) /\ \A x \in U : <<x>> \in Seq(U)
    OBVIOUS
  <2> QED BY <1>2, <2>1
<1>4. q \in Seq(Seq(U)) /\ Len(q) = m /\ \A n \in 1..m : q[n] = H(n)
  <2>1. q \in [1..m -> Seq(U)] /\ \A n \in 1..m : q[n] = H(n)
    BY <1>1, <1>3
  <2>2. q \in Seq(Seq(U))
    <3> HIDE DEF q, m
    <3> QED BY <1>1, <2>1, SeqDef
  <2>3. DOMAIN q = 1..m
    BY <1>1
  <2> HIDE DEF q, m
  <2> QED BY <1>1, <2>1, <2>2, <2>3, LenProperties
<1> HIDE DEF q
<1>5. PICK f : FlatUpTo(f, q, U)
  BY <1>4, Flattened
<1>6. /\ f[0] = <<>> /\ html = f[m]
      /\ \A n \in 1..m : f[n] = f[n - 1] \o H(n)
      /\ \A n \in 0..m : f[n] \in Seq(U)
  BY <1>4, <1>5 DEF FlatUpTo
<1>7. /\ Kept(blocks, E)[0] = <<>>
      /\ \A n \in 1..m :
           Kept(blocks, E)[n] = IF blocks[n] \in E THEN Append(Kept(blocks, E)[n - 1], blocks[n])
                                ELSE Kept(blocks, E)[n - 1]
      /\ \A n \in 0..m : Kept(blocks, E)[n] \in Seq(V \cap E)
  <2>1. blocks \in Seq(V)
    BY DEF V
  <2> HIDE DEF E
  <2> QED BY <2>1, KeptStep, KeptHas
<1>8. \A n \in 1..m : blocks[n] \in V \cap E <=> HasOutput(blocks[n])
  BY <1>1
<1>9. \A x \in U : x \in O <=> x.kind = "output"
  OBVIOUS
<1> HIDE DEF O, E, html, m
<1>10. \A n \in 0..m : Keep(f[n], O) \in Seq(U \cap O)
  BY <1>6, KeepHas
<1> DEFINE T == {n \in 0..m : Matched(Keep(f[n], O), Kept(blocks, E)[n])}
<1>11. 0 \in T
  <2>1. Keep(<<>>, O) = <<>>
    <3>1. Keep(<<>>, O) = Kept(<<>>, O)[0]
      BY KeepIs
    <3>2. <<>> \in Seq(U)
      OBVIOUS
    <3> QED BY <3>1, <3>2, KeptStep
  <2>2. Matched(<<>>, <<>>)
    BY DEF Matched
  <2>3. 0 \in 0..m
    BY <1>1
  <2> QED BY <1>6, <1>7, <2>1, <2>2, <2>3
<1>12. ASSUME NEW n \in 1..m, n - 1 \in T PROVE n \in T
  <2> DEFINE b == blocks[n]
             s == f[n - 1]
             e == Kept(blocks, E)[n - 1]
  <2>1. /\ n \in 0..m /\ n - 1 \in 0..m
        /\ Matched(Keep(s, O), e) /\ s \in Seq(U) /\ f[n] = s \o H(n)
        /\ Keep(s, O) \in Seq(U \cap O) /\ e \in Seq(V \cap E)
    <3>1. n \in 0..m /\ n - 1 \in 0..m
      BY <1>1
    <3>2. Matched(Keep(s, O), e)
      BY <1>12
    <3>3. s \in Seq(U) /\ f[n] = s \o H(n)
      BY <1>6, <3>1
    <3>4. Keep(s, O) \in Seq(U \cap O)
      BY <1>10, <3>1
    <3>5. e \in Seq(V \cap E)
      BY <1>7, <3>1
    <3> QED BY <3>1, <3>2, <3>3, <3>4, <3>5
  <2>2. Kept(blocks, E)[n] = IF b \in E THEN Append(e, b) ELSE e
    BY <1>7
  <2>3. b \in V /\ (b \in E <=> HasOutput(b)) /\ (b \in V \cap E <=> HasOutput(b))
    BY <1>1, <1>8
  <2>4. \/ ~HasOutput(b) /\ H(n) = <<>>
        \/ \E x \in U : /\ H(n) = <<x>> /\ (x.kind = "output" <=> HasOutput(b))
                        /\ HasOutput(b) => Fits(x, b)
    BY <1>2
  <2> HIDE DEF b, s, e
  <2>5. CASE ~HasOutput(b) /\ H(n) = <<>>
    <3>1. f[n] = s
      BY <2>1, <2>5, ConcatEmptySeq
    <3>2. Kept(blocks, E)[n] = e
      BY <2>2, <2>3, <2>5
    <3> QED BY <2>1, <3>1, <3>2
  <2>6. CASE \E x \in U : /\ H(n) = <<x>> /\ (x.kind = "output" <=> HasOutput(b))
                          /\ HasOutput(b) => Fits(x, b)
    <3>1. PICK x \in U : /\ H(n) = <<x>> /\ (x.kind = "output" <=> HasOutput(b))
                         /\ HasOutput(b) => Fits(x, b)
      BY <2>6
    <3>2. f[n] = Append(s, x)
      BY <2>1, <3>1, AppendIsConcat
    <3>3. Keep(f[n], O) = IF x \in O THEN Append(Keep(s, O), x) ELSE Keep(s, O)
      BY <2>1, <3>2, KeepAppend
    <3>4. x \in O <=> HasOutput(b)
      BY <1>9, <3>1
    <3>5. CASE HasOutput(b)
      <4>1. /\ Keep(f[n], O) = Append(Keep(s, O), x) /\ Kept(blocks, E)[n] = Append(e, b)
            /\ x \in U \cap O /\ b \in V \cap E /\ Fits(x, b)
        BY <2>2, <2>3, <3>1, <3>3, <3>4, <3>5
      <4>2. Matched(Append(Keep(s, O), x), Append(e, b))
        BY <2>1, <4>1, MatchedAppend
      <4> QED BY <2>1, <4>1, <4>2
    <3>6. CASE ~HasOutput(b)
      BY <2>1, <2>2, <2>3, <3>3, <3>4, <3>6
    <3> QED BY <3>5, <3>6
  <2> QED BY <2>4, <2>5, <2>6
<1>13. m \in 0..m /\ m \in T
  <2>1. m \in 0..m
    BY <1>1
  <2> HIDE DEF T
  <2> QED BY <1>1, <1>11, <1>12, <2>1, UpTo
<1>14. Matched(Keep(html, O), Keep(blocks, E)) /\ Keep(html, O) \in Seq(U \cap O) /\ html \in Seq(U)
  BY <1>6, <1>10, <1>13, KeepIs DEF m
<1> DEFINE S == {x \in ToSet(html) : x.kind = "output"}
<1>15. S = O \cap ToSet(html)
  <2>1. ToSet(html) \subseteq U
    <3>1. Len(html) \in Nat /\ DOMAIN html = 1..Len(html) /\ \A k \in DOMAIN html : html[k] \in U
      BY <1>14, LenProperties
    <3> QED BY <3>1 DEF ToSet
  <2> QED BY <1>9, <2>1 DEF O
<1>16. Keep(html, S) = Keep(html, O)
  BY <1>14, <1>15, KeepOwn
<1>17. render_html(role, blocks) = html
  BY DEF render_html, html, q, H
<1> HIDE DEF S
<1>18. Matched(Keep(html, S), Keep(blocks, E)) /\ \E A : Keep(html, S) \in Seq(A)
  BY <1>14, <1>16
<1> QED BY <1>17, <1>18 DEF S, E, V

LEMMA OutputIsWhole == TypeOK => OutputWhole
<1> SUFFICES ASSUME TypeOK, NEW i \in DOMAIN file, IsMessage(file[i])
             PROVE  LET html     == render_html(Role(file[i]), Blocks(i))
                        shown    == Keep(html, {x \in ToSet(html) : x.kind = "output"})
                        expected == Keep(Blocks(i), {b \in ToSet(Blocks(i)) :
                           /\ b.type = "tool_result" /\ b.output # None /\ b.output # <<>>
                           /\ b.name \notin {"TaskCreate", "TaskUpdate", "TaskGet", "TaskList"}})
                    IN  /\ Len(shown) = Len(expected)
                        /\ \A k \in DOMAIN shown :
                              /\ shown[k].visible \o shown[k].hidden = lines(expected[k].output)
                              /\ shown[k].announced = Len(shown[k].hidden)
                              /\ shown[k].visible # <<>>
  BY DEF OutputWhole
<1> DEFINE html == render_html(Role(file[i]), Blocks(i))
           shown == Keep(html, {x \in ToSet(html) : x.kind = "output"})
           expected == Keep(Blocks(i), {b \in ToSet(Blocks(i)) : HasOutput(b)})
<1>1. Blocks(i) \in Seq(ToSet(Blocks(i))) /\ \A b \in ToSet(Blocks(i)) : IsParsed(b)
  BY BlocksAre
<1>2. (\E A : shown \in Seq(A)) /\ Matched(shown, expected)
  <2> DEFINE role == Role(file[i])
             blocks == Blocks(i)
  <2> HIDE DEF role, blocks
  <2>1. blocks \in Seq(ToSet(blocks)) /\ \A b \in ToSet(blocks) : IsParsed(b)
    BY <1>1 DEF blocks
  <2>2. /\ \E A : Keep(render_html(role, blocks), {x \in ToSet(render_html(role, blocks)) : x.kind = "output"}) \in Seq(A)
        /\ Matched(Keep(render_html(role, blocks), {x \in ToSet(render_html(role, blocks)) : x.kind = "output"}),
                   Keep(blocks, {b \in ToSet(blocks) : HasOutput(b)}))
    BY <2>1, RenderIs
  <2> QED BY <2>2 DEF role, blocks
<1> HIDE DEF shown
<1>3. DOMAIN shown = 1..Len(shown)
  BY <1>2, LenProperties
<1>4. /\ Len(shown) = Len(expected)
      /\ \A k \in DOMAIN shown :
            /\ shown[k].visible \o shown[k].hidden = lines(expected[k].output)
            /\ shown[k].announced = Len(shown[k].hidden)
            /\ shown[k].visible # <<>>
  <2> HIDE DEF expected
  <2> QED BY <1>2, <1>3 DEF Matched, Fits
<1> QED BY <1>4 DEF shown, HasOutput

\* The html of a message leaves nothing of a tool's output out and counts the
\* lines it hides right, however long the output is (html_tool_result).
THEOREM OutputWholeHolds == Spec => []OutputWhole
BY ViewTypeCorrect, OutputIsWhole, PTL

===============================================================================
