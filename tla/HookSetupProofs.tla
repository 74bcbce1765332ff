--------------------------- MODULE HookSetupProofs ---------------------------
(***************************************************************************)
(* Theorems about `agent-dash setup hooks`, for settings with any entries, *)
(* any number of runs and any edits. What the loops over a list of entries *)
(* do for every list is proved by induction, from the least length at      *)
(* which it would fail.                                                    *)
(***************************************************************************)
EXTENDS HookSetup, SequenceTheorems, WellFoundedInduction, TLAPS

------------------------------------------------------------------------------
(* Induction and recursion                                                 *)

\* A set of numbers has a least one.
LEMMA Least ==
    ASSUME NEW T \in SUBSET Nat, T # {}
    PROVE  \E n \in T : \A m \in T : n <= m
<1> DEFINE R == OpToRel(<, Nat)
<1>1. IsWellFoundedOn(R, Nat)
  BY NatLessThanWellFounded
<1>2. PICK n \in T : \A m \in T : ~ (<<m, n>> \in R)
  <2> HIDE DEF R
  <2> QED BY <1>1, WFMin
<1>3. \A m \in T : m \in Nat /\ n \in Nat
  OBVIOUS
<1>4. \A m \in T : ~(m < n)
  BY <1>2, <1>3 DEF OpToRel
<1> HIDE DEF R
<1> QED BY <1>3, <1>4

\* Induction: a set of numbers with 0 and the next number of each has them all.
LEMMA AllNumbers ==
    ASSUME NEW T \in SUBSET Nat, 0 \in T, \A n \in T : n + 1 \in T
    PROVE  T = Nat
<1> SUFFICES ASSUME T # Nat PROVE FALSE
  OBVIOUS
<1>1. PICK n \in Nat \ T : \A m \in Nat \ T : n <= m
  BY Least
<1>2. n # 0 /\ n - 1 \in Nat /\ (n - 1) + 1 = n /\ ~(n <= n - 1)
  BY <1>1
<1>3. n - 1 \in T
  BY <1>1, <1>2
<1> QED BY <1>1, <1>2, <1>3

\* The loops of Others and of RemoveAll, as functions from places to lists.
Kept(s) ==
    CHOOSE f : f = [n \in 0..Len(s) |->
        IF n = 0 THEN <<>>
        ELSE IF is_agent_dash_entry(s[n]) THEN f[n - 1] ELSE Append(f[n - 1], s[n])]

LEMMA OthersIs ==
    ASSUME NEW s
    PROVE  Others(s) = Kept(s)[Len(s)]
BY DEF Others, Kept

LEMMA KeptStep ==
    ASSUME NEW s, Len(s) \in Nat
    PROVE  /\ Kept(s)[0] = <<>>
           /\ \A n \in 1..Len(s) :
                Kept(s)[n] = IF is_agent_dash_entry(s[n]) THEN Kept(s)[n - 1]
                             ELSE Append(Kept(s)[n - 1], s[n])
<1> DEFINE Body(f, n) == IF n = 0 THEN <<>>
                         ELSE IF is_agent_dash_entry(s[n]) THEN f[n - 1] ELSE Append(f[n - 1], s[n])
           Has(m) == \E f : f = [n \in 0..m |-> Body(f, n)]
           T == {m \in Nat : Has(m)}
<1>1. 0 \in T
  <2> DEFINE f == [n \in 0..0 |-> <<>>]
  <2>1. f = [n \in 0..0 |-> Body(f, n)]
    OBVIOUS
  <2> QED BY <2>1
<1>2. ASSUME NEW m \in T PROVE m + 1 \in T
  <2>1. m \in Nat /\ Has(m)
    OBVIOUS
  <2>2. PICK f : f = [n \in 0..m |-> Body(f, n)]
    BY <2>1
  <2> DEFINE g == [n \in 0..(m + 1) |-> IF n = m + 1 THEN Body(f, n) ELSE f[n]]
  <2>3. \A n \in 0..(m + 1) : n # 0 => n - 1 \in 0..m /\ g[n - 1] = f[n - 1]
    BY <2>1
  <2>4. \A n \in 0..(m + 1) : Body(g, n) = Body(f, n)
    BY <2>3
  <2>5. \A n \in 0..(m + 1) : n # m + 1 => n \in 0..m
    BY <2>1
  <2>6. \A n \in 0..m : f[n] = Body(f, n)
    <3> HIDE DEF Body
    <3> QED BY <2>2
  <2>7. g = [n \in 0..(m + 1) |-> Body(g, n)]
    <3>1. \A n \in 0..(m + 1) : g[n] = Body(g, n)
      <4> HIDE DEF Body
      <4> QED BY <2>4, <2>5, <2>6
    <3> HIDE DEF Body
    <3> QED BY <3>1
  <2>8. Has(m + 1)
    BY <2>7
  <2> HIDE DEF Has
  <2> QED BY <2>1, <2>8
<1>3. Has(Len(s))
  <2>1. T = Nat
    <3> HIDE DEF Has
    <3> QED BY <1>1, <1>2, AllNumbers
  <2> HIDE DEF Has
  <2> QED BY <2>1
<1>4. Kept(s) = [n \in 0..Len(s) |-> Body(Kept(s), n)]
  BY <1>3 DEF Kept
<1>5. 0 \in 0..Len(s) /\ \A n \in 1..Len(s) : n \in 0..Len(s) /\ n # 0
  OBVIOUS
<1>6. \A n \in 0..Len(s) : Kept(s)[n] = Body(Kept(s), n)
  <2> HIDE DEF Body
  <2> QED BY <1>4
<1> QED BY <1>5, <1>6

Rest(s, removed) ==
    CHOOSE f : f = [n \in 0..Len(s) |->
        LET i == Len(s) - n + 1
        IN  IF n = 0 THEN s ELSE IF i \in removed THEN RemoveAt(f[n - 1], i) ELSE f[n - 1]]

LEMMA RemoveAllIs ==
    ASSUME NEW s, NEW removed
    PROVE  RemoveAll(s, removed) = Rest(s, removed)[Len(s)]
BY DEF RemoveAll, Rest

LEMMA RestStep ==
    ASSUME NEW s, Len(s) \in Nat, NEW removed
    PROVE  /\ Rest(s, removed)[0] = s
           /\ \A n \in 1..Len(s) :
                Rest(s, removed)[n] =
                    IF Len(s) - n + 1 \in removed THEN RemoveAt(Rest(s, removed)[n - 1], Len(s) - n + 1)
                    ELSE Rest(s, removed)[n - 1]
<1> DEFINE Body(f, n) == IF n = 0 THEN s
                         ELSE IF Len(s) - n + 1 \in removed THEN RemoveAt(f[n - 1], Len(s) - n + 1)
                         ELSE f[n - 1]
           Has(m) == \E f : f = [n \in 0..m |-> Body(f, n)]
           T == {m \in Nat : Has(m)}
<1>1. 0 \in T
  <2> DEFINE f == [n \in 0..0 |-> s]
  <2>1. f = [n \in 0..0 |-> Body(f, n)]
    OBVIOUS
  <2> QED BY <2>1
<1>2. ASSUME NEW m \in T PROVE m + 1 \in T
  <2>1. m \in Nat /\ Has(m)
    OBVIOUS
  <2>2. PICK f : f = [n \in 0..m |-> Body(f, n)]
    BY <2>1
  <2> DEFINE g == [n \in 0..(m + 1) |-> IF n = m + 1 THEN Body(f, n) ELSE f[n]]
  <2>3. \A n \in 0..(m + 1) : n # 0 => n - 1 \in 0..m /\ g[n - 1] = f[n - 1]
    BY <2>1
  <2>4. \A n \in 0..(m + 1) : Body(g, n) = Body(f, n)
    BY <2>3
  <2>5. \A n \in 0..(m + 1) : n # m + 1 => n \in 0..m
    BY <2>1
  <2>6. \A n \in 0..m : f[n] = Body(f, n)
    <3> HIDE DEF Body
    <3> QED BY <2>2
  <2>7. g = [n \in 0..(m + 1) |-> Body(g, n)]
    <3>1. \A n \in 0..(m + 1) : g[n] = Body(g, n)
      <4> HIDE DEF Body
      <4> QED BY <2>4, <2>5, <2>6
    <3> HIDE DEF Body
    <3> QED BY <3>1
  <2>8. Has(m + 1)
    BY <2>7
  <2> HIDE DEF Has
  <2> QED BY <2>1, <2>8
<1>3. Has(Len(s))
  <2>1. T = Nat
    <3> HIDE DEF Has
    <3> QED BY <1>1, <1>2, AllNumbers
  <2> HIDE DEF Has
  <2> QED BY <2>1
<1>4. Rest(s, removed) = [n \in 0..Len(s) |-> Body(Rest(s, removed), n)]
  BY <1>3 DEF Rest
<1>5. 0 \in 0..Len(s) /\ \A n \in 1..Len(s) : n \in 0..Len(s) /\ n # 0
  OBVIOUS
<1>6. \A n \in 0..Len(s) : Rest(s, removed)[n] = Body(Rest(s, removed), n)
  <2> HIDE DEF Body
  <2> QED BY <1>4
<1> QED BY <1>5, <1>6

------------------------------------------------------------------------------
(* The entries of others                                                   *)

LEMMA KeptType ==
    ASSUME NEW s \in Seq(Entry)
    PROVE  /\ \A n \in 0..Len(s) : Kept(s)[n] \in Seq(Entry)
           /\ Others(s) \in Seq(Entry)
<1> DEFINE T == {n \in Nat : n <= Len(s) => Kept(s)[n] \in Seq(Entry)}
<1>1. Len(s) \in Nat /\ DOMAIN s = 1..Len(s) /\ \A n \in 1..Len(s) : s[n] \in Entry
  BY LenProperties
<1>2. 0 \in T
  <2>1. Kept(s)[0] = <<>> /\ <<>> \in Seq(Entry)
    BY <1>1, KeptStep
  <2> QED BY <2>1
<1>3. ASSUME NEW n \in T PROVE n + 1 \in T
  <2> SUFFICES ASSUME n + 1 <= Len(s) PROVE Kept(s)[n + 1] \in Seq(Entry)
    OBVIOUS
  <2>1. n \in Nat /\ n + 1 \in 1..Len(s) /\ (n + 1) - 1 = n /\ n <= Len(s)
    BY <1>1
  <2>2. Kept(s)[n] \in Seq(Entry)
    BY <2>1
  <2>3. \/ Kept(s)[n + 1] = Kept(s)[n]
        \/ Kept(s)[n + 1] = Append(Kept(s)[n], s[n + 1])
    BY <1>1, <2>1, KeptStep
  <2>4. s[n + 1] \in Entry
    BY <1>1, <2>1
  <2> QED BY <2>2, <2>3, <2>4, AppendProperties
<1>4. T = Nat
  <2> HIDE DEF T
  <2>1. T \subseteq Nat
    BY DEF T
  <2> QED BY <1>2, <1>3, <2>1, AllNumbers
<1>5. \A n \in 0..Len(s) : Kept(s)[n] \in Seq(Entry)
  <2> SUFFICES ASSUME NEW n \in 0..Len(s) PROVE Kept(s)[n] \in Seq(Entry)
    OBVIOUS
  <2>1. n \in T /\ n <= Len(s)
    BY <1>1, <1>4
  <2> QED BY <2>1
<1>6. Len(s) \in 0..Len(s)
  BY <1>1
<1> QED BY <1>5, <1>6, OthersIs

\* Lists that differ in entries of agent-dash only, as far as place m.
LEMMA KeptAgree ==
    ASSUME NEW s \in Seq(Entry), NEW t \in Seq(Entry), NEW m \in Nat, m <= Len(s), m <= Len(t),
           \A j \in 1..m : s[j] = t[j] \/ (is_agent_dash_entry(s[j]) /\ is_agent_dash_entry(t[j]))
    PROVE  \A n \in 0..m : Kept(s)[n] = Kept(t)[n]
<1> DEFINE T == {n \in Nat : n <= m => Kept(s)[n] = Kept(t)[n]}
<1>1. Len(s) \in Nat /\ Len(t) \in Nat
  BY LenProperties
<1>2. 0 \in T
  <2>1. Kept(s)[0] = <<>> /\ Kept(t)[0] = <<>>
    BY <1>1, KeptStep
  <2> QED BY <2>1
<1>3. ASSUME NEW n \in T PROVE n + 1 \in T
  <2> SUFFICES ASSUME n + 1 <= m PROVE Kept(s)[n + 1] = Kept(t)[n + 1]
    OBVIOUS
  <2>1. n \in Nat /\ n + 1 \in 1..m /\ n + 1 \in 1..Len(s) /\ n + 1 \in 1..Len(t) /\ (n + 1) - 1 = n /\ n <= m
    BY <1>1
  <2>2. Kept(s)[n] = Kept(t)[n]
    BY <2>1
  <2>3. /\ Kept(s)[n + 1] = IF is_agent_dash_entry(s[n + 1]) THEN Kept(s)[n] ELSE Append(Kept(s)[n], s[n + 1])
        /\ Kept(t)[n + 1] = IF is_agent_dash_entry(t[n + 1]) THEN Kept(t)[n] ELSE Append(Kept(t)[n], t[n + 1])
    BY <1>1, <2>1, KeptStep
  <2>4. s[n + 1] = t[n + 1] \/ (is_agent_dash_entry(s[n + 1]) /\ is_agent_dash_entry(t[n + 1]))
    BY <2>1
  <2> QED BY <2>2, <2>3, <2>4
<1>4. T = Nat
  <2> HIDE DEF T
  <2>1. T \subseteq Nat
    BY DEF T
  <2> QED BY <1>2, <1>3, <2>1, AllNumbers
<1> SUFFICES ASSUME NEW n \in 0..m PROVE Kept(s)[n] = Kept(t)[n]
  OBVIOUS
<1>5. n \in T /\ n <= m
  BY <1>4
<1> QED BY <1>5

LEMMA OthersAppended ==
    ASSUME NEW s \in Seq(Entry), NEW e \in Entry
    PROVE  Others(Append(s, e)) = IF is_agent_dash_entry(e) THEN Others(s) ELSE Append(Others(s), e)
<1> DEFINE t == Append(s, e)
           m == Len(s)
<1>1. /\ m \in Nat /\ t \in Seq(Entry) /\ Len(t) = m + 1 /\ t[m + 1] = e
      /\ \A j \in 1..m : t[j] = s[j]
  BY AppendProperties, LenProperties
<1> HIDE DEF t
<1>2. m + 1 \in 1..Len(t) /\ (m + 1) - 1 = m /\ m <= Len(t) /\ m <= Len(s) /\ m \in 0..m /\ Len(t) \in Nat
  BY <1>1
<1>3. Kept(s)[m] = Kept(t)[m]
  BY <1>1, <1>2, KeptAgree
<1>4. Kept(t)[m + 1] = IF is_agent_dash_entry(e) THEN Kept(t)[m] ELSE Append(Kept(t)[m], e)
  BY <1>1, <1>2, KeptStep
<1> QED BY <1>1, <1>3, <1>4, OthersIs DEF t

\* An entry of agent-dash is replaced by another.
LEMMA OthersReplaced ==
    ASSUME NEW s \in Seq(Entry), NEW i \in DOMAIN s, NEW e \in Entry,
           is_agent_dash_entry(s[i]), is_agent_dash_entry(e)
    PROVE  Others([s EXCEPT ![i] = e]) = Others(s)
<1> DEFINE t == [s EXCEPT ![i] = e]
           m == Len(s)
<1>1. m \in Nat /\ DOMAIN s = 1..m
  BY LenProperties
<1>2. t \in Seq(Entry) /\ Len(t) = m
  BY ExceptSeq
<1>3. \A j \in 1..m : s[j] = t[j] \/ (is_agent_dash_entry(s[j]) /\ is_agent_dash_entry(t[j]))
  BY <1>1
<1>4. m <= Len(s) /\ m <= Len(t) /\ m \in 0..m
  BY <1>1, <1>2
<1> HIDE DEF t
<1>5. Kept(s)[m] = Kept(t)[m]
  BY <1>1, <1>2, <1>3, <1>4, KeptAgree
<1> QED BY <1>2, <1>5, OthersIs DEF t

LEMMA RemoveAtIs ==
    ASSUME NEW S, NEW s \in Seq(S), NEW i \in 1..Len(s)
    PROVE  /\ RemoveAt(s, i) \in Seq(S) /\ Len(RemoveAt(s, i)) = Len(s) - 1
           /\ \A j \in 1..(i - 1) : RemoveAt(s, i)[j] = s[j]
           /\ \A j \in i..(Len(s) - 1) : RemoveAt(s, i)[j] = s[j + 1]
<1> DEFINE a == SubSeq(s, 1, i - 1)
           b == SubSeq(s, i + 1, Len(s))
<1>1. Len(s) \in Nat /\ i \in Nat /\ 1 <= i /\ i <= Len(s)
  BY LenProperties
<1>2. a \in Seq(S) /\ Len(a) = i - 1 /\ \A j \in 1..(i - 1) : a[j] = s[j]
  <2>1. 1 \in 1..(Len(s) + 1) /\ i - 1 \in 0..Len(s)
    BY <1>1
  <2> QED BY <1>1, <2>1, SubSeqProperties
<1>3. b \in Seq(S) /\ Len(b) = Len(s) - i /\ \A j \in 1..(Len(s) - i) : b[j] = s[i + j]
  <2>1. i + 1 \in 1..(Len(s) + 1) /\ Len(s) \in 0..Len(s)
    BY <1>1
  <2> QED BY <1>1, <2>1, SubSeqProperties
<1>4. RemoveAt(s, i) = a \o b
  BY DEF RemoveAt
<1> HIDE DEF a, b
<1>5. /\ a \o b \in Seq(S) /\ Len(a \o b) = Len(a) + Len(b)
      /\ \A j \in 1..(Len(a) + Len(b)) : (a \o b)[j] = IF j <= Len(a) THEN a[j] ELSE b[j - Len(a)]
  BY <1>2, <1>3, ConcatProperties
<1>6. ASSUME NEW j \in 1..(i - 1) PROVE (a \o b)[j] = s[j]
  <2>1. j \in 1..(Len(a) + Len(b)) /\ j <= Len(a)
    BY <1>1, <1>2, <1>3
  <2> QED BY <1>2, <1>5, <2>1
<1>7. ASSUME NEW j \in i..(Len(s) - 1) PROVE (a \o b)[j] = s[j + 1]
  <2>1. /\ j \in 1..(Len(a) + Len(b)) /\ ~(j <= Len(a)) /\ j - Len(a) \in 1..(Len(s) - i)
        /\ i + (j - Len(a)) = j + 1
    BY <1>1, <1>2, <1>3
  <2> QED BY <1>3, <1>5, <2>1
<1>8. Len(a) + Len(b) = Len(s) - 1
  BY <1>1, <1>2, <1>3
<1> QED BY <1>4, <1>5, <1>6, <1>7, <1>8

\* An entry of agent-dash is removed.
LEMMA OthersRemoved ==
    ASSUME NEW s \in Seq(Entry), NEW i \in 1..Len(s), is_agent_dash_entry(s[i])
    PROVE  Others(RemoveAt(s, i)) = Others(s)
<1> DEFINE t == RemoveAt(s, i)
           T == {n \in Nat : i - 1 <= n /\ n <= Len(t) => Kept(t)[n] = Kept(s)[n + 1]}
<1>1. Len(s) \in Nat /\ i \in Nat /\ 1 <= i /\ i <= Len(s)
  BY LenProperties
<1>2. /\ t \in Seq(Entry) /\ Len(t) = Len(s) - 1
      /\ \A j \in 1..(i - 1) : t[j] = s[j]
      /\ \A j \in i..(Len(s) - 1) : t[j] = s[j + 1]
  BY RemoveAtIs
<1> HIDE DEF t
<1>3. Kept(t)[i - 1] = Kept(s)[i]
  <2>1. i - 1 \in Nat /\ i - 1 <= Len(s) /\ i - 1 <= Len(t) /\ i - 1 \in 0..(i - 1)
    BY <1>1, <1>2
  <2>2. Kept(s)[i - 1] = Kept(t)[i - 1]
    BY <1>2, <2>1, KeptAgree
  <2> QED BY <1>1, <2>2, KeptStep
<1>4. 0 \in T
  <2> SUFFICES ASSUME i - 1 <= 0 PROVE Kept(t)[0] = Kept(s)[0 + 1]
    OBVIOUS
  <2>1. i = 1 /\ i - 1 = 0 /\ 0 + 1 = 1
    BY <1>1
  <2> QED BY <1>3, <2>1
<1>5. ASSUME NEW n \in T PROVE n + 1 \in T
  <2> SUFFICES ASSUME i - 1 <= n + 1, n + 1 <= Len(t) PROVE Kept(t)[n + 1] = Kept(s)[(n + 1) + 1]
    OBVIOUS
  <2>0. n \in Nat
    OBVIOUS
  <2>1. CASE i - 1 = n + 1
    <3>1. i = (n + 1) + 1
      BY <1>1, <2>0, <2>1
    <3> QED BY <1>3, <2>1, <3>1
  <2>2. CASE i - 1 # n + 1
    <3>1. /\ i - 1 <= n /\ n <= Len(t) /\ n + 1 \in i..(Len(s) - 1) /\ n + 1 \in 1..Len(t) /\ Len(t) \in Nat
          /\ (n + 1) + 1 \in 1..Len(s) /\ (n + 1) - 1 = n /\ ((n + 1) + 1) - 1 = n + 1
      BY <1>1, <1>2, <2>0, <2>2
    <3>2. Kept(t)[n] = Kept(s)[n + 1]
      BY <3>1
    <3>3. t[n + 1] = s[(n + 1) + 1]
      BY <1>2, <3>1
    <3>4. Kept(t)[n + 1] = IF is_agent_dash_entry(t[n + 1]) THEN Kept(t)[n] ELSE Append(Kept(t)[n], t[n + 1])
      BY <3>1, KeptStep
    <3>5. Kept(s)[(n + 1) + 1] = IF is_agent_dash_entry(s[(n + 1) + 1]) THEN Kept(s)[n + 1]
                                 ELSE Append(Kept(s)[n + 1], s[(n + 1) + 1])
      BY <1>1, <3>1, KeptStep
    <3> QED BY <3>2, <3>3, <3>4, <3>5
  <2> QED BY <2>1, <2>2
<1>6. T = Nat
  <2> HIDE DEF T
  <2>1. T \subseteq Nat
    BY DEF T
  <2> QED BY <1>4, <1>5, <2>1, AllNumbers
<1>7. Len(t) \in T /\ i - 1 <= Len(t) /\ Len(t) + 1 = Len(s) /\ Len(t) <= Len(t)
  BY <1>1, <1>2, <1>6
<1>8. Kept(t)[Len(t)] = Kept(s)[Len(s)]
  <2>1. Kept(t)[Len(t)] = Kept(s)[Len(t) + 1]
    BY <1>7
  <2> QED BY <1>7, <2>1
<1> QED BY <1>8, OthersIs DEF t

\* Nothing is left of a list of agent-dash's entries.
LEMMA OthersNone ==
    ASSUME NEW s \in Seq(Entry), \A i \in DOMAIN s : is_agent_dash_entry(s[i])
    PROVE  Others(s) = <<>>
<1> DEFINE T == {n \in Nat : n <= Len(s) => Kept(s)[n] = <<>>}
<1>1. Len(s) \in Nat /\ DOMAIN s = 1..Len(s)
  BY LenProperties
<1>2. 0 \in T
  BY <1>1, KeptStep
<1>3. ASSUME NEW n \in T PROVE n + 1 \in T
  <2> SUFFICES ASSUME n + 1 <= Len(s) PROVE Kept(s)[n + 1] = <<>>
    OBVIOUS
  <2>1. n \in Nat /\ n + 1 \in 1..Len(s) /\ (n + 1) - 1 = n /\ n <= Len(s)
    BY <1>1
  <2> QED BY <1>1, <2>1, KeptStep
<1>4. T = Nat
  <2> HIDE DEF T
  <2>1. T \subseteq Nat
    BY DEF T
  <2> QED BY <1>2, <1>3, <2>1, AllNumbers
<1>5. Len(s) \in T /\ Len(s) <= Len(s)
  BY <1>1, <1>4
<1> QED BY <1>5, OthersIs

LEMMA OthersOfNone == <<>> \in Seq(Entry) /\ Others(<<>>) = <<>>
<1>1. <<>> \in Seq(Entry) /\ \A i \in DOMAIN <<>> : FALSE
  OBVIOUS
<1> QED BY <1>1, OthersNone

------------------------------------------------------------------------------
(* Merging                                                                 *)

\* A list with one entry of agent-dash, as it is installed today.
Installed(s) ==
    s \in Seq(Entry) /\ \E i \in DOMAIN s : s[i] = make_hook_entry /\ agent_dash_indices(s) = {i}

LEMMA EntryMade == make_hook_entry \in Entry /\ is_agent_dash_entry(make_hook_entry)
<1>1. <<"current">> \in Seq(UserCommands \cup {"current", "stale"})
  OBVIOUS
<1>2. make_hook_entry \in Entry
  BY <1>1 DEF make_hook_entry, Entry
<1>3. "current" \in ToSet(make_hook_entry.commands)
  BY DEF make_hook_entry, ToSet
<1> QED BY <1>2, <1>3 DEF is_agent_dash_entry

\* What the loop has done to the list after n places, from the last: nothing
\* yet up to place b, and behind it all that is left is others'.
Passed(s, first, r, n) ==
    LET b == IF Len(s) - n > first THEN Len(s) - n ELSE first
    IN  /\ r \in Seq(Entry) /\ b <= Len(r)
        /\ \A j \in 1..b : r[j] = s[j]
        /\ \A j \in 1..Len(r) : j > b => ~is_agent_dash_entry(r[j])
        /\ Others(r) = Others(s)

LEMMA PassedNext ==
    ASSUME NEW s \in Seq(Entry), NEW first \in agent_dash_indices(s),
           \A j \in agent_dash_indices(s) : first <= j,
           NEW n \in Nat, n + 1 <= Len(s), NEW r, Passed(s, first, r, n)
    PROVE  Passed(s, first, IF Len(s) - n \in agent_dash_indices(s) \ {first}
                            THEN RemoveAt(r, Len(s) - n) ELSE r, n + 1)
<1> DEFINE b == IF Len(s) - n > first THEN Len(s) - n ELSE first
           c == IF Len(s) - (n + 1) > first THEN Len(s) - (n + 1) ELSE first
           i == Len(s) - n
<1>1. /\ Len(s) \in Nat /\ DOMAIN s = 1..Len(s) /\ i \in 1..Len(s) /\ i \in Nat
      /\ first \in 1..Len(s) /\ is_agent_dash_entry(s[first])
  BY LenProperties DEF agent_dash_indices
<1>2. /\ r \in Seq(Entry) /\ b <= Len(r) /\ Len(r) \in Nat
      /\ \A j \in 1..b : r[j] = s[j]
      /\ \A j \in 1..Len(r) : j > b => ~is_agent_dash_entry(r[j])
      /\ Others(r) = Others(s)
  BY LenProperties DEF Passed
<1>3. /\ b \in Nat /\ c \in Nat /\ c <= b /\ first <= c /\ first <= b
      /\ i > first => b = i /\ c = i - 1
      /\ ~(i > first) => b = first /\ c = first
  <2>1. /\ b = IF i > first THEN i ELSE first
        /\ c = IF i - 1 > first THEN i - 1 ELSE first
    BY <1>1
  <2>2. first \in Nat /\ i \in Nat
    BY <1>1
  <2> HIDE DEF b, c, i
  <2> QED BY <2>1, <2>2
<1> HIDE DEF b, c, i
<1>4. CASE i \in agent_dash_indices(s) \ {first}
  <2>1. i > first /\ is_agent_dash_entry(s[i])
    BY <1>1, <1>4 DEF agent_dash_indices
  <2>2. i \in 1..Len(r) /\ r[i] = s[i] /\ i \in 1..b
    BY <1>1, <1>2, <1>3, <2>1
  <2> DEFINE q == RemoveAt(r, i)
  <2>3. /\ q \in Seq(Entry) /\ Len(q) = Len(r) - 1
        /\ \A j \in 1..(i - 1) : q[j] = r[j]
        /\ \A j \in i..(Len(r) - 1) : q[j] = r[j + 1]
    BY <1>2, <2>2, RemoveAtIs
  <2>4. Others(q) = Others(s)
    BY <1>2, <2>1, <2>2, OthersRemoved
  <2> HIDE DEF q
  <2>5. c <= Len(q)
    BY <1>1, <1>2, <1>3, <2>1, <2>3
  <2>6. ASSUME NEW j \in 1..c PROVE q[j] = s[j]
    <3>1. j \in 1..(i - 1) /\ j \in 1..b
      BY <1>1, <1>3, <2>1
    <3> QED BY <1>2, <2>3, <3>1
  <2>7. ASSUME NEW j \in 1..Len(q), j > c PROVE ~is_agent_dash_entry(q[j])
    <3>1. j \in i..(Len(r) - 1) /\ j + 1 \in 1..Len(r) /\ j + 1 > b
      BY <1>1, <1>2, <1>3, <2>1, <2>3, <2>7
    <3> QED BY <1>2, <2>3, <3>1
  <2>8. Passed(s, first, q, n + 1)
    BY <2>3, <2>4, <2>5, <2>6, <2>7 DEF Passed, c
  <2> QED BY <1>4, <2>8 DEF q, i
<1>5. CASE i \notin agent_dash_indices(s) \ {first}
  <2>1. ASSUME NEW j \in 1..Len(r), j > c PROVE ~is_agent_dash_entry(r[j])
    <3>1. CASE j > b
      BY <1>2, <3>1
    <3>2. CASE ~(j > b)
      <4>1. i > first /\ j = i /\ j \in 1..b
        BY <1>1, <1>3, <2>1, <3>2
      <4>2. ~is_agent_dash_entry(s[i])
        BY <1>1, <1>5, <4>1 DEF agent_dash_indices
      <4> QED BY <1>2, <4>1, <4>2
    <3> QED BY <3>1, <3>2
  <2>2. c <= Len(r) /\ \A j \in 1..c : j \in 1..b
    BY <1>2, <1>3
  <2>3. Passed(s, first, r, n + 1)
    BY <1>2, <2>1, <2>2 DEF Passed, c
  <2> QED BY <1>5, <2>3 DEF i
<1> QED BY <1>4, <1>5

LEMMA RemoveAllWorks ==
    ASSUME NEW s \in Seq(Entry), NEW first \in agent_dash_indices(s),
           \A j \in agent_dash_indices(s) : first <= j
    PROVE  LET r == RemoveAll(s, agent_dash_indices(s) \ {first})
           IN  /\ r \in Seq(Entry) /\ Others(r) = Others(s)
               /\ first \in DOMAIN r /\ r[first] = s[first] /\ agent_dash_indices(r) = {first}
<1> DEFINE removed == agent_dash_indices(s) \ {first}
           f == Rest(s, removed)
           T == {n \in Nat : n <= Len(s) => Passed(s, first, f[n], n)}
           r == f[Len(s)]
<1>1. /\ Len(s) \in Nat /\ DOMAIN s = 1..Len(s)
      /\ first \in 1..Len(s) /\ is_agent_dash_entry(s[first])
  BY LenProperties DEF agent_dash_indices
<1>2. f[0] = s /\ \A n \in 1..Len(s) : f[n] = IF Len(s) - n + 1 \in removed
                                             THEN RemoveAt(f[n - 1], Len(s) - n + 1) ELSE f[n - 1]
  <2> HIDE DEF removed
  <2> QED BY <1>1, RestStep
<1> HIDE DEF f
<1>3. 0 \in T
  <2>1. \A j \in 1..Len(s) : ~(j > (IF Len(s) - 0 > first THEN Len(s) - 0 ELSE first))
    BY <1>1
  <2>2. /\ (IF Len(s) - 0 > first THEN Len(s) - 0 ELSE first) <= Len(s)
    BY <1>1
  <2> QED BY <1>2, <2>1, <2>2 DEF Passed
<1>4. ASSUME NEW n \in T PROVE n + 1 \in T
  <2> SUFFICES ASSUME n + 1 <= Len(s) PROVE Passed(s, first, f[n + 1], n + 1)
    OBVIOUS
  <2>1. n \in Nat /\ n + 1 \in 1..Len(s) /\ (n + 1) - 1 = n /\ Len(s) - (n + 1) + 1 = Len(s) - n /\ n <= Len(s)
    BY <1>1
  <2>2. Passed(s, first, f[n], n)
    BY <2>1
  <2>3. f[n + 1] = IF Len(s) - n \in removed THEN RemoveAt(f[n], Len(s) - n) ELSE f[n]
    BY <1>2, <2>1
  <2> QED BY <2>1, <2>2, <2>3, PassedNext
<1>5. T = Nat
  <2> HIDE DEF T
  <2>1. T \subseteq Nat
    BY DEF T
  <2> QED BY <1>3, <1>4, <2>1, AllNumbers
<1>6. Passed(s, first, r, Len(s))
  <2>1. Len(s) \in T /\ Len(s) <= Len(s)
    BY <1>1, <1>5
  <2> QED BY <2>1
<1> HIDE DEF r
<1>7. /\ r \in Seq(Entry) /\ first <= Len(r) /\ Others(r) = Others(s) /\ DOMAIN r = 1..Len(r) /\ Len(r) \in Nat
      /\ \A j \in 1..first : r[j] = s[j]
      /\ \A j \in 1..Len(r) : j > first => ~is_agent_dash_entry(r[j])
  <2>1. (IF Len(s) - Len(s) > first THEN Len(s) - Len(s) ELSE first) = first
    BY <1>1
  <2> QED BY <1>6, <2>1, LenProperties DEF Passed
<1>8. first \in DOMAIN r /\ r[first] = s[first]
  BY <1>1, <1>7
<1>9. \A j \in 1..Len(r) : j < first => ~is_agent_dash_entry(r[j])
  <2> SUFFICES ASSUME NEW j \in 1..Len(r), j < first PROVE ~is_agent_dash_entry(r[j])
    OBVIOUS
  <2>1. j \in 1..first /\ j \in DOMAIN s /\ ~(first <= j)
    BY <1>1
  <2> QED BY <1>7, <2>1 DEF agent_dash_indices
<1>10. agent_dash_indices(r) = {first}
  <2>1. \A j \in 1..Len(r) : j = first \/ j < first \/ j > first
    BY <1>1
  <2> QED BY <1>1, <1>7, <1>8, <1>9, <2>1 DEF agent_dash_indices
<1>11. RemoveAll(s, removed) = r
  BY RemoveAllIs DEF r, f
<1> HIDE DEF removed
<1> QED BY <1>7, <1>8, <1>10, <1>11 DEF removed

LEMMA RemoveNone ==
    ASSUME NEW s \in Seq(Entry)
    PROVE  RemoveAll(s, {}) = s
<1> DEFINE T == {n \in Nat : n <= Len(s) => Rest(s, {})[n] = s}
<1>1. Len(s) \in Nat
  BY LenProperties
<1>2. 0 \in T
  BY <1>1, RestStep
<1>3. ASSUME NEW n \in T PROVE n + 1 \in T
  <2> SUFFICES ASSUME n + 1 <= Len(s) PROVE Rest(s, {})[n + 1] = s
    OBVIOUS
  <2>1. n \in Nat /\ n + 1 \in 1..Len(s) /\ (n + 1) - 1 = n /\ n <= Len(s)
    BY <1>1
  <2>2. Rest(s, {})[n] = s
    BY <2>1
  <2>3. Rest(s, {})[n + 1] = Rest(s, {})[n]
    BY <1>1, <2>1, RestStep
  <2> QED BY <2>2, <2>3
<1>4. T = Nat
  <2> HIDE DEF T
  <2>1. T \subseteq Nat
    BY DEF T
  <2> QED BY <1>2, <1>3, <2>1, AllNumbers
<1>5. Len(s) \in T /\ Len(s) <= Len(s)
  BY <1>1, <1>4
<1> QED BY <1>5, RemoveAllIs

\* The others' entries in the value of an event.
OthersOf(v) == IF v \in {Absent, NotArray} THEN <<>> ELSE Others(v)

LEMMA ForeignIs == \A hooks : Foreign(hooks) = [k \in Keys |-> OthersOf(hooks[k])]
BY DEF Foreign, OthersOf

\* A value is absent, or no array, or a list.
LEMMA Values ==
    ASSUME NEW s \in Seq(Entry)
    PROVE  s # Absent /\ s # NotArray /\ Absent # NotArray /\ OthersOf(s) = Others(s)
BY SetupTypes DEF OthersOf

LEMMA OneAppended ==
    ASSUME NEW s \in Seq(Entry), agent_dash_indices(s) = {}
    PROVE  Installed(Append(s, make_hook_entry)) /\ Others(Append(s, make_hook_entry)) = Others(s)
<1> DEFINE e == make_hook_entry
           t == Append(s, e)
<1>1. e \in Entry /\ is_agent_dash_entry(e)
  BY EntryMade
<1> HIDE DEF e
<1>2. /\ Len(s) \in Nat /\ t \in Seq(Entry) /\ Len(t) = Len(s) + 1 /\ t[Len(s) + 1] = e
      /\ DOMAIN s = 1..Len(s) /\ DOMAIN t = 1..(Len(s) + 1)
      /\ \A j \in 1..Len(s) : t[j] = s[j]
  BY <1>1, AppendProperties, LenProperties
<1>3. Others(t) = Others(s)
  BY <1>1, OthersAppended
<1> HIDE DEF t
<1>4. agent_dash_indices(t) = {Len(s) + 1}
  <2>1. \A j \in 1..(Len(s) + 1) : j \in 1..Len(s) \/ j = Len(s) + 1
    BY <1>2
  <2>2. Len(s) + 1 \in 1..(Len(s) + 1)
    BY <1>2
  <2>3. \A j \in 1..Len(s) : ~is_agent_dash_entry(s[j])
    BY <1>2 DEF agent_dash_indices
  <2> QED BY <1>1, <1>2, <2>1, <2>2, <2>3 DEF agent_dash_indices
<1>5. Len(s) + 1 \in DOMAIN t
  BY <1>2
<1> QED BY <1>2, <1>3, <1>4, <1>5 DEF Installed, e, t

LEMMA OneKept ==
    ASSUME NEW v \in Seq(Entry), agent_dash_indices(v) # {}
    PROVE  LET found == agent_dash_indices(v)
               first == Min(found)
               r     == RemoveAll([v EXCEPT ![first] = make_hook_entry], found \ {first})
           IN  Installed(r) /\ Others(r) = Others(v) /\ (Installed(v) => r = v)
<1> DEFINE found == agent_dash_indices(v)
           first == Min(found)
           e == make_hook_entry
           s == [v EXCEPT ![first] = e]
           r == RemoveAll(s, found \ {first})
<1>1. e \in Entry /\ is_agent_dash_entry(e)
  BY EntryMade
<1>2. DOMAIN v = 1..Len(v) /\ Len(v) \in Nat /\ found \subseteq DOMAIN v /\ found \subseteq Nat
  BY LenProperties DEF agent_dash_indices
<1>3. first \in found /\ \A j \in found : first <= j
  <2>1. \E n \in found : \A j \in found : n <= j
    BY <1>2, Least
  <2> HIDE DEF found
  <2> QED BY <2>1 DEF Min
<1> HIDE DEF e, first
<1>4. is_agent_dash_entry(v[first]) /\ first \in DOMAIN v
  BY <1>2, <1>3 DEF agent_dash_indices
<1>5. s \in Seq(Entry) /\ DOMAIN s = DOMAIN v /\ s[first] = e
  <2>1. s \in Seq(Entry)
    BY <1>1, <1>4, ExceptSeq
  <2> QED BY <1>4, <2>1
<1>6. Others(s) = Others(v)
  BY <1>1, <1>4, OthersReplaced
<1>7. agent_dash_indices(s) = found
  <2>1. \A j \in DOMAIN v : j # first => s[j] = v[j]
    OBVIOUS
  <2> QED BY <1>1, <1>3, <1>5, <2>1 DEF agent_dash_indices
<1> HIDE DEF s
<1>8. /\ r \in Seq(Entry) /\ Others(r) = Others(s)
      /\ first \in DOMAIN r /\ r[first] = s[first] /\ agent_dash_indices(r) = {first}
  BY <1>3, <1>5, <1>7, RemoveAllWorks
<1>9. Installed(r)
  BY <1>5, <1>8 DEF Installed, e
<1>10. ASSUME Installed(v) PROVE r = v
  <2>1. PICK i \in DOMAIN v : v[i] = e /\ found = {i}
    BY <1>10 DEF Installed, e
  <2>2. i = first /\ found \ {first} = {}
    BY <1>3, <2>1
  <2>3. s = v
    BY <1>4, <2>1, <2>2 DEF s
  <2> QED BY <1>5, <2>2, <2>3, RemoveNone
<1> HIDE DEF r
<1> QED BY <1>6, <1>8, <1>9, <1>10 DEF r, s, first, e

\* One event: afterwards it has agent-dash's entry once, and the others' as
\* they were; an event that has that is left alone.
LEMMA MergeSingle ==
    ASSUME NEW v \in Seq(Entry) \cup {Absent, NotArray}
    PROVE  LET w == merge_single_hook(v)
           IN  /\ w \in Seq(Entry) \cup {Absent, NotArray} /\ (w = NotArray \/ Installed(w))
               /\ OthersOf(w) = OthersOf(v)
               /\ v = NotArray \/ Installed(v) => w = v
<1>0. \A w : Installed(w) => w \in Seq(Entry) /\ w # <<>>
  BY DEF Installed
<1>1. CASE v = NotArray
  <2>1. merge_single_hook(v) = v
    BY <1>1 DEF merge_single_hook
  <2> QED BY <1>1, <2>1
<1>2. CASE v = Absent
  <2>1. merge_single_hook(v) = Append(<<>>, make_hook_entry) /\ v # NotArray
    BY <1>2, SetupTypes DEF merge_single_hook
  <2>2. <<>> \in Seq(Entry) /\ agent_dash_indices(<<>>) = {} /\ Others(<<>>) = <<>>
    BY OthersOfNone DEF agent_dash_indices
  <2>3. Installed(Append(<<>>, make_hook_entry)) /\ Others(Append(<<>>, make_hook_entry)) = <<>>
    BY <2>2, OneAppended
  <2>4. OthersOf(v) = <<>> /\ ~Installed(v)
    BY <1>0, <1>2, Values DEF OthersOf
  <2> QED BY <1>0, <2>1, <2>3, <2>4, Values
<1>3. CASE v \in Seq(Entry) /\ agent_dash_indices(v) = {}
  <2>1. merge_single_hook(v) = Append(v, make_hook_entry)
    BY <1>3, Values DEF merge_single_hook
  <2>2. Installed(Append(v, make_hook_entry)) /\ Others(Append(v, make_hook_entry)) = Others(v)
    BY <1>3, OneAppended
  <2>3. ~Installed(v) /\ v # NotArray
    BY <1>3, Values DEF Installed
  <2> QED BY <1>0, <1>3, <2>1, <2>2, <2>3, Values
<1>4. CASE v \in Seq(Entry) /\ agent_dash_indices(v) # {}
  <2> DEFINE found == agent_dash_indices(v)
             first == Min(found)
             r     == RemoveAll([v EXCEPT ![first] = make_hook_entry], found \ {first})
  <2>1. merge_single_hook(v) = r
    BY <1>4, Values DEF merge_single_hook
  <2>2. Installed(r) /\ Others(r) = Others(v) /\ (Installed(v) => r = v)
    BY <1>4, OneKept
  <2> HIDE DEF r
  <2> QED BY <1>0, <1>4, <2>1, <2>2, Values
<1> QED BY <1>1, <1>2, <1>3, <1>4

LEMMA Cleanup ==
    ASSUME NEW v \in Seq(Entry) \cup {Absent, NotArray}
    PROVE  LET w == cleanup_invalid_event(v)
           IN  /\ w \in Seq(Entry) \cup {Absent, NotArray}
               /\ OthersOf(w) = OthersOf(v)
               /\ cleanup_invalid_event(w) = w
<1>1. cleanup_invalid_event(Absent) = Absent
  BY DEF cleanup_invalid_event
<1>2. CASE cleanup_invalid_event(v) = v
  BY <1>2
<1>3. CASE cleanup_invalid_event(v) # v
  <2>1. /\ cleanup_invalid_event(v) = Absent /\ v \in Seq(Entry)
        /\ \A i \in DOMAIN v : is_agent_dash_entry(v[i])
    BY <1>3 DEF cleanup_invalid_event
  <2>2. OthersOf(v) = <<>> /\ OthersOf(Absent) = <<>>
    BY <2>1, OthersNone, Values DEF OthersOf
  <2> QED BY <1>1, <2>1, <2>2
<1> QED BY <1>2, <1>3

\* Settings with nothing left to merge.
Merged(hooks) ==
    /\ \A k \in HookEvents : hooks[k] = NotArray \/ Installed(hooks[k])
    /\ cleanup_invalid_event(hooks[Invalid]) = hooks[Invalid]

LEMMA MergingEvents ==
    ASSUME NEW hooks \in Hooks
    PROVE  /\ merge_events(hooks) \in Hooks
           /\ Merged(merge_events(hooks))
           /\ Foreign(merge_events(hooks)) = Foreign(hooks)
           /\ Merged(hooks) => merge_events(hooks) = hooks
<1> DEFINE new == merge_events(hooks)
           S == Seq(Entry) \cup {Absent, NotArray}
<1>1. \A k \in Keys : hooks[k] \in S
  BY DEF Hooks
<1>2. /\ \A k \in HookEvents : k \in Keys /\ k # Invalid
      /\ Invalid \in Keys /\ \A k \in Keys : k = Invalid \/ k \in HookEvents
  BY SetupTypes DEF Keys
<1>3. /\ DOMAIN new = Keys /\ DOMAIN hooks = Keys /\ new = [k \in Keys |-> new[k]] /\ hooks = [k \in Keys |-> hooks[k]]
      /\ new[Invalid] = cleanup_invalid_event(hooks[Invalid])
      /\ \A k \in HookEvents : new[k] = merge_single_hook(hooks[k])
  BY <1>2 DEF merge_events, Hooks
<1> HIDE DEF new, S
<1>4. /\ new[Invalid] \in S /\ OthersOf(new[Invalid]) = OthersOf(hooks[Invalid])
      /\ cleanup_invalid_event(new[Invalid]) = new[Invalid]
  BY <1>1, <1>2, <1>3, Cleanup DEF S
<1>5. ASSUME NEW k \in HookEvents
      PROVE  /\ new[k] \in S /\ (new[k] = NotArray \/ Installed(new[k]))
             /\ OthersOf(new[k]) = OthersOf(hooks[k])
             /\ hooks[k] = NotArray \/ Installed(hooks[k]) => new[k] = hooks[k]
  BY <1>1, <1>2, <1>3, MergeSingle DEF S
<1>6. new \in Hooks
  <2>1. \A k \in Keys : new[k] \in S
    BY <1>2, <1>4, <1>5
  <2> QED BY <1>3, <2>1 DEF Hooks, S
<1>7. Merged(new)
  BY <1>4, <1>5 DEF Merged
<1>8. Foreign(new) = Foreign(hooks)
  <2>1. \A k \in Keys : OthersOf(new[k]) = OthersOf(hooks[k])
    BY <1>2, <1>4, <1>5
  <2> QED BY <2>1, ForeignIs
<1>9. ASSUME Merged(hooks) PROVE new = hooks
  <2>1. \A k \in Keys : new[k] = hooks[k]
    BY <1>2, <1>3, <1>5, <1>9 DEF Merged
  <2> QED BY <1>3, <2>1
<1> QED BY <1>6, <1>7, <1>8, <1>9 DEF new

\* A file without the objects that merging needs is left alone.
LEMMA Merging ==
    ASSUME NEW settings, settings.hooks \in Hooks
    PROVE  /\ merge_hooks(settings) \in Hooks
           /\ settings.kind # "other" => Merged(merge_hooks(settings))
           /\ Foreign(merge_hooks(settings)) = Foreign(settings.hooks)
           /\ settings.kind = "other" \/ Merged(settings.hooks) => merge_hooks(settings) = settings.hooks
BY MergingEvents DEF merge_hooks

------------------------------------------------------------------------------
(* The runs and the user                                                   *)

AtWork(i) == installer[i].at \in {"write", "writing"}

\* What the file holds, and what a run is about to write, is merged and has
\* the user's entries, unless the user came in between.
SetupInv ==
    /\ installed /\ file.kind = "json" => Merged(file.hooks)
    /\ \A i \in Installers : AtWork(i) => Merged(installer[i].hooks)
    /\ ~raced => /\ file.kind \in {"json", "missing"} => Foreign(file.hooks) = owed
                 /\ \A i \in Installers : AtWork(i) => Foreign(installer[i].hooks) = owed

LEMMA NothingYet ==
    /\ Empty \in Hooks /\ Json(Empty).hooks = Empty
    /\ \A kind : NoHooks(kind).kind = kind /\ NoHooks(kind).hooks = Empty
    /\ \A hooks : Json(hooks).kind = "json" /\ Json(hooks).hooks = hooks
BY DEF Empty, Hooks, Json, NoHooks

LEMMA ForeignType ==
    ASSUME NEW hooks \in Hooks
    PROVE  Foreign(hooks) \in [Keys -> Seq(Entry)]
<1>1. \A k \in Keys : hooks[k] \in Seq(Entry) \cup {Absent, NotArray}
  BY DEF Hooks
<1>2. \A k \in Keys : OthersOf(hooks[k]) \in Seq(Entry)
  BY <1>1, KeptType, Values DEF OthersOf
<1> QED BY <1>2, ForeignIs

LEMMA SetupInit == Init => TypeOK /\ SetupInv
<1> SUFFICES ASSUME Init PROVE TypeOK /\ SetupInv
  OBVIOUS
<1>1. file.hooks \in Hooks /\ file \in [kind : Kinds, hooks : Hooks]
      /\ (file.kind # "json" => file.hooks = Empty)
  <2>1. CASE file \in {Json(h) : h \in InitialHooks}
    BY <2>1, SetupTypes DEF Json, Kinds
  <2>2. CASE file \in {NoHooks(kind) : kind \in {"missing", "broken", "other"}}
    BY <2>2, NothingYet DEF NoHooks, Kinds
  <2> QED BY <2>1, <2>2 DEF Init
<1>2. owed \in [Keys -> Seq(Entry)] /\ owed = Foreign(file.hooks)
  BY <1>1, ForeignType DEF Init
<1>3. installer \in [Installers -> [at : {"start", "write", "writing", "done", "failed"}, hooks : Hooks]]
      /\ \A i \in Installers : ~AtWork(i)
  BY NothingYet DEF Init, AtWork
<1>4. edits \in 0..MaxEdits /\ raced = FALSE /\ installed = FALSE
  BY SetupTypes DEF Init
<1>5. TypeOK
  BY <1>1, <1>2, <1>3, <1>4 DEF TypeOK
<1>6. SetupInv
  BY <1>2, <1>3, <1>4 DEF SetupInv
<1> QED BY <1>5, <1>6

\* What one run's step does to the others: nothing.
Run == [at : {"start", "write", "writing", "done", "failed"}, hooks : Hooks]

LEMMA RunMoves ==
    ASSUME TypeOK, NEW i \in Installers, NEW r \in Run, installer' = [installer EXCEPT ![i] = r]
    PROVE  /\ installer' \in [Installers -> Run] /\ installer'[i] = r
           /\ \A j \in Installers \ {i} : installer'[j] = installer[j]
BY DEF TypeOK, Run

LEMMA RunAt ==
    ASSUME TypeOK, NEW i \in Installers, NEW at \in {"start", "write", "writing", "done", "failed"}
    PROVE  /\ [installer EXCEPT ![i].at = at] = [installer EXCEPT ![i] = [at |-> at, hooks |-> installer[i].hooks]]
           /\ [at |-> at, hooks |-> installer[i].hooks] \in Run
<1>1. installer[i] \in Run /\ installer \in [Installers -> Run]
  BY DEF TypeOK, Run
<1>2. [installer[i] EXCEPT !.at = at] = [at |-> at, hooks |-> installer[i].hooks]
  BY <1>1 DEF Run
<1> QED BY <1>1, <1>2 DEF Run

LEMMA SetupRead ==
    ASSUME TypeOK, SetupInv, NEW i \in Installers, Read(i)
    PROVE  TypeOK' /\ SetupInv'
<1> DEFINE merged == merge_hooks(file)
<1>1. file.hooks \in Hooks
  BY DEF TypeOK
<1>2. /\ merged \in Hooks /\ Foreign(merged) = Foreign(file.hooks)
      /\ file.kind # "other" => Merged(merged)
      /\ file.kind = "other" \/ Merged(file.hooks) => merged = file.hooks
  BY <1>1, Merging
<1>3. file' = file /\ edits' = edits /\ owed' = owed /\ raced' = raced
  BY DEF Read
<1>4. \/ installer' = [installer EXCEPT ![i].at = "failed"] /\ installed' = installed
      \/ installer' = [installer EXCEPT ![i].at = "done"] /\ installed' = TRUE /\ merged = file.hooks
      \/ /\ installer' = [installer EXCEPT ![i] = [at |-> "write", hooks |-> merged]]
         /\ installed' = installed /\ file.kind \in {"json", "missing"}
  BY DEF Read, TypeOK, Kinds, merge_hooks
<1> HIDE DEF merged
<1>5. PICK r \in Run : /\ installer' = [installer EXCEPT ![i] = r]
                       /\ \/ r.at \in {"failed", "done"}
                          \/ r.hooks = merged /\ file.kind \in {"json", "missing"}
  <2>1. [at |-> "write", hooks |-> merged] \in Run
    BY <1>2 DEF Run
  <2>2. ASSUME NEW at \in {"failed", "done"}, installer' = [installer EXCEPT ![i].at = at]
        PROVE  \E r \in Run : installer' = [installer EXCEPT ![i] = r] /\ r.at \in {"failed", "done"}
    <3> DEFINE r == [at |-> at, hooks |-> installer[i].hooks]
    <3>1. r \in Run /\ installer' = [installer EXCEPT ![i] = r] /\ r.at = at
      BY <2>2, RunAt
    <3> HIDE DEF r
    <3> QED BY <2>2, <3>1
  <2> QED BY <1>4, <2>1, <2>2
<1>6. /\ installer' \in [Installers -> Run] /\ installer'[i] = r
      /\ \A j \in Installers \ {i} : installer'[j] = installer[j]
  BY <1>5, RunMoves
<1>7. TypeOK'
  BY <1>3, <1>4, <1>6 DEF TypeOK, Run
<1>8. installed' /\ file.kind = "json" => Merged(file.hooks)
  BY <1>2, <1>4 DEF SetupInv
<1>9. SetupInv'
  BY <1>2, <1>3, <1>5, <1>6, <1>8 DEF SetupInv, AtWork
<1> QED BY <1>7, <1>9

LEMMA SetupWrites ==
    ASSUME TypeOK, SetupInv, NEW i \in Installers, Truncate(i) \/ Write(i) \/ Die(i)
    PROVE  TypeOK' /\ SetupInv'
<1>1. installer[i] \in Run /\ AtWork(i) /\ edits' = edits /\ owed' = owed /\ raced' = raced
  BY DEF Truncate, Write, Die, AtWork, TypeOK, Run
<1>2. PICK r \in Run : /\ installer' = [installer EXCEPT ![i] = r] /\ r.hooks = installer[i].hooks
                       /\ r.at \in {"writing", "done", "failed"}
  <2>1. PICK at \in {"writing", "done", "failed"} : installer' = [installer EXCEPT ![i].at = at]
    BY DEF Truncate, Write, Die
  <2> DEFINE r == [at |-> at, hooks |-> installer[i].hooks]
  <2>2. r \in Run /\ installer' = [installer EXCEPT ![i] = r] /\ r.at = at /\ r.hooks = installer[i].hooks
    BY <2>1, RunAt
  <2> HIDE DEF r
  <2> QED BY <2>1, <2>2
<1>3. /\ installer' \in [Installers -> Run] /\ installer'[i] = r
      /\ \A j \in Installers \ {i} : installer'[j] = installer[j]
  BY <1>2, RunMoves
<1>4. \A j \in Installers : installer'[j].hooks = installer[j].hooks /\ (AtWork(j)' => AtWork(j))
  BY <1>1, <1>2, <1>3 DEF AtWork
<1>5. \/ file' = file /\ installed' = installed
      \/ file' = NoHooks("empty") \/ file' = NoHooks("broken")
      \/ file' = Json(installer[i].hooks)
  BY DEF Truncate, Write, Die
<1>6. installed' \in BOOLEAN
  BY DEF Truncate, Write, Die, TypeOK
<1>7. file' \in [kind : Kinds, hooks : Hooks]
      /\ (file'.kind # "json" => file'.hooks = Empty)
  <2>1. installer[i].hooks \in Hooks
    BY <1>1 DEF Run
  <2> QED BY <1>5, <2>1, NothingYet DEF TypeOK, Json, NoHooks, Kinds
<1>8. TypeOK'
  BY <1>1, <1>3, <1>6, <1>7 DEF TypeOK, Run
<1>9. \/ file' = file /\ installed' = installed
      \/ file'.kind \in {"empty", "broken"}
      \/ file'.hooks = installer[i].hooks
  BY <1>5, NothingYet
<1>10. SetupInv'
  <2>1. installed' /\ file'.kind = "json" => Merged(file'.hooks)
    BY <1>1, <1>9 DEF SetupInv
  <2>2. ~raced /\ file'.kind \in {"json", "missing"} => Foreign(file'.hooks) = owed
    BY <1>1, <1>9 DEF SetupInv
  <2> QED BY <1>1, <1>4, <2>1, <2>2 DEF SetupInv
<1> QED BY <1>8, <1>10

LEMMA SetupUserAdds ==
    ASSUME TypeOK, SetupInv, NEW k \in HookEvents, NEW c \in UserCommands, UserAdds(k, c)
    PROVE  TypeOK' /\ SetupInv'
<1> DEFINE entry == [form |-> "matcher", commands |-> <<c>>]
           old   == IF file.hooks[k] = Absent THEN <<>> ELSE file.hooks[k]
           new   == [file.hooks EXCEPT ![k] = Append(old, entry)]
<1>1. /\ file.kind \in {"json", "missing"} /\ file' = Json(new) /\ owed' = [owed EXCEPT ![k] = Append(@, entry)]
      /\ edits < MaxEdits /\ edits' = edits + 1 /\ installer' = installer /\ installed' = FALSE
      /\ raced' = (raced \/ \E i \in Installers : AtWork(i)) /\ file.hooks[k] # NotArray
  BY DEF UserAdds, AtWork
<1>2. entry \in Entry /\ ~is_agent_dash_entry(entry)
  <2>1. <<c>> \in Seq(UserCommands \cup {"current", "stale"})
    OBVIOUS
  <2>2. ToSet(<<c>>) = {c}
    BY DEF ToSet
  <2>3. c \notin {"current", "stale"}
    BY SetupTypes
  <2> QED BY <2>1, <2>2, <2>3 DEF Entry, is_agent_dash_entry
<1> HIDE DEF entry
<1>3. k \in Keys /\ file.hooks \in Hooks /\ file.hooks[k] \in Seq(Entry) \cup {Absent, NotArray}
  BY DEF TypeOK, Hooks, Keys
<1>4. old \in Seq(Entry) /\ OthersOf(file.hooks[k]) = Others(old)
  <2>1. <<>> \in Seq(Entry) /\ Others(<<>>) = <<>>
    BY OthersOfNone
  <2> QED BY <1>1, <1>3, <2>1, Values DEF OthersOf
<1> HIDE DEF old
<1>5. Append(old, entry) \in Seq(Entry) /\ OthersOf(Append(old, entry)) = Append(Others(old), entry)
  BY <1>2, <1>4, AppendProperties, OthersAppended, Values
<1>6. new \in Hooks /\ new[k] = Append(old, entry) /\ \A l \in Keys \ {k} : new[l] = file.hooks[l]
  BY <1>3, <1>5 DEF Hooks
<1> HIDE DEF new
<1>7. TypeOK'
  <2>1. owed' \in [Keys -> Seq(Entry)]
    <3>1. owed \in [Keys -> Seq(Entry)]
      BY DEF TypeOK
    <3>2. Append(owed[k], entry) \in Seq(Entry)
      BY <1>2, <1>3, <3>1, AppendProperties
    <3> QED BY <1>1, <3>1, <3>2
  <2>2. edits' \in 0..MaxEdits
    BY <1>1, SetupTypes DEF TypeOK
  <2>3. file' \in [kind : Kinds, hooks : Hooks] /\ file'.kind = "json"
    BY <1>1, <1>6 DEF Json, Kinds
  <2>4. raced' \in BOOLEAN
    BY <1>1
  <2> QED BY <1>1, <2>1, <2>2, <2>3, <2>4 DEF TypeOK
<1>8. ASSUME ~raced' PROVE Foreign(file'.hooks) = owed' /\ \A i \in Installers : ~AtWork(i)'
  <2>1. ~raced /\ \A i \in Installers : ~AtWork(i)'
    BY <1>1, <1>8 DEF AtWork
  <2>2. owed = [l \in Keys |-> OthersOf(file.hooks[l])] /\ owed[k] = Others(old)
    BY <1>1, <1>3, <1>4, <2>1, ForeignIs DEF SetupInv
  <2>3. \A l \in Keys : OthersOf(new[l]) = [owed EXCEPT ![k] = Append(@, entry)][l]
    BY <1>5, <1>6, <2>2
  <2>4. Foreign(new) = [owed EXCEPT ![k] = Append(@, entry)]
    BY <2>2, <2>3, ForeignIs
  <2>5. file'.hooks = new
    BY <1>1, NothingYet
  <2> QED BY <1>1, <2>1, <2>4, <2>5
<1>9. SetupInv'
  <2>1. \A i \in Installers : AtWork(i)' => Merged(installer'[i].hooks)
    BY <1>1 DEF SetupInv, AtWork
  <2> QED BY <1>1, <1>8, <2>1 DEF SetupInv
<1> QED BY <1>7, <1>9

LEMMA SetupStep == TypeOK /\ SetupInv /\ [Next]_vars => TypeOK' /\ SetupInv'
<1> SUFFICES ASSUME TypeOK, SetupInv, [Next]_vars PROVE TypeOK' /\ SetupInv'
  OBVIOUS
<1>1. CASE UNCHANGED vars
  BY <1>1 DEF vars, TypeOK, SetupInv, AtWork
<1>2. CASE Next
  BY <1>2, SetupRead, SetupWrites, SetupUserAdds DEF Next
<1> QED BY <1>1, <1>2

\* The settings, the runs and the history have the values they are meant to
\* have, whatever the user has in the file (setup.rs, whole).
THEOREM SetupTypeCorrect == Spec => []TypeOK
BY SetupInit, SetupStep, PTL DEF Spec

\* Whatever lists the settings hold and however many runs of the setup write
\* over each other: after one that ended with Ok every event has agent-dash's
\* command once, as it is installed today (merge_single_hook).
THEOREM InstalledOnceHolds == Spec => []InstalledOnce
<1>1. SetupInv => InstalledOnce
  <2> SUFFICES ASSUME SetupInv, installed, file.kind = "json"
               PROVE  /\ \A k \in HookEvents : file.hooks[k] # NotArray =>
                           /\ file.hooks[k] # Absent
                           /\ \E i \in DOMAIN file.hooks[k] : /\ file.hooks[k][i] = make_hook_entry
                                                              /\ agent_dash_indices(file.hooks[k]) = {i}
                      /\ hooks_installed \/ file.hooks[Checked] = NotArray
    BY DEF InstalledOnce
  <2>1. \A k \in HookEvents : file.hooks[k] = NotArray \/ Installed(file.hooks[k])
    BY DEF SetupInv, Merged
  <2>2. ASSUME NEW k \in HookEvents, file.hooks[k] # NotArray
        PROVE  /\ file.hooks[k] # Absent
               /\ \E i \in DOMAIN file.hooks[k] : /\ file.hooks[k][i] = make_hook_entry
                                                  /\ agent_dash_indices(file.hooks[k]) = {i}
    BY <2>1, <2>2, Values DEF Installed
  <2>3. hooks_installed \/ file.hooks[Checked] = NotArray
    BY <2>2, SetupTypes DEF hooks_installed, has_agent_dash_hook
  <2> QED BY <2>2, <2>3
<1> QED BY <1>1, SetupInit, SetupStep, PTL DEF Spec

\* The setup never drops, doubles or reorders an entry that is not
\* agent-dash's, in lists of any length (the loop of merge_single_hook that
\* removes duplicates, cleanup_invalid_event).
THEOREM UserEntriesKeptHolds == Spec => []UserEntriesKept
<1>1. SetupInv => UserEntriesKept
  BY DEF SetupInv, UserEntriesKept
<1> QED BY <1>1, SetupInit, SetupStep, PTL DEF Spec

\* A run that reads settings that are up to date has nothing to write:
\* merging is idempotent (merge_hooks).
THEOREM NothingLeftToDoHolds == Spec => NothingLeftToDo
<1> DEFINE Idle == \A i \in Installers :
                     installed /\ file.kind = "json" /\ installer[i].at = "start" => installer'[i].at # "write"
<1>1. TypeOK /\ SetupInv /\ [Next]_vars => [Idle]_vars
  <2> SUFFICES ASSUME TypeOK, SetupInv, Next, NEW i \in Installers,
                      installed, file.kind = "json", installer[i].at = "start"
               PROVE  installer'[i].at # "write"
    OBVIOUS
  <2>1. merge_hooks(file) = file.hooks
    BY Merging DEF TypeOK, SetupInv
  <2>2. ASSUME NEW j \in Installers, Read(j) \/ Truncate(j) \/ Write(j) \/ Die(j), j # i
        PROVE  installer'[i] = installer[i]
    BY <2>2 DEF Read, Truncate, Write, Die, TypeOK
  <2>3. ASSUME Read(i) \/ Truncate(i) \/ Write(i) \/ Die(i)
        PROVE  installer'[i].at # "write"
    <3>1. Read(i)
      BY <2>3 DEF Truncate, Write, Die
    <3>2. installer' = [installer EXCEPT ![i].at = "done"]
      BY <2>1, <3>1 DEF Read
    <3>3. installer[i] \in Run /\ installer \in [Installers -> Run]
      BY DEF TypeOK, Run
    <3> QED BY <3>2, <3>3 DEF Run
  <2>4. ASSUME NEW k \in HookEvents, NEW c \in UserCommands, UserAdds(k, c)
        PROVE  installer' = installer
    BY <2>4 DEF UserAdds
  <2> QED BY <2>2, <2>3, <2>4 DEF Next
<1> QED BY <1>1, SetupInit, SetupStep, PTL DEF Spec, NothingLeftToDo
==============================================================================
