-------------------------- MODULE AgentSetupProofs --------------------------
(***************************************************************************)
(* What setup and uninstall leave of the files they edit, for any texts,   *)
(* hooks and rule files users may have, any versions, and any number of    *)
(* commands, edits and deaths.                                             *)
(*                                                                         *)
(* First what each edit makes of any text (lines, blocks, sections) and of *)
(* any list of hooks; then the steps of the commands, the inductive        *)
(* invariant Inv, and the theorems.                                        *)
(***************************************************************************)
EXTENDS AgentSetup, TLAPS, SequenceTheorems, WellFoundedInduction, FiniteSetTheorems

Less == {p \in Nat \X Nat : p[1] < p[2]}

LEMMA LessWF == IsWellFoundedOn(Less, Nat)
  BY NatLessThanWellFounded DEF IsWellFoundedOn, OpToRel, Less

LEMMA LessIs ==
    ASSUME NEW m \in Nat, NEW n \in Nat, <<n, m>> \notin Less
    PROVE  m <= n
  BY DEF Less

LEMMA NatInduct ==
    ASSUME NEW T, 0 \in T, \A n \in Nat : n \in T => n + 1 \in T
    PROVE  Nat \subseteq T
<1>1. SUFFICES ASSUME Nat \ T # {} PROVE FALSE
  OBVIOUS
<1>2. PICK m \in Nat \ T : \A n \in Nat \ T : <<n, m>> \notin Less
  BY <1>1, LessWF, WFMin
<1>3. \A n \in Nat \ T : m <= n
  BY <1>2, LessIs
<1>4. m # 0 /\ m - 1 \in Nat /\ m - 1 < m
  BY <1>2
<1>5. m - 1 \in T
  BY <1>3, <1>4
<1>6. (m - 1) + 1 \in T
  BY <1>4, <1>5
<1> QED
  BY <1>2, <1>6

LEMMA MinOfSet ==
    ASSUME NEW T, T \subseteq Nat, T # {}
    PROVE  /\ Min(T) \in T
           /\ \A n \in T : Min(T) <= n
<1>2. PICK m \in T : \A n \in T : <<n, m>> \notin Less
  BY LessWF, WFMin
<1>3. ASSUME NEW n \in T PROVE m <= n
  BY <1>2, LessIs
<1> QED
  BY <1>3 DEF Min

LEMMA MaxOfSet ==
    ASSUME NEW k \in Nat, NEW T, T \subseteq 0 .. k, T # {}
    PROVE  /\ Max(T) \in T
           /\ \A n \in T : n <= Max(T)
<1> DEFINE D == {n \in Nat : \E x \in T : n = k - x}
<1>1. PICK x \in T : x \in 0 .. k
  OBVIOUS
<1>2. k - x \in D
  BY <1>1
<1>3. D \subseteq Nat /\ D # {}
  BY <1>2
<1>4. PICK d \in D : \A e \in D : d <= e
  <2> HIDE DEF D
  <2> QED BY <1>3, MinOfSet
<1>5. PICK m \in T : d = k - m
  BY <1>4
<1>6. ASSUME NEW n \in T PROVE n <= m
  <2>1. n \in 0 .. k /\ m \in 0 .. k
    BY <1>5
  <2>2. k - n \in D
    BY <2>1
  <2>3. d <= k - n
    BY <1>4, <2>2
  <2> QED BY <1>5, <2>1, <2>3
<1> QED
  BY <1>5, <1>6 DEF Max

---------------------------------------------------------------------------
KeptStep(s, set, kept, i) ==
    IF i = 0 THEN <<>> ELSE IF s[i] \in set THEN kept[i - 1] ELSE Append(kept[i - 1], s[i])
IsKept(s, set, kept) == kept = [i \in 0 .. Len(s) |-> KeptStep(s, set, kept, i)]
Kept(s, set) == CHOOSE kept : IsKept(s, set, kept)

LEMMA KeptExists ==
    ASSUME NEW s, NEW set, NEW n \in Nat
    PROVE  \E kept : kept = [i \in 0 .. n |-> KeptStep(s, set, kept, i)]
<1> DEFINE T == {m \in Nat : \E kept : kept = [i \in 0 .. m |-> KeptStep(s, set, kept, i)]}
<1>1. 0 \in T
  <2> DEFINE f == [i \in 0 .. 0 |-> <<>>]
  <2>1. f = [i \in 0 .. 0 |-> KeptStep(s, set, f, i)]
    BY DEF KeptStep
  <2> QED BY <2>1
<1>2. ASSUME NEW m \in Nat, m \in T PROVE m + 1 \in T
  <2>1. PICK f : f = [i \in 0 .. m |-> KeptStep(s, set, f, i)]
    BY <1>2
  <2> DEFINE last == KeptStep(s, set, f, m + 1)
             g == [i \in 0 .. m + 1 |-> IF i = m + 1 THEN last ELSE f[i]]
  <2>2. \A i \in 0 .. m : f[i] = KeptStep(s, set, f, i)
    BY <2>1
  <2>3. ASSUME NEW i \in 0 .. m + 1 PROVE g[i] = KeptStep(s, set, g, i)
    <3>1. CASE i = m + 1
      <4>1. g[i] = KeptStep(s, set, f, i) /\ g[i - 1] = f[i - 1]
        BY <3>1
      <4> HIDE DEF g
      <4> QED BY <4>1 DEF KeptStep
    <3>2. CASE i \in 0 .. m
      <4>1. g[i] = f[i]
        BY <3>2
      <4>2. i # 0 => g[i - 1] = f[i - 1]
        BY <3>2
      <4> HIDE DEF g
      <4> QED BY <3>2, <4>1, <4>2, <2>2 DEF KeptStep
    <3> QED BY <3>1, <3>2
  <2>4. g = [i \in 0 .. m + 1 |-> KeptStep(s, set, g, i)]
    <3>1. g = [i \in 0 .. m + 1 |-> g[i]]
      OBVIOUS
    <3> HIDE DEF g
    <3> QED BY <3>1, <2>3
  <2> HIDE DEF g
  <2>5. m + 1 \in Nat
    OBVIOUS
  <2> QED BY <2>4, <2>5
<1> HIDE DEF T
<1>3. n \in T
  BY <1>1, <1>2, NatInduct
<1> QED BY <1>3 DEF T

LEMMA KeptDef ==
    ASSUME NEW U, NEW s \in Seq(U), NEW set
    PROVE  /\ Dropping(s, set) = Kept(s, set)[Len(s)]
           /\ Kept(s, set)[0] = <<>>
           /\ \A i \in 1 .. Len(s) : Kept(s, set)[i] =
                IF s[i] \in set THEN Kept(s, set)[i - 1] ELSE Append(Kept(s, set)[i - 1], s[i])
<1>1. Dropping(s, set) = Kept(s, set)[Len(s)]
  BY DEF Dropping, Kept, IsKept, KeptStep
<1>2. Len(s) \in Nat
  OBVIOUS
<1>3. \E kept : IsKept(s, set, kept)
  BY <1>2, KeptExists DEF IsKept
<1> DEFINE K == Kept(s, set)
<1>4. IsKept(s, set, K)
  <2> DEFINE P(kept) == IsKept(s, set, kept)
  <2>1. \E kept : P(kept)
    BY <1>3
  <2> HIDE DEF P
  <2>2. P(CHOOSE kept : P(kept))
    BY <2>1
  <2> QED BY <2>2 DEF P, Kept
<1> HIDE DEF K
<1>5. \A i \in 0 .. Len(s) : K[i] = KeptStep(s, set, K, i)
  BY <1>4 DEF IsKept
<1>6. K[0] = <<>> /\ \A i \in 1 .. Len(s) : K[i] = IF s[i] \in set THEN K[i - 1] ELSE Append(K[i - 1], s[i])
  <2>1. 0 \in 0 .. Len(s)
    BY <1>2
  <2>2. K[0] = <<>>
    BY <1>5, <2>1 DEF KeptStep
  <2>3. ASSUME NEW i \in 1 .. Len(s)
        PROVE  K[i] = IF s[i] \in set THEN K[i - 1] ELSE Append(K[i - 1], s[i])
    <3>1. i \in 0 .. Len(s) /\ i # 0
      BY <1>2
    <3>2. K[i] = KeptStep(s, set, K, i)
      BY <1>5, <3>1
    <3> QED BY <3>1, <3>2, Zenon DEF KeptStep
  <2> QED BY <2>2, <2>3
<1> QED BY <1>1, <1>6 DEF K


LEMMA ToSetEmpty == ToSet(<<>>) = {}
<1>1. DOMAIN <<>> = {}
  OBVIOUS
<1> QED BY <1>1 DEF ToSet

LEMMA ToSetConcat ==
    ASSUME NEW U, NEW s \in Seq(U), NEW t \in Seq(U)
    PROVE  ToSet(s \o t) = ToSet(s) \cup ToSet(t)
<1>1. /\ DOMAIN s = 1 .. Len(s) /\ DOMAIN t = 1 .. Len(t) /\ Len(s) \in Nat /\ Len(t) \in Nat
      /\ DOMAIN (s \o t) = 1 .. Len(s) + Len(t)
  OBVIOUS
<1>2. \A i \in 1 .. Len(s) : i \in DOMAIN (s \o t) /\ (s \o t)[i] = s[i]
  BY <1>1
<1>3. \A i \in 1 .. Len(t) : Len(s) + i \in DOMAIN (s \o t) /\ (s \o t)[Len(s) + i] = t[i]
  BY <1>1
<1>4. \A i \in DOMAIN (s \o t) : i \in 1 .. Len(s) \/ i - Len(s) \in 1 .. Len(t)
  BY <1>1
<1>5. \A i \in DOMAIN (s \o t) : (s \o t)[i] \in ToSet(s) \cup ToSet(t)
  <2> TAKE i \in DOMAIN (s \o t)
  <2>1. CASE i \in 1 .. Len(s)
    BY <2>1, <1>1, <1>2 DEF ToSet
  <2>2. CASE i - Len(s) \in 1 .. Len(t)
    <3>1. Len(s) + (i - Len(s)) = i
      BY <1>1
    <3>2. (s \o t)[i] = t[i - Len(s)]
      BY <2>2, <1>3, <3>1
    <3> QED BY <2>2, <1>1, <3>2 DEF ToSet
  <2> QED BY <2>1, <2>2, <1>4
<1>6. ToSet(s \o t) \subseteq ToSet(s) \cup ToSet(t)
  BY <1>5 DEF ToSet
<1>7. ToSet(s) \subseteq ToSet(s \o t)
  BY <1>1, <1>2 DEF ToSet
<1>8. ToSet(t) \subseteq ToSet(s \o t)
  BY <1>1, <1>3 DEF ToSet
<1> QED BY <1>6, <1>7, <1>8

LEMMA ToSetSingle ==
    ASSUME NEW x PROVE ToSet(<<x>>) = {x}
<1>1. DOMAIN <<x>> = {1} /\ <<x>>[1] = x
  OBVIOUS
<1> QED BY <1>1 DEF ToSet

LEMMA ToSetAppend ==
    ASSUME NEW U, NEW s \in Seq(U), NEW x \in U
    PROVE  ToSet(Append(s, x)) = ToSet(s) \cup {x}
<1> DEFINE t == <<x>>
<1>1. Append(s, x) = s \o t /\ t \in Seq(U)
  OBVIOUS
<1>3. ToSet(t) = {x}
  BY ToSetSingle
<1> HIDE DEF t
<1>2. ToSet(s \o t) = ToSet(s) \cup ToSet(t)
  BY <1>1, ToSetConcat
<1> QED BY <1>1, <1>2, <1>3, Zenon

LEMMA DroppingType ==
    ASSUME NEW U, NEW s \in Seq(U), NEW set
    PROVE  /\ Dropping(s, set) \in Seq(U)
           /\ ToSet(Dropping(s, set)) = ToSet(s) \ set
<1> DEFINE K == Kept(s, set)
           R(i) == {s[j] : j \in 1 .. i}
           P(i) == K[i] \in Seq(U) /\ ToSet(K[i]) = R(i) \ set
           T == {i \in Nat : i <= Len(s) => P(i)}
<1>1. Len(s) \in Nat /\ K[0] = <<>>
  BY KeptDef
<1>2. \A i \in 1 .. Len(s) : K[i] = IF s[i] \in set THEN K[i - 1] ELSE Append(K[i - 1], s[i])
  BY KeptDef
<1>3. R(0) = {} /\ \A i \in Nat : R(i + 1) = R(i) \cup {s[i + 1]}
  OBVIOUS
<1>4. ToSet(<<>>) = {} /\ <<>> \in Seq(U)
  BY ToSetEmpty
<1> HIDE DEF K, R
<1>5. 0 \in T
  BY <1>1, <1>3, <1>4
<1>6. ASSUME NEW i \in Nat, i \in T PROVE i + 1 \in T
  <2> SUFFICES ASSUME i + 1 <= Len(s) PROVE P(i + 1)
    OBVIOUS
  <2>1. P(i) /\ i + 1 \in 1 .. Len(s) /\ s[i + 1] \in U /\ (i + 1) - 1 = i
    BY <1>1, <1>6
  <2>2. R(i + 1) = R(i) \cup {s[i + 1]}
    BY <1>3
  <2>3. CASE s[i + 1] \in set
    <3>1. K[i + 1] = K[i]
      BY <1>2, <2>1, <2>3
    <3> QED BY <2>1, <2>2, <2>3, <3>1
  <2>4. CASE s[i + 1] \notin set
    <3>1. K[i + 1] = Append(K[i], s[i + 1])
      BY <1>2, <2>1, <2>4
    <3>2. K[i + 1] \in Seq(U)
      BY <2>1, <3>1
    <3>3. ToSet(K[i + 1]) = ToSet(K[i]) \cup {s[i + 1]}
      BY <2>1, <3>1, ToSetAppend
    <3> QED BY <2>1, <2>2, <2>4, <3>2, <3>3
  <2> QED BY <2>3, <2>4
<1> HIDE DEF T
<1>7. Len(s) \in T
  BY <1>1, <1>5, <1>6, NatInduct
<1>8. P(Len(s))
  BY <1>1, <1>7 DEF T
<1>9. Dropping(s, set) = K[Len(s)]
  BY KeptDef DEF K
<1>10. ToSet(s) = R(Len(s))
  BY DEF ToSet, R
<1> QED BY <1>8, <1>9, <1>10

LEMMA DroppingSame ==
    ASSUME NEW U, NEW s \in Seq(U), NEW t \in Seq(U), NEW A, NEW B, Len(s) = Len(t),
           \A i \in 1 .. Len(s) : /\ s[i] \in A <=> t[i] \in B
                                  /\ s[i] \notin A => s[i] = t[i]
    PROVE  Dropping(s, A) = Dropping(t, B)
<1> DEFINE K == Kept(s, A)
           L == Kept(t, B)
           T == {i \in Nat : i <= Len(s) => K[i] = L[i]}
<1>1. Len(s) \in Nat /\ K[0] = <<>> /\ L[0] = <<>>
  BY KeptDef
<1>2. \A i \in 1 .. Len(s) : K[i] = IF s[i] \in A THEN K[i - 1] ELSE Append(K[i - 1], s[i])
  BY KeptDef
<1>3. \A i \in 1 .. Len(s) : L[i] = IF t[i] \in B THEN L[i - 1] ELSE Append(L[i - 1], t[i])
  BY KeptDef
<1>4. Dropping(s, A) = K[Len(s)] /\ Dropping(t, B) = L[Len(s)]
  BY KeptDef
<1> HIDE DEF K, L
<1>5. 0 \in T
  BY <1>1
<1>6. ASSUME NEW i \in Nat, i \in T PROVE i + 1 \in T
  <2> SUFFICES ASSUME i + 1 <= Len(s) PROVE K[i + 1] = L[i + 1]
    OBVIOUS
  <2>1. K[i] = L[i] /\ i + 1 \in 1 .. Len(s) /\ (i + 1) - 1 = i
    BY <1>1, <1>6
  <2> QED BY <2>1, <1>2, <1>3
<1> HIDE DEF T
<1>7. Len(s) \in T
  BY <1>1, <1>5, <1>6, NatInduct
<1> QED BY <1>1, <1>4, <1>7 DEF T

Associate(a, b, c) == (a \o b) \o c = a \o (b \o c)

LEMMA Associative ==
    ASSUME NEW U, NEW a \in Seq(U), NEW b \in Seq(U), NEW c \in Seq(U)
    PROVE  Associate(a, b, c)
  BY ConcatAssociative DEF Associate

LEMMA DroppingConcat ==
    ASSUME NEW U, NEW s \in Seq(U), NEW t \in Seq(U), NEW set
    PROVE  Dropping(s \o t, set) = Dropping(s, set) \o Dropping(t, set)
<1> DEFINE w == s \o t
           K == Kept(s, set)
           L == Kept(t, set)
           M == Kept(w, set)
           m == Len(s)
           n == Len(t)
           P(i) == M[i] = K[i]
           Q(i) == M[m + i] = K[m] \o L[i] /\ L[i] \in Seq(U)
           T == {i \in Nat : i <= m => P(i)}
           V == {i \in Nat : i <= n => Q(i)}
<1>0. w \in Seq(U) /\ m \in Nat /\ n \in Nat /\ Len(w) = m + n
  OBVIOUS
<1>1. /\ \A i \in 1 .. m : w[i] = s[i]
      /\ \A i \in 1 .. n : w[m + i] = t[i] /\ t[i] \in U
  OBVIOUS
<1> HIDE DEF w
<1>2. K[0] = <<>> /\ L[0] = <<>> /\ M[0] = <<>>
  BY <1>0, KeptDef
<1>3. \A i \in 1 .. m : K[i] = IF s[i] \in set THEN K[i - 1] ELSE Append(K[i - 1], s[i])
  BY KeptDef
<1>4. \A i \in 1 .. n : L[i] = IF t[i] \in set THEN L[i - 1] ELSE Append(L[i - 1], t[i])
  BY KeptDef
<1>5. \A i \in 1 .. m + n : M[i] = IF w[i] \in set THEN M[i - 1] ELSE Append(M[i - 1], w[i])
  BY <1>0, KeptDef
<1>6. Dropping(s, set) = K[m] /\ Dropping(t, set) = L[n] /\ Dropping(w, set) = M[m + n]
  BY <1>0, KeptDef
<1>7. K[m] \in Seq(U)
  BY <1>6, DroppingType
<1> HIDE DEF K, L, M, m, n
<1>8. P(0)
  BY <1>2
<1>9. ASSUME NEW i \in Nat, i + 1 <= m, P(i) PROVE P(i + 1)
  <2>1. i + 1 \in 1 .. m /\ (i + 1) - 1 = i /\ i + 1 \in 1 .. m + n
    BY <1>0, <1>9
  <2>2. K[i + 1] = IF s[i + 1] \in set THEN K[i] ELSE Append(K[i], s[i + 1])
    BY <2>1, <1>3
  <2>3. M[i + 1] = IF s[i + 1] \in set THEN M[i] ELSE Append(M[i], s[i + 1])
    BY <2>1, <1>1, <1>5
  <2> QED BY <1>9, <2>2, <2>3
<1> HIDE DEF P
<1>10. \A i \in Nat : i \in T => i + 1 \in T
  BY <1>0, <1>9
<1>11. m \in T
  <2>1. 0 \in T
    BY <1>8
  <2> HIDE DEF T
  <2> QED BY <1>0, <2>1, <1>10, NatInduct
<1>12. M[m] = K[m]
  BY <1>0, <1>11 DEF P
<1>13. Q(0)
  <2>1. K[m] \o <<>> = K[m] /\ <<>> \in Seq(U) /\ m + 0 = m
    BY <1>0, <1>7, ConcatEmptySeq
  <2> QED BY <1>2, <1>12, <2>1
<1>14. ASSUME NEW i \in Nat, i + 1 <= n, Q(i) PROVE Q(i + 1)
  <2>1. /\ i + 1 \in 1 .. n /\ (i + 1) - 1 = i
        /\ m + (i + 1) \in 1 .. m + n /\ (m + (i + 1)) - 1 = m + i
    BY <1>0, <1>14
  <2>2. t[i + 1] \in U
    BY <1>1, <2>1
  <2>3. M[m + (i + 1)] = IF t[i + 1] \in set THEN M[m + i] ELSE Append(M[m + i], t[i + 1])
    BY <2>1, <1>1, <1>5
  <2>4. L[i + 1] = IF t[i + 1] \in set THEN L[i] ELSE Append(L[i], t[i + 1])
    BY <2>1, <1>4
  <2>5. CASE t[i + 1] \in set
    BY <1>14, <2>3, <2>4, <2>5
  <2>6. CASE t[i + 1] \notin set
    <3>1. Append(K[m] \o L[i], t[i + 1]) = K[m] \o Append(L[i], t[i + 1])
      <4>1. L[i] \in Seq(U)
        BY <1>14
      <4> DEFINE a == K[m]
                 b == L[i]
                 c == <<t[i + 1]>>
      <4>2. a \in Seq(U) /\ b \in Seq(U) /\ c \in Seq(U)
        BY <1>7, <2>2, <4>1
      <4>3. Append(b, t[i + 1]) = b \o c
        BY <2>2, <4>2, AppendIsConcat
      <4>4. a \o b \in Seq(U)
        BY <4>2, ConcatProperties
      <4>5. Append(a \o b, t[i + 1]) = (a \o b) \o c
        BY <2>2, <4>4, AppendIsConcat
      <4>6. (a \o b) \o c = a \o (b \o c)
        <5> HIDE DEF a, b, c
        <5>1. Associate(a, b, c)
          BY <4>2, Associative
        <5> QED BY <5>1, Zenon DEF Associate
      <4> QED BY <4>3, <4>5, <4>6
    <3>2. Append(L[i], t[i + 1]) \in Seq(U)
      BY <1>14, <2>2
    <3> QED BY <1>14, <2>3, <2>4, <2>6, <3>1, <3>2
  <2> QED BY <2>5, <2>6
<1> HIDE DEF Q
<1>15. \A i \in Nat : i \in V => i + 1 \in V
  BY <1>0, <1>14
<1>16. n \in V
  <2>1. 0 \in V
    BY <1>13
  <2> HIDE DEF V
  <2> QED BY <1>0, <2>1, <1>15, NatInduct
<1>17. M[m + n] = K[m] \o L[n]
  <2>1. Q(n)
    BY <1>0, <1>16
  <2> QED BY ONLY <2>1, Zenon DEF Q
<1> QED BY <1>6, <1>17 DEF w

LEMMA DroppingAll ==
    ASSUME NEW U, NEW s \in Seq(U), NEW set, \A i \in 1 .. Len(s) : s[i] \in set
    PROVE  Dropping(s, set) = <<>>
<1> DEFINE D == Dropping(s, set)
<1>1. D \in Seq(U) /\ ToSet(D) = {}
  BY DroppingType DEF ToSet
<1> HIDE DEF D
<1>2. D # <<>> => D[1] \in ToSet(D)
  BY <1>1 DEF ToSet
<1> QED BY <1>1, <1>2 DEF D

LEMMA DroppingNone ==
    ASSUME NEW U, NEW s \in Seq(U), NEW set, \A i \in 1 .. Len(s) : s[i] \notin set
    PROVE  Dropping(s, set) = s
<1> DEFINE K == Kept(s, set)
           T == {i \in Nat : i <= Len(s) => K[i] = SubSeq(s, 1, i)}
<1>1. Len(s) \in Nat /\ K[0] = <<>>
  BY KeptDef
<1>2. \A i \in 1 .. Len(s) : K[i] = IF s[i] \in set THEN K[i - 1] ELSE Append(K[i - 1], s[i])
  BY KeptDef
<1>3. Dropping(s, set) = K[Len(s)]
  BY KeptDef
<1> HIDE DEF K
<1>4. 0 \in T
  <2>1. SubSeq(s, 1, 0) = <<>>
    BY SubSeqEmpty
  <2> QED BY <1>1, <2>1
<1>5. ASSUME NEW i \in Nat, i \in T PROVE i + 1 \in T
  <2> SUFFICES ASSUME i + 1 <= Len(s) PROVE K[i + 1] = SubSeq(s, 1, i + 1)
    OBVIOUS
  <2>1. K[i] = SubSeq(s, 1, i) /\ i + 1 \in 1 .. Len(s) /\ (i + 1) - 1 = i
    BY <1>1, <1>5
  <2>2. K[i + 1] = Append(SubSeq(s, 1, i), s[i + 1])
    BY <2>1, <1>2
  <2>3. SubSeq(s, 1, i + 1) = Append(SubSeq(s, 1, i), s[i + 1])
    BY <2>1
  <2> QED BY <2>2, <2>3
<1> HIDE DEF T
<1>6. Len(s) \in T
  BY <1>1, <1>4, <1>5, NatInduct
<1>7. SubSeq(s, 1, Len(s)) = s
  BY <1>1
<1> QED BY <1>1, <1>3, <1>6, <1>7 DEF T


LEMMA PositionFacts ==
    ASSUME NEW U, NEW s \in Seq(U), NEW tok
    PROVE  /\ Position(s, tok) \in 0 .. Len(s)
           /\ Position(s, tok) # 0 => s[Position(s, tok)] = tok
           /\ \A j \in 1 .. Position(s, tok) - 1 : s[j] # tok
           /\ Position(s, tok) = 0 => \A j \in 1 .. Len(s) : s[j] # tok
<1> DEFINE I == {i \in 1 .. Len(s) : s[i] = tok}
<1>1. Len(s) \in Nat
  OBVIOUS
<1>2. Position(s, tok) = IF I # {} THEN Min(I) ELSE 0
  BY DEF Position, SelectInSeq
<1>3. CASE I = {}
  BY <1>1, <1>2, <1>3
<1>4. CASE I # {}
  <2>1. I \subseteq Nat
    OBVIOUS
  <2>2. Min(I) \in I /\ \A n \in I : Min(I) <= n
    BY <1>4, <2>1, MinOfSet
  <2>3. Position(s, tok) = Min(I)
    BY <1>2, <1>4
  <2>4. Min(I) \in 1 .. Len(s) /\ s[Min(I)] = tok
    BY <2>2
  <2>5. \A j \in 1 .. Min(I) - 1 : j \in 1 .. Len(s) /\ ~ (Min(I) <= j)
    BY <2>4, <1>1
  <2>6. \A j \in 1 .. Min(I) - 1 : s[j] # tok
    BY <2>2, <2>5
  <2> HIDE DEF I
  <2> QED BY <1>1, <2>3, <2>4, <2>6
<1> QED BY <1>3, <1>4

LEMMA PositionIs ==
    ASSUME NEW U, NEW s \in Seq(U), NEW tok, NEW i \in 1 .. Len(s),
           s[i] = tok, \A j \in 1 .. i - 1 : s[j] # tok
    PROVE  Position(s, tok) = i
<1> DEFINE n == Position(s, tok)
<1>1. /\ n \in 0 .. Len(s) /\ Len(s) \in Nat
      /\ n # 0 => s[n] = tok
      /\ \A j \in 1 .. n - 1 : s[j] # tok
      /\ n = 0 => \A j \in 1 .. Len(s) : s[j] # tok
  BY PositionFacts
<1> HIDE DEF n
<1>2. n # 0
  BY <1>1
<1>3. ~ (n < i)
  <2> SUFFICES ASSUME n < i PROVE FALSE
    OBVIOUS
  <2>1. n \in 1 .. i - 1
    BY <1>1, <1>2
  <2> QED BY <1>1, <1>2, <2>1
<1>4. ~ (i < n)
  <2> SUFFICES ASSUME i < n PROVE FALSE
    OBVIOUS
  <2>1. i \in 1 .. n - 1
    BY <1>1
  <2> QED BY <1>1, <2>1
<1>5. n = i
  BY <1>1, <1>3, <1>4
<1> QED BY <1>5 DEF n

LEMMA PositionNone ==
    ASSUME NEW U, NEW s \in Seq(U), NEW tok, \A j \in 1 .. Len(s) : s[j] # tok
    PROVE  Position(s, tok) = 0
<1> DEFINE n == Position(s, tok)
<1>1. n \in 0 .. Len(s) /\ Len(s) \in Nat /\ (n # 0 => s[n] = tok)
  BY PositionFacts
<1> HIDE DEF n
<1>2. n \in 1 .. Len(s) => s[n] # tok
  OBVIOUS
<1>3. n = 0
  BY <1>1, <1>2
<1> QED BY <1>3 DEF n

LEMMA NextHeadingFacts ==
    ASSUME NEW U, NEW s \in Seq(U), NEW i \in Nat \ {0}, NEW set, "none" \notin set
    PROVE  /\ NextHeading(s, i, set) \in Nat
           /\ \/ /\ NextHeading(s, i, set) = Len(s) + 1
                 /\ \A j \in i .. Len(s) - 1 : ~ (s[j] = NL /\ s[j + 1] \in set)
              \/ /\ NextHeading(s, i, set) \in i + 1 .. Len(s)
                 /\ s[NextHeading(s, i, set) - 1] = NL /\ s[NextHeading(s, i, set)] \in set
                 /\ \A j \in i .. NextHeading(s, i, set) - 2 : ~ (s[j] = NL /\ s[j + 1] \in set)
<1> DEFINE found == {j \in i .. Len(s) : s[j] = NL /\ At(s, j + 1) \in set}
           n == NextHeading(s, i, set)
<1>1. Len(s) \in Nat /\ DOMAIN s = 1 .. Len(s)
  OBVIOUS
<1>2. n = IF found = {} THEN Len(s) + 1 ELSE Min(found) + 1
  BY DEF NextHeading
<1>3. \A j \in i .. Len(s) : At(s, j + 1) \in set => j + 1 \in 1 .. Len(s) /\ At(s, j + 1) = s[j + 1]
  BY <1>1 DEF At
<1>4. \A j \in i .. Len(s) - 1 : At(s, j + 1) = s[j + 1] /\ j \in i .. Len(s)
  BY <1>1 DEF At
<1>5. CASE found = {}
  <2>1. \A j \in i .. Len(s) - 1 : ~ (s[j] = NL /\ s[j + 1] \in set)
    BY <1>4, <1>5
  <2> HIDE DEF found
  <2> QED BY <1>1, <1>2, <1>5, <2>1
<1>6. CASE found # {}
  <2> DEFINE m == Min(found)
  <2>1. found \subseteq Nat
    OBVIOUS
  <2>2. m \in found /\ \A k \in found : m <= k
    BY <1>6, <2>1, MinOfSet
  <2>3. m \in i .. Len(s) /\ s[m] = NL /\ m + 1 \in 1 .. Len(s) /\ s[m + 1] \in set
    BY <2>2, <1>3
  <2>4. ASSUME NEW j \in i .. m - 1 PROVE ~ (s[j] = NL /\ s[j + 1] \in set)
    <3>1. j \in i .. Len(s) - 1 /\ ~ (m <= j)
      BY <1>1, <2>3
    <3>2. j \notin found
      BY <2>2, <3>1
    <3> QED BY <1>4, <3>1, <3>2
  <2>5. n = m + 1
    BY <1>2, <1>6
  <2> HIDE DEF m, n, found
  <2>6. n \in i + 1 .. Len(s) /\ n - 1 = m /\ n - 2 = m - 1 /\ n \in Nat
    BY <1>1, <2>3, <2>5
  <2>7. s[n - 1] = NL /\ s[n] \in set
    BY <2>3, <2>5, <2>6
  <2> QED BY <2>4, <2>6, <2>7 DEF n
<1> QED BY <1>5, <1>6

LEMMA NextHeadingIs ==
    ASSUME NEW U, NEW s \in Seq(U), NEW i \in Nat \ {0}, NEW set, "none" \notin set,
           NEW n \in i + 1 .. Len(s), s[n - 1] = NL, s[n] \in set,
           \A j \in i .. n - 2 : ~ (s[j] = NL /\ s[j + 1] \in set)
    PROVE  NextHeading(s, i, set) = n
<1> DEFINE m == NextHeading(s, i, set)
<1>0. Len(s) \in Nat
  OBVIOUS
<1>1. /\ m \in Nat
      /\ \/ /\ m = Len(s) + 1
            /\ \A j \in i .. Len(s) - 1 : ~ (s[j] = NL /\ s[j + 1] \in set)
         \/ /\ m \in i + 1 .. Len(s)
            /\ s[m - 1] = NL /\ s[m] \in set
            /\ \A j \in i .. m - 2 : ~ (s[j] = NL /\ s[j + 1] \in set)
  BY NextHeadingFacts, Zenon
<1> HIDE DEF m
<1>2. n - 1 \in i .. Len(s) - 1 /\ (n - 1) + 1 = n
  BY <1>0, <1>1
<1>3. m \in i + 1 .. Len(s) /\ s[m - 1] = NL /\ s[m] \in set
      /\ \A j \in i .. m - 2 : ~ (s[j] = NL /\ s[j + 1] \in set)
  BY <1>1, <1>2
<1>4. ~ (n < m)
  <2> SUFFICES ASSUME n < m PROVE FALSE
    OBVIOUS
  <2>1. n - 1 \in i .. m - 2
    BY <1>3
  <2> QED BY <1>2, <1>3, <2>1
<1>5. ~ (m < n)
  <2> SUFFICES ASSUME m < n PROVE FALSE
    OBVIOUS
  <2>1. m - 1 \in i .. n - 2 /\ (m - 1) + 1 = m
    BY <1>3
  <2> QED BY <1>3, <2>1
<1>6. m = n
  BY <1>3, <1>4, <1>5
<1> QED BY <1>6 DEF m

LEMMA NextHeadingNone ==
    ASSUME NEW U, NEW s \in Seq(U), NEW i \in Nat \ {0}, NEW set, "none" \notin set,
           \A j \in i .. Len(s) - 1 : ~ (s[j] = NL /\ s[j + 1] \in set)
    PROVE  NextHeading(s, i, set) = Len(s) + 1
<1> DEFINE m == NextHeading(s, i, set)
<1>1. /\ m \in Nat /\ Len(s) \in Nat
      /\ \/ m = Len(s) + 1
         \/ m \in i + 1 .. Len(s) /\ s[m - 1] = NL /\ s[m] \in set
  BY NextHeadingFacts
<1> HIDE DEF m
<1>2. CASE m \in i + 1 .. Len(s) /\ s[m - 1] = NL /\ s[m] \in set
  <2>1. m - 1 \in i .. Len(s) - 1 /\ (m - 1) + 1 = m
    BY <1>2, <1>1
  <2> QED BY <1>2, <2>1
<1>3. m = Len(s) + 1
  BY <1>1, <1>2
<1> QED BY <1>3 DEF m

LEMMA TrimEndFacts ==
    ASSUME NEW U, NEW s \in Seq(U)
    PROVE  \E k \in 0 .. Len(s) :
              /\ TrimEnd(s) = Upto(s, k)
              /\ \A j \in k + 1 .. Len(s) : s[j] = NL
<1> DEFINE I == {i \in 1 .. Len(s) : s[i] # NL}
           k == IF I # {} THEN Max(I) ELSE 0
<1>1. Len(s) \in Nat
  OBVIOUS
<1>2. TrimEnd(s) = Upto(s, k)
  BY DEF TrimEnd, SelectLastInSeq
<1>3. CASE I = {}
  <2>1. k = 0 /\ \A j \in 1 .. Len(s) : s[j] = NL
    BY <1>3
  <2> HIDE DEF k, I
  <2> QED BY <1>1, <1>2, <2>1
<1>4. CASE I # {}
  <2>1. I \subseteq 0 .. Len(s)
    OBVIOUS
  <2>2. Max(I) \in I /\ \A n \in I : n <= Max(I)
    <3> HIDE DEF I
    <3> QED BY <1>1, <1>4, <2>1, MaxOfSet
  <2>3. k = Max(I) /\ k \in 1 .. Len(s)
    BY <1>4, <2>2
  <2>4. ASSUME NEW j \in k + 1 .. Len(s) PROVE s[j] = NL
    <3>1. j \in 1 .. Len(s) /\ ~ (j <= k)
      BY <2>3, <1>1
    <3> QED BY <2>2, <2>3, <3>1
  <2> HIDE DEF k, I
  <2> QED BY <1>1, <1>2, <2>3, <2>4
<1> QED BY <1>3, <1>4


IsTwo(s, a, b) == a \in Seq(Tokens) /\ b \in Seq(Tokens) /\ s = a \o b
IsThree(s, a, b, c) ==
    a \in Seq(Tokens) /\ b \in Seq(Tokens) /\ c \in Seq(Tokens) /\ s = (a \o b) \o c

AreParts(s, a, b, c) ==
    /\ s \in Seq(Tokens) /\ Len(s) = Len(a) + Len(b) + Len(c)
    /\ Len(a) \in Nat /\ Len(b) \in Nat /\ Len(c) \in Nat
    /\ \A i \in 1 .. Len(a) : s[i] = a[i]
    /\ \A i \in 1 .. Len(b) : s[Len(a) + i] = b[i]
    /\ \A i \in 1 .. Len(c) : s[Len(a) + Len(b) + i] = c[i]

\* The parts of a text of three, and where they are.
LEMMA PartsOfThree ==
    ASSUME NEW a, NEW b, NEW c, NEW s, IsThree(s, a, b, c)
    PROVE  AreParts(s, a, b, c)
<1>0. a \in Seq(Tokens) /\ b \in Seq(Tokens) /\ c \in Seq(Tokens) /\ s = (a \o b) \o c
  BY DEF IsThree
<1>1. /\ Len(a) \in Nat /\ Len(b) \in Nat /\ Len(c) \in Nat
      /\ s \in Seq(Tokens) /\ Len(s) = Len(a) + Len(b) + Len(c)
  BY <1>0
<1>2. \A i \in 1 .. Len(a) : s[i] = a[i]
  BY <1>0
<1>3. \A i \in 1 .. Len(b) : s[Len(a) + i] = b[i]
  BY <1>0
<1>4. \A i \in 1 .. Len(c) : s[Len(a) + Len(b) + i] = c[i]
  BY <1>0
<1> QED BY <1>1, <1>2, <1>3, <1>4 DEF AreParts

LEMMA CutsOfThree ==
    ASSUME NEW a, NEW b, NEW c, NEW s, IsThree(s, a, b, c)
    PROVE  /\ Upto(s, Len(a)) = a
           /\ From(s, Len(a) + Len(b) + 1) = c
           /\ SubSeq(s, Len(a) + 1, Len(a) + Len(b)) = b
<1>0. a \in Seq(Tokens) /\ b \in Seq(Tokens) /\ c \in Seq(Tokens) /\ s = (a \o b) \o c
  BY DEF IsThree
<1>1. Upto(s, Len(a)) = a
  BY <1>0 DEF Upto
<1>3. From(s, Len(a) + Len(b) + 1) = c
  BY <1>0 DEF From
<1>4. SubSeq(s, Len(a) + 1, Len(a) + Len(b)) = b
  BY <1>0
<1> QED BY <1>1, <1>3, <1>4

LEMMA TwoInTwo ==
    ASSUME NEW a, NEW b, NEW c, NEW r, NEW s, IsTwo(s, a, r), IsTwo(r, b, c)
    PROVE  IsThree(s, a, b, c)
<1>1. a \in Seq(Tokens) /\ b \in Seq(Tokens) /\ c \in Seq(Tokens) /\ r = b \o c /\ s = a \o r
  BY DEF IsTwo
<1>2. Associate(a, b, c)
  BY <1>1, Associative
<1>3. s = (a \o b) \o c
  BY <1>1, <1>2, Zenon DEF Associate
<1> QED BY <1>1, <1>3 DEF IsThree

\* A text cut at a token is the two pieces.
LEMMA CutInTwo ==
    ASSUME NEW s \in Seq(Tokens), NEW i \in 0 .. Len(s)
    PROVE  /\ Upto(s, i) \in Seq(Tokens) /\ From(s, i + 1) \in Seq(Tokens)
           /\ Len(Upto(s, i)) = i /\ Len(From(s, i + 1)) = Len(s) - i
           /\ \A j \in 1 .. i : Upto(s, i)[j] = s[j]
           /\ \A j \in 1 .. Len(s) - i : From(s, i + 1)[j] = s[i + j]
           /\ IsTwo(s, Upto(s, i), From(s, i + 1))
<1>1. Len(s) \in Nat
  OBVIOUS
<1>2. Upto(s, i) \in Seq(Tokens) /\ From(s, i + 1) \in Seq(Tokens)
  BY <1>1 DEF Upto, From
<1>3. Len(Upto(s, i)) = i /\ Len(From(s, i + 1)) = Len(s) - i
  BY <1>1 DEF Upto, From
<1>4. \A j \in 1 .. i : Upto(s, i)[j] = s[j]
  BY <1>1 DEF Upto
<1>5. \A j \in 1 .. Len(s) - i : From(s, i + 1)[j] = s[i + j]
  BY <1>1 DEF From
<1>6. s = Upto(s, i) \o From(s, i + 1)
  <2> DEFINE p == Upto(s, i)
             q == From(s, i + 1)
             w == p \o q
  <2>1. /\ p \in Seq(Tokens) /\ q \in Seq(Tokens) /\ Len(p) = i /\ Len(q) = Len(s) - i
        /\ \A j \in 1 .. i : p[j] = s[j]
        /\ \A j \in 1 .. Len(s) - i : q[j] = s[i + j]
    BY <1>2, <1>3, <1>4, <1>5
  <2> HIDE DEF p, q
  <2>2. w \in Seq(Tokens) /\ Len(w) = Len(s)
    BY <1>1, <2>1
  <2>3. \A j \in 1 .. i : w[j] = p[j]
    BY <1>1, <2>1
  <2>4. \A j \in 1 .. Len(q) : w[Len(p) + j] = q[j]
    BY <1>1, <2>1
  <2> HIDE DEF w
  <2>5. ASSUME NEW j \in 1 .. Len(s) PROVE w[j] = s[j]
    <3>1. CASE j <= i
      BY <1>1, <2>1, <2>3, <3>1
    <3>2. CASE j > i
      <4> DEFINE k == j - i
      <4>1. k \in 1 .. Len(q) /\ i + k = j /\ k \in 1 .. Len(s) - i
        BY <1>1, <2>1, <3>2
      <4> HIDE DEF k
      <4>2. w[Len(p) + k] = q[k]
        BY <2>4, <4>1
      <4>3. q[k] = s[i + k]
        BY <2>1, <4>1
      <4> QED BY <2>1, <4>1, <4>2, <4>3
    <3> QED BY <1>1, <3>1, <3>2
  <2>6. w = s
    BY <2>2, <2>5, SeqEqual
  <2> QED BY <2>6 DEF w, p, q
<1>7. IsTwo(s, Upto(s, i), From(s, i + 1))
  BY <1>2, <1>6, Zenon DEF IsTwo
<1> QED BY <1>2, <1>3, <1>4, <1>5, <1>7

LEMMA NLFacts == NL \in Tokens /\ NL \notin Traces /\ {"title", "head", "anchor"} \cap Traces = {}
                 /\ Fixed \subseteq Tokens
<1>1. \A v \in DOMAIN Body : Body[v] \notin {NL, "title", "head", "anchor"}
  BY BodyAssumption DEF Fixed, BodyAssumption
<1>2. NL \notin Traces
  BY <1>1 DEF Traces, NL
<1>3. "title" \notin Traces /\ "head" \notin Traces /\ "anchor" \notin Traces
  BY <1>1 DEF Traces
<1>4. NL \in Tokens /\ Fixed \subseteq Tokens
  BY DEF Tokens, Fixed
<1> QED BY <1>2, <1>3, <1>4

LEMMA BlockFacts ==
    ASSUME NEW v \in DOMAIN Body
    PROVE  /\ Block(v) \in Seq(Tokens) /\ Len(Block(v)) = 7
           /\ Block(v)[1] = "begin" /\ Block(v)[2] = NL /\ Block(v)[3] = "tools"
           /\ Block(v)[4] = NL /\ Block(v)[5] = Body[v] /\ Block(v)[6] = NL
           /\ Block(v)[7] = "end"
<1>1. "begin" \in Tokens /\ NL \in Tokens /\ "tools" \in Tokens /\ "end" \in Tokens
      /\ Body[v] \in Tokens
  BY DEF Tokens, Fixed, NL
<1> QED BY <1>1 DEF Block

LEMMA BodyFacts ==
    ASSUME NEW v \in DOMAIN Body
    PROVE  Body[v] \notin Fixed /\ Body[v] \notin Words /\ Body[v] \in Traces
  BY BodyAssumption DEF BodyAssumption, Traces

LEMMA LineEnd == /\ <<NL>> \in Seq(Tokens) /\ Len(<<NL>>) = 1 /\ <<NL>>[1] = NL /\ Bare(<<NL>>)
                 /\ <<NL>> # <<>>
<1>1. NL \in Tokens /\ NL \notin Traces
  BY NLFacts
<1>2. DOMAIN <<NL>> = {1} /\ <<NL>>[1] = NL
  OBVIOUS
<1> QED BY <1>1, <1>2 DEF Bare

LEMMA BareEmpty == Bare(<<>>)
  BY DEF Bare

LEMMA BareConcat ==
    ASSUME NEW p \in Seq(Tokens), NEW q \in Seq(Tokens), Bare(p), Bare(q)
    PROVE  Bare(p \o q)
<1>1. ToSet(p \o q) = ToSet(p) \cup ToSet(q)
  BY ToSetConcat
<1>2. ToSet(p) \cap Traces = {} /\ ToSet(q) \cap Traces = {}
  BY DEF Bare, ToSet
<1> DEFINE w == p \o q
<1>3. ToSet(w) \cap Traces = {}
  BY <1>1, <1>2
<1> HIDE DEF w
<1>4. Bare(w)
  BY <1>3 DEF Bare, ToSet
<1> QED BY <1>4 DEF w

LEMMA BareParts ==
    ASSUME NEW s \in Seq(Tokens), NEW i \in 0 .. Len(s), Bare(s)
    PROVE  Bare(Upto(s, i)) /\ Bare(From(s, i + 1))
<1> DEFINE p == Upto(s, i)
           q == From(s, i + 1)
<1>1. /\ p \in Seq(Tokens) /\ q \in Seq(Tokens) /\ Len(p) = i /\ Len(q) = Len(s) - i
      /\ \A j \in 1 .. i : p[j] = s[j]
      /\ \A j \in 1 .. Len(s) - i : q[j] = s[i + j]
      /\ Len(s) \in Nat
  BY CutInTwo
<1> HIDE DEF p, q
<1>2. \A j \in 1 .. Len(s) : s[j] \notin Traces
  BY DEF Bare
<1>3. \A j \in 1 .. i : p[j] \notin Traces
  BY <1>1, <1>2
<1>4. \A j \in 1 .. Len(s) - i : q[j] \notin Traces
  BY <1>1, <1>2
<1> QED BY <1>1, <1>3, <1>4 DEF Bare, p, q


LEMMA TraceFacts ==
    /\ "begin" \in Traces /\ "end" \in Traces /\ "tools" \in Traces /\ "old" \in Traces
    /\ "begin" # NL /\ "end" # NL /\ "tools" # NL /\ "none" # NL
    /\ "begin" # "end" /\ "begin" # "tools" /\ "end" # "tools" /\ "begin" # "old" /\ "end" # "old"
    /\ "begin" \notin Title /\ "begin" \notin Heading
    /\ "none" \notin Heading /\ "none" \notin Title /\ "none" # "begin" /\ NL \notin Title
    /\ \A v \in DOMAIN Body : Body[v] \in Traces /\ Body[v] \notin Fixed
<1>1. "begin" \in Traces /\ "end" \in Traces /\ "tools" \in Traces /\ "old" \in Traces
  BY DEF Traces
<1>2. \A v \in DOMAIN Body : Body[v] \in Traces /\ Body[v] \notin Fixed
  BY BodyFacts
<1>3. /\ "begin" # NL /\ "end" # NL /\ "tools" # NL /\ "none" # NL
      /\ "begin" # "end" /\ "begin" # "tools" /\ "end" # "tools" /\ "begin" # "old" /\ "end" # "old"
      /\ "begin" \notin Title /\ "begin" \notin Heading
      /\ "none" \notin Heading /\ "none" \notin Title /\ "none" # "begin" /\ NL \notin Title
  BY DEF NL, Title, Heading
<1> QED BY <1>1, <1>2, <1>3

---------------------------------------------------------------------------
IsBlocked(s, p, v, q) ==
    /\ p \in Seq(Tokens) /\ q \in Seq(Tokens) /\ v \in DOMAIN Body
    /\ Bare(p) /\ Bare(q) /\ IsThree(s, p, Block(v), q)

LEMMA BlockedHas ==
    ASSUME NEW s \in Seq(Tokens), Blocked(s)
    PROVE  \E p, q \in Seq(Tokens), v \in DOMAIN Body : IsBlocked(s, p, v, q)
<1>1. PICK i \in 1 .. Len(s) - 6, v \in DOMAIN Body :
         SubSeq(s, i, i + 6) = Block(v) /\ Bare(Upto(s, i - 1)) /\ Bare(From(s, i + 7))
  BY DEF Blocked
<1>2. Len(s) \in Nat
  OBVIOUS
<1> DEFINE p == Upto(s, i - 1)
           r == From(s, i)
           q == From(s, i + 7)
<1>3. i - 1 \in 0 .. Len(s) /\ (i - 1) + 1 = i
  BY <1>2
<1>4. p \in Seq(Tokens) /\ r \in Seq(Tokens) /\ IsTwo(s, p, r) /\ Len(r) = Len(s) - (i - 1)
  <2>1. \A k \in 0 .. Len(s) : /\ Upto(s, k) \in Seq(Tokens) /\ From(s, k + 1) \in Seq(Tokens)
                               /\ IsTwo(s, Upto(s, k), From(s, k + 1))
                               /\ Len(From(s, k + 1)) = Len(s) - k
    BY CutInTwo
  <2> QED BY <2>1, <1>3
<1>5. i + 6 \in 0 .. Len(s) /\ (i + 6) + 1 = i + 7
  BY <1>2
<1>7. 7 \in 0 .. Len(r) /\ 7 + 1 = 8
  BY <1>2, <1>4
<1>8. IsTwo(r, Upto(r, 7), From(r, 8))
  <2> HIDE DEF r
  <2>1. IsTwo(r, Upto(r, 7), From(r, 7 + 1))
    BY <1>4, <1>7, CutInTwo
  <2> QED BY <2>1, <1>7
<1>9. Upto(r, 7) = SubSeq(s, i, i + 6) /\ From(r, 8) = q
  BY <1>2 DEF Upto, From
<1>10. IsTwo(r, Block(v), q)
  BY <1>1, <1>8, <1>9
<1>11. IsThree(s, p, Block(v), q)
  <2> HIDE DEF p, q, r
  <2> QED BY <1>4, <1>10, TwoInTwo
<1>12. q \in Seq(Tokens)
  BY <1>11 DEF IsThree
<1> QED BY <1>1, <1>4, <1>11, <1>12 DEF IsBlocked

LEMMA BlockedAt ==
    ASSUME NEW s, NEW p, NEW v, NEW q, IsBlocked(s, p, v, q)
    PROVE  /\ s \in Seq(Tokens) /\ p \in Seq(Tokens) /\ q \in Seq(Tokens) /\ v \in DOMAIN Body
           /\ Len(s) = Len(p) + 7 + Len(q) /\ Len(p) \in Nat /\ Len(q) \in Nat
           /\ \A i \in 1 .. Len(p) : s[i] = p[i] /\ s[i] \notin Traces
           /\ s[Len(p) + 1] = "begin" /\ s[Len(p) + 2] = NL /\ s[Len(p) + 3] = "tools"
           /\ s[Len(p) + 4] = NL /\ s[Len(p) + 5] = Body[v] /\ s[Len(p) + 6] = NL
           /\ s[Len(p) + 7] = "end"
           /\ \A i \in 1 .. Len(q) : s[Len(p) + 7 + i] = q[i] /\ q[i] \notin Traces
<1> DEFINE b == Block(v)
<1>1. p \in Seq(Tokens) /\ q \in Seq(Tokens) /\ v \in DOMAIN Body /\ Bare(p) /\ Bare(q)
      /\ IsThree(s, p, b, q)
  BY DEF IsBlocked
<1>2. /\ b \in Seq(Tokens) /\ Len(b) = 7
      /\ b[1] = "begin" /\ b[2] = NL /\ b[3] = "tools"
      /\ b[4] = NL /\ b[5] = Body[v] /\ b[6] = NL /\ b[7] = "end"
  BY <1>1, BlockFacts
<1> HIDE DEF b
<1>3. /\ s \in Seq(Tokens) /\ Len(s) = Len(p) + Len(b) + Len(q)
      /\ Len(p) \in Nat /\ Len(b) \in Nat /\ Len(q) \in Nat
      /\ \A i \in 1 .. Len(p) : s[i] = p[i]
      /\ \A i \in 1 .. Len(b) : s[Len(p) + i] = b[i]
      /\ \A i \in 1 .. Len(q) : s[Len(p) + Len(b) + i] = q[i]
  BY <1>1, PartsOfThree DEF AreParts
<1>4. (\A i \in 1 .. Len(p) : p[i] \notin Traces) /\ (\A i \in 1 .. Len(q) : q[i] \notin Traces)
  BY <1>1 DEF Bare
<1>5. \A i \in 1 .. 7 : s[Len(p) + i] = b[i]
  BY <1>2, <1>3
<1>6. /\ s[Len(p) + 1] = "begin" /\ s[Len(p) + 2] = NL /\ s[Len(p) + 3] = "tools"
      /\ s[Len(p) + 4] = NL /\ s[Len(p) + 5] = Body[v] /\ s[Len(p) + 6] = NL
      /\ s[Len(p) + 7] = "end"
  BY <1>2, <1>5
<1>7. \A i \in 1 .. Len(q) : s[Len(p) + 7 + i] = q[i] /\ q[i] \notin Traces
  BY <1>2, <1>3, <1>4
<1> QED BY <1>1, <1>2, <1>3, <1>4, <1>6, <1>7

LEMMA BlockedPositions ==
    ASSUME NEW s, NEW p, NEW v, NEW q, IsBlocked(s, p, v, q)
    PROVE  /\ Position(s, "begin") = Len(p) + 1
           /\ Position(s, "end") = Len(p) + 7
           /\ Position(s, "tools") = Len(p) + 3
<1>1. /\ s \in Seq(Tokens) /\ v \in DOMAIN Body
      /\ Len(s) = Len(p) + 7 + Len(q) /\ Len(p) \in Nat /\ Len(q) \in Nat
      /\ \A i \in 1 .. Len(p) : s[i] \notin Traces
      /\ s[Len(p) + 1] = "begin" /\ s[Len(p) + 2] = NL /\ s[Len(p) + 3] = "tools"
      /\ s[Len(p) + 4] = NL /\ s[Len(p) + 5] = Body[v] /\ s[Len(p) + 6] = NL
      /\ s[Len(p) + 7] = "end"
  BY BlockedAt
<1>2. Body[v] # "end" /\ "end" \in Traces /\ "begin" \in Traces /\ "tools" \in Traces
      /\ NL # "end" /\ NL # "tools"
  BY <1>1, TraceFacts DEF Fixed
<1>3. \A j \in 1 .. (Len(p) + 1) - 1 : s[j] # "begin"
  BY <1>1, <1>2
<1>4. \A j \in 1 .. (Len(p) + 7) - 1 : s[j] # "end"
  <2> TAKE j \in 1 .. (Len(p) + 7) - 1
  <2>1. \/ j \in 1 .. Len(p)
        \/ j = Len(p) + 1 \/ j = Len(p) + 2 \/ j = Len(p) + 3 \/ j = Len(p) + 4
        \/ j = Len(p) + 5 \/ j = Len(p) + 6
    BY <1>1
  <2> QED BY <1>1, <1>2, <2>1
<1>5. \A j \in 1 .. (Len(p) + 3) - 1 : s[j] # "tools"
  <2> TAKE j \in 1 .. (Len(p) + 3) - 1
  <2>1. j \in 1 .. Len(p) \/ j = Len(p) + 1 \/ j = Len(p) + 2
    BY <1>1
  <2> QED BY <1>1, <1>2, <2>1
<1>6. Len(p) + 1 \in 1 .. Len(s) /\ Len(p) + 3 \in 1 .. Len(s) /\ Len(p) + 7 \in 1 .. Len(s)
  BY <1>1
<1>7. Position(s, "begin") = Len(p) + 1
  BY <1>1, <1>3, <1>6, PositionIs
<1>8. Position(s, "end") = Len(p) + 7
  BY <1>1, <1>4, <1>6, PositionIs
<1>9. Position(s, "tools") = Len(p) + 3
  BY <1>1, <1>5, <1>6, PositionIs
<1> QED BY <1>7, <1>8, <1>9

LEMMA BlockedMakes ==
    ASSUME NEW s, NEW p, NEW v, NEW q, IsBlocked(s, p, v, q)
    PROVE  WellFormed(s)
<1> DEFINE i == Len(p) + 1
           b == Block(v)
<1>1. p \in Seq(Tokens) /\ q \in Seq(Tokens) /\ v \in DOMAIN Body /\ Bare(p) /\ Bare(q)
      /\ IsThree(s, p, b, q)
  BY DEF IsBlocked
<1>2. b \in Seq(Tokens) /\ Len(b) = 7
  BY <1>1, BlockFacts
<1>3. s \in Seq(Tokens) /\ Len(s) = Len(p) + 7 + Len(q) /\ Len(p) \in Nat /\ Len(q) \in Nat
  BY BlockedAt
<1>4. /\ Upto(s, Len(p)) = p /\ From(s, Len(p) + Len(b) + 1) = q
      /\ SubSeq(s, Len(p) + 1, Len(p) + Len(b)) = b
  <2> HIDE DEF b
  <2> QED BY <1>1, <1>2, CutsOfThree
<1>5. i - 1 = Len(p) /\ i + 6 = Len(p) + Len(b) /\ i + 7 = Len(p) + Len(b) + 1
      /\ i \in 1 .. Len(s) - 6
  BY <1>2, <1>3
<1>6. SubSeq(s, i, i + 6) = b /\ Bare(Upto(s, i - 1)) /\ Bare(From(s, i + 7))
  BY <1>1, <1>4, <1>5
<1> HIDE DEF i
<1>7. Blocked(s)
  BY <1>1, <1>5, <1>6 DEF Blocked
<1> QED BY <1>3, <1>7 DEF WellFormed


\* A section of an older ig: m from its heading to the next one.
IsSectioned(s, p, m, q) ==
    /\ IsThree(s, p, m, q) /\ Bare(p) /\ Bare(q)
    /\ Len(p) >= 1 /\ p[Len(p)] = NL
    /\ Len(m) >= 1 /\ m[1] = "tools"
    /\ \A j \in 2 .. Len(m) : m[j] \notin Traces \ {"old"}
    /\ \A j \in 2 .. Len(m) - 1 : ~ (m[j] = NL /\ m[j + 1] \in Heading)
    /\ q = <<>> \/ (Len(m) >= 2 /\ m[Len(m)] = NL /\ q[1] \in Heading)

LEMMA AtIs ==
    ASSUME NEW s \in Seq(Tokens), NEW i \in Nat, NEW x, x # "none", At(s, i) = x
    PROVE  i \in 1 .. Len(s) /\ s[i] = x
  BY DEF At

IsRest(r, s, k) ==
    r \in Seq(Tokens) /\ Len(r) = Len(s) - k /\ \A j \in 1 .. Len(s) - k : r[j] = s[k + j]

LEMMA RestIs ==
    ASSUME NEW s \in Seq(Tokens), NEW k \in 0 .. Len(s), NEW i, i = k + 1
    PROVE  IsRest(From(s, i), s, k)
  BY CutInTwo DEF IsRest

LEMMA RestsAreEqual ==
    ASSUME NEW s \in Seq(Tokens), NEW q, NEW r, NEW k \in 0 .. Len(s), IsRest(q, s, k), IsRest(r, s, k)
    PROVE  q = r
<1>1. /\ q \in Seq(Tokens) /\ r \in Seq(Tokens) /\ Len(s) \in Nat
      /\ Len(q) = Len(s) - k /\ Len(r) = Len(s) - k
      /\ \A j \in 1 .. Len(s) - k : q[j] = s[k + j] /\ r[j] = s[k + j]
  BY DEF IsRest
<1>2. \A j \in 1 .. Len(q) : q[j] = r[j]
  BY <1>1
<1> QED BY <1>1, <1>2, SeqEqual

LEMMA RestOfRest ==
    ASSUME NEW s \in Seq(Tokens), NEW r, NEW k \in 0 .. Len(s), IsRest(r, s, k),
           NEW l \in 0 .. Len(s) - k, NEW q, IsRest(q, r, l)
    PROVE  IsRest(q, s, k + l)
<1>1. /\ r \in Seq(Tokens) /\ Len(s) \in Nat /\ Len(r) = Len(s) - k
      /\ \A j \in 1 .. Len(s) - k : r[j] = s[k + j]
  BY DEF IsRest
<1>2. /\ q \in Seq(Tokens) /\ Len(q) = Len(r) - l
      /\ \A j \in 1 .. Len(r) - l : q[j] = r[l + j]
  BY DEF IsRest
<1>3. Len(q) = Len(s) - (k + l)
  BY <1>1, <1>2
<1>4. ASSUME NEW j \in 1 .. Len(s) - (k + l) PROVE q[j] = s[(k + l) + j]
  <2>1. j \in 1 .. Len(r) - l /\ l + j \in 1 .. Len(s) - k /\ k + (l + j) = (k + l) + j
    BY <1>1
  <2> QED BY <1>1, <1>2, <2>1
<1> QED BY <1>2, <1>3, <1>4 DEF IsRest

LEMMA FromFrom ==
    ASSUME NEW s \in Seq(Tokens), NEW k \in 0 .. Len(s), NEW l \in 0 .. Len(s) - k
    PROVE  From(From(s, k + 1), l + 1) = From(s, (k + l) + 1)
<1> DEFINE r == From(s, k + 1)
           q == From(r, l + 1)
           t == From(s, (k + l) + 1)
<1>1. IsRest(r, s, k) /\ Len(s) \in Nat
  BY RestIs
<1>2. r \in Seq(Tokens) /\ l \in 0 .. Len(r)
  BY <1>1 DEF IsRest
<1>3. IsRest(q, r, l)
  <2> HIDE DEF r
  <2> QED BY <1>2, RestIs
<1>4. IsRest(q, s, k + l)
  <2> HIDE DEF r, q
  <2> QED BY <1>1, <1>3, RestOfRest
<1>5. k + l \in 0 .. Len(s)
  BY <1>1
<1>6. IsRest(t, s, k + l)
  BY <1>5, RestIs
<1>7. q = t
  <2> DEFINE n == k + l
  <2> HIDE DEF q, t, n
  <2> QED BY <1>4, <1>5, <1>6, RestsAreEqual DEF n
<1> QED BY <1>7

LEMMA SectionedHas ==
    ASSUME NEW s \in Seq(Tokens), Sectioned(s)
    PROVE  \E p, m, q \in Seq(Tokens) : IsSectioned(s, p, m, q)
<1>0. Len(s) \in Nat /\ DOMAIN s = 1 .. Len(s) /\ "none" \notin Heading /\ "none" # NL
  BY TraceFacts
<1>1. PICK i \in DOMAIN s :
         /\ s[i] = "tools" /\ At(s, i - 1) = NL
         /\ Bare(Upto(s, i - 1)) /\ Bare(From(s, NextHeading(s, i + 1, Heading)))
         /\ \A j \in i + 1 .. NextHeading(s, i + 1, Heading) - 1 : s[j] \notin Traces \ {"old"}
  BY DEF Sectioned
<1>2. i - 1 \in 1 .. Len(s) /\ s[i - 1] = NL
  <2>1. i - 1 \in Nat
    BY <1>0
  <2> QED BY <1>0, <1>1, <2>1, AtIs
<1> DEFINE n == NextHeading(s, i + 1, Heading)
<1>3. i + 1 \in Nat \ {0}
  BY <1>0
<1>4. /\ n \in Nat
      /\ \/ /\ n = Len(s) + 1
            /\ \A j \in i + 1 .. Len(s) - 1 : ~ (s[j] = NL /\ s[j + 1] \in Heading)
         \/ /\ n \in (i + 1) + 1 .. Len(s)
            /\ s[n - 1] = NL /\ s[n] \in Heading
            /\ \A j \in i + 1 .. n - 2 : ~ (s[j] = NL /\ s[j + 1] \in Heading)
  BY <1>0, <1>3, NextHeadingFacts, Zenon
<1>5. Bare(From(s, n)) /\ \A j \in i + 1 .. n - 1 : s[j] \notin Traces \ {"old"}
  BY <1>1
<1> HIDE DEF n
<1>50. n \in Nat /\ i \in Nat /\ i + 1 <= n /\ n <= Len(s) + 1 /\ 1 <= i
  BY <1>0, <1>4
<1> DEFINE p == Upto(s, i - 1)
           r == From(s, i)
           k == n - i
           m == Upto(r, k)
           q == From(r, k + 1)
<1>6. i - 1 \in 0 .. Len(s) /\ (i - 1) + 1 = i /\ k \in 1 .. Len(s) - (i - 1) /\ n = i + k
  BY <1>0, <1>50
<1>7. /\ p \in Seq(Tokens) /\ r \in Seq(Tokens) /\ Len(p) = i - 1 /\ Len(r) = Len(s) - (i - 1)
      /\ \A j \in 1 .. i - 1 : p[j] = s[j]
      /\ \A j \in 1 .. Len(s) - (i - 1) : r[j] = s[(i - 1) + j]
      /\ IsTwo(s, p, r)
  <2> DEFINE l == i - 1
  <2>1. l \in 0 .. Len(s) /\ l + 1 = i
    BY <1>6
  <2>2. /\ Upto(s, l) \in Seq(Tokens) /\ From(s, l + 1) \in Seq(Tokens)
        /\ Len(Upto(s, l)) = l /\ Len(From(s, l + 1)) = Len(s) - l
        /\ \A j \in 1 .. l : Upto(s, l)[j] = s[j]
        /\ \A j \in 1 .. Len(s) - l : From(s, l + 1)[j] = s[l + j]
        /\ IsTwo(s, Upto(s, l), From(s, l + 1))
    <3> HIDE DEF l
    <3> QED BY <2>1, CutInTwo, Zenon
  <2>3. Upto(s, l) = p /\ From(s, l + 1) = r
    BY <2>1
  <2> QED BY <2>2, <2>3
<1>8. k \in 0 .. Len(r)
  BY <1>0, <1>6, <1>7
<1>9. /\ m \in Seq(Tokens) /\ q \in Seq(Tokens) /\ Len(m) = k /\ Len(q) = Len(r) - k
      /\ \A j \in 1 .. k : m[j] = r[j]
      /\ \A j \in 1 .. Len(r) - k : q[j] = r[k + j]
      /\ IsTwo(r, m, q)
  <2> HIDE DEF r, k
  <2> QED BY <1>7, <1>8, CutInTwo, Zenon
<1>10. IsThree(s, p, m, q)
  <2> HIDE DEF p, r, m, q
  <2> QED BY <1>7, <1>9, TwoInTwo
<1>11. q = From(s, n)
  <2>1. /\ i - 1 \in 0 .. Len(s) /\ k \in 0 .. Len(s) - (i - 1)
        /\ (i - 1) + 1 = i /\ ((i - 1) + k) + 1 = n
    BY <1>0, <1>50
  <2>2. From(From(s, (i - 1) + 1), k + 1) = From(s, ((i - 1) + k) + 1)
    <3> HIDE DEF k
    <3> QED BY <2>1, FromFrom
  <2> QED BY <2>1, <2>2
<1>12. Bare(p) /\ Bare(q)
  BY <1>1, <1>5, <1>11
<1> HIDE DEF p, r, m, q, k
<1>13. \A j \in 1 .. k : m[j] = s[(i - 1) + j]
  <2> TAKE j \in 1 .. k
  <2>1. j \in 1 .. Len(s) - (i - 1)
    BY <1>0, <1>6, <1>50
  <2> QED BY <1>7, <1>9, <2>1
<1>14. Len(p) >= 1 /\ p[Len(p)] = NL
  BY <1>0, <1>2, <1>7
<1>15. Len(m) >= 1 /\ m[1] = "tools"
  <2>1. m[1] = s[(i - 1) + 1]
    BY <1>6, <1>13
  <2> QED BY <1>1, <1>6, <1>9, <2>1
<1>16. \A j \in 2 .. Len(m) : m[j] \notin Traces \ {"old"}
  <2> TAKE j \in 2 .. Len(m)
  <2>0. Len(m) = k /\ n = i + k /\ k \in Nat /\ i \in Nat
    BY <1>6, <1>9, <1>50
  <2>1. j \in 1 .. k /\ (i - 1) + j \in i + 1 .. n - 1
    BY <2>0
  <2> QED BY <1>5, <1>13, <2>1
<1>17. \A j \in 2 .. Len(m) - 1 : ~ (m[j] = NL /\ m[j + 1] \in Heading)
  <2> TAKE j \in 2 .. Len(m) - 1
  <2> DEFINE l == (i - 1) + j
  <2>0. Len(m) = k /\ n = i + k /\ k \in Nat /\ n <= Len(s) + 1
    BY <1>6, <1>9, <1>50
  <2>1. /\ j \in 1 .. k /\ j + 1 \in 1 .. k /\ l \in i + 1 .. n - 2 /\ l \in i + 1 .. Len(s) - 1
        /\ (i - 1) + (j + 1) = l + 1
    <3>1. j \in 1 .. k /\ j + 1 \in 1 .. k /\ j \in Int
      BY <2>0
    <3>2. l \in i + 1 .. n - 2 /\ (i - 1) + (j + 1) = l + 1
      BY <1>50, <2>0
    <3>3. l \in i + 1 .. Len(s) - 1
      BY <1>0, <1>50, <2>0
    <3> QED BY <3>1, <3>2, <3>3
  <2>2. m[j] = s[l] /\ m[j + 1] = s[l + 1]
    <3>1. m[j] = s[l]
      BY <1>13, <2>1
    <3>2. m[j + 1] = s[(i - 1) + (j + 1)]
      BY <1>13, <2>1
    <3> HIDE DEF l
    <3> QED BY <2>1, <3>1, <3>2
  <2>3. ~ (s[l] = NL /\ s[l + 1] \in Heading)
    <3> HIDE DEF l
    <3> QED BY <1>4, <2>1
  <2> QED BY <2>2, <2>3
<1>18. q = <<>> \/ (Len(m) >= 2 /\ m[Len(m)] = NL /\ q[1] \in Heading)
  <2>1. CASE n = Len(s) + 1
    <3>0. Len(q) = (Len(s) - (i - 1)) - k /\ n = i + k
      BY <1>6, <1>7, <1>9
    <3>4. Len(s) \in Nat /\ i \in Nat /\ k \in Nat
      BY <1>0, <1>50, <1>6
    <3>1. Len(q) = 0
      BY ONLY <2>1, <3>0, <3>4
    <3>2. q \in Seq(Tokens)
      BY <1>9
    <3>3. q = <<>>
      BY ONLY <3>1, <3>2
    <3> QED BY <3>3
  <2>2. CASE n \in (i + 1) + 1 .. Len(s) /\ s[n - 1] = NL /\ s[n] \in Heading
    <3>1. k >= 2 /\ (i - 1) + k = n - 1 /\ k \in 1 .. k
      BY <1>0, <1>6, <2>2
    <3>2. m[k] = NL
      BY <1>13, <2>2, <3>1
    <3>3. 1 \in 1 .. Len(r) - k /\ (i - 1) + (k + 1) = n /\ k + 1 \in 1 .. Len(s) - (i - 1)
      <4>1. n <= Len(s) /\ n = i + k /\ k \in Nat /\ i \in Nat /\ Len(s) \in Nat
        BY <1>0, <1>6, <1>50, <2>2
      <4>2. Len(r) = Len(s) - (i - 1)
        BY <1>7
      <4>3. (i - 1) + (k + 1) = n
        BY <4>1
      <4>4. 1 \in 1 .. Len(r) - k
        BY <4>1, <4>2
      <4>5. k + 1 \in 1 .. Len(s) - (i - 1)
        BY <4>1
      <4> QED BY <4>3, <4>4, <4>5
    <3>4. q[1] = s[n]
      BY <1>7, <1>9, <3>3
    <3> QED BY <1>9, <2>2, <3>1, <3>2, <3>4
  <2> QED BY <1>4, <2>1, <2>2
<1>19. IsSectioned(s, p, m, q)
  BY <1>10, <1>12, <1>14, <1>15, <1>16, <1>17, <1>18 DEF IsSectioned
<1> QED BY <1>7, <1>9, <1>19

LEMMA SectionedPositions ==
    ASSUME NEW s, NEW p, NEW m, NEW q, IsSectioned(s, p, m, q)
    PROVE  /\ s \in Seq(Tokens) /\ AreParts(s, p, m, q)
           /\ Position(s, "begin") = 0 /\ Position(s, "end") = 0
           /\ Position(s, "tools") = Len(p) + 1
           /\ NextHeading(s, 1, {"tools"}) = Len(p) + 1
           /\ NextHeading(s, Len(p) + 2, Heading) = Len(p) + Len(m) + 1
<1>0. /\ Bare(p) /\ Bare(q) /\ Len(p) >= 1 /\ p[Len(p)] = NL
      /\ Len(m) >= 1 /\ m[1] = "tools"
      /\ \A j \in 2 .. Len(m) : m[j] \notin Traces \ {"old"}
      /\ \A j \in 2 .. Len(m) - 1 : ~ (m[j] = NL /\ m[j + 1] \in Heading)
      /\ q = <<>> \/ (Len(m) >= 2 /\ m[Len(m)] = NL /\ q[1] \in Heading)
  BY DEF IsSectioned
<1>1. AreParts(s, p, m, q)
  BY PartsOfThree DEF IsSectioned
<1>2. /\ s \in Seq(Tokens) /\ Len(s) = Len(p) + Len(m) + Len(q)
      /\ Len(p) \in Nat /\ Len(m) \in Nat /\ Len(q) \in Nat
      /\ \A i \in 1 .. Len(p) : s[i] = p[i]
      /\ \A i \in 1 .. Len(m) : s[Len(p) + i] = m[i]
      /\ \A i \in 1 .. Len(q) : s[Len(p) + Len(m) + i] = q[i]
  BY <1>1 DEF AreParts
<1>3. p \in Seq(Tokens) /\ q \in Seq(Tokens)
  BY DEF IsSectioned, IsThree
<1>4. /\ \A i \in 1 .. Len(p) : s[i] \notin Traces
      /\ \A i \in 1 .. Len(q) : s[Len(p) + Len(m) + i] \notin Traces
  <2>1. DOMAIN p = 1 .. Len(p) /\ DOMAIN q = 1 .. Len(q)
    BY <1>3
  <2>2. (\A i \in DOMAIN p : p[i] \notin Traces) /\ \A i \in DOMAIN q : q[i] \notin Traces
    BY <1>0, Zenon DEF Bare
  <2>3. ASSUME NEW i \in 1 .. Len(p) PROVE s[i] \notin Traces
    BY <1>2, <2>1, <2>2, Zenon
  <2>4. ASSUME NEW i \in 1 .. Len(q) PROVE s[Len(p) + Len(m) + i] \notin Traces
    BY <1>2, <2>1, <2>2, Zenon
  <2> QED BY <2>3, <2>4
<1>5. s[Len(p)] = NL /\ s[Len(p) + 1] = "tools"
  BY <1>0, <1>2
<1>6. \A i \in 2 .. Len(m) : s[Len(p) + i] \notin Traces \ {"old"}
  BY <1>0, <1>2
<1>7. /\ {"begin", "end"} \subseteq Traces \ {"old"} /\ "begin" # "tools" /\ "end" # "tools"
      /\ "none" # "tools" /\ "none" \notin Heading /\ "tools" \in Traces \ {"old"}
  BY TraceFacts DEF Heading
<1>8. \A j \in 1 .. Len(s) : s[j] # "begin" /\ s[j] # "end"
  <2> TAKE j \in 1 .. Len(s)
  <2>1. CASE j \in 1 .. Len(p)
    BY <1>4, <1>7, <2>1
  <2>2. CASE j = Len(p) + 1
    BY <1>5, <1>7, <2>2
  <2>3. CASE j - Len(p) \in 2 .. Len(m)
    <3>1. Len(p) + (j - Len(p)) = j
      BY <1>2
    <3> QED BY <1>6, <1>7, <2>3, <3>1
  <2>4. CASE j - (Len(p) + Len(m)) \in 1 .. Len(q)
    <3>1. Len(p) + Len(m) + (j - (Len(p) + Len(m))) = j
      BY <1>2
    <3> QED BY <1>4, <1>7, <2>4, <3>1
  <2> QED BY <1>0, <1>2, <2>1, <2>2, <2>3, <2>4
<1>9. Position(s, "begin") = 0 /\ Position(s, "end") = 0
  BY <1>2, <1>8, PositionNone
<1>10. Len(p) + 1 \in 1 .. Len(s) /\ Len(p) + 1 \in 1 + 1 .. Len(s) /\ (Len(p) + 1) - 1 = Len(p)
  BY <1>0, <1>2
<1>11. \A j \in 1 .. (Len(p) + 1) - 1 : s[j] # "tools"
  BY <1>4, <1>7, <1>10
<1>12. Position(s, "tools") = Len(p) + 1
  BY <1>2, <1>5, <1>10, <1>11, PositionIs
<1>13. \A j \in 1 .. (Len(p) + 1) - 2 : ~ (s[j] = NL /\ s[j + 1] \in {"tools"})
  BY <1>2, <1>4, <1>7
<1>14. NextHeading(s, 1, {"tools"}) = Len(p) + 1
  <2>1. 1 \in Nat \ {0} /\ "none" \notin {"tools"} /\ s[Len(p) + 1] \in {"tools"}
    BY <1>5, <1>7
  <2>2. s[(Len(p) + 1) - 1] = NL
    BY <1>5, <1>10
  <2> DEFINE n == Len(p) + 1
             tools == {"tools"}
  <2>3. /\ s \in Seq(Tokens) /\ n \in 1 + 1 .. Len(s) /\ s[n - 1] = NL /\ s[n] \in tools
        /\ "none" \notin tools /\ \A j \in 1 .. n - 2 : ~ (s[j] = NL /\ s[j + 1] \in tools)
    BY <1>2, <1>10, <1>13, <2>1, <2>2, Zenon
  <2>4. NextHeading(s, 1, tools) = n
    <3> HIDE DEF n, tools
    <3> QED BY <2>1, <2>3, NextHeadingIs, Zenon
  <2> QED BY <2>4
<1>15. NextHeading(s, Len(p) + 2, Heading) = Len(p) + Len(m) + 1
  <2> DEFINE i == Len(p) + 2
             n == Len(p) + Len(m) + 1
  <2>1. i \in Nat \ {0}
    BY <1>2
  <2>2. \A j \in i .. n - 2 : ~ (s[j] = NL /\ s[j + 1] \in Heading)
    <3> TAKE j \in i .. n - 2
    <3> DEFINE l == j - Len(p)
    <3>1. /\ l \in 2 .. Len(m) - 1 /\ l \in 1 .. Len(m) /\ l + 1 \in 1 .. Len(m)
          /\ Len(p) + l = j /\ Len(p) + (l + 1) = j + 1
      BY <1>2
    <3> HIDE DEF l
    <3>2. s[j] = m[l] /\ s[j + 1] = m[l + 1]
      BY <1>2, <3>1
    <3> QED BY <1>0, <3>1, <3>2
  <2>3. CASE q = <<>>
    <3>1. n = Len(s) + 1 /\ n - 2 = Len(s) - 1
      BY <1>2, <2>3
    <3> HIDE DEF n, i
    <3> QED BY <1>2, <1>7, <2>1, <2>2, <3>1, NextHeadingNone DEF n, i
  <2>4. CASE Len(m) >= 2 /\ m[Len(m)] = NL /\ q[1] \in Heading /\ q # <<>>
    <3>1. 1 \in 1 .. Len(q) /\ Len(m) \in 1 .. Len(m)
      BY <1>2, <1>3, <2>4
    <3>2. s[Len(p) + Len(m) + 1] = q[1] /\ s[Len(p) + Len(m)] = m[Len(m)]
      BY <1>2, <3>1
    <3>3. n - 1 = Len(p) + Len(m) /\ n \in i + 1 .. Len(s)
      BY <1>2, <3>1, <2>4
    <3>4. s[n] \in Heading /\ s[n - 1] = NL
      BY <2>4, <3>2, <3>3
    <3> HIDE DEF n, i
    <3> QED BY <1>2, <1>7, <2>1, <2>2, <3>3, <3>4, NextHeadingIs DEF n, i
  <2> QED BY <1>0, <2>3, <2>4
<1> QED BY <1>1, <1>2, <1>9, <1>12, <1>14, <1>15


\* The lines of users in a piece of a text, and in two.
Lines(s) == Dropping(s, {NL, "title"})
LinesOf(p, q) == Lines(p) \o Lines(q)

LEMMA LinesType ==
    ASSUME NEW s \in Seq(Tokens) PROVE Lines(s) \in Seq(Tokens)
  BY DroppingType DEF Lines

LEMMA LinesOfTwo ==
    ASSUME NEW s, NEW p, NEW q, IsTwo(s, p, q)
    PROVE  Lines(s) = LinesOf(p, q)
<1> DEFINE set == {NL, "title"}
<1>1. p \in Seq(Tokens) /\ q \in Seq(Tokens) /\ s = p \o q
  BY DEF IsTwo
<1> HIDE DEF set
<1>2. Dropping(p \o q, set) = Dropping(p, set) \o Dropping(q, set)
  BY <1>1, DroppingConcat
<1> QED BY <1>1, <1>2, Zenon DEF Lines, LinesOf, set

LEMMA LinesOfBlank ==
    ASSUME NEW s \in Seq(Tokens), \A j \in 1 .. Len(s) : s[j] \in {NL, "title"}
    PROVE  Lines(s) = <<>>
  BY DroppingAll DEF Lines

LEMMA LinesOfEmpty ==
    ASSUME NEW p, NEW q, p \in Seq(Tokens), q \in Seq(Tokens)
    PROVE  /\ Lines(q) = <<>> => LinesOf(p, q) = Lines(p)
           /\ Lines(p) = <<>> => LinesOf(p, q) = Lines(q)
<1>1. Lines(p) \in Seq(Tokens) /\ Lines(q) \in Seq(Tokens)
  BY LinesType
<1> DEFINE a == Lines(p)
           b == Lines(q)
<1>2. a \in Seq(Tokens) /\ b \in Seq(Tokens)
  BY <1>1
<1> HIDE DEF a, b
<1>3. (b = <<>> => a \o b = a) /\ (a = <<>> => a \o b = b)
  BY <1>2
<1> QED BY <1>3, Zenon DEF LinesOf, a, b

LEMMA LinesUpto ==
    ASSUME NEW s \in Seq(Tokens), NEW k \in 0 .. Len(s), \A j \in k + 1 .. Len(s) : s[j] = NL
    PROVE  Lines(Upto(s, k)) = Lines(s)
<1> DEFINE p == Upto(s, k)
           q == From(s, k + 1)
<1>1. /\ p \in Seq(Tokens) /\ q \in Seq(Tokens) /\ Len(q) = Len(s) - k /\ IsTwo(s, p, q)
      /\ \A j \in 1 .. Len(s) - k : q[j] = s[k + j]
  BY CutInTwo
<1>2. Len(s) \in Nat
  OBVIOUS
<1> HIDE DEF p, q
<1>3. \A j \in 1 .. Len(q) : q[j] \in {NL, "title"}
  BY <1>1, <1>2
<1>4. Lines(q) = <<>>
  BY <1>1, <1>3, LinesOfBlank
<1>5. Lines(s) = LinesOf(p, q)
  BY <1>1, LinesOfTwo
<1> QED BY <1>1, <1>4, <1>5, LinesOfEmpty DEF p

LEMMA LinesFrom ==
    ASSUME NEW s \in Seq(Tokens), NEW k \in 0 .. Len(s), \A j \in 1 .. k : s[j] = NL
    PROVE  Lines(From(s, k + 1)) = Lines(s)
<1> DEFINE p == Upto(s, k)
           q == From(s, k + 1)
<1>1. /\ p \in Seq(Tokens) /\ q \in Seq(Tokens) /\ Len(p) = k /\ IsTwo(s, p, q)
      /\ \A j \in 1 .. k : p[j] = s[j]
  BY CutInTwo
<1> HIDE DEF p, q
<1>3. \A j \in 1 .. Len(p) : p[j] \in {NL, "title"}
  BY <1>1
<1>4. Lines(p) = <<>>
  BY <1>1, <1>3, LinesOfBlank
<1>5. Lines(s) = LinesOf(p, q)
  BY <1>1, LinesOfTwo
<1> QED BY <1>1, <1>4, <1>5, LinesOfEmpty DEF q

---------------------------------------------------------------------------
(* What of a text is the user's *)

LEMMA NothingFrom ==
    ASSUME NEW s \in Seq(Tokens) PROVE From(s, Len(s) + 1) = <<>> /\ Upto(s, Len(s)) = s
<1>1. Len(s) \in Nat
  OBVIOUS
<1> QED BY <1>1 DEF From, Upto

LEMMA UsersOfBlocked ==
    ASSUME NEW s, NEW p, NEW v, NEW q, IsBlocked(s, p, v, q)
    PROVE  UsersText(s) = LinesOf(p, q)
<1>1. /\ Position(s, "begin") = Len(p) + 1 /\ Position(s, "end") = Len(p) + 7
  BY BlockedPositions
<1>2. p \in Seq(Tokens) /\ q \in Seq(Tokens) /\ Len(p) \in Nat /\ Len(Block(v)) = 7
      /\ IsThree(s, p, Block(v), q)
  BY BlockedAt, BlockFacts DEF IsBlocked
<1>3. Upto(s, Len(p)) = p /\ From(s, Len(p) + Len(Block(v)) + 1) = q
  BY <1>2, CutsOfThree
<1> DEFINE b == Position(s, "begin")
           e == Position(s, "end")
           w == p \o q
<1>4. b > 0 /\ e > b /\ b - 1 = Len(p) /\ e + 1 = Len(p) + Len(Block(v)) + 1
  BY <1>1, <1>2
<1>5. Upto(s, b - 1) = p /\ From(s, e + 1) = q
  BY <1>3, <1>4
<1>6. UsersText(s) = Lines(w)
  <2>1. UsersText(s) = Dropping(Upto(s, b - 1) \o From(s, e + 1), {NL, "title"})
    <3>1. b > 0 /\ e > b
      BY <1>4
    <3> QED BY <3>1, Zenon DEF UsersText
  <2> QED BY <1>5, <2>1, Zenon DEF Lines
<1>7. IsTwo(w, p, q)
  BY <1>2, Zenon DEF IsTwo
<1> QED BY <1>6, <1>7, LinesOfTwo

LEMMA UsersOfSectioned ==
    ASSUME NEW s, NEW p, NEW m, NEW q, IsSectioned(s, p, m, q)
    PROVE  UsersText(s) = LinesOf(p, q)
<1>1. /\ Position(s, "begin") = 0 /\ NextHeading(s, 1, {"tools"}) = Len(p) + 1
      /\ NextHeading(s, Len(p) + 2, Heading) = Len(p) + Len(m) + 1
      /\ AreParts(s, p, m, q)
  BY SectionedPositions
<1>2. IsThree(s, p, m, q) /\ p \in Seq(Tokens) /\ q \in Seq(Tokens)
  BY DEF IsSectioned, IsThree
<1>3. Upto(s, Len(p)) = p /\ From(s, Len(p) + Len(m) + 1) = q
  BY <1>2, CutsOfThree
<1> DEFINE b == Position(s, "begin")
           l == NextHeading(s, 1, {"tools"})
           w == p \o q
<1>4. l - 1 = Len(p) /\ l + 1 = Len(p) + 2 /\ ~ (b > 0)
  BY <1>1 DEF AreParts
<1>5. Upto(s, l - 1) = p /\ From(s, NextHeading(s, l + 1, Heading)) = q
  BY <1>1, <1>3, <1>4
<1>6. UsersText(s) = Lines(w)
  <2>1. UsersText(s) = Dropping(Upto(s, l - 1) \o From(s, NextHeading(s, l + 1, Heading)), {NL, "title"})
    <3>1. ~ (b > 0)
      BY <1>4
    <3> QED BY <3>1, Zenon DEF UsersText
  <2> QED BY <1>5, <2>1, Zenon DEF Lines
<1>7. IsTwo(w, p, q)
  BY <1>2, Zenon DEF IsTwo
<1> QED BY <1>6, <1>7, LinesOfTwo

LEMMA BarePositions ==
    ASSUME NEW s \in Seq(Tokens), Bare(s)
    PROVE  /\ Position(s, "begin") = 0 /\ Position(s, "end") = 0 /\ Position(s, "tools") = 0
           /\ NextHeading(s, 1, {"tools"}) = Len(s) + 1
           /\ NextHeading(s, Len(s) + 2, Heading) = Len(s) + 1
<1>1. \A j \in 1 .. Len(s) : s[j] \notin Traces
  BY DEF Bare
<1>2. Len(s) \in Nat
  OBVIOUS
<1>3. \A j \in 1 .. Len(s) : s[j] # "begin" /\ s[j] # "end" /\ s[j] # "tools"
  BY <1>1, TraceFacts
<1>4. Position(s, "begin") = 0 /\ Position(s, "end") = 0 /\ Position(s, "tools") = 0
  BY <1>3, PositionNone
<1>5. NextHeading(s, 1, {"tools"}) = Len(s) + 1
  <2>1. \A j \in 1 .. Len(s) - 1 : ~ (s[j] = NL /\ s[j + 1] \in {"tools"})
    BY <1>2, <1>3
  <2>2. 1 \in Nat \ {0} /\ "none" \notin {"tools"}
    OBVIOUS
  <2> DEFINE tools == {"tools"}
  <2> HIDE DEF tools
  <2> QED BY <2>1, <2>2, NextHeadingNone DEF tools
<1>6. NextHeading(s, Len(s) + 2, Heading) = Len(s) + 1
  <2>1. \A j \in Len(s) + 2 .. Len(s) - 1 : ~ (s[j] = NL /\ s[j + 1] \in Heading)
    BY <1>2
  <2>2. Len(s) + 2 \in Nat \ {0} /\ "none" \notin Heading
    BY <1>2, TraceFacts
  <2> QED BY <2>1, <2>2, NextHeadingNone
<1> QED BY <1>4, <1>5, <1>6

LEMMA UsersOfBare ==
    ASSUME NEW s \in Seq(Tokens), Bare(s)
    PROVE  UsersText(s) = Lines(s)
<1>1. /\ Position(s, "begin") = 0 /\ NextHeading(s, 1, {"tools"}) = Len(s) + 1
      /\ NextHeading(s, Len(s) + 2, Heading) = Len(s) + 1
  BY BarePositions
<1> DEFINE b == Position(s, "begin")
           l == NextHeading(s, 1, {"tools"})
<1>2. l - 1 = Len(s) /\ l + 1 = Len(s) + 2 /\ ~ (b > 0)
  BY <1>1
<1>3. Upto(s, l - 1) = s /\ From(s, NextHeading(s, l + 1, Heading)) = <<>>
  BY <1>1, <1>2, NothingFrom
<1>4. UsersText(s) = Dropping(Upto(s, l - 1) \o From(s, NextHeading(s, l + 1, Heading)), {NL, "title"})
  BY <1>2, Zenon DEF UsersText
<1>5. s \o <<>> = s
  OBVIOUS
<1> QED BY <1>3, <1>4, <1>5, Zenon DEF Lines


StartsBlank(q) == q # <<>> /\ q[1] = NL

AreTwo(s, a, b) ==
    /\ s \in Seq(Tokens) /\ Len(s) = Len(a) + Len(b) /\ Len(a) \in Nat /\ Len(b) \in Nat
    /\ \A i \in 1 .. Len(a) : s[i] = a[i]
    /\ \A i \in 1 .. Len(b) : s[Len(a) + i] = b[i]

LEMMA PartsOfTwo ==
    ASSUME NEW a, NEW b, NEW s, IsTwo(s, a, b)
    PROVE  AreTwo(s, a, b)
<1>0. a \in Seq(Tokens) /\ b \in Seq(Tokens) /\ s = a \o b
  BY DEF IsTwo
<1>1. s \in Seq(Tokens) /\ Len(s) = Len(a) + Len(b) /\ Len(a) \in Nat /\ Len(b) \in Nat
  BY <1>0
<1>2. \A i \in 1 .. Len(a) : s[i] = a[i]
  BY <1>0
<1>3. \A i \in 1 .. Len(b) : s[Len(a) + i] = b[i]
  BY <1>0
<1> QED BY <1>1, <1>2, <1>3 DEF AreTwo

IsFour(t, a, b, c, d) ==
    /\ a \in Seq(Tokens) /\ b \in Seq(Tokens) /\ c \in Seq(Tokens) /\ d \in Seq(Tokens)
    /\ t = (a \o (b \o c)) \o d

LEMMA Regrouped ==
    ASSUME NEW t, NEW a, NEW b, NEW c, NEW d, IsFour(t, a, b, c, d), NEW r, r = c \o d
    PROVE  IsThree(t, a, b, r)
<1>0. a \in Seq(Tokens) /\ b \in Seq(Tokens) /\ c \in Seq(Tokens) /\ d \in Seq(Tokens)
  BY DEF IsFour
<1>5. t = (a \o (b \o c)) \o d
  BY DEF IsFour
<1> DEFINE w == a \o b
           x == b \o c
<1>1. w \in Seq(Tokens) /\ x \in Seq(Tokens) /\ r \in Seq(Tokens)
  BY <1>0
<1>2. w \o c = a \o x
  <2>1. a \in Seq(Tokens) /\ b \in Seq(Tokens) /\ c \in Seq(Tokens)
    BY <1>0
  <2>2. Associate(a, b, c)
    BY <2>1, Associative
  <2> QED BY <2>2, Zenon DEF Associate
<1> HIDE DEF w, x
<1>3. (w \o c) \o d = w \o (c \o d)
  <2>1. w \in Seq(Tokens) /\ c \in Seq(Tokens) /\ d \in Seq(Tokens)
    BY <1>0, <1>1
  <2>2. Associate(w, c, d)
    BY <2>1, Associative
  <2> QED BY <2>2, Zenon DEF Associate
<1>4. t = (a \o b) \o r
  BY <1>5, <1>2, <1>3, Zenon DEF w, x
<1> QED BY <1>0, <1>1, <1>4 DEF IsThree

Regroup(a, b, c, d) == a \o ((b \o c) \o d) = ((a \o b) \o c) \o d

LEMMA RegroupedThree ==
    ASSUME NEW a \in Seq(Tokens), NEW b \in Seq(Tokens), NEW c \in Seq(Tokens), NEW d \in Seq(Tokens)
    PROVE  Regroup(a, b, c, d)
<1> DEFINE w == a \o b
           x == b \o c
<1>1. w \in Seq(Tokens) /\ x \in Seq(Tokens)
  OBVIOUS
<1>2. w \o c = a \o x
  <2>1. a \in Seq(Tokens) /\ b \in Seq(Tokens) /\ c \in Seq(Tokens)
    OBVIOUS
  <2>2. Associate(a, b, c)
    BY <2>1, Associative
  <2> QED BY <2>2, Zenon DEF Associate
<1> HIDE DEF w, x
<1>4. (a \o x) \o d = a \o (x \o d)
  <2>1. a \in Seq(Tokens) /\ x \in Seq(Tokens) /\ d \in Seq(Tokens)
    BY <1>1
  <2>2. Associate(a, x, d)
    BY <2>1, Associative
  <2> QED BY <2>2, Zenon DEF Associate
<1> QED BY <1>2, <1>4, Zenon DEF w, x, Regroup

LEMMA LineEndLines == Lines(<<NL>>) = <<>> /\ StartsBlank(<<NL>>)
<1>1. \A j \in 1 .. Len(<<NL>>) : <<NL>>[j] \in {NL, "title"}
  OBVIOUS
<1>2. Lines(<<NL>>) = <<>>
  BY <1>1, LineEnd, LinesOfBlank
<1>3. StartsBlank(<<NL>>)
  BY DEF StartsBlank
<1> QED BY <1>2, <1>3

LEMMA LineEndBefore ==
    ASSUME NEW q \in Seq(Tokens), Bare(q)
    PROVE  /\ <<NL>> \o q \in Seq(Tokens) /\ Bare(<<NL>> \o q) /\ StartsBlank(<<NL>> \o q)
           /\ Lines(<<NL>> \o q) = Lines(q)
<1> DEFINE n == <<NL>>
           r == n \o q
<1>1. NL \in Tokens /\ n \in Seq(Tokens) /\ Bare(n) /\ Lines(n) = <<>>
  BY NLFacts, LineEnd, LineEndLines
<1>2. r \in Seq(Tokens) /\ r[1] = NL /\ r # <<>>
  BY <1>1
<1> HIDE DEF n
<1>3. Bare(r)
  BY <1>1, BareConcat
<1>4. IsTwo(r, n, q)
  BY <1>1, Zenon DEF IsTwo
<1> HIDE DEF r
<1>6. Lines(r) = Lines(q)
  BY <1>1, <1>4, LinesOfTwo, LinesOfEmpty
<1> QED BY <1>2, <1>3, <1>6 DEF StartsBlank, r, n

LEMMA LineEndAfter ==
    ASSUME NEW p \in Seq(Tokens), Bare(p)
    PROVE  /\ p \o <<NL>> \in Seq(Tokens) /\ Bare(p \o <<NL>>) /\ Len(p \o <<NL>>) = Len(p) + 1
           /\ (p \o <<NL>>)[Len(p) + 1] = NL /\ \A i \in 1 .. Len(p) : (p \o <<NL>>)[i] = p[i]
           /\ Lines(p \o <<NL>>) = Lines(p)
<1> DEFINE n == <<NL>>
           r == p \o n
<1>1. NL \in Tokens /\ n \in Seq(Tokens) /\ Bare(n) /\ Lines(n) = <<>>
  BY NLFacts, LineEnd, LineEndLines
<1>2. r \in Seq(Tokens) /\ Len(r) = Len(p) + 1 /\ r[Len(p) + 1] = NL
  BY <1>1
<1>20. \A i \in 1 .. Len(p) : r[i] = p[i]
  BY <1>1
<1> HIDE DEF n
<1>3. Bare(r)
  BY <1>1, BareConcat
<1>4. IsTwo(r, p, n)
  BY <1>1, Zenon DEF IsTwo
<1> HIDE DEF r
<1>6. Lines(r) = Lines(p)
  BY <1>1, <1>4, LinesOfTwo, LinesOfEmpty
<1> QED BY <1>2, <1>20, <1>3, <1>6 DEF r, n

---------------------------------------------------------------------------
\* A block with a line end, between two pieces of a text.
IsPut(t, p, v, q) ==
    /\ p \in Seq(Tokens) /\ q \in Seq(Tokens) /\ v \in DOMAIN Body
    /\ Bare(p) /\ Bare(q) /\ t = (p \o (Block(v) \o <<NL>>)) \o q

LEMMA PutIs ==
    ASSUME NEW t, NEW p, NEW v, NEW q, IsPut(t, p, v, q)
    PROVE  \E r \in Seq(Tokens) : IsBlocked(t, p, v, r) /\ StartsBlank(r) /\ Lines(r) = Lines(q)
<1> DEFINE b == Block(v)
           n == <<NL>>
           r == n \o q
<1>1. /\ p \in Seq(Tokens) /\ q \in Seq(Tokens) /\ v \in DOMAIN Body
      /\ Bare(p) /\ Bare(q) /\ t = (p \o (b \o n)) \o q
  BY DEF IsPut
<1>2. b \in Seq(Tokens) /\ n \in Seq(Tokens)
  BY <1>1, BlockFacts, LineEnd
<1>3. r \in Seq(Tokens) /\ Bare(r) /\ StartsBlank(r) /\ Lines(r) = Lines(q)
  BY <1>1, LineEndBefore
<1> HIDE DEF b, n
<1>4. IsFour(t, p, b, n, q)
  BY <1>1, <1>2 DEF IsFour
<1>5. IsThree(t, p, b, r)
  BY <1>4, Regrouped
<1> HIDE DEF r
<1>6. IsBlocked(t, p, v, r)
  BY <1>1, <1>3, <1>5 DEF IsBlocked, b
<1> QED BY <1>3, <1>6

IsAppended(t, p, v) ==
    p \in Seq(Tokens) /\ Bare(p) /\ v \in DOMAIN Body /\ t = p \o Section(v)

LEMMA AppendedIs ==
    ASSUME NEW t, NEW p, NEW v, IsAppended(t, p, v)
    PROVE  \E o, r \in Seq(Tokens) : /\ IsBlocked(t, o, v, r) /\ StartsBlank(r)
                                     /\ Lines(o) = Lines(p) /\ Lines(r) = <<>>
<1> DEFINE b == Block(v)
           n == <<NL>>
           o == p \o n
<1>1. p \in Seq(Tokens) /\ Bare(p) /\ v \in DOMAIN Body
  BY DEF IsAppended
<1>2. b \in Seq(Tokens) /\ n \in Seq(Tokens) /\ Bare(n) /\ Len(n) = 1 /\ n[1] = NL /\ n # <<>>
  BY <1>1, BlockFacts, LineEnd
<1>3. o \in Seq(Tokens) /\ Bare(o) /\ Lines(o) = Lines(p)
  BY <1>1, LineEndAfter
<1>4. t = p \o ((n \o b) \o n)
  BY DEF IsAppended, Section
<1> HIDE DEF b, n
<1>5. t = (o \o b) \o n
  <2>1. p \in Seq(Tokens) /\ n \in Seq(Tokens) /\ b \in Seq(Tokens)
    BY <1>1, <1>2
  <2>2. Regroup(p, n, b, n)
    BY <2>1, RegroupedThree
  <2> QED BY <1>4, <2>2, Zenon DEF Regroup
<1> HIDE DEF o
<1>6. IsThree(t, o, b, n)
  BY <1>2, <1>3, <1>5 DEF IsThree
<1>7. IsBlocked(t, o, v, n)
  BY <1>1, <1>2, <1>3, <1>6 DEF IsBlocked, b
<1>8. Lines(n) = <<>> /\ StartsBlank(n)
  BY LineEndLines DEF n
<1> QED BY <1>2, <1>3, <1>7, <1>8

---------------------------------------------------------------------------
(* upsert_managed_block *)

IsUpserted(t, s, p, v, q) ==
    /\ IsBlocked(t, p, v, q) /\ StartsBlank(q) /\ LinesOf(p, q) = UsersText(s)
    /\ Position(s, "begin") # 0 /\ p # <<>> => p[Len(p)] = NL

\* The text after the block, without the line end that follows it.
LEMMA AfterTheBlock ==
    ASSUME NEW s, NEW p, NEW v, NEW q, IsBlocked(s, p, v, q)
    PROVE  LET e == Len(p) + 7
               r == From(s, IF At(s, e + 1) = NL THEN e + 2 ELSE e + 1)
           IN  /\ r \in Seq(Tokens) /\ Bare(r) /\ Lines(r) = Lines(q)
               /\ StartsBlank(q) => q = <<NL>> \o r
<1> DEFINE e == Len(p) + 7
           r == From(s, IF At(s, e + 1) = NL THEN e + 2 ELSE e + 1)
<1>1. /\ s \in Seq(Tokens) /\ q \in Seq(Tokens)
      /\ Len(s) = Len(p) + 7 + Len(q) /\ Len(p) \in Nat /\ Len(q) \in Nat
      /\ \A i \in 1 .. Len(q) : s[Len(p) + 7 + i] = q[i]
  BY BlockedAt
<1>2. Bare(q) /\ IsThree(s, p, Block(v), q) /\ Len(Block(v)) = 7
  BY BlockFacts DEF IsBlocked
<1>3. From(s, Len(p) + Len(Block(v)) + 1) = q
  BY <1>2, CutsOfThree
<1>4. From(s, e + 1) = q
  BY <1>2, <1>3
<1>5. At(s, e + 1) = IF Len(q) > 0 THEN q[1] ELSE "none"
  <2>1. CASE Len(q) > 0
    <3>1. 1 \in 1 .. Len(q) /\ e + 1 \in 1 .. Len(s)
      BY <1>1, <2>1
    <3>2. s[e + 1] = q[1]
      BY <1>1, <3>1
    <3> QED BY <1>1, <2>1, <3>1, <3>2 DEF At
  <2>2. CASE ~ (Len(q) > 0)
    BY <1>1, <2>2 DEF At
  <2> QED BY <2>1, <2>2
<1>6. CASE Len(q) > 0 /\ q[1] = NL
  <2>1. r = From(s, e + 2)
    BY <1>5, <1>6
  <2> DEFINE a == Upto(q, 1)
             c == From(q, 2)
  <2>2. e \in 0 .. Len(s) /\ 1 \in 0 .. Len(s) - e /\ (e + 1) + 1 = e + 2 /\ 1 + 1 = 2
    BY <1>1, <1>6
  <2>3. r = c
    <3>1. From(From(s, e + 1), 1 + 1) = From(s, (e + 1) + 1)
      <4> HIDE DEF e
      <4> QED BY <1>1, <2>2, FromFrom
    <3> QED BY <1>4, <2>1, <2>2, <3>1
  <2>4. 1 \in 0 .. Len(q) /\ 1 + 1 = 2
    BY <1>1, <1>6
  <2>5. /\ a \in Seq(Tokens) /\ c \in Seq(Tokens) /\ Len(a) = 1 /\ IsTwo(q, a, c)
        /\ \A j \in 1 .. 1 : a[j] = q[j]
    <3>1. /\ Upto(q, 1) \in Seq(Tokens) /\ From(q, 1 + 1) \in Seq(Tokens)
          /\ Len(Upto(q, 1)) = 1 /\ \A j \in 1 .. 1 : Upto(q, 1)[j] = q[j]
          /\ IsTwo(q, Upto(q, 1), From(q, 1 + 1))
      BY <1>1, <2>4, CutInTwo, Zenon
    <3> QED BY <2>4, <3>1
  <2>6. Bare(c)
    BY <1>1, <1>2, <2>4, BareParts
  <2>7. Lines(c) = Lines(q)
    <3>1. \A j \in 1 .. 1 : q[j] = NL
      BY <1>6
    <3> QED BY <1>1, <2>4, <3>1, LinesFrom
  <2>8. a = <<NL>>
    <3> HIDE DEF a, c
    <3>1. a[1] = NL
      BY <1>6, <2>5
    <3> QED BY <2>5, <3>1
  <2>9. q = <<NL>> \o c
    BY <2>5, <2>8, Zenon DEF IsTwo
  <2> QED BY <2>3, <2>5, <2>6, <2>7, <2>9
<1>7. CASE ~ (Len(q) > 0 /\ q[1] = NL)
  <2>1. r = q
    BY <1>4, <1>5, <1>7, TraceFacts
  <2>2. ~ StartsBlank(q)
    BY <1>1, <1>7 DEF StartsBlank
  <2> QED BY <1>1, <1>2, <2>1, <2>2
<1> QED BY <1>6, <1>7

LEMMA UpsertOfBlocked ==
    ASSUME NEW s, NEW p, NEW u, NEW q, IsBlocked(s, p, u, q), NEW v \in DOMAIN Body, NEW anchor
    PROVE  \E o, r \in Seq(Tokens) : IsUpserted(Upsert(s, v, anchor), s, o, v, r)
<1> DEFINE b == Position(s, "begin")
           e == Position(s, "end")
           x == IF b > 1 /\ s[b - 1] # NL THEN <<NL>> ELSE <<>>
           c == From(s, IF At(s, e + 1) = NL THEN e + 2 ELSE e + 1)
           t == Upsert(s, v, anchor)
           o == p \o x
<1>1. /\ s \in Seq(Tokens) /\ p \in Seq(Tokens) /\ q \in Seq(Tokens) /\ Len(p) \in Nat
      /\ \A i \in 1 .. Len(p) : s[i] = p[i]
  BY BlockedAt
<1>2. b = Len(p) + 1 /\ e = Len(p) + 7
  BY BlockedPositions
<1>3. c \in Seq(Tokens) /\ Bare(c) /\ Lines(c) = Lines(q)
  BY <1>2, AfterTheBlock
<1>4. Upto(s, b - 1) = p
  <2>1. IsThree(s, p, Block(u), q)
    BY DEF IsBlocked
  <2>2. Upto(s, Len(p)) = p
    BY <2>1, CutsOfThree
  <2> QED BY <1>1, <1>2, <2>2
<1>5. b > 0 /\ e > b /\ b - 1 = Len(p)
  BY <1>1, <1>2
<1>6. t = ((Upto(s, b - 1) \o x) \o (Block(v) \o <<NL>>)) \o c
  <2> HIDE DEF b, e
  <2> QED BY <1>5 DEF Upsert, b, e
<1>7. t = (o \o (Block(v) \o <<NL>>)) \o c
  BY <1>4, <1>6
<1>8. /\ o \in Seq(Tokens) /\ Bare(o) /\ Lines(o) = Lines(p)
      /\ o # <<>> => o[Len(o)] = NL
  <2>0. Bare(p)
    BY DEF IsBlocked
  <2>1. CASE b > 1 /\ s[b - 1] # NL
    <3>1. o = p \o <<NL>>
      BY <2>1
    <3>2. /\ p \o <<NL>> \in Seq(Tokens) /\ Bare(p \o <<NL>>) /\ Len(p \o <<NL>>) = Len(p) + 1
          /\ (p \o <<NL>>)[Len(p) + 1] = NL
          /\ Lines(p \o <<NL>>) = Lines(p)
      BY <1>1, <2>0, LineEndAfter
    <3> QED BY <3>1, <3>2
  <2>2. CASE ~ (b > 1 /\ s[b - 1] # NL)
    <3>1. o = p
      BY <1>1, <2>2
    <3>2. p # <<>> => p[Len(p)] = NL
      <4> SUFFICES ASSUME p # <<>> PROVE p[Len(p)] = NL
        OBVIOUS
      <4>1. Len(p) \in 1 .. Len(p) /\ b > 1 /\ b - 1 = Len(p)
        BY <1>1, <1>2
      <4> QED BY <1>1, <2>2, <4>1
    <3> HIDE DEF o
    <3> QED BY <1>1, <2>0, <3>1, <3>2
  <2> QED BY <2>1, <2>2
<1> HIDE DEF o, c, t
<1>9. IsPut(t, o, v, c)
  BY <1>3, <1>7, <1>8, Zenon DEF IsPut
<1>10. PICK r \in Seq(Tokens) : IsBlocked(t, o, v, r) /\ StartsBlank(r) /\ Lines(r) = Lines(c)
  BY <1>9, PutIs
<1>11. LinesOf(o, r) = UsersText(s)
  <2>1. UsersText(s) = LinesOf(p, q)
    BY UsersOfBlocked
  <2> QED BY <1>3, <1>8, <1>10, <2>1, Zenon DEF LinesOf
<1>12. IsUpserted(t, s, o, v, r)
  BY <1>8, <1>10, <1>11 DEF IsUpserted
<1> QED BY <1>8, <1>12 DEF t


LEMMA UpsertOfSectioned ==
    ASSUME NEW s, NEW p, NEW m, NEW q, IsSectioned(s, p, m, q), NEW v \in DOMAIN Body, NEW anchor
    PROVE  \E o, r \in Seq(Tokens) : IsUpserted(Upsert(s, v, anchor), s, o, v, r)
<1> DEFINE b == Position(s, "begin")
           e == Position(s, "end")
           l == NextHeading(s, 1, {"tools"})
           c == From(s, NextHeading(s, l + 1, Heading))
           t == Upsert(s, v, anchor)
<1>1. /\ b = 0 /\ l = Len(p) + 1
      /\ NextHeading(s, Len(p) + 2, Heading) = Len(p) + Len(m) + 1
      /\ AreParts(s, p, m, q)
  BY SectionedPositions
<1>2. IsThree(s, p, m, q) /\ p \in Seq(Tokens) /\ q \in Seq(Tokens) /\ Bare(p) /\ Bare(q)
      /\ Len(m) >= 1
  BY DEF IsSectioned, IsThree
<1>3. Upto(s, Len(p)) = p /\ From(s, Len(p) + Len(m) + 1) = q
  BY <1>2, CutsOfThree
<1>4. l - 1 = Len(p) /\ l + 1 = Len(p) + 2 /\ ~ (b > 0) /\ l <= Len(s)
      /\ ~ (b > 0 /\ e > b) /\ ~ (l > Len(s))
  BY <1>1, <1>2 DEF AreParts
<1>5. Upto(s, l - 1) = p /\ c = q
  BY <1>1, <1>3, <1>4
<1>6. t = (Upto(s, l - 1) \o (Block(v) \o <<NL>>)) \o c
  <2> HIDE DEF b, e, l
  <2> QED BY <1>4 DEF Upsert, b, e, l
<1>7. t = (p \o (Block(v) \o <<NL>>)) \o q
  BY <1>5, <1>6
<1> HIDE DEF t
<1>8. IsPut(t, p, v, q)
  BY <1>2, <1>7, Zenon DEF IsPut
<1>9. PICK r \in Seq(Tokens) : IsBlocked(t, p, v, r) /\ StartsBlank(r) /\ Lines(r) = Lines(q)
  BY <1>8, PutIs
<1>10. LinesOf(p, r) = UsersText(s)
  <2>1. UsersText(s) = LinesOf(p, q)
    BY UsersOfSectioned
  <2> QED BY <1>9, <2>1, Zenon DEF LinesOf
<1>11. IsUpserted(t, s, p, v, r)
  BY <1>1, <1>9, <1>10 DEF IsUpserted
<1> QED BY <1>2, <1>11 DEF t

LEMMA TrimmedIs ==
    ASSUME NEW s \in Seq(Tokens), Bare(s)
    PROVE  TrimEnd(s) \in Seq(Tokens) /\ Bare(TrimEnd(s)) /\ Lines(TrimEnd(s)) = Lines(s)
<1>1. PICK k \in 0 .. Len(s) : TrimEnd(s) = Upto(s, k) /\ \A j \in k + 1 .. Len(s) : s[j] = NL
  BY TrimEndFacts
<1>2. Upto(s, k) \in Seq(Tokens) /\ Bare(Upto(s, k))
  BY CutInTwo, BareParts
<1>3. Lines(Upto(s, k)) = Lines(s)
  BY <1>1, LinesUpto
<1> QED BY <1>1, <1>2, <1>3

LEMMA UpsertOfBare ==
    ASSUME NEW s \in Seq(Tokens), Bare(s), NEW v \in DOMAIN Body, NEW anchor
    PROVE  \E o, r \in Seq(Tokens) : IsUpserted(Upsert(s, v, anchor), s, o, v, r)
<1> DEFINE b == Position(s, "begin")
           e == Position(s, "end")
           l == NextHeading(s, 1, {"tools"})
           a == Position(s, anchor)
           t == Upsert(s, v, anchor)
<1>1. b = 0 /\ l = Len(s) + 1 /\ Len(s) \in Nat
  BY BarePositions
<1>2. ~ (b > 0 /\ e > b) /\ l > Len(s) /\ ~ (l <= Len(s))
  BY <1>1
<1>3. t = IF s = <<>> THEN Section(v)
          ELSE IF a > 0 THEN (Upto(s, a - 1) \o (Block(v) \o <<NL>>)) \o From(s, a)
          ELSE TrimEnd(s) \o Section(v)
  <2> HIDE DEF b, e, l, a
  <2> QED BY <1>2 DEF Upsert, b, e, l, a
<1>4. UsersText(s) = Lines(s)
  BY UsersOfBare
<1> SUFFICES \E o, r \in Seq(Tokens) : IsUpserted(t, s, o, v, r)
  OBVIOUS
<1> HIDE DEF t
<1>5. ASSUME NEW w \in Seq(Tokens), Bare(w), Lines(w) = Lines(s), t = w \o Section(v)
      PROVE  \E o, r \in Seq(Tokens) : IsUpserted(t, s, o, v, r)
  <2>1. PICK o \in Seq(Tokens), r \in Seq(Tokens) :
           IsBlocked(t, o, v, r) /\ StartsBlank(r) /\ Lines(o) = Lines(w) /\ Lines(r) = <<>>
    <3>1. IsAppended(t, w, v)
      BY <1>5, Zenon DEF IsAppended
    <3> QED BY <3>1, AppendedIs
  <2>2. LinesOf(o, r) = UsersText(s)
    BY <1>4, <1>5, <2>1, LinesOfEmpty
  <2>3. IsUpserted(t, s, o, v, r)
    BY <1>1, <2>1, <2>2 DEF IsUpserted
  <2> QED BY <2>3
<1>6. CASE s = <<>>
  <2>1. t = <<>> \o Section(v)
    <3>1. Section(v) \in Seq(Tokens)
      <4>1. Block(v) \in Seq(Tokens) /\ <<NL>> \in Seq(Tokens)
        BY BlockFacts, LineEnd
      <4> QED BY <4>1 DEF Section
    <3> DEFINE w == Section(v)
    <3>2. w = <<>> \o w
      <4> HIDE DEF w
      <4> QED BY <3>1 DEF w
    <3> QED BY <1>3, <1>6, <3>2
  <2>2. <<>> \in Seq(Tokens) /\ Bare(<<>>) /\ Lines(<<>>) = Lines(s)
    BY <1>6, BareEmpty
  <2> QED BY <1>5, <2>1, <2>2
<1>7. CASE s # <<>> /\ a > 0
  <2> DEFINE k == a - 1
             p == Upto(s, k)
             q == From(s, k + 1)
  <2>1. a \in 0 .. Len(s)
    BY PositionFacts
  <2>2. k \in 0 .. Len(s) /\ k + 1 = a
    BY <1>1, <1>7, <2>1
  <2>3. p \in Seq(Tokens) /\ q \in Seq(Tokens) /\ Bare(p) /\ Bare(q) /\ IsTwo(s, p, q)
    <3> HIDE DEF k
    <3> QED BY <2>2, CutInTwo, BareParts
  <2>4. t = (p \o (Block(v) \o <<NL>>)) \o q
    BY <1>3, <1>7, <2>2
  <2> HIDE DEF p, q
  <2>5. IsPut(t, p, v, q)
    BY <2>3, <2>4, Zenon DEF IsPut
  <2>6. PICK r \in Seq(Tokens) : IsBlocked(t, p, v, r) /\ StartsBlank(r) /\ Lines(r) = Lines(q)
    BY <2>5, PutIs
  <2>7. LinesOf(p, r) = UsersText(s)
    <3>1. Lines(s) = LinesOf(p, q)
      BY <2>3, LinesOfTwo
    <3> QED BY <1>4, <2>6, <3>1, Zenon DEF LinesOf
  <2>8. IsUpserted(t, s, p, v, r)
    BY <1>1, <2>6, <2>7 DEF IsUpserted
  <2> QED BY <2>3, <2>8
<1>8. CASE s # <<>> /\ ~ (a > 0)
  <2>1. t = TrimEnd(s) \o Section(v)
    BY <1>3, <1>8
  <2> QED BY <1>5, <2>1, TrimmedIs
<1> QED BY <1>6, <1>7, <1>8

LEMMA UpsertIs ==
    ASSUME NEW s, WellFormed(s), NEW v \in DOMAIN Body, NEW anchor
    PROVE  \E o, r \in Seq(Tokens) : IsUpserted(Upsert(s, v, anchor), s, o, v, r)
<1>1. s \in Seq(Tokens) /\ (Bare(s) \/ Blocked(s) \/ Sectioned(s))
  BY DEF WellFormed
<1>2. CASE Bare(s)
  BY <1>1, <1>2, UpsertOfBare
<1>3. CASE Blocked(s)
  <2>1. PICK p \in Seq(Tokens), q \in Seq(Tokens), u \in DOMAIN Body : IsBlocked(s, p, u, q)
    BY <1>1, <1>3, BlockedHas
  <2> QED BY <2>1, UpsertOfBlocked
<1>4. CASE Sectioned(s)
  <2>1. PICK p \in Seq(Tokens), m \in Seq(Tokens), q \in Seq(Tokens) : IsSectioned(s, p, m, q)
    BY <1>1, <1>4, SectionedHas
  <2> QED BY <2>1, UpsertOfSectioned
<1> QED BY <1>1, <1>2, <1>3, <1>4


\* A text with this version's block, at the start of a line or below a title.
IsCurrent(s, p, v, q) ==
    /\ IsBlocked(s, p, v, q) /\ StartsBlank(q) /\ p # <<>>
    /\ p[1] \in Title \/ p[Len(p)] = NL

LEMMA ThreeAfter ==
    ASSUME NEW t, NEW n, NEW s, NEW o, NEW p, NEW b, NEW q,
           IsTwo(t, n, s), IsTwo(o, n, p), IsThree(s, p, b, q)
    PROVE  IsThree(t, o, b, q)
<1>1. n \in Seq(Tokens) /\ p \in Seq(Tokens) /\ b \in Seq(Tokens) /\ q \in Seq(Tokens)
  BY DEF IsTwo, IsThree
<1>2. t = n \o s /\ o = n \o p /\ s = (p \o b) \o q
  BY DEF IsTwo, IsThree
<1>3. o \in Seq(Tokens)
  BY <1>1, <1>2
<1> DEFINE w == p \o b
<1>4. w \in Seq(Tokens)
  BY <1>1
<1>6. (n \o p) \o b = n \o w
  <2>1. n \in Seq(Tokens) /\ p \in Seq(Tokens) /\ b \in Seq(Tokens)
    BY <1>1
  <2>2. Associate(n, p, b)
    BY <2>1, Associative
  <2> QED BY <2>2, Zenon DEF Associate
<1> HIDE DEF w
<1>7. (n \o w) \o q = n \o (w \o q)
  <2>1. n \in Seq(Tokens) /\ w \in Seq(Tokens) /\ q \in Seq(Tokens)
    BY <1>1, <1>4
  <2>2. Associate(n, w, q)
    BY <2>1, Associative
  <2> QED BY <2>2, Zenon DEF Associate
<1>5. t = (o \o b) \o q
  BY <1>2, <1>6, <1>7, Zenon DEF w
<1> QED BY <1>1, <1>3, <1>5, Zenon DEF IsThree

IsTitled(t, s) == t = <<"title", NL>> \o s

LEMMA TitledBefore ==
    ASSUME NEW s, NEW p, NEW v, NEW q, IsBlocked(s, p, v, q), NEW t, IsTitled(t, s)
    PROVE  \E o \in Seq(Tokens) : /\ IsBlocked(t, o, v, q)
                                  /\ o # <<>> /\ o[1] = "title" /\ Lines(o) = Lines(p)
<1> DEFINE n == <<"title", NL>>
           o == n \o p
           b == Block(v)
<1>1. /\ p \in Seq(Tokens) /\ q \in Seq(Tokens) /\ v \in DOMAIN Body /\ b \in Seq(Tokens)
      /\ Bare(p) /\ Bare(q)
  BY BlockFacts DEF IsBlocked
<1>3. NL \in Tokens /\ "title" \in Tokens /\ NL \notin Traces /\ "title" \notin Traces
  BY NLFacts DEF Fixed
<1>4. n \in Seq(Tokens)
  BY <1>3
<1>5. \A j \in 1 .. Len(n) : n[j] \in {NL, "title"}
  OBVIOUS
<1>6. Lines(n) = <<>>
  BY <1>4, <1>5, LinesOfBlank
<1>7. Bare(n)
  <2>1. \A j \in DOMAIN n : n[j] = NL \/ n[j] = "title"
    OBVIOUS
  <2> HIDE DEF n
  <2> QED BY <1>3, <2>1 DEF Bare
<1>8. o \in Seq(Tokens) /\ o[1] = "title" /\ o # <<>>
  BY <1>1, <1>3
<1> HIDE DEF n, b
<1>9. IsTwo(o, n, p)
  BY <1>1, <1>4, Zenon DEF IsTwo
<1>10. Lines(o) = Lines(p)
  BY <1>1, <1>4, <1>6, <1>9, LinesOfTwo, LinesOfEmpty
<1>11. Bare(o)
  BY <1>1, <1>4, <1>7, BareConcat
<1>12. IsTwo(t, n, s)
  <2>1. s \in Seq(Tokens)
    BY BlockedAt
  <2> QED BY <1>4, <2>1, Zenon DEF IsTwo, IsTitled, n
<1>13. IsThree(t, o, b, q)
  <2>1. IsThree(s, p, b, q)
    BY DEF IsBlocked, b
  <2> QED BY <1>9, <1>12, <2>1, ThreeAfter
<1> HIDE DEF o
<1>14. IsBlocked(t, o, v, q)
  BY <1>1, <1>8, <1>11, <1>13, Zenon DEF IsBlocked, b
<1> QED BY <1>8, <1>10, <1>14

LEMMA BlockedStart ==
    ASSUME NEW s, NEW p, NEW v, NEW q, IsBlocked(s, p, v, q)
    PROVE  /\ p = <<>> => At(s, 1) = "begin"
           /\ p # <<>> => At(s, 1) = p[1] /\ p[1] \notin Traces
<1>1. /\ s \in Seq(Tokens) /\ Len(s) = Len(p) + 7 + Len(q) /\ Len(p) \in Nat /\ Len(q) \in Nat
      /\ \A i \in 1 .. Len(p) : s[i] = p[i] /\ s[i] \notin Traces
      /\ s[Len(p) + 1] = "begin" /\ p \in Seq(Tokens)
  BY BlockedAt
<1>2. At(s, 1) = s[1]
  BY <1>1 DEF At
<1>3. CASE p = <<>>
  BY <1>1, <1>2, <1>3
<1>4. CASE p # <<>>
  <2>1. 1 \in 1 .. Len(p)
    BY <1>1, <1>4
  <2> QED BY <1>1, <1>2, <1>4, <2>1
<1> QED BY <1>3, <1>4

LEMMA UpsertTitledIs ==
    ASSUME NEW s, WellFormed(s), At(s, 1) # "begin", NEW v \in DOMAIN Body, NEW anchor
    PROVE  \E o, r \in Seq(Tokens) : /\ IsCurrent(UpsertTitled(s, v, anchor), o, v, r)
                                     /\ LinesOf(o, r) = UsersText(s)
<1> DEFINE new == Upsert(s, v, anchor)
           t == UpsertTitled(s, v, anchor)
<1>1. PICK p \in Seq(Tokens), q \in Seq(Tokens) : IsUpserted(new, s, p, v, q)
  BY UpsertIs
<1>2. t = IF new = s THEN s ELSE IF StartsTitled(new) THEN new ELSE <<"title", NL>> \o new
  BY DEF UpsertTitled, WithTitle
<1>3. /\ IsBlocked(new, p, v, q) /\ StartsBlank(q) /\ LinesOf(p, q) = UsersText(s)
      /\ Position(s, "begin") # 0 /\ p # <<>> => p[Len(p)] = NL
  BY <1>1 DEF IsUpserted
<1> SUFFICES \E o, r \in Seq(Tokens) : IsCurrent(t, o, v, r) /\ LinesOf(o, r) = UsersText(s)
  OBVIOUS
<1> HIDE DEF new, t
<1>4. Len(p) \in Nat /\ Position(new, "begin") = Len(p) + 1
  BY <1>3, BlockedAt, BlockedPositions
<1>5. CASE new = s
  <2>1. t = new /\ Position(s, "begin") # 0
    BY <1>2, <1>4, <1>5
  <2>2. p # <<>>
    BY <1>3, <1>5, BlockedStart
  <2>3. IsCurrent(t, p, v, q)
    BY <1>3, <2>1, <2>2 DEF IsCurrent
  <2> QED BY <1>3, <2>3
<1>6. CASE new # s /\ StartsTitled(new)
  <2>1. t = new /\ At(new, 1) \in Title
    BY <1>2, <1>6 DEF StartsTitled
  <2>2. p # <<>> /\ p[1] \in Title
    BY <1>3, <2>1, BlockedStart, TraceFacts
  <2>3. IsCurrent(t, p, v, q)
    BY <1>3, <2>1, <2>2 DEF IsCurrent
  <2> QED BY <1>3, <2>3
<1>7. CASE new # s /\ ~ StartsTitled(new)
  <2>1. IsTitled(t, new)
    BY <1>2, <1>7 DEF IsTitled
  <2>2. PICK o \in Seq(Tokens) : /\ IsBlocked(t, o, v, q)
                                 /\ o # <<>> /\ o[1] = "title" /\ Lines(o) = Lines(p)
    BY <1>3, <2>1, TitledBefore
  <2>3. IsCurrent(t, o, v, q)
    BY <1>3, <2>1, <2>2 DEF IsCurrent, Title
  <2>4. LinesOf(o, q) = UsersText(s)
    BY <1>3, <2>2, Zenon DEF LinesOf
  <2> QED BY <2>3, <2>4
<1> QED BY <1>5, <1>6, <1>7

\* What it means for the text the step leaves.
LEMMA UpsertTitledKeeps ==
    ASSUME NEW s, WellFormed(s), At(s, 1) # "begin", NEW v \in DOMAIN Body, NEW anchor
    PROVE  /\ WellFormed(UpsertTitled(s, v, anchor))
           /\ At(UpsertTitled(s, v, anchor), 1) # "begin"
           /\ UsersText(UpsertTitled(s, v, anchor)) = UsersText(s)
<1> DEFINE t == UpsertTitled(s, v, anchor)
<1>1. PICK o \in Seq(Tokens), r \in Seq(Tokens) : IsCurrent(t, o, v, r) /\ LinesOf(o, r) = UsersText(s)
  BY UpsertTitledIs
<1> HIDE DEF t
<1>2. IsBlocked(t, o, v, r) /\ o # <<>>
  BY <1>1 DEF IsCurrent
<1>3. WellFormed(t)
  BY <1>2, BlockedMakes
<1>4. At(t, 1) # "begin"
  BY <1>2, BlockedStart, TraceFacts
<1>5. UsersText(t) = UsersText(s)
  BY <1>1, <1>2, UsersOfBlocked
<1> QED BY <1>3, <1>4, <1>5 DEF t

---------------------------------------------------------------------------
LEMMA AppendOnceKeeps ==
    ASSUME NEW s, WellFormed(s), NEW v \in DOMAIN Body
    PROVE  /\ WellFormed(AppendOnce(s, v)) /\ UsersText(AppendOnce(s, v)) = UsersText(s)
           /\ Position(AppendOnce(s, v), "tools") > 0
<1> DEFINE t == AppendOnce(s, v)
<1>1. s \in Seq(Tokens) /\ (Bare(s) \/ Blocked(s) \/ Sectioned(s))
  BY DEF WellFormed
<1>2. t = IF Position(s, "tools") > 0 THEN s
          ELSE IF s = <<>> THEN <<"title", NL>> \o Section(v)
          ELSE (TrimEnd(s) \o <<NL>>) \o Section(v)
  BY DEF AppendOnce
<1> SUFFICES WellFormed(t) /\ UsersText(t) = UsersText(s) /\ Position(t, "tools") > 0
  OBVIOUS
<1> HIDE DEF t
<1>3. CASE Blocked(s)
  <2>1. PICK p \in Seq(Tokens), q \in Seq(Tokens), u \in DOMAIN Body : IsBlocked(s, p, u, q)
    BY <1>1, <1>3, BlockedHas
  <2>2. Position(s, "tools") > 0
    BY <2>1, BlockedAt, BlockedPositions
  <2> QED BY <1>2, <2>2
<1>4. CASE Sectioned(s)
  <2>1. PICK p \in Seq(Tokens), m \in Seq(Tokens), q \in Seq(Tokens) : IsSectioned(s, p, m, q)
    BY <1>1, <1>4, SectionedHas
  <2>2. Position(s, "tools") > 0
    BY <2>1, SectionedPositions DEF AreParts
  <2> QED BY <1>2, <2>2
<1>5. CASE Bare(s)
  <2>1. Position(s, "tools") = 0 /\ UsersText(s) = Lines(s)
    BY <1>1, <1>5, BarePositions, UsersOfBare
  <2>2. ASSUME NEW w \in Seq(Tokens), Bare(w), Lines(w) = Lines(s), t = w \o Section(v)
        PROVE  WellFormed(t) /\ UsersText(t) = UsersText(s) /\ Position(t, "tools") > 0
    <3>1. IsAppended(t, w, v)
      BY <2>2, Zenon DEF IsAppended
    <3>2. PICK o \in Seq(Tokens), r \in Seq(Tokens) :
             IsBlocked(t, o, v, r) /\ StartsBlank(r) /\ Lines(o) = Lines(w) /\ Lines(r) = <<>>
      BY <3>1, AppendedIs
    <3>3. UsersText(t) = LinesOf(o, r) /\ WellFormed(t)
      BY <3>2, UsersOfBlocked, BlockedMakes
    <3>4. LinesOf(o, r) = Lines(s)
      BY <2>2, <3>2, LinesOfEmpty
    <3>5. Position(t, "tools") > 0
      BY <3>2, BlockedAt, BlockedPositions
    <3> QED BY <2>1, <3>3, <3>4, <3>5
  <2>3. CASE s = <<>>
    <3> DEFINE n == <<"title", NL>>
    <3>1. NL \in Tokens /\ "title" \in Tokens /\ NL \notin Traces /\ "title" \notin Traces
      BY NLFacts DEF Fixed
    <3>2. n \in Seq(Tokens)
      BY <3>1
    <3>3. Lines(n) = <<>>
      <4>1. \A j \in 1 .. Len(n) : n[j] \in {NL, "title"}
        OBVIOUS
      <4> QED BY <3>2, <4>1, LinesOfBlank
    <3>4. Bare(n)
      <4>1. \A j \in DOMAIN n : n[j] = NL \/ n[j] = "title"
        OBVIOUS
      <4> HIDE DEF n
      <4> QED BY <3>1, <4>1 DEF Bare
    <3>5. Lines(s) = <<>>
      <4>1. \A j \in 1 .. Len(s) : s[j] \in {NL, "title"}
        BY <2>3
      <4> QED BY <1>1, <4>1, LinesOfBlank
    <3>6. t = n \o Section(v)
      BY <1>2, <2>1, <2>3
    <3> HIDE DEF n
    <3> QED BY <2>2, <3>2, <3>3, <3>4, <3>5, <3>6
  <2>4. CASE s # <<>>
    <3> DEFINE w == TrimEnd(s) \o <<NL>>
    <3>1. TrimEnd(s) \in Seq(Tokens) /\ Bare(TrimEnd(s)) /\ Lines(TrimEnd(s)) = Lines(s)
      BY <1>1, <1>5, TrimmedIs
    <3>2. w \in Seq(Tokens) /\ Bare(w) /\ Lines(w) = Lines(s)
      BY <3>1, LineEndAfter
    <3>3. t = w \o Section(v)
      BY <1>2, <2>1, <2>4
    <3> HIDE DEF w
    <3> QED BY <2>2, <3>2, <3>3
  <2> QED BY <2>3, <2>4
<1> QED BY <1>1, <1>3, <1>4, <1>5

---------------------------------------------------------------------------
LEMMA BareAt ==
    ASSUME NEW s \in Seq(Tokens), Bare(s)
    PROVE  At(s, 1) # "begin"
  BY TraceFacts DEF At, Bare

LEMMA StripKeeps ==
    ASSUME NEW s, WellFormed(s)
    PROVE  /\ WellFormed(Strip(s)) /\ UsersText(Strip(s)) = UsersText(s)
           /\ Position(Strip(s), "begin") = 0
           /\ At(s, 1) # "begin" => At(Strip(s), 1) # "begin"
<1> DEFINE t == Strip(s)
           b == Position(s, "begin")
           e == Position(s, "end")
<1>1. s \in Seq(Tokens) /\ (Bare(s) \/ Blocked(s) \/ Sectioned(s))
  BY DEF WellFormed
<1>2. t = IF b = 0 \/ e < b THEN s
          ELSE Upto(s, IF At(s, b - 1) = NL THEN b - 2 ELSE b - 1)
               \o From(s, IF At(s, e + 1) = NL THEN e + 2 ELSE e + 1)
  BY DEF Strip
<1> SUFFICES /\ WellFormed(t) /\ UsersText(t) = UsersText(s) /\ Position(t, "begin") = 0
             /\ At(s, 1) # "begin" => At(t, 1) # "begin"
  OBVIOUS
<1> HIDE DEF t
<1>3. CASE Bare(s)
  <2>1. b = 0
    BY <1>1, <1>3, BarePositions
  <2> QED BY <1>2, <2>1
<1>4. CASE Sectioned(s)
  <2>1. PICK p \in Seq(Tokens), m \in Seq(Tokens), q \in Seq(Tokens) : IsSectioned(s, p, m, q)
    BY <1>1, <1>4, SectionedHas
  <2>2. b = 0
    BY <2>1, SectionedPositions
  <2> QED BY <1>2, <2>2
<1>5. CASE Blocked(s)
  <2>1. PICK p \in Seq(Tokens), q \in Seq(Tokens), u \in DOMAIN Body : IsBlocked(s, p, u, q)
    BY <1>1, <1>5, BlockedHas
  <2>2. b = Len(p) + 1 /\ e = Len(p) + 7
    BY <2>1, BlockedPositions
  <2>3. /\ Len(s) = Len(p) + 7 + Len(q) /\ Len(p) \in Nat /\ Len(q) \in Nat
        /\ \A i \in 1 .. Len(p) : s[i] = p[i]
    BY <2>1, BlockedAt
  <2> DEFINE k == IF At(s, b - 1) = NL THEN b - 2 ELSE b - 1
             x == Upto(s, k)
             c == From(s, IF At(s, e + 1) = NL THEN e + 2 ELSE e + 1)
  <2>4. c \in Seq(Tokens) /\ Bare(c) /\ Lines(c) = Lines(q)
    BY <2>1, <2>2, AfterTheBlock
  <2>5. k \in 0 .. Len(p) /\ \A j \in k + 1 .. Len(p) : p[j] = NL
    <3>1. CASE At(s, b - 1) = NL
      <4>1. b - 1 \in 1 .. Len(s) /\ s[b - 1] = NL
        <5>1. b - 1 \in Nat /\ NL # "none"
          BY <2>2, <2>3, TraceFacts
        <5> QED BY <1>1, <3>1, <5>1, AtIs
      <4>2. Len(p) >= 1 /\ p[Len(p)] = NL /\ k = Len(p) - 1
        BY <2>2, <2>3, <3>1, <4>1
      <4> HIDE DEF k
      <4> QED BY <2>3, <4>2
    <3>2. CASE At(s, b - 1) # NL
      <4>1. k = Len(p)
        BY <2>2, <2>3, <3>2
      <4> HIDE DEF k
      <4> QED BY <2>3, <4>1
    <3> QED BY <3>1, <3>2
  <2>6. x = Upto(p, k)
    <3> HIDE DEF k
    <3>1. IsThree(s, p, Block(u), q)
      BY <2>1 DEF IsBlocked
    <3>2. Upto(s, Len(p)) = p
      BY <3>1, CutsOfThree
    <3>3. Upto(Upto(s, Len(p)), k) = Upto(s, k)
      BY <1>1, <2>3, <2>5 DEF Upto
    <3> QED BY <3>2, <3>3
  <2>7. Bare(p) /\ p \in Seq(Tokens)
    BY <2>1 DEF IsBlocked
  <2>8. x \in Seq(Tokens) /\ Bare(x) /\ Lines(x) = Lines(p)
    <3> HIDE DEF k
    <3>1. Upto(p, k) \in Seq(Tokens) /\ Bare(Upto(p, k)) /\ Lines(Upto(p, k)) = Lines(p)
      BY <2>5, <2>7, CutInTwo, BareParts, LinesUpto
    <3> HIDE DEF x
    <3> QED BY <2>6, <3>1
  <2>9. t = x \o c
    BY <1>2, <2>2, <2>3
  <2> HIDE DEF x, c
  <2>10. IsTwo(t, x, c) /\ t \in Seq(Tokens)
    <3>1. IsTwo(t, x, c)
      BY <2>4, <2>8, <2>9, Zenon DEF IsTwo
    <3> QED BY <3>1, PartsOfTwo DEF AreTwo
  <2>11. Bare(t)
    BY <2>4, <2>8, <2>9, BareConcat
  <2>12. UsersText(t) = UsersText(s)
    <3>1. UsersText(t) = Lines(t) /\ Lines(t) = LinesOf(x, c)
      BY <2>10, <2>11, UsersOfBare, LinesOfTwo
    <3>2. UsersText(s) = LinesOf(p, q)
      BY <2>1, UsersOfBlocked
    <3> QED BY <2>4, <2>8, <3>1, <3>2, Zenon DEF LinesOf
  <2> QED BY <2>10, <2>11, <2>12, BarePositions, BareAt DEF WellFormed
<1> QED BY <1>1, <1>3, <1>4, <1>5


LEMMA RestOfThree ==
    ASSUME NEW a, NEW b, NEW c, NEW s, IsThree(s, a, b, c)
    PROVE  From(s, Len(a) + 1) = b \o c
<1>0. a \in Seq(Tokens) /\ b \in Seq(Tokens) /\ c \in Seq(Tokens) /\ s = (a \o b) \o c
  BY DEF IsThree
<1> QED BY <1>0 DEF From

UnjoinedIs(s, p, v, q) ==
    /\ p = <<>> \/ p[Len(p)] = NL => Unjoined(s) = s
    /\ p # <<>> /\ p[Len(p)] # NL => IsBlocked(Unjoined(s), p \o <<NL>>, v, q)

LEMMA UpsertOfCurrent ==
    ASSUME NEW s, NEW p, NEW v, NEW q, IsBlocked(s, p, v, q), StartsBlank(q), NEW anchor
    PROVE  Upsert(s, v, anchor) = Unjoined(s) /\ UnjoinedIs(s, p, v, q)
<1> DEFINE b == Position(s, "begin")
           e == Position(s, "end")
           x == IF b > 1 /\ s[b - 1] # NL THEN <<NL>> ELSE <<>>
           c == From(s, IF At(s, e + 1) = NL THEN e + 2 ELSE e + 1)
           t == Upsert(s, v, anchor)
           u == Unjoined(s)
           o == p \o x
           n == <<NL>>
           k == Block(v)
<1>1. /\ s \in Seq(Tokens) /\ p \in Seq(Tokens) /\ q \in Seq(Tokens) /\ Len(p) \in Nat
      /\ v \in DOMAIN Body /\ \A i \in 1 .. Len(p) : s[i] = p[i]
  BY BlockedAt
<1>2. b = Len(p) + 1 /\ e = Len(p) + 7
  BY BlockedPositions
<1>3. c \in Seq(Tokens) /\ q = n \o c
  BY <1>2, AfterTheBlock
<1>30. IsThree(s, p, k, q) /\ Bare(p) /\ Bare(q)
  BY DEF IsBlocked
<1>4. Upto(s, b - 1) = p /\ From(s, b) = k \o q
  <2>2. Upto(s, Len(p)) = p /\ From(s, Len(p) + 1) = k \o q
    <3> HIDE DEF k
    <3> QED BY <1>30, CutsOfThree, RestOfThree
  <2> QED BY <1>1, <1>2, <2>2
<1>5. b > 0 /\ e > b /\ b - 1 = Len(p)
  BY <1>1, <1>2
<1>6. t = ((Upto(s, b - 1) \o x) \o (k \o n)) \o c
  <2> HIDE DEF b, e
  <2> QED BY <1>5 DEF Upsert, b, e
<1>7. t = (o \o (k \o n)) \o c
  BY <1>4, <1>6
<1>8. (b > 1 /\ s[b - 1] # NL) <=> (p # <<>> /\ p[Len(p)] # NL)
  <2>1. CASE p = <<>>
    <3>1. ~ (b > 1)
      BY <1>2, <2>1
    <3> QED BY <2>1, <3>1
  <2>2. CASE p # <<>>
    <3>1. Len(p) \in 1 .. Len(p) /\ b > 1 /\ s[b - 1] = p[Len(p)]
      BY <1>1, <1>2, <2>2
    <3> QED BY <2>2, <3>1
  <2> QED BY <2>1, <2>2
<1>9. u = IF b > 1 /\ s[b - 1] # NL THEN (p \o n) \o (k \o q) ELSE s
  <2>1. u = IF b > 1 /\ s[b - 1] # NL THEN (Upto(s, b - 1) \o n) \o From(s, b) ELSE s
    BY DEF Unjoined
  <2> QED BY <1>4, <2>1
<1>10. k \in Seq(Tokens) /\ n \in Seq(Tokens)
  BY <1>1, BlockFacts, LineEnd
<1> SUFFICES /\ t = u /\ (p = <<>> \/ p[Len(p)] = NL => u = s)
             /\ p # <<>> /\ p[Len(p)] # NL => IsBlocked(u, p \o n, v, q)
  BY DEF UnjoinedIs
<1>11. IsThree(t, o, k, q)
  <2>0. x \in Seq(Tokens)
    <3>1. <<NL>> \in Seq(Tokens) /\ <<>> \in Seq(Tokens)
      BY <1>10
    <3> QED BY <3>1
  <2> HIDE DEF x
  <2>1. o \in Seq(Tokens)
    BY <1>1, <2>0
  <2> HIDE DEF o, t, c, n, k
  <2>2. IsFour(t, o, k, n, c)
    BY <1>3, <1>7, <1>10, <2>1 DEF IsFour
  <2> QED BY <1>3, <2>2, Regrouped
<1>12. CASE ~ (b > 1 /\ s[b - 1] # NL)
  <2>1. o = p /\ u = s
    BY <1>1, <1>9, <1>12
  <2>2. t = s
    <3> HIDE DEF t, o
    <3> QED BY <1>11, <1>30, <2>1, Zenon DEF IsThree
  <2> HIDE DEF t, u
  <2> QED BY <1>8, <1>12, <2>1, <2>2
<1>13. CASE b > 1 /\ s[b - 1] # NL
  <2>1. o = p \o n /\ u = o \o (k \o q)
    BY <1>9, <1>13
  <2>2. o \in Seq(Tokens) /\ Bare(o)
    <3> HIDE DEF o, n
    <3> QED BY <1>1, <1>30, <2>1, LineEndAfter DEF n
  <2> HIDE DEF t, u, o, k
  <2>3. (o \o k) \o q = o \o (k \o q)
    <3>1. o \in Seq(Tokens) /\ k \in Seq(Tokens) /\ q \in Seq(Tokens)
      BY <1>1, <1>10, <2>2
    <3>2. Associate(o, k, q)
      BY <3>1, Associative
    <3> QED BY <3>2, Zenon DEF Associate
  <2>4. t = u
    BY <1>11, <2>1, <2>3, Zenon DEF IsThree
  <2>5. IsBlocked(u, o, v, q)
    BY <1>1, <1>11, <1>30, <2>2, <2>4 DEF IsBlocked, k
  <2>6. IsBlocked(u, p \o n, v, q)
    BY <2>1, <2>5, Zenon
  <2> HIDE DEF n
  <2> QED BY <1>8, <1>13, <2>4, <2>6
<1> QED BY <1>12, <1>13

LEMMA CurrentSettles ==
    ASSUME NEW s, NEW p, NEW v, NEW q, IsCurrent(s, p, v, q), NEW anchor
    PROVE  /\ UpsertTitled(s, v, anchor) = Unjoined(s)
           /\ UpsertTitled(Unjoined(s), v, anchor) = Unjoined(s)
<1> DEFINE u == Unjoined(s)
           n == p \o <<NL>>
<1>1. IsBlocked(s, p, v, q) /\ StartsBlank(q) /\ p # <<>> /\ (p[1] \in Title \/ p[Len(p)] = NL)
  BY DEF IsCurrent
<1>2. /\ Upsert(s, v, anchor) = u
      /\ p = <<>> \/ p[Len(p)] = NL => u = s
      /\ p # <<>> /\ p[Len(p)] # NL => IsBlocked(u, n, v, q)
  <2>1. Upsert(s, v, anchor) = u /\ UnjoinedIs(s, p, v, q)
    BY <1>1, UpsertOfCurrent
  <2> QED BY <2>1, Zenon DEF UnjoinedIs
<1>3. p \in Seq(Tokens) /\ Bare(p)
  BY <1>1 DEF IsBlocked
<1>4. /\ Len(n) = Len(p) + 1 /\ n[Len(p) + 1] = NL /\ \A i \in 1 .. Len(p) : n[i] = p[i]
      /\ n \in Seq(Tokens)
  BY <1>3, LineEndAfter
<1> HIDE DEF u, n
<1>5. CASE p[Len(p)] = NL
  BY <1>2, <1>5, Zenon DEF UpsertTitled, u
<1>6. CASE p[Len(p)] # NL
  <2>1. IsBlocked(u, n, v, q) /\ p[1] \in Title
    BY <1>1, <1>2, <1>6
  <2>2. Len(p) \in Nat /\ 1 \in 1 .. Len(p)
    BY <1>1, <1>3
  <2>3. n # <<>> /\ n[1] \in Title /\ n[Len(n)] = NL
    BY <1>4, <2>1, <2>2
  <2>4. At(u, 1) \in Title
    BY <2>1, <2>3, BlockedStart
  <2>5. WithTitle(u) = u
    BY <2>4 DEF WithTitle, StartsTitled
  <2>6. UpsertTitled(s, v, anchor) = u
    BY <1>2, <2>5, Zenon DEF UpsertTitled
  <2>7. Upsert(u, v, anchor) = u
    <3>1. Upsert(u, v, anchor) = Unjoined(u) /\ UnjoinedIs(u, n, v, q)
      BY <1>1, <2>1, UpsertOfCurrent
    <3> QED BY <2>3, <3>1 DEF UnjoinedIs
  <2>8. UpsertTitled(u, v, anchor) = u
    BY <2>7, Zenon DEF UpsertTitled
  <2> QED BY <2>6, <2>8 DEF u
<1> QED BY <1>5, <1>6

LEMMA CurrentHasTheBlock ==
    ASSUME NEW s, NEW p, NEW v, NEW q, IsCurrent(s, p, v, q)
    PROVE  \E i \in 1 .. Len(s) - 7 : SubSeq(s, i, i + 7) = Block(v) \o <<NL>>
<1> DEFINE k == Block(v)
           n == <<NL>>
           w == k \o n
           e == Len(p) + 7
           c == From(s, IF At(s, e + 1) = NL THEN e + 2 ELSE e + 1)
<1>1. IsBlocked(s, p, v, q) /\ StartsBlank(q) /\ IsThree(s, p, k, q)
  BY DEF IsCurrent, IsBlocked
<1>2. c \in Seq(Tokens) /\ q = n \o c
  BY <1>1, AfterTheBlock
<1>3. p \in Seq(Tokens) /\ v \in DOMAIN Body /\ Len(p) \in Nat
  BY <1>1, BlockedAt
<1>4. k \in Seq(Tokens) /\ n \in Seq(Tokens)
  BY <1>3, BlockFacts, LineEnd
<1>5. Len(w) = 8 /\ w \in Seq(Tokens)
  <2>1. Len(k) + Len(n) = 8
    <3>1. Len(k) = 7
      BY <1>3, BlockFacts
    <3>2. Len(n) = 1
      OBVIOUS
    <3> HIDE DEF k, n
    <3> QED BY ONLY <3>1, <3>2
  <2> HIDE DEF k, n
  <2>2. IsTwo(w, k, n)
    BY <1>4, Zenon DEF IsTwo
  <2> HIDE DEF w
  <2>3. AreTwo(w, k, n)
    BY <2>2, PartsOfTwo
  <2>4. w \in Seq(Tokens) /\ Len(w) = Len(k) + Len(n)
    BY <2>3 DEF AreTwo
  <2> QED BY ONLY <2>1, <2>4
<1> HIDE DEF k, n, c
<1>6. (p \o w) \o c = (p \o k) \o q
  <2> DEFINE x == p \o k
  <2>1. x \in Seq(Tokens)
    BY <1>3, <1>4
  <2>2. x \o n = p \o w
    <3>1. p \in Seq(Tokens) /\ k \in Seq(Tokens) /\ n \in Seq(Tokens)
      BY <1>3, <1>4
    <3>2. Associate(p, k, n)
      BY <3>1, Associative
    <3> QED BY <3>2, Zenon DEF Associate
  <2> HIDE DEF x, w
  <2>3. (x \o n) \o c = x \o (n \o c)
    <3>1. x \in Seq(Tokens) /\ n \in Seq(Tokens) /\ c \in Seq(Tokens)
      BY <1>2, <1>4, <2>1
    <3>2. Associate(x, n, c)
      BY <3>1, Associative
    <3> QED BY <3>2, Zenon DEF Associate
  <2> QED BY <1>2, <2>2, <2>3, Zenon DEF x
<1> HIDE DEF w
<1>7. IsThree(s, p, w, c)
  BY <1>1, <1>2, <1>3, <1>5, <1>6, Zenon DEF IsThree
<1>8. SubSeq(s, Len(p) + 1, Len(p) + Len(w)) = w /\ Len(s) = Len(p) + Len(w) + Len(c) /\ Len(c) \in Nat
  BY <1>7, CutsOfThree, PartsOfThree DEF AreParts
<1> DEFINE i == Len(p) + 1
<1>9. i \in 1 .. Len(s) - 7 /\ i + 7 = Len(p) + Len(w)
  BY <1>3, <1>5, <1>8
<1>10. SubSeq(s, i, i + 7) = w
  BY <1>8, <1>9
<1> HIDE DEF i
<1> QED BY <1>9, <1>10 DEF w, k, n

LEMMA BlockedHasOneBlock ==
    ASSUME NEW s, NEW p, NEW v, NEW q, IsBlocked(s, p, v, q)
    PROVE  Cardinality({i \in DOMAIN s : s[i] \in {"tools", "old", "begin"}
                                       \/ s[i] \in {Body[u] : u \in DOMAIN Body}}) = 3
<1> DEFINE Marks == {"tools", "old", "begin"} \cup {Body[u] : u \in DOMAIN Body}
           n == Len(p)
           I == {i \in DOMAIN s : s[i] \in {"tools", "old", "begin"}
                                       \/ s[i] \in {Body[u] : u \in DOMAIN Body}}
<1>1. /\ s \in Seq(Tokens) /\ v \in DOMAIN Body
      /\ Len(s) = n + 7 + Len(q) /\ n \in Nat /\ Len(q) \in Nat
      /\ \A i \in 1 .. n : s[i] \notin Traces
      /\ s[n + 1] = "begin" /\ s[n + 2] = NL /\ s[n + 3] = "tools"
      /\ s[n + 4] = NL /\ s[n + 5] = Body[v] /\ s[n + 6] = NL
      /\ s[n + 7] = "end"
      /\ \A i \in 1 .. Len(q) : s[n + 7 + i] = q[i] /\ q[i] \notin Traces
  BY BlockedAt
<1>2. Marks \subseteq Traces
  BY TraceFacts
<1>3. NL \notin Marks /\ "end" \notin Marks
  <2>1. \A u \in DOMAIN Body : Body[u] # NL /\ Body[u] # "end"
    BY TraceFacts DEF Fixed
  <2> QED BY <2>1 DEF NL
<1>4. "begin" \in Marks /\ "tools" \in Marks /\ Body[v] \in Marks
  BY <1>1
<1>5. I = {i \in 1 .. Len(s) : s[i] \in Marks}
  BY <1>1
<1> HIDE DEF Marks, I, n
<1>6. \A i \in 1 .. Len(s) : s[i] \in Marks => i = n + 1 \/ i = n + 3 \/ i = n + 5
  <2> TAKE i \in 1 .. Len(s)
  <2>1. CASE i \in 1 .. n
    BY <1>1, <1>2, <2>1
  <2>2. CASE i \in n + 1 .. n + 7
    <3>1. \/ i = n + 1 \/ i = n + 2 \/ i = n + 3 \/ i = n + 4 \/ i = n + 5 \/ i = n + 6 \/ i = n + 7
      BY <1>1, <2>2
    <3> QED BY <1>1, <1>3, <3>1
  <2>3. CASE i - (n + 7) \in 1 .. Len(q)
    <3>1. n + 7 + (i - (n + 7)) = i
      BY <1>1
    <3>2. s[i] \notin Traces
      BY <1>1, <2>3, <3>1
    <3> QED BY <1>2, <3>2
  <2> QED BY <1>1, <2>1, <2>2, <2>3
<1>7. I = {n + 1, n + 3, n + 5}
  <2>1. n + 1 \in 1 .. Len(s) /\ n + 3 \in 1 .. Len(s) /\ n + 5 \in 1 .. Len(s)
    BY <1>1
  <2>2. s[n + 1] \in Marks /\ s[n + 3] \in Marks /\ s[n + 5] \in Marks
    BY <1>1, <1>4
  <2> QED BY <1>5, <1>6, <2>1, <2>2
<1>8. Cardinality({n + 1, n + 3, n + 5}) = 3
  <2>1. IsFiniteSet({}) /\ Cardinality({}) = 0
    BY FS_EmptySet
  <2>2. IsFiniteSet({n + 1}) /\ Cardinality({n + 1}) = 1
    BY FS_Singleton
  <2>3. IsFiniteSet({n + 1} \cup {n + 3}) /\ Cardinality({n + 1} \cup {n + 3}) = 2
    <3>1. n + 3 \notin {n + 1}
      BY <1>1
    <3> QED BY <2>2, <3>1, FS_AddElement
  <2>4. Cardinality(({n + 1} \cup {n + 3}) \cup {n + 5}) = 3
    <3>1. n + 5 \notin {n + 1} \cup {n + 3}
      BY <1>1
    <3> QED BY <2>3, <3>1, FS_AddElement
  <2>5. ({n + 1} \cup {n + 3}) \cup {n + 5} = {n + 1, n + 3, n + 5}
    OBVIOUS
  <2> QED BY <2>4, <2>5
<1> QED BY <1>7, <1>8 DEF I


IsHooked(s, p, v, q) ==
    /\ IsThree(s, p, ShellHook(v), q) /\ v \in DOMAIN Body
    /\ \A i \in 1 .. Len(p) : p[i] # "open"

LEMMA ShellHookFacts ==
    ASSUME NEW v \in DOMAIN Body
    PROVE  /\ ShellHook(v) \in Seq(Tokens) /\ Len(ShellHook(v)) = 5
           /\ ShellHook(v)[1] = "open" /\ ShellHook(v)[2] = NL /\ ShellHook(v)[3] = Body[v]
           /\ ShellHook(v)[4] = NL /\ ShellHook(v)[5] = "close"
<1>1. "open" \in Tokens /\ NL \in Tokens /\ "close" \in Tokens /\ Body[v] \in Tokens
  BY DEF Tokens, Fixed, NL
<1> QED BY <1>1 DEF ShellHook

LEMMA HookedAt ==
    ASSUME NEW s, NEW p, NEW v, NEW q, IsHooked(s, p, v, q)
    PROVE  /\ s \in Seq(Tokens) /\ Len(s) = Len(p) + 5 + Len(q) /\ Len(p) \in Nat /\ Len(q) \in Nat
           /\ \A i \in 1 .. Len(p) : s[i] = p[i] /\ s[i] # "open"
           /\ s[Len(p) + 1] = "open"
           /\ \A i \in Len(p) + 2 .. Len(p) + 4 : s[i] # "open" /\ s[i] # "close"
           /\ s[Len(p) + 5] = "close"
           /\ \A i \in 1 .. Len(q) : s[Len(p) + 5 + i] = q[i]
<1> DEFINE b == ShellHook(v)
<1>1. IsThree(s, p, b, q) /\ v \in DOMAIN Body /\ \A i \in 1 .. Len(p) : p[i] # "open"
  BY DEF IsHooked
<1>2. /\ Len(b) = 5 /\ b[1] = "open" /\ b[2] = NL /\ b[3] = Body[v]
      /\ b[4] = NL /\ b[5] = "close"
  BY <1>1, ShellHookFacts
<1> HIDE DEF b
<1>3. /\ s \in Seq(Tokens) /\ Len(s) = Len(p) + Len(b) + Len(q)
      /\ Len(p) \in Nat /\ Len(b) \in Nat /\ Len(q) \in Nat
      /\ \A i \in 1 .. Len(p) : s[i] = p[i]
      /\ \A i \in 1 .. Len(b) : s[Len(p) + i] = b[i]
      /\ \A i \in 1 .. Len(q) : s[Len(p) + Len(b) + i] = q[i]
  BY <1>1, PartsOfThree DEF AreParts
<1>4. \A i \in 1 .. 5 : s[Len(p) + i] = b[i]
  BY <1>2, <1>3
<1>5. NL # "open" /\ NL # "close" /\ Body[v] # "open" /\ Body[v] # "close"
  BY <1>1, BodyFacts DEF NL, Fixed
<1>6. /\ s[Len(p) + 1] = "open" /\ s[Len(p) + 2] = NL /\ s[Len(p) + 3] = Body[v]
      /\ s[Len(p) + 4] = NL /\ s[Len(p) + 5] = "close"
  BY <1>2, <1>4
<1>7. \A i \in Len(p) + 2 .. Len(p) + 4 : s[i] # "open" /\ s[i] # "close"
  <2> TAKE i \in Len(p) + 2 .. Len(p) + 4
  <2>1. i = Len(p) + 2 \/ i = Len(p) + 3 \/ i = Len(p) + 4
    BY <1>3
  <2> QED BY <1>5, <1>6, <2>1
<1>8. Len(s) = Len(p) + 5 + Len(q) /\ \A i \in 1 .. Len(q) : s[Len(p) + 5 + i] = q[i]
  BY <1>2, <1>3
<1> QED BY <1>1, <1>3, <1>6, <1>7, <1>8

LEMMA HookedSettles ==
    ASSUME NEW s, NEW p, NEW v, NEW q, IsHooked(s, p, v, q)
    PROVE  InstallShellHook(s, v) = s
<1> DEFINE o == Position(s, "open")
           closes == {j \in o .. Len(s) : o > 0 /\ s[j] = "close"}
           m == Min(closes)
<1>1. /\ s \in Seq(Tokens) /\ Len(s) = Len(p) + 5 + Len(q) /\ Len(p) \in Nat /\ Len(q) \in Nat
      /\ \A i \in 1 .. Len(p) : s[i] = p[i] /\ s[i] # "open"
      /\ s[Len(p) + 1] = "open"
      /\ \A i \in Len(p) + 2 .. Len(p) + 4 : s[i] # "open" /\ s[i] # "close"
      /\ s[Len(p) + 5] = "close"
  BY HookedAt
<1>2. o = Len(p) + 1
  <2>1. Len(p) + 1 \in 1 .. Len(s) /\ \A j \in 1 .. (Len(p) + 1) - 1 : s[j] # "open"
    BY <1>1
  <2> QED BY <1>1, <2>1, PositionIs
<1>3. Len(p) + 5 \in closes
  BY <1>1, <1>2
<1>4. closes \subseteq Nat /\ closes # {}
  BY <1>1, <1>2, <1>3
<1>5. m \in closes /\ \A j \in closes : m <= j
  <2> HIDE DEF closes
  <2> QED BY <1>4, MinOfSet
<1>6. m = Len(p) + 5
  <2>1. m <= Len(p) + 5
    BY <1>3, <1>5
  <2>2. m \in o .. Len(s) /\ s[m] = "close"
    BY <1>5
  <2>3. s[Len(p) + 1] # "close"
    BY <1>1
  <2> HIDE DEF m, o
  <2>4. m # Len(p) + 1 /\ ~ (m \in Len(p) + 2 .. Len(p) + 4)
    BY <1>1, <2>2, <2>3
  <2> QED BY <1>1, <1>2, <2>1, <2>2, <2>4
<1>7. InstallShellHook(s, v) = (Upto(s, o - 1) \o ShellHook(v)) \o From(s, m + 1)
  <2> HIDE DEF o, closes, m
  <2> QED BY <1>4, Zenon DEF InstallShellHook, o, closes, m
<1>8. IsThree(s, p, ShellHook(v), q) /\ Len(ShellHook(v)) = 5
  BY ShellHookFacts DEF IsHooked
<1>9. Upto(s, Len(p)) = p /\ From(s, Len(p) + Len(ShellHook(v)) + 1) = q
  BY <1>8, CutsOfThree
<1>10. o - 1 = Len(p) /\ m + 1 = Len(p) + Len(ShellHook(v)) + 1
  BY <1>1, <1>2, <1>6, <1>8
<1>11. Upto(s, o - 1) = p /\ From(s, m + 1) = q
  BY <1>9, <1>10
<1> HIDE DEF o, m, closes
<1> QED BY <1>7, <1>8, <1>11, Zenon DEF IsThree

LEMMA HookedIsClosed ==
    ASSUME NEW s, NEW p, NEW v, NEW q, IsHooked(s, p, v, q), Closed(q)
    PROVE  Closed(s)
<1>1. /\ s \in Seq(Tokens) /\ Len(s) = Len(p) + 5 + Len(q) /\ Len(p) \in Nat /\ Len(q) \in Nat
      /\ \A i \in 1 .. Len(p) : s[i] = p[i] /\ s[i] # "open"
      /\ s[Len(p) + 1] = "open"
      /\ \A i \in Len(p) + 2 .. Len(p) + 4 : s[i] # "open" /\ s[i] # "close"
      /\ s[Len(p) + 5] = "close"
      /\ \A i \in 1 .. Len(q) : s[Len(p) + 5 + i] = q[i]
  BY HookedAt
<1>2. q \in Seq(Tokens) /\ \A i \in 1 .. Len(q) : q[i] = "open" => \E j \in i .. Len(q) : q[j] = "close"
  BY DEF Closed
<1>3. ASSUME NEW i \in 1 .. Len(s), s[i] = "open"
      PROVE  \E j \in i .. Len(s) : s[j] = "close"
  <2>1. CASE i = Len(p) + 1
    <3>1. Len(p) + 5 \in i .. Len(s)
      BY <1>1, <2>1
    <3> QED BY <1>1, <3>1
  <2>2. CASE i - (Len(p) + 5) \in 1 .. Len(q)
    <3> DEFINE k == i - (Len(p) + 5)
    <3>1. k \in 1 .. Len(q) /\ Len(p) + 5 + k = i
      BY <1>1, <2>2
    <3> HIDE DEF k
    <3>2. q[k] = "open"
      BY <1>1, <1>3, <3>1
    <3>3. PICK j \in k .. Len(q) : q[j] = "close"
      BY <1>2, <3>1, <3>2
    <3>4. j \in 1 .. Len(q) /\ Len(p) + 5 + j \in i .. Len(s)
      BY <1>1, <3>1
    <3>5. s[Len(p) + 5 + j] = "close"
      BY <1>1, <3>3, <3>4
    <3> QED BY <3>4, <3>5
  <2>3. CASE i \in 1 .. Len(p)
    BY <1>1, <1>3, <2>3
  <2>4. CASE i \in Len(p) + 2 .. Len(p) + 4
    BY <1>1, <1>3, <2>4
  <2>5. CASE i = Len(p) + 5
    BY <1>1, <1>3, <2>5
  <2> QED BY <1>1, <2>1, <2>2, <2>3, <2>4, <2>5
<1> QED BY <1>1, <1>3 DEF Closed

LEMMA InstallShellHookIs ==
    ASSUME NEW s, Closed(s), NEW v \in DOMAIN Body
    PROVE  \E p, q \in Seq(Tokens) : IsHooked(InstallShellHook(s, v), p, v, q) /\ Closed(q)
<1> DEFINE o == Position(s, "open")
           closes == {j \in o .. Len(s) : o > 0 /\ s[j] = "close"}
           m == Min(closes)
           t == InstallShellHook(s, v)
           h == ShellHook(v)
<1>1. /\ s \in Seq(Tokens) /\ Len(s) \in Nat
      /\ \A i \in 1 .. Len(s) : s[i] = "open" => \E j \in i .. Len(s) : s[j] = "close"
  BY DEF Closed
<1>2. /\ o \in 0 .. Len(s) /\ (o # 0 => s[o] = "open")
      /\ \A j \in 1 .. o - 1 : s[j] # "open"
      /\ o = 0 => \A j \in 1 .. Len(s) : s[j] # "open"
  BY <1>1, PositionFacts
<1>3. t = IF closes # {} THEN (Upto(s, o - 1) \o h) \o From(s, m + 1)
          ELSE IF s = <<>> THEN h \o <<NL>>
          ELSE ((TrimEnd(s) \o <<NL>>) \o h) \o <<NL>>
  BY DEF InstallShellHook
<1>4. h \in Seq(Tokens) /\ <<NL>> \in Seq(Tokens)
  BY ShellHookFacts, LineEnd
<1>5. Closed(<<NL>>)
  <2>1. \A i \in DOMAIN <<NL>> : <<NL>>[i] # "open"
    BY DEF NL
  <2> QED BY <1>4, <2>1 DEF Closed
<1> SUFFICES \E p, q \in Seq(Tokens) : IsHooked(t, p, v, q) /\ Closed(q)
  OBVIOUS
<1> HIDE DEF t, h
<1>6. CASE closes # {}
  <2>1. closes \subseteq Nat /\ o > 0
    BY <1>1, <1>2, <1>6
  <2>2. m \in closes
    <3> HIDE DEF closes
    <3> QED BY <1>6, <2>1, MinOfSet
  <2>3. m \in 0 .. Len(s) /\ o - 1 \in 0 .. Len(s)
    BY <1>1, <1>2, <2>1, <2>2
  <2> HIDE DEF o, m
  <2> DEFINE p == Upto(s, o - 1)
             q == From(s, m + 1)
  <2>4. p \in Seq(Tokens) /\ Len(p) = o - 1 /\ \A j \in 1 .. o - 1 : p[j] = s[j]
    BY <1>1, <2>3, CutInTwo
  <2>5. IsRest(q, s, m)
    BY <1>1, <2>3, RestIs
  <2>6. q \in Seq(Tokens) /\ Len(q) = Len(s) - m /\ \A j \in 1 .. Len(s) - m : q[j] = s[m + j]
    BY <2>5 DEF IsRest
  <2>7. t = (p \o h) \o q
    BY <1>3, <1>6
  <2> HIDE DEF p, q
  <2>8. IsThree(t, p, h, q)
    BY <1>4, <2>4, <2>6, <2>7, Zenon DEF IsThree
  <2>9. IsHooked(t, p, v, q)
    BY <1>2, <2>4, <2>8 DEF IsHooked, h
  <2>10. ASSUME NEW i \in 1 .. Len(q), q[i] = "open"
         PROVE  \E j \in i .. Len(q) : q[j] = "close"
    <3>1. m + i \in 1 .. Len(s) /\ s[m + i] = "open"
      BY <1>1, <2>3, <2>6, <2>10
    <3>2. PICK j \in m + i .. Len(s) : s[j] = "close"
      BY <1>1, <3>1
    <3> DEFINE k == j - m
    <3>3. k \in i .. Len(q) /\ k \in 1 .. Len(s) - m /\ m + k = j
      BY <1>1, <2>3, <2>6
    <3> HIDE DEF k
    <3>4. q[k] = "close"
      BY <2>6, <3>2, <3>3
    <3> QED BY <3>3, <3>4
  <2>11. Closed(q)
    BY <2>6, <2>10 DEF Closed
  <2> QED BY <2>4, <2>6, <2>9, <2>11
<1>7. CASE closes = {}
  <2>1. o = 0
    <3> SUFFICES ASSUME o # 0 PROVE FALSE
      OBVIOUS
    <3>1. o \in 1 .. Len(s) /\ s[o] = "open"
      BY <1>1, <1>2
    <3>2. PICK j \in o .. Len(s) : s[j] = "close"
      BY <1>1, <3>1
    <3>3. j \in closes
      BY <1>1, <3>1, <3>2
    <3> QED BY <1>7, <3>3
  <2>2. \A j \in 1 .. Len(s) : s[j] # "open"
    BY <1>2, <2>1
  <2>3. CASE s = <<>>
    <3>1. t = h \o <<NL>>
      BY <1>3, <1>7, <2>3
    <3> DEFINE n == <<NL>>
    <3> HIDE DEF n
    <3>2. t = (<<>> \o h) \o n
      BY <1>4, <3>1 DEF n
    <3>3. IsThree(t, <<>>, h, n)
      BY <1>4, <3>2, EmptySeq DEF IsThree, n
    <3>4. IsHooked(t, <<>>, v, n)
      BY <3>3 DEF IsHooked, h
    <3>5. <<>> \in Seq(Tokens) /\ \A j \in 1 .. Len(<<>>) : <<>>[j] # "open"
      OBVIOUS
    <3>6. n \in Seq(Tokens) /\ Closed(n)
      BY <1>4, <1>5 DEF n
    <3> QED BY <3>4, <3>5, <3>6
  <2>4. CASE s # <<>>
    <3> DEFINE p == TrimEnd(s) \o <<NL>>
    <3>1. PICK k \in 0 .. Len(s) : TrimEnd(s) = Upto(s, k)
      BY <1>1, TrimEndFacts
    <3> DEFINE x == Upto(s, k)
    <3>2. x \in Seq(Tokens) /\ Len(x) = k /\ \A j \in 1 .. k : x[j] = s[j]
      BY <1>1, CutInTwo
    <3> HIDE DEF x
    <3>3. p = x \o <<NL>>
      BY <3>1 DEF x
    <3>4. p \in Seq(Tokens) /\ \A j \in 1 .. Len(p) : p[j] # "open"
      <4> DEFINE n == <<NL>>
      <4>1. n \in Seq(Tokens) /\ \A j \in 1 .. Len(n) : n[j] # "open"
        BY <1>4 DEF NL
      <4> HIDE DEF n, p
      <4>2. IsTwo(p, x, n)
        BY <3>2, <3>3, <4>1, Zenon DEF IsTwo, n
      <4>3. AreTwo(p, x, n)
        BY <4>2, PartsOfTwo
      <4>4. /\ p \in Seq(Tokens) /\ Len(p) = Len(x) + Len(n) /\ Len(x) \in Nat /\ Len(n) \in Nat
            /\ \A i \in 1 .. Len(x) : p[i] = x[i]
            /\ \A i \in 1 .. Len(n) : p[Len(x) + i] = n[i]
        BY <4>3 DEF AreTwo
      <4>5. ASSUME NEW j \in 1 .. Len(p) PROVE p[j] # "open"
        <5>1. CASE j \in 1 .. Len(x)
          <6>1. j \in 1 .. Len(s)
            BY <1>1, <3>2, <5>1
          <6> QED BY <2>2, <3>2, <4>4, <5>1, <6>1
        <5>2. CASE j - Len(x) \in 1 .. Len(n)
          <6> DEFINE l == j - Len(x)
          <6>1. l \in 1 .. Len(n) /\ Len(x) + l = j
            BY <4>4, <5>2
          <6> HIDE DEF l
          <6> QED BY <4>1, <4>4, <6>1
        <5> QED BY <4>4, <5>1, <5>2
      <4> QED BY <4>4, <4>5
    <3>5. t = (p \o h) \o <<NL>>
      BY <1>3, <1>7, <2>4
    <3> HIDE DEF p
    <3> DEFINE n == <<NL>>
    <3> HIDE DEF n
    <3>6. IsThree(t, p, h, n)
      BY <1>4, <3>4, <3>5, Zenon DEF IsThree, n
    <3>7. IsHooked(t, p, v, n)
      BY <3>4, <3>6 DEF IsHooked, h
    <3> QED BY <1>4, <1>5, <3>4, <3>7 DEF n
  <2> QED BY <2>3, <2>4
<1> QED BY <1>6, <1>7


\* What a user's edit makes of a text: a line of theirs after position i.
WithLine(s, i) == Upto(s, i) \o <<"u9", NL>> \o From(s, i + 1)

LEMMA UsersLine == /\ "u9" \in Tokens /\ "u9" \notin Traces /\ "u9" \notin Heading /\ "u9" # NL
                   /\ "u9" # "begin"
<1>1. "u9" \in Words /\ "u9" \notin Fixed
  BY SetupAssumption DEF SetupAssumption
<1>2. \A v \in DOMAIN Body : Body[v] # "u9"
  BY <1>1, BodyFacts
<1> QED BY <1>1, <1>2 DEF Tokens, Traces, Heading, Fixed, NL

LEMMA WithLineIs ==
    ASSUME NEW s \in Seq(Tokens), NEW i \in 1 .. Len(s)
    PROVE  /\ WithLine(s, i) \in Seq(Tokens) /\ Len(WithLine(s, i)) = Len(s) + 2
           /\ \A j \in 1 .. i : WithLine(s, i)[j] = s[j]
           /\ WithLine(s, i)[i + 1] = "u9" /\ WithLine(s, i)[i + 2] = NL
           /\ \A j \in i + 3 .. Len(s) + 2 : WithLine(s, i)[j] = s[j - 2]
<1> DEFINE p == Upto(s, i)
<1> DEFINE q == From(s, i + 1)
<1> DEFINE m == <<"u9", NL>>
<1> DEFINE t == WithLine(s, i)
<1> SUFFICES /\ t \in Seq(Tokens) /\ Len(t) = Len(s) + 2
             /\ \A j \in 1 .. i : t[j] = s[j]
             /\ t[i + 1] = "u9" /\ t[i + 2] = NL
             /\ \A j \in i + 3 .. Len(s) + 2 : t[j] = s[j - 2]
  OBVIOUS
<1>1. p \in Seq(Tokens) /\ q \in Seq(Tokens) /\ Len(p) = i /\ Len(q) = Len(s) - i
      /\ (\A j \in 1 .. i : p[j] = s[j]) /\ \A j \in 1 .. Len(s) - i : q[j] = s[i + j]
  <2>1. i \in 0 .. Len(s)
    OBVIOUS
  <2>2. /\ Upto(s, i) \in Seq(Tokens) /\ From(s, i + 1) \in Seq(Tokens)
        /\ Len(Upto(s, i)) = i /\ Len(From(s, i + 1)) = Len(s) - i
        /\ \A j \in 1 .. i : Upto(s, i)[j] = s[j]
        /\ \A j \in 1 .. Len(s) - i : From(s, i + 1)[j] = s[i + j]
    BY <2>1, CutInTwo, Zenon
  <2> QED BY <2>2, Zenon
<1>2. m \in Seq(Tokens) /\ Len(m) = 2 /\ m[1] = "u9" /\ m[2] = NL
  BY UsersLine, NLFacts
<1>3. t = (p \o m) \o q
  BY DEF WithLine
<1> HIDE DEF p, q, m, t
<1>4. AreParts(t, p, m, q)
  BY <1>1, <1>2, <1>3, PartsOfThree, Zenon DEF IsThree
<1>5. /\ t \in Seq(Tokens) /\ Len(t) = Len(p) + Len(m) + Len(q)
      /\ \A j \in 1 .. Len(p) : t[j] = p[j]
      /\ \A j \in 1 .. Len(m) : t[Len(p) + j] = m[j]
      /\ \A j \in 1 .. Len(q) : t[Len(p) + Len(m) + j] = q[j]
  BY <1>4 DEF AreParts
<1>6. Len(s) \in Nat
  OBVIOUS
<1>7. t \in Seq(Tokens) /\ Len(t) = Len(s) + 2 /\ \A j \in 1 .. i : t[j] = s[j]
  BY <1>1, <1>2, <1>5, <1>6
<1>8. t[i + 1] = "u9" /\ t[i + 2] = NL
  BY <1>1, <1>2, <1>5
<1>9. ASSUME NEW j \in i + 3 .. Len(s) + 2 PROVE t[j] = s[j - 2]
  <2> DEFINE k == j - (i + 2)
  <2>1. k \in 1 .. Len(s) - i /\ i + 2 + k = j /\ i + k = j - 2
    BY <1>6
  <2> HIDE DEF k
  <2>2. t[i + 2 + k] = q[k] /\ q[k] = s[i + k]
    BY <1>1, <1>2, <1>5, <2>1
  <2> QED BY <2>1, <2>2
<1> QED BY <1>7, <1>8, <1>9

\* A text with the block at b and no other trace.
LEMMA BlockedIf ==
    ASSUME NEW t \in Seq(Tokens), NEW v \in DOMAIN Body, NEW b \in 1 .. Len(t) - 6,
           t[b] = "begin", t[b + 1] = NL, t[b + 2] = "tools", t[b + 3] = NL, t[b + 4] = Body[v],
           t[b + 5] = NL, t[b + 6] = "end",
           \A j \in 1 .. b - 1 : t[j] \notin Traces,
           \A j \in b + 7 .. Len(t) : t[j] \notin Traces
    PROVE  WellFormed(t)
<1>1. Len(t) \in Nat /\ b \in Nat
  OBVIOUS
<1>2. SubSeq(t, b, b + 6) = Block(v)
  <2> DEFINE m == SubSeq(t, b, b + 6)
  <2>1. m \in Seq(Tokens) /\ Len(m) = 7 /\ \A j \in 1 .. 7 : m[j] = t[b + j - 1]
    BY <1>1
  <2>2. Block(v) \in Seq(Tokens) /\ Len(Block(v)) = 7
    BY BlockFacts
  <2> HIDE DEF m
  <2>3. m[1] = t[b] /\ m[2] = t[b + 1] /\ m[3] = t[b + 2] /\ m[4] = t[b + 3] /\ m[5] = t[b + 4]
        /\ m[6] = t[b + 5] /\ m[7] = t[b + 6]
    <3>1. /\ b + 1 - 1 = b /\ b + 2 - 1 = b + 1 /\ b + 3 - 1 = b + 2 /\ b + 4 - 1 = b + 3
          /\ b + 5 - 1 = b + 4 /\ b + 6 - 1 = b + 5 /\ b + 7 - 1 = b + 6
      BY <1>1
    <3>2. /\ 1 \in 1 .. 7 /\ 2 \in 1 .. 7 /\ 3 \in 1 .. 7 /\ 4 \in 1 .. 7
          /\ 5 \in 1 .. 7 /\ 6 \in 1 .. 7 /\ 7 \in 1 .. 7
      OBVIOUS
    <3>3. /\ m[1] = t[b + 1 - 1] /\ m[2] = t[b + 2 - 1] /\ m[3] = t[b + 3 - 1]
          /\ m[4] = t[b + 4 - 1] /\ m[5] = t[b + 5 - 1] /\ m[6] = t[b + 6 - 1]
          /\ m[7] = t[b + 7 - 1]
      <4>1. \A j \in 1 .. 7 : m[j] = t[b + j - 1]
        BY <2>1
      <4> QED BY <3>2, <4>1, Zenon
    <3> QED BY <3>1, <3>3, Zenon
  <2>4. \A j \in 1 .. 7 : m[j] = Block(v)[j]
    BY <2>3, BlockFacts
  <2>5. m = Block(v)
    BY <2>1, <2>2, <2>4, SeqEqual
  <2> QED BY <2>5 DEF m
<1>3. Bare(Upto(t, b - 1))
  <2>1. b - 1 \in 0 .. Len(t)
    BY <1>1
  <2>2. /\ Upto(t, b - 1) \in Seq(Tokens) /\ Len(Upto(t, b - 1)) = b - 1
        /\ \A j \in 1 .. b - 1 : Upto(t, b - 1)[j] = t[j]
    BY <2>1, CutInTwo
  <2> QED BY <2>2 DEF Bare
<1>4. Bare(From(t, b + 7))
  <2> DEFINE k == b + 6
  <2>1. k \in 0 .. Len(t) /\ b + 7 = k + 1
    BY <1>1
  <2> HIDE DEF k
  <2>2. /\ From(t, k + 1) \in Seq(Tokens) /\ Len(From(t, k + 1)) = Len(t) - k
        /\ \A j \in 1 .. Len(t) - k : From(t, k + 1)[j] = t[k + j]
    BY <2>1, CutInTwo
  <2>3. \A j \in 1 .. Len(t) - k : k + j \in b + 7 .. Len(t)
    BY <2>1, <1>1
  <2>4. \A j \in 1 .. Len(t) - k : From(t, k + 1)[j] \notin Traces
    BY <2>2, <2>3
  <2>5. Bare(From(t, k + 1))
    BY <2>2, <2>4 DEF Bare
  <2> QED BY <2>1, <2>5
<1>5. Blocked(t)
  BY <1>2, <1>3, <1>4, Zenon DEF Blocked
<1> QED BY <1>5 DEF WellFormed

\* A text with the section of an older ig at k, up to the next heading.
LEMMA SectionedIf ==
    ASSUME NEW t \in Seq(Tokens), NEW k \in 2 .. Len(t), t[k] = "tools", t[k - 1] = NL,
           NEW n \in k + 1 .. Len(t) + 1, NextHeading(t, k + 1, Heading) = n,
           \A j \in 1 .. k - 1 : t[j] \notin Traces,
           \A j \in n .. Len(t) : t[j] \notin Traces,
           \A j \in k + 1 .. n - 1 : t[j] \notin Traces \ {"old"}
    PROVE  WellFormed(t)
<1>1. Len(t) \in Nat /\ k \in Nat /\ n \in Nat
  OBVIOUS
<1>2. Bare(Upto(t, k - 1))
  <2>1. k - 1 \in 0 .. Len(t)
    BY <1>1
  <2>2. /\ Upto(t, k - 1) \in Seq(Tokens) /\ Len(Upto(t, k - 1)) = k - 1
        /\ \A j \in 1 .. k - 1 : Upto(t, k - 1)[j] = t[j]
    BY <2>1, CutInTwo
  <2> QED BY <2>2 DEF Bare
<1>3. Bare(From(t, n))
  <2> DEFINE l == n - 1
  <2>1. l \in 0 .. Len(t) /\ n = l + 1
    BY <1>1
  <2> HIDE DEF l
  <2>2. /\ From(t, l + 1) \in Seq(Tokens) /\ Len(From(t, l + 1)) = Len(t) - l
        /\ \A j \in 1 .. Len(t) - l : From(t, l + 1)[j] = t[l + j]
    BY <2>1, CutInTwo
  <2>3. \A j \in 1 .. Len(t) - l : l + j \in n .. Len(t)
    BY <2>1, <1>1
  <2>5. ASSUME NEW j \in DOMAIN From(t, l + 1) PROVE From(t, l + 1)[j] \notin Traces
    <3>1. j \in 1 .. Len(t) - l
      BY <2>2
    <3>2. From(t, l + 1)[j] = t[l + j] /\ l + j \in n .. Len(t)
      BY <2>2, <2>3, <3>1
    <3> QED BY <3>2
  <2>4. Bare(From(t, l + 1))
    BY <2>5 DEF Bare
  <2> QED BY <2>1, <2>4
<1>4. At(t, k - 1) = NL /\ k \in DOMAIN t
  BY <1>1 DEF At
<1>5. Sectioned(t)
  BY <1>2, <1>3, <1>4, Zenon DEF Sectioned
<1> QED BY <1>5 DEF WellFormed

\* A user's line leaves what it stands next to as it is: it never stands in the block.
LEMMA WithLineKeeps ==
    ASSUME NEW s, WellFormed(s), At(s, 1) # "begin",
           NEW i \in 1 .. Len(s), i \in {1, 2, Len(s)}, s[i] = NL
    PROVE  /\ WellFormed(WithLine(s, i)) /\ At(WithLine(s, i), 1) # "begin"
           /\ Position(s, "begin") = 0 => Position(WithLine(s, i), "begin") = 0
<1> DEFINE t == WithLine(s, i)
<1> SUFFICES /\ WellFormed(t) /\ At(t, 1) # "begin"
             /\ Position(s, "begin") = 0 => Position(t, "begin") = 0
  OBVIOUS
<1>1. s \in Seq(Tokens) /\ Len(s) \in Nat /\ i \in Nat
  BY DEF WellFormed
<1>2. /\ t \in Seq(Tokens) /\ Len(t) = Len(s) + 2
      /\ \A j \in 1 .. i : t[j] = s[j]
      /\ t[i + 1] = "u9" /\ t[i + 2] = NL
      /\ \A j \in i + 3 .. Len(s) + 2 : t[j] = s[j - 2]
  BY <1>1, WithLineIs
<1> HIDE DEF t
<1>3. \A j \in 1 .. Len(t) : j \in 1 .. i \/ j = i + 1 \/ j = i + 2 \/ j \in i + 3 .. Len(s) + 2
  BY <1>1, <1>2
<1>4. t[1] = s[1] /\ s[1] # "begin" /\ At(t, 1) # "begin"
  BY <1>1, <1>2 DEF At
<1>5. ASSUME Position(s, "begin") = 0 PROVE Position(t, "begin") = 0
  <2>1. \A j \in 1 .. Len(s) : s[j] # "begin"
    BY <1>1, <1>5, PositionFacts
  <2>2. ASSUME NEW j \in 1 .. Len(t) PROVE t[j] # "begin"
    <3>1. CASE j \in 1 .. i
      BY <1>1, <1>2, <2>1, <3>1
    <3>2. CASE j = i + 1 \/ j = i + 2
      BY <1>2, <3>2, UsersLine DEF NL
    <3>3. CASE j \in i + 3 .. Len(s) + 2
      <4>1. j - 2 \in 1 .. Len(s)
        BY <1>1, <3>3
      <4> QED BY <1>2, <2>1, <3>3, <4>1
    <3> QED BY <1>3, <3>1, <3>2, <3>3
  <2> QED BY <1>2, <2>2, PositionNone
<1>6. CASE Bare(s)
  <2>1. \A j \in 1 .. Len(s) : s[j] \notin Traces
    BY <1>1, <1>6 DEF Bare
  <2>2. ASSUME NEW j \in 1 .. Len(t) PROVE t[j] \notin Traces
    <3>1. CASE j \in 1 .. i
      BY <1>1, <1>2, <2>1, <3>1
    <3>2. CASE j = i + 1 \/ j = i + 2
      BY <1>2, <3>2, UsersLine, NLFacts
    <3>3. CASE j \in i + 3 .. Len(s) + 2
      <4>1. j - 2 \in 1 .. Len(s)
        BY <1>1, <3>3
      <4> QED BY <1>2, <2>1, <3>3, <4>1
    <3> QED BY <1>3, <3>1, <3>2, <3>3
  <2>3. Bare(t)
    BY <1>2, <2>2 DEF Bare
  <2>4. WellFormed(t)
    BY <1>2, <2>3 DEF WellFormed
  <2> QED BY <1>4, <1>5, <2>4
<1>7. CASE Blocked(s)
  <2>1. PICK p, q \in Seq(Tokens), v \in DOMAIN Body : IsBlocked(s, p, v, q)
    BY <1>1, <1>7, BlockedHas
  <2> DEFINE n == Len(p)
  <2>2. /\ Len(s) = n + 7 + Len(q) /\ n \in Nat /\ Len(q) \in Nat
        /\ \A j \in 1 .. n : s[j] \notin Traces
        /\ s[n + 1] = "begin" /\ s[n + 2] = NL /\ s[n + 3] = "tools" /\ s[n + 4] = NL
        /\ s[n + 5] = Body[v] /\ s[n + 6] = NL /\ s[n + 7] = "end"
        /\ \A j \in 1 .. Len(q) : s[n + 7 + j] \notin Traces
    <3>1. /\ Len(s) = Len(p) + 7 + Len(q) /\ Len(p) \in Nat /\ Len(q) \in Nat
          /\ \A j \in 1 .. Len(p) : s[j] = p[j] /\ s[j] \notin Traces
          /\ s[Len(p) + 1] = "begin" /\ s[Len(p) + 2] = NL /\ s[Len(p) + 3] = "tools"
          /\ s[Len(p) + 4] = NL /\ s[Len(p) + 5] = Body[v] /\ s[Len(p) + 6] = NL
          /\ s[Len(p) + 7] = "end"
          /\ \A j \in 1 .. Len(q) : s[Len(p) + 7 + j] = q[j] /\ q[j] \notin Traces
      BY <2>1, BlockedAt
    <3> QED BY <3>1
  <2> HIDE DEF n
  <2>3. ASSUME NEW j \in n + 8 .. Len(s) PROVE s[j] \notin Traces
    <3> DEFINE k == j - (n + 7)
    <3>1. k \in 1 .. Len(q) /\ n + 7 + k = j
      BY <2>2
    <3> HIDE DEF k
    <3> QED BY <2>2, <3>1
  <2>4. n >= 1
    BY <1>4, <2>2
  <2>5. i \in 1 .. n \/ i \in n + 8 .. Len(s)
    <3>1. i # n + 1 /\ i # n + 7
      BY <2>2, TraceFacts
    <3> QED BY <1>1, <2>2, <2>4, <3>1
  <2>6. CASE i \in 1 .. n
    <3> DEFINE b == n + 3
    <3>1. b \in 1 .. Len(t) - 6 /\ b \in i + 3 .. Len(s) + 2
      BY <1>1, <1>2, <2>2, <2>6
    <3>2. /\ t[b] = s[n + 1] /\ t[b + 1] = s[n + 2] /\ t[b + 2] = s[n + 3]
          /\ t[b + 3] = s[n + 4] /\ t[b + 4] = s[n + 5] /\ t[b + 5] = s[n + 6]
          /\ t[b + 6] = s[n + 7]
      BY <1>1, <1>2, <2>2, <2>6
    <3>3. ASSUME NEW j \in 1 .. b - 1 PROVE t[j] \notin Traces
      <4>1. CASE j \in 1 .. i
        BY <1>1, <1>2, <2>2, <2>6, <4>1
      <4>2. CASE j = i + 1 \/ j = i + 2
        BY <1>2, <4>2, UsersLine, NLFacts
      <4>3. CASE j \in i + 3 .. Len(s) + 2
        <5>1. j - 2 \in 1 .. n
          BY <1>1, <2>2, <4>3
        <5> QED BY <1>2, <2>2, <4>3, <5>1
      <4>4. j \in 1 .. Len(t)
        BY <1>2, <3>1
      <4> QED BY <1>3, <4>1, <4>2, <4>3, <4>4
    <3>4. ASSUME NEW j \in b + 7 .. Len(t) PROVE t[j] \notin Traces
      <4>1. j \in i + 3 .. Len(s) + 2 /\ j - 2 \in n + 8 .. Len(s)
        BY <1>1, <1>2, <2>2, <2>6
      <4> QED BY <1>2, <2>3, <4>1
    <3> HIDE DEF b
    <3>5. /\ t[b] = "begin" /\ t[b + 1] = NL /\ t[b + 2] = "tools" /\ t[b + 3] = NL
          /\ t[b + 4] = Body[v] /\ t[b + 5] = NL /\ t[b + 6] = "end"
      BY <2>2, <3>2
    <3>6. WellFormed(t)
      BY <1>2, <3>1, <3>3, <3>4, <3>5, BlockedIf
    <3> QED BY <1>4, <1>5, <3>6
  <2>7. CASE i \in n + 8 .. Len(s)
    <3> DEFINE b == n + 1
    <3>1. b \in 1 .. Len(t) - 6
      BY <1>1, <1>2, <2>2, <2>7
    <3>2. /\ t[b] = s[n + 1] /\ t[b + 1] = s[n + 2] /\ t[b + 2] = s[n + 3]
          /\ t[b + 3] = s[n + 4] /\ t[b + 4] = s[n + 5] /\ t[b + 5] = s[n + 6]
          /\ t[b + 6] = s[n + 7]
      BY <1>1, <1>2, <2>2, <2>7
    <3>3. ASSUME NEW j \in 1 .. b - 1 PROVE t[j] \notin Traces
      BY <1>1, <1>2, <2>2, <2>7
    <3>4. ASSUME NEW j \in b + 7 .. Len(t) PROVE t[j] \notin Traces
      <4>1. CASE j \in 1 .. i
        <5>1. j \in n + 8 .. Len(s)
          BY <1>1, <2>2, <4>1
        <5> QED BY <1>2, <2>3, <4>1, <5>1
      <4>2. CASE j = i + 1 \/ j = i + 2
        BY <1>2, <4>2, UsersLine, NLFacts
      <4>3. CASE j \in i + 3 .. Len(s) + 2
        <5>1. j - 2 \in n + 8 .. Len(s)
          BY <1>1, <2>2, <2>7, <4>3
        <5> QED BY <1>2, <2>3, <4>3, <5>1
      <4>4. j \in 1 .. Len(t)
        BY <1>2, <2>2
      <4> QED BY <1>3, <4>1, <4>2, <4>3, <4>4
    <3> HIDE DEF b
    <3>5. /\ t[b] = "begin" /\ t[b + 1] = NL /\ t[b + 2] = "tools" /\ t[b + 3] = NL
          /\ t[b + 4] = Body[v] /\ t[b + 5] = NL /\ t[b + 6] = "end"
      BY <2>2, <3>2
    <3>6. WellFormed(t)
      BY <1>2, <3>1, <3>3, <3>4, <3>5, BlockedIf
    <3> QED BY <1>4, <1>5, <3>6
  <2> QED BY <2>5, <2>6, <2>7
<1>8. CASE Sectioned(s)
  <2>1. PICK k \in DOMAIN s :
            LET n == NextHeading(s, k + 1, Heading)
            IN  /\ s[k] = "tools" /\ At(s, k - 1) = NL
                /\ Bare(Upto(s, k - 1)) /\ Bare(From(s, n))
                /\ \A j \in k + 1 .. n - 1 : s[j] \notin Traces \ {"old"}
    BY <1>8, Zenon DEF Sectioned
  <2> DEFINE n == NextHeading(s, k + 1, Heading)
  <2>2. k \in 2 .. Len(s) /\ s[k] = "tools" /\ s[k - 1] = NL
    <3>1. k \in 1 .. Len(s) /\ k - 1 \in Nat /\ At(s, k - 1) = NL /\ s[k] = "tools"
      BY <1>1, <2>1
    <3>2. k - 1 \in 1 .. Len(s) /\ s[k - 1] = NL
      BY <1>1, <3>1, AtIs DEF NL
    <3> QED BY <1>1, <3>1, <3>2
  <2>3. /\ n \in k + 1 .. Len(s) + 1
        /\ n = Len(s) + 1 \/ (s[n - 1] = NL /\ s[n] \in Heading)
        /\ \A j \in k + 1 .. n - 2 : ~ (s[j] = NL /\ s[j + 1] \in Heading)
    <3>1. k + 1 \in Nat \ {0} /\ "none" \notin Heading
      BY <2>2, TraceFacts
    <3>2. /\ n \in Nat
          /\ \/ n = Len(s) + 1 /\ \A j \in k + 1 .. Len(s) - 1 : ~ (s[j] = NL /\ s[j + 1] \in Heading)
             \/ /\ n \in (k + 1) + 1 .. Len(s)
                /\ s[n - 1] = NL /\ s[n] \in Heading
                /\ \A j \in k + 1 .. n - 2 : ~ (s[j] = NL /\ s[j + 1] \in Heading)
      BY <1>1, <3>1, NextHeadingFacts
    <3> HIDE DEF n
    <3> QED BY <1>1, <2>2, <3>2
  <2>4. Bare(Upto(s, k - 1)) /\ Bare(From(s, n)) /\ \A j \in k + 1 .. n - 1 : s[j] \notin Traces \ {"old"}
    BY <2>1, Zenon
  <2> HIDE DEF n
  <2>5. ASSUME NEW j \in 1 .. k - 1 PROVE s[j] \notin Traces
    <3>1. k - 1 \in 0 .. Len(s)
      BY <1>1, <2>2
    <3>2. /\ Upto(s, k - 1) \in Seq(Tokens) /\ Len(Upto(s, k - 1)) = k - 1
          /\ Upto(s, k - 1)[j] = s[j]
      BY <1>1, <3>1, CutInTwo
    <3> QED BY <2>4, <3>1, <3>2 DEF Bare
  <2>6. ASSUME NEW j \in n .. Len(s) PROVE s[j] \notin Traces
    <3> DEFINE l == n - 1
    <3> DEFINE h == j - l
    <3>1. l \in 0 .. Len(s) /\ n = l + 1 /\ h \in 1 .. Len(s) - l /\ l + h = j
      BY <1>1, <2>3
    <3> HIDE DEF l, h
    <3>2. /\ From(s, l + 1) \in Seq(Tokens) /\ Len(From(s, l + 1)) = Len(s) - l
          /\ From(s, l + 1)[h] = s[l + h]
      BY <1>1, <3>1, CutInTwo
    <3>3. h \in DOMAIN From(s, l + 1)
      BY <3>1, <3>2
    <3> QED BY <2>4, <3>1, <3>2, <3>3 DEF Bare
  <2>7. i < k \/ (i = Len(s) /\ n = Len(s) + 1) \/ i >= n
    <3>1. i # k
      BY <2>2, TraceFacts
    <3> QED BY <1>1, <2>2, <2>3, <3>1
  <2>8. CASE i < k
    <3> DEFINE m == n + 2
    <3> DEFINE l == k + 2
    <3>1. l \in 2 .. Len(t) /\ m \in l + 1 .. Len(t) + 1 /\ l \in i + 3 .. Len(s) + 2
      BY <1>1, <1>2, <2>2, <2>3, <2>8
    <3>2. t[l] = "tools"
      BY <1>2, <2>2, <3>1
    <3>3. t[l - 1] = NL
      <4>1. CASE l - 1 = i + 2
        BY <1>2, <4>1
      <4>2. CASE l - 1 # i + 2
        <5> DEFINE g == k + 1
        <5>1. g \in i + 3 .. Len(s) + 2 /\ g - 2 = k - 1 /\ g = l - 1
          BY <1>1, <2>2, <2>8, <4>2
        <5> HIDE DEF g
        <5>2. t[g] = s[g - 2]
          BY <1>2, <5>1
        <5> QED BY <2>2, <5>1, <5>2
      <4> QED BY <4>1, <4>2
    <3>4. ASSUME NEW j \in l + 1 .. m - 2 PROVE ~ (t[j] = NL /\ t[j + 1] \in Heading)
      <4>1. j - 2 \in k + 1 .. n - 2 /\ j \in i + 3 .. Len(s) + 2 /\ j + 1 \in i + 3 .. Len(s) + 2
            /\ (j + 1) - 2 = (j - 2) + 1
        BY <1>1, <2>2, <2>3, <2>8
      <4> QED BY <1>2, <2>3, <4>1
    <3>5. NextHeading(t, l + 1, Heading) = m
      <4>0. l + 1 \in Nat \ {0} /\ "none" \notin Heading
        BY <2>2, TraceFacts
      <4>1. CASE n = Len(s) + 1
        <5>1. m = Len(t) + 1 /\ m - 2 = Len(t) - 1
          BY <1>1, <1>2, <4>1
        <5>2. \A j \in l + 1 .. Len(t) - 1 : ~ (t[j] = NL /\ t[j + 1] \in Heading)
          BY <3>4, <5>1
        <5> QED BY <1>2, <4>0, <5>1, <5>2, NextHeadingNone
      <4>2. CASE n # Len(s) + 1
        <5>1. n \in 1 .. Len(s) /\ n - 1 \in k + 1 .. Len(s) /\ s[n - 1] = NL /\ s[n] \in Heading
          <6>1. n # k + 1
            BY <2>2, <2>3, <4>2, TraceFacts
          <6>2. n \in k + 1 .. Len(s) + 1 /\ k \in 2 .. Len(s) /\ s[n - 1] = NL /\ s[n] \in Heading
            BY <2>2, <2>3, <4>2
          <6>3. n \in 1 .. Len(s) /\ n - 1 \in k + 1 .. Len(s)
            BY <1>1, <4>2, <6>1, <6>2
          <6> QED BY <6>2, <6>3
        <5>2. m \in (l + 1) + 1 .. Len(t) /\ m \in i + 3 .. Len(s) + 2 /\ m - 1 \in i + 3 .. Len(s) + 2
              /\ m - 2 = n /\ (m - 1) - 2 = n - 1
          <6>1. Len(t) = Len(s) + 2 /\ Len(s) \in Nat /\ i \in Nat /\ k \in Nat /\ i < k
            BY <1>1, <1>2, <2>2, <2>8
          <6>2. n \in Nat /\ k + 2 <= n /\ n <= Len(s)
            BY <2>2, <5>1, <6>1
          <6> QED BY <6>1, <6>2
        <5>3. t[m - 1] = NL /\ t[m] \in Heading
          BY <1>2, <5>1, <5>2
        <5> QED BY <1>2, <3>4, <4>0, <5>2, <5>3, NextHeadingIs
      <4> QED BY <4>1, <4>2
    <3>6. ASSUME NEW j \in 1 .. l - 1 PROVE t[j] \notin Traces
      <4>1. CASE j \in 1 .. i
        BY <1>1, <1>2, <2>2, <2>5, <2>8, <4>1
      <4>2. CASE j = i + 1 \/ j = i + 2
        BY <1>2, <4>2, UsersLine, NLFacts
      <4>3. CASE j \in i + 3 .. Len(s) + 2
        <5>1. j - 2 \in 1 .. k - 1
          BY <1>1, <2>2, <4>3
        <5> QED BY <1>2, <2>5, <4>3, <5>1
      <4>4. j \in 1 .. Len(t)
        BY <1>2, <3>1
      <4> QED BY <1>3, <4>1, <4>2, <4>3, <4>4
    <3>7. ASSUME NEW j \in m .. Len(t) PROVE t[j] \notin Traces
      <4>1. j - 2 \in n .. Len(s) /\ j \in i + 3 .. Len(s) + 2
        BY <1>1, <1>2, <2>2, <2>3, <2>8
      <4>2. t[j] = s[j - 2]
        BY <1>2, <4>1
      <4>3. s[j - 2] \notin Traces
        BY <2>6, <4>1
      <4> QED BY <4>2, <4>3
    <3>8. ASSUME NEW j \in l + 1 .. m - 1 PROVE t[j] \notin Traces \ {"old"}
      <4>0. Len(s) \in Nat /\ i \in Nat /\ k \in Nat /\ n \in Nat /\ i < k /\ n <= Len(s) + 1
        BY <1>1, <2>2, <2>3, <2>8
      <4>1. j - 2 \in k + 1 .. n - 1 /\ j \in i + 3 .. Len(s) + 2
        BY <4>0
      <4> QED BY <1>2, <2>4, <4>1
    <3> HIDE DEF l, m
    <3>9. WellFormed(t)
      BY <1>2, <3>1, <3>2, <3>3, <3>5, <3>6, <3>7, <3>8, SectionedIf
    <3> QED BY <1>4, <1>5, <3>9
  <2>9. CASE i >= k /\ (i >= n \/ (i = Len(s) /\ n = Len(s) + 1))
    <3> DEFINE m == IF i >= n THEN n ELSE Len(t) + 1
    <3>1. k \in 2 .. Len(t) /\ m \in k + 1 .. Len(t) + 1 /\ k \in 1 .. i /\ k - 1 \in 1 .. i
      BY <1>1, <1>2, <2>2, <2>3, <2>9
    <3>2. t[k] = "tools" /\ t[k - 1] = NL
      BY <1>2, <2>2, <3>1
    <3>3. ASSUME NEW j \in 1 .. k - 1 PROVE t[j] \notin Traces
      BY <1>1, <1>2, <2>2, <2>5, <2>9
    <3>4. CASE i >= n
      <4>1. n \in k + 2 .. Len(s) /\ s[n - 1] = NL /\ s[n] \in Heading /\ m = n
            /\ n \in 1 .. i /\ n - 1 \in 1 .. i
        <5>1. n # Len(s) + 1 /\ n # k + 1
          BY <1>1, <2>2, <2>3, <3>4, TraceFacts
        <5> QED BY <1>1, <2>2, <2>3, <3>4, <5>1
      <4>2. ASSUME NEW j \in k + 1 .. n - 2 PROVE ~ (t[j] = NL /\ t[j + 1] \in Heading)
        <5>1. j \in 1 .. i /\ j + 1 \in 1 .. i
          BY <1>1, <2>2, <4>1
        <5> QED BY <1>2, <2>3, <5>1
      <4>3. NextHeading(t, k + 1, Heading) = n
        <5>1. k + 1 \in Nat \ {0} /\ "none" \notin Heading /\ n \in (k + 1) + 1 .. Len(t)
          BY <1>1, <1>2, <2>2, <4>1, TraceFacts
        <5>2. t[n - 1] = NL /\ t[n] \in Heading
          BY <1>2, <4>1
        <5> QED BY <1>2, <4>2, <5>1, <5>2, NextHeadingIs
      <4>4. ASSUME NEW j \in n .. Len(t) PROVE t[j] \notin Traces
        <5>1. CASE j \in 1 .. i
          <6>1. j \in n .. Len(s)
            BY <1>1, <2>2, <5>1
          <6> QED BY <1>2, <2>6, <5>1, <6>1
        <5>2. CASE j = i + 1 \/ j = i + 2
          BY <1>2, <5>2, UsersLine, NLFacts
        <5>3. CASE j \in i + 3 .. Len(s) + 2
          <6>1. j - 2 \in n .. Len(s)
            BY <1>1, <4>1, <5>3
          <6> QED BY <1>2, <2>6, <5>3, <6>1
        <5>4. j \in 1 .. Len(t)
          BY <1>2, <4>1
        <5> QED BY <1>3, <5>1, <5>2, <5>3, <5>4
      <4>5. ASSUME NEW j \in k + 1 .. n - 1 PROVE t[j] \notin Traces \ {"old"}
        <5>1. j \in 1 .. i
          BY <1>1, <2>2, <4>1
        <5> QED BY <1>2, <2>4, <5>1
      <4>6. n \in k + 1 .. Len(t) + 1
        BY <3>1, <4>1
      <4>7. WellFormed(t)
        BY <1>2, <3>1, <3>2, <3>3, <4>3, <4>4, <4>5, <4>6, SectionedIf
      <4> QED BY <1>4, <1>5, <4>7
    <3>5. CASE i = Len(s) /\ n = Len(s) + 1
      <4> DEFINE e == Len(t) + 1
      <4>1. e \in k + 1 .. Len(t) + 1 /\ e = i + 3
        BY <1>1, <1>2, <2>2, <3>5
      <4>2. ASSUME NEW j \in k + 1 .. Len(t) - 1 PROVE ~ (t[j] = NL /\ t[j + 1] \in Heading)
        <5>1. CASE j \in 1 .. i - 1
          <6>1. j \in k + 1 .. n - 2 /\ j \in 1 .. i /\ j + 1 \in 1 .. i
            BY <1>1, <2>2, <3>5, <5>1
          <6> QED BY <1>2, <2>3, <6>1
        <5>2. CASE j = i
          BY <1>2, <5>2, UsersLine
        <5>3. CASE j = i + 1
          BY <1>2, <5>3, UsersLine
        <5> QED BY <1>1, <1>2, <2>2, <3>5, <5>1, <5>2, <5>3
      <4>3. NextHeading(t, k + 1, Heading) = e
        <5>1. k + 1 \in Nat \ {0} /\ "none" \notin Heading
          BY <2>2, TraceFacts
        <5> QED BY <1>2, <4>2, <5>1, NextHeadingNone
      <4>4. ASSUME NEW j \in e .. Len(t) PROVE t[j] \notin Traces
        BY <1>1, <1>2
      <4>5. ASSUME NEW j \in k + 1 .. e - 1 PROVE t[j] \notin Traces \ {"old"}
        <5>1. CASE j \in 1 .. i
          <6>1. j \in k + 1 .. n - 1
            BY <1>1, <2>2, <3>5, <5>1
          <6> QED BY <1>2, <2>4, <5>1, <6>1
        <5>2. CASE j = i + 1 \/ j = i + 2
          BY <1>2, <5>2, UsersLine, NLFacts
        <5> QED BY <1>1, <2>2, <4>1, <5>1, <5>2
      <4> HIDE DEF e
      <4>6. WellFormed(t)
        BY <1>2, <3>1, <3>2, <3>3, <4>1, <4>3, <4>4, <4>5, SectionedIf
      <4> QED BY <1>4, <1>5, <4>6
    <3> QED BY <2>9, <3>4, <3>5
  <2> QED BY <1>1, <2>2, <2>7, <2>8, <2>9
<1> QED BY <1>6, <1>7, <1>8 DEF WellFormed


LEMMA DroppingDropped ==
    ASSUME NEW U, NEW s \in Seq(U), NEW A, NEW B, A \subseteq B
    PROVE  Dropping(Dropping(s, A), B) = Dropping(s, B)
<1> DEFINE K == Kept(s, A)
           L == Kept(s, B)
           P(i) == Dropping(K[i], B) = L[i] /\ K[i] \in Seq(U) /\ L[i] \in Seq(U)
           T == {i \in Nat : i <= Len(s) => P(i)}
<1>1. Len(s) \in Nat /\ K[0] = <<>> /\ L[0] = <<>>
  BY KeptDef
<1>2. \A i \in 1 .. Len(s) : K[i] = IF s[i] \in A THEN K[i - 1] ELSE Append(K[i - 1], s[i])
  BY KeptDef
<1>3. \A i \in 1 .. Len(s) : L[i] = IF s[i] \in B THEN L[i - 1] ELSE Append(L[i - 1], s[i])
  BY KeptDef
<1>4. Dropping(s, A) = K[Len(s)] /\ Dropping(s, B) = L[Len(s)]
  BY KeptDef
<1> HIDE DEF K, L
<1>5. P(0)
  <2>1. Dropping(<<>>, B) = <<>> /\ <<>> \in Seq(U)
    <3>1. <<>> \in Seq(U) /\ \A i \in 1 .. Len(<<>>) : <<>>[i] \in B
      OBVIOUS
    <3> QED BY <3>1, DroppingAll
  <2> QED BY <1>1, <2>1
<1>6. ASSUME NEW i \in Nat, i + 1 <= Len(s), P(i) PROVE P(i + 1)
  <2>1. i + 1 \in 1 .. Len(s) /\ s[i + 1] \in U /\ (i + 1) - 1 = i
    BY <1>1, <1>6
  <2> DEFINE x == s[i + 1]
  <2>2. CASE x \in A
    <3>1. K[i + 1] = K[i] /\ L[i + 1] = L[i]
      BY <1>2, <1>3, <2>1, <2>2
    <3> QED BY <1>6, <3>1
  <2>3. CASE x \notin A
    <3> DEFINE a == K[i]
    <3> DEFINE n == <<x>>
    <3>1. a \in Seq(U) /\ n \in Seq(U) /\ Append(a, x) = a \o n /\ Append(a, x) \in Seq(U)
      BY <1>6, <2>1
    <3>2. K[i + 1] = a \o n /\ K[i + 1] \in Seq(U)
      <4>1. K[i + 1] = Append(K[i], s[i + 1])
        BY <1>2, <2>1, <2>3
      <4> QED BY <3>1, <4>1
    <3>3. Dropping(n, B) = IF x \in B THEN <<>> ELSE n
      <4>1. Len(n) = 1 /\ n[1] = x
        OBVIOUS
      <4> HIDE DEF n
      <4>2. CASE x \in B
        BY <3>1, <4>1, <4>2, DroppingAll
      <4>3. CASE x \notin B
        BY <3>1, <4>1, <4>3, DroppingNone
      <4> QED BY <4>2, <4>3
    <3>4. Dropping(K[i + 1], B) = L[i] \o Dropping(n, B)
      <4> HIDE DEF a, n
      <4>1. Dropping(a \o n, B) = Dropping(a, B) \o Dropping(n, B)
        BY <3>1, DroppingConcat
      <4> QED BY <1>6, <3>2, <4>1 DEF a
    <3>5. L[i + 1] = L[i] \o Dropping(n, B) /\ L[i + 1] \in Seq(U)
      <4>1. L[i] \in Seq(U)
        BY <1>6
      <4>2. CASE x \in B
        <5>1. L[i + 1] = L[i] /\ Dropping(n, B) = <<>>
          BY <1>3, <2>1, <3>3, <4>2
        <5> QED BY <4>1, <5>1, ConcatEmptySeq
      <4>3. CASE x \notin B
        <5>1. L[i + 1] = Append(L[i], x) /\ Dropping(n, B) = n
          BY <1>3, <2>1, <3>3, <4>3
        <5>2. Append(L[i], x) = L[i] \o n /\ Append(L[i], x) \in Seq(U)
          BY <2>1, <4>1
        <5> HIDE DEF n
        <5> QED BY <5>1, <5>2
      <4> QED BY <4>2, <4>3
    <3> HIDE DEF n
    <3> QED BY <3>2, <3>4, <3>5
  <2> QED BY <2>2, <2>3
<1> HIDE DEF P
<1>7. 0 \in T
  BY <1>5
<1>8. \A i \in Nat : i \in T => i + 1 \in T
  BY <1>1, <1>6
<1>9. Len(s) \in T
  <2> HIDE DEF T
  <2> QED BY <1>1, <1>7, <1>8, NatInduct
<1>10. P(Len(s))
  BY <1>1, <1>9
<1> QED BY <1>4, <1>10 DEF P

---------------------------------------------------------------------------
\* The hooks of ig among those of the settings, as sets that do not depend on the list.
Marked == {h \in Hooks : h.mark # "none"}
MarkedBy(marks) == {h \in Hooks : h.mark \in marks}

LEMMA UnmarkedIs ==
    ASSUME NEW hooks \in Seq(Hooks)
    PROVE  Unmarked(hooks) = Dropping(hooks, Marked)
<1> DEFINE A == {h \in ToSet(hooks) : h.mark # "none"}
<1>1. \A i \in 1 .. Len(hooks) : hooks[i] \in A <=> hooks[i] \in Marked
  BY DEF ToSet, Marked
<1> HIDE DEF A
<1>2. Dropping(hooks, A) = Dropping(hooks, Marked)
  BY <1>1, DroppingSame
<1> QED BY <1>2 DEF Unmarked, A

LEMMA WithoutIs ==
    ASSUME NEW hooks \in Seq(Hooks), NEW marks
    PROVE  Without(hooks, marks) = Dropping(hooks, MarkedBy(marks))
<1> DEFINE A == {h \in ToSet(hooks) : h.mark \in marks}
<1>1. \A i \in 1 .. Len(hooks) : hooks[i] \in A <=> hooks[i] \in MarkedBy(marks)
  BY DEF ToSet, MarkedBy
<1> HIDE DEF A
<1>2. Dropping(hooks, A) = Dropping(hooks, MarkedBy(marks))
  BY <1>1, DroppingSame
<1> QED BY <1>2 DEF Without, A

\* A retain loop takes the hooks with one of the marks, and those only.
LEMMA WithoutKeeps ==
    ASSUME NEW hooks \in Seq(Hooks), NEW marks, "none" \notin marks
    PROVE  /\ Without(hooks, marks) \in Seq(Hooks)
           /\ \A h \in ToSet(Without(hooks, marks)) : h \in ToSet(hooks) /\ h.mark \notin marks
           /\ Unmarked(Without(hooks, marks)) = Unmarked(hooks)
           /\ (\A h \in ToSet(hooks) : h.mark \notin marks) => Without(hooks, marks) = hooks
<1> DEFINE D == MarkedBy(marks)
           w == Without(hooks, marks)
<1>1. w = Dropping(hooks, D)
  BY WithoutIs
<1>2. w \in Seq(Hooks) /\ ToSet(w) = ToSet(hooks) \ D
  BY <1>1, DroppingType
<1>3. D \subseteq Marked
  BY DEF Marked, MarkedBy
<1>4. ToSet(hooks) \subseteq Hooks
  BY DEF ToSet
<1>5. \A h \in ToSet(w) : h \in ToSet(hooks) /\ h.mark \notin marks
  BY <1>2, <1>4 DEF MarkedBy
<1> HIDE DEF D, w
<1>6. Unmarked(w) = Unmarked(hooks)
  <2>1. Dropping(Dropping(hooks, D), Marked) = Dropping(hooks, Marked)
    BY <1>3, DroppingDropped
  <2>2. Unmarked(w) = Dropping(w, Marked)
    BY <1>2, UnmarkedIs
  <2>3. Unmarked(hooks) = Dropping(hooks, Marked)
    BY UnmarkedIs
  <2> QED BY <1>1, <2>1, <2>2, <2>3
<1>7. ASSUME \A h \in ToSet(hooks) : h.mark \notin marks PROVE w = hooks
  <2>1. \A i \in 1 .. Len(hooks) : hooks[i] \notin D
    BY <1>7 DEF ToSet, D, MarkedBy
  <2>2. Dropping(hooks, D) = hooks
    BY <2>1, DroppingNone
  <2> QED BY <1>1, <2>2
<1> QED BY <1>2, <1>5, <1>6, <1>7 DEF w

---------------------------------------------------------------------------
\* The hook that runs for h: the first with its matcher and its marker.
Like(x, h) == x.at = h.at /\ x.mark = h.mark
FirstIs(hooks, h) ==
    \E i \in 1 .. Len(hooks) : hooks[i] = h /\ \A j \in 1 .. i - 1 : ~ Like(hooks[j], h)
Found(s, h) == SelectInSeq(s, LAMBDA x : x.at = h.at /\ x.mark = h.mark)

LEMMA SelectHook ==
    ASSUME NEW s \in Seq(Hooks), NEW h
    PROVE  /\ Found(s, h) \in 0 .. Len(s)
           /\ Found(s, h) # 0 => Like(s[Found(s, h)], h)
           /\ \A j \in 1 .. Found(s, h) - 1 : ~ Like(s[j], h)
           /\ Found(s, h) = 0 => \A j \in 1 .. Len(s) : ~ Like(s[j], h)
<1> DEFINE I == {i \in 1 .. Len(s) : s[i].at = h.at /\ s[i].mark = h.mark}
           n == Found(s, h)
<1>1. Len(s) \in Nat
  OBVIOUS
<1>2. n = IF I # {} THEN Min(I) ELSE 0
  BY DEF SelectInSeq, Found
<1>3. CASE I = {}
  BY <1>1, <1>2, <1>3 DEF Like
<1>4. CASE I # {}
  <2>1. I \subseteq Nat
    OBVIOUS
  <2>2. Min(I) \in I /\ \A m \in I : Min(I) <= m
    BY <1>4, <2>1, MinOfSet
  <2>3. n = Min(I)
    BY <1>2, <1>4
  <2>4. Min(I) \in 1 .. Len(s) /\ Like(s[Min(I)], h)
    BY <2>2 DEF Like
  <2>5. \A j \in 1 .. Min(I) - 1 : j \in 1 .. Len(s) /\ ~ (Min(I) <= j)
    BY <2>4, <1>1
  <2>6. \A j \in 1 .. Min(I) - 1 : ~ Like(s[j], h)
    BY <2>2, <2>5 DEF Like
  <2> HIDE DEF I, n
  <2>7. /\ n \in 0 .. Len(s)
        /\ n # 0 => Like(s[n], h)
        /\ \A j \in 1 .. n - 1 : ~ Like(s[j], h)
        /\ n = 0 => \A j \in 1 .. Len(s) : ~ Like(s[j], h)
    BY <1>1, <2>3, <2>4, <2>6
  <2> QED BY <2>7 DEF n
<1> QED BY <1>3, <1>4

\* ensure_hook_registered: h is what runs then, and no other hook is touched.
LEMMA RegisterIs ==
    ASSUME NEW hooks \in Seq(Hooks), NEW h \in Hooks, h.mark # "none", h.mark \notin OldMarks
    PROVE  /\ Register(hooks, h) \in Seq(Hooks) /\ FirstIs(Register(hooks, h), h)
           /\ Unmarked(Register(hooks, h)) = Unmarked(hooks)
           /\ (\A x \in ToSet(hooks) : x.mark \notin OldMarks)
                => \A x \in ToSet(Register(hooks, h)) : x.mark \notin OldMarks
           /\ \A g \in Hooks : ~ Like(h, g) /\ FirstIs(hooks, g) => FirstIs(Register(hooks, h), g)
           /\ FirstIs(hooks, h) => Register(hooks, h) = hooks
<1> DEFINE n == Found(hooks, h)
           r == Register(hooks, h)
<1>1. /\ n \in 0 .. Len(hooks)
      /\ n # 0 => Like(hooks[n], h)
      /\ \A j \in 1 .. n - 1 : ~ Like(hooks[j], h)
      /\ n = 0 => \A j \in 1 .. Len(hooks) : ~ Like(hooks[j], h)
  BY SelectHook
<1>2. r = IF n = 0 THEN Append(hooks, h) ELSE [hooks EXCEPT ![n].cmd = h.cmd]
  BY DEF Register, Found
<1>3. Len(hooks) \in Nat
  OBVIOUS
<1> HIDE DEF n, r
<1> SUFFICES /\ r \in Seq(Hooks) /\ FirstIs(r, h) /\ Unmarked(r) = Unmarked(hooks)
             /\ (\A x \in ToSet(hooks) : x.mark \notin OldMarks)
                  => \A x \in ToSet(r) : x.mark \notin OldMarks
             /\ \A g \in Hooks : ~ Like(h, g) /\ FirstIs(hooks, g) => FirstIs(r, g)
             /\ FirstIs(hooks, h) => r = hooks
  BY DEF r
<1>4. CASE n = 0
  <2>1. r = Append(hooks, h)
    BY <1>2, <1>4
  <2>2. /\ r \in Seq(Hooks) /\ Len(r) = Len(hooks) + 1 /\ r[Len(hooks) + 1] = h
        /\ \A j \in 1 .. Len(hooks) : r[j] = hooks[j]
    BY <1>3, <2>1
  <2>3. FirstIs(r, h)
    BY <1>1, <1>3, <1>4, <2>2 DEF FirstIs
  <2>4. Unmarked(r) = Unmarked(hooks)
    <3> DEFINE m == <<h>>
    <3>1. m \in Seq(Hooks) /\ r = hooks \o m /\ \A j \in 1 .. Len(m) : m[j] \in Marked
      BY <2>1, AppendIsConcat DEF Marked
    <3> HIDE DEF m
    <3>2. Dropping(r, Marked) = Dropping(hooks, Marked) \o Dropping(m, Marked)
      BY <3>1, DroppingConcat
    <3>3. Dropping(m, Marked) = <<>>
      BY <3>1, DroppingAll
    <3>4. Dropping(hooks, Marked) \in Seq(Hooks)
      BY DroppingType
    <3>5. Dropping(r, Marked) = Dropping(hooks, Marked)
      BY <3>2, <3>3, <3>4, ConcatEmptySeq
    <3> QED BY <2>2, <3>5, UnmarkedIs
  <2>5. ToSet(r) = ToSet(hooks) \cup {h}
    BY <2>1, ToSetAppend
  <2>6. ASSUME NEW g \in Hooks, ~ Like(h, g), FirstIs(hooks, g) PROVE FirstIs(r, g)
    <3>1. PICK i \in 1 .. Len(hooks) : hooks[i] = g /\ \A j \in 1 .. i - 1 : ~ Like(hooks[j], g)
      BY <2>6 DEF FirstIs
    <3>2. i \in 1 .. Len(r) /\ r[i] = g /\ \A j \in 1 .. i - 1 : ~ Like(r[j], g)
      BY <1>3, <2>2, <3>1
    <3> QED BY <3>2 DEF FirstIs
  <2>7. ~ FirstIs(hooks, h)
    BY <1>1, <1>4 DEF FirstIs, Like
  <2> QED BY <2>2, <2>3, <2>4, <2>5, <2>6, <2>7
<1>5. CASE n # 0
  <2>1. r = [hooks EXCEPT ![n].cmd = h.cmd] /\ n \in 1 .. Len(hooks) /\ Like(hooks[n], h)
    BY <1>1, <1>2, <1>3, <1>5
  <2>2. hooks[n] \in Hooks
    BY <2>1
  <2>3. r[n] = [hooks[n] EXCEPT !.cmd = h.cmd]
    BY <2>1
  <2>4. r[n] = h
    BY <2>1, <2>2, <2>3 DEF Hooks, Like
  <2>5. /\ r \in Seq(Hooks) /\ Len(r) = Len(hooks)
        /\ \A j \in 1 .. Len(hooks) : j # n => r[j] = hooks[j]
    <3>1. r = [hooks EXCEPT ![n] = h]
      BY <2>1, <2>3, <2>4
    <3> QED BY <1>3, <2>1, <3>1
  <2>6. FirstIs(r, h)
    BY <1>1, <1>3, <2>1, <2>4, <2>5 DEF FirstIs
  <2>7. Unmarked(r) = Unmarked(hooks)
    <3>1. hooks[n].mark = h.mark
      BY <2>1 DEF Like
    <3>2. hooks[n] \in Marked /\ r[n] \in Marked
      BY <2>2, <2>4, <3>1 DEF Marked
    <3>3. \A j \in 1 .. Len(hooks) : /\ hooks[j] \in Marked <=> r[j] \in Marked
                                     /\ hooks[j] \notin Marked => hooks[j] = r[j]
      BY <2>5, <3>2
    <3>4. Dropping(hooks, Marked) = Dropping(r, Marked)
      BY <2>5, <3>3, DroppingSame
    <3> QED BY <2>5, <3>4, UnmarkedIs
  <2>8. \A x \in ToSet(r) : x = h \/ x \in ToSet(hooks)
    BY <2>4, <2>5 DEF ToSet
  <2>9. ASSUME NEW g \in Hooks, ~ Like(h, g), FirstIs(hooks, g) PROVE FirstIs(r, g)
    <3>1. PICK i \in 1 .. Len(hooks) : hooks[i] = g /\ \A j \in 1 .. i - 1 : ~ Like(hooks[j], g)
      BY <2>9 DEF FirstIs
    <3>2. i # n
      BY <2>1, <2>9, <3>1 DEF Like
    <3>3. i \in 1 .. Len(r) /\ r[i] = g /\ \A j \in 1 .. i - 1 : ~ Like(r[j], g)
      BY <1>3, <2>4, <2>5, <2>9, <3>1, <3>2
    <3> QED BY <3>3 DEF FirstIs
  <2>10. ASSUME FirstIs(hooks, h) PROVE r = hooks
    <3>1. PICK i \in 1 .. Len(hooks) : hooks[i] = h /\ \A j \in 1 .. i - 1 : ~ Like(hooks[j], h)
      BY <2>10 DEF FirstIs
    <3>2. ~ (n < i)
      BY <1>3, <2>1, <3>1
    <3>3. ~ (i < n)
      <4>1. Like(hooks[i], h)
        BY <3>1 DEF Like
      <4> QED BY <1>1, <1>3, <2>1, <4>1
    <3>4. i = n
      BY <1>3, <2>1, <3>2, <3>3
    <3>5. \A j \in 1 .. Len(hooks) : r[j] = hooks[j]
      BY <2>4, <2>5, <3>1, <3>4
    <3> QED BY <2>5, <3>5, SeqEqual
  <2> QED BY <2>5, <2>6, <2>7, <2>8, <2>9, <2>10
<1> QED BY <1>4, <1>5


\* RegisterAll as a function of how many of the hooks are registered.
RegStep(hooks, v, after, i) ==
    IF i = 0 THEN Without(hooks, OldMarks) ELSE Register(after[i - 1], Shipped(v)[i])
IsRegs(hooks, v, after) == after = [i \in 0 .. Len(Shipped(v)) |-> RegStep(hooks, v, after, i)]
Regs(hooks, v) == CHOOSE after : IsRegs(hooks, v, after)

LEMMA RegsExist ==
    ASSUME NEW hooks, NEW v, NEW n \in Nat
    PROVE  \E after : after = [i \in 0 .. n |-> RegStep(hooks, v, after, i)]
<1> DEFINE T == {m \in Nat : \E after : after = [i \in 0 .. m |-> RegStep(hooks, v, after, i)]}
<1>1. 0 \in T
  <2> DEFINE f == [i \in 0 .. 0 |-> Without(hooks, OldMarks)]
  <2>1. f = [i \in 0 .. 0 |-> RegStep(hooks, v, f, i)]
    BY DEF RegStep
  <2> QED BY <2>1
<1>2. ASSUME NEW m \in Nat, m \in T PROVE m + 1 \in T
  <2>1. PICK f : f = [i \in 0 .. m |-> RegStep(hooks, v, f, i)]
    BY <1>2
  <2> DEFINE last == RegStep(hooks, v, f, m + 1)
             g == [i \in 0 .. m + 1 |-> IF i = m + 1 THEN last ELSE f[i]]
  <2>2. \A i \in 0 .. m : f[i] = RegStep(hooks, v, f, i)
    BY <2>1
  <2>3. ASSUME NEW i \in 0 .. m + 1 PROVE g[i] = RegStep(hooks, v, g, i)
    <3>1. CASE i = m + 1
      <4>1. g[i] = RegStep(hooks, v, f, i) /\ g[i - 1] = f[i - 1]
        BY <3>1
      <4> HIDE DEF g
      <4> QED BY <4>1 DEF RegStep
    <3>2. CASE i \in 0 .. m
      <4>1. g[i] = f[i]
        BY <3>2
      <4>2. i # 0 => g[i - 1] = f[i - 1]
        BY <3>2
      <4> HIDE DEF g
      <4> QED BY <3>2, <4>1, <4>2, <2>2 DEF RegStep
    <3> QED BY <3>1, <3>2
  <2>4. g = [i \in 0 .. m + 1 |-> RegStep(hooks, v, g, i)]
    <3>1. g = [i \in 0 .. m + 1 |-> g[i]]
      OBVIOUS
    <3> HIDE DEF g
    <3> QED BY <3>1, <2>3
  <2> HIDE DEF g
  <2>5. m + 1 \in Nat
    OBVIOUS
  <2> QED BY <2>4, <2>5
<1> HIDE DEF T
<1>3. n \in T
  BY <1>1, <1>2, NatInduct
<1> QED BY <1>3 DEF T

LEMMA ShippedFacts ==
    ASSUME NEW v \in Versions
    PROVE  /\ Shipped(v) \in Seq(Hooks) /\ Len(Shipped(v)) = 8
           /\ \A k \in 1 .. 8 : /\ Shipped(v)[k] \in Hooks /\ Shipped(v)[k].mark \in AgentMarks
                                /\ Shipped(v)[k].mark # "none" /\ Shipped(v)[k].mark \notin OldMarks
<1>1. v \in {User} \cup 0 .. MaxVersion /\ 0 \in {User} \cup 0 .. MaxVersion
  BY SetupAssumption DEF Versions, SetupAssumption
<1> DEFINE W == {"Destructive git", "bun/bunx", "ig-guard.sh", "Use ig via Bash", "format.sh",
                 ".env", "secret", "subagent-context.sh"}
           B == [at : Events, mark : W, cmd : {v, 0}]
<1>2. W \subseteq AgentMarks /\ "none" \notin W /\ W \cap OldMarks = {}
  BY DEF AgentMarks, UninstallMarks, OldMarks
<1>3. B \subseteq Hooks
  <2>1. \A e \in Events : e \in Words \cup Events
    OBVIOUS
  <2> QED BY <1>1, <1>2, <2>1 DEF Hooks
<1>4. \A h \in B : h.mark \in W
  OBVIOUS
<1>5. Len(Shipped(v)) = 8 /\ \A k \in 1 .. 8 : Shipped(v)[k] \in B
  BY DEF Shipped, Events
<1>6. Shipped(v) \in Seq(B)
  BY <1>5 DEF Shipped, Events
<1> HIDE DEF B, W
<1> QED BY <1>2, <1>3, <1>4, <1>5, <1>6

LEMMA ShippedAreUnlike ==
    ASSUME NEW v, NEW k \in 1 .. 8, NEW l \in 1 .. 8, k # l
    PROVE  ~ Like(Shipped(v)[k], Shipped(v)[l])
<1> DEFINE S == Shipped(v)
<1>1. /\ S[1].mark = "Destructive git" /\ S[2].mark = "bun/bunx" /\ S[3].mark = "ig-guard.sh"
      /\ S[4].mark = "Use ig via Bash" /\ S[5].mark = "format.sh" /\ S[6].mark = ".env"
      /\ S[7].mark = "secret" /\ S[8].mark = "subagent-context.sh"
  BY DEF Shipped
<1> HIDE DEF S
<1>2. S[k].mark # S[l].mark
  <2>1. CASE k = 1
    <3>1. l = 2 \/ l = 3 \/ l = 4 \/ l = 5 \/ l = 6 \/ l = 7 \/ l = 8
      BY <2>1
    <3> QED BY <1>1, <2>1, <3>1
  <2>2. CASE k = 2
    <3>1. l = 1 \/ l = 3 \/ l = 4 \/ l = 5 \/ l = 6 \/ l = 7 \/ l = 8
      BY <2>2
    <3> QED BY <1>1, <2>2, <3>1
  <2>3. CASE k = 3
    <3>1. l = 1 \/ l = 2 \/ l = 4 \/ l = 5 \/ l = 6 \/ l = 7 \/ l = 8
      BY <2>3
    <3> QED BY <1>1, <2>3, <3>1
  <2>4. CASE k = 4
    <3>1. l = 1 \/ l = 2 \/ l = 3 \/ l = 5 \/ l = 6 \/ l = 7 \/ l = 8
      BY <2>4
    <3> QED BY <1>1, <2>4, <3>1
  <2>5. CASE k = 5
    <3>1. l = 1 \/ l = 2 \/ l = 3 \/ l = 4 \/ l = 6 \/ l = 7 \/ l = 8
      BY <2>5
    <3> QED BY <1>1, <2>5, <3>1
  <2>6. CASE k = 6
    <3>1. l = 1 \/ l = 2 \/ l = 3 \/ l = 4 \/ l = 5 \/ l = 7 \/ l = 8
      BY <2>6
    <3> QED BY <1>1, <2>6, <3>1
  <2>7. CASE k = 7
    <3>1. l = 1 \/ l = 2 \/ l = 3 \/ l = 4 \/ l = 5 \/ l = 6 \/ l = 8
      BY <2>7
    <3> QED BY <1>1, <2>7, <3>1
  <2>8. CASE k = 8
    <3>1. l = 1 \/ l = 2 \/ l = 3 \/ l = 4 \/ l = 5 \/ l = 6 \/ l = 7
      BY <2>8
    <3> QED BY <1>1, <2>8, <3>1
  <2> QED BY <2>1, <2>2, <2>3, <2>4, <2>5, <2>6, <2>7, <2>8
<1> QED BY <1>2 DEF Like, S

LEMMA RegsDef ==
    ASSUME NEW hooks, NEW v \in Versions
    PROVE  /\ RegisterAll(hooks, v) = Regs(hooks, v)[8]
           /\ Regs(hooks, v)[0] = Without(hooks, OldMarks)
           /\ \A i \in 1 .. 8 : Regs(hooks, v)[i] = Register(Regs(hooks, v)[i - 1], Shipped(v)[i])
<1>1. Len(Shipped(v)) = 8
  BY ShippedFacts
<1>2. RegisterAll(hooks, v) = Regs(hooks, v)[Len(Shipped(v))]
  BY DEF RegisterAll, Regs, IsRegs, RegStep
<1>3. \E after : IsRegs(hooks, v, after)
  <2> DEFINE n == 8
  <2>0. n \in Nat
    OBVIOUS
  <2>1. PICK after : after = [i \in 0 .. n |-> RegStep(hooks, v, after, i)]
    <3> HIDE DEF n
    <3> QED BY <2>0, RegsExist
  <2>2. IsRegs(hooks, v, after)
    BY <1>1, <2>1, Zenon DEF IsRegs
  <2> QED BY <2>2, Zenon
<1> DEFINE K == Regs(hooks, v)
<1>4. IsRegs(hooks, v, K)
  <2> DEFINE P(after) == IsRegs(hooks, v, after)
  <2>1. \E after : P(after)
    BY <1>3
  <2> HIDE DEF P
  <2>2. P(CHOOSE after : P(after))
    BY <2>1
  <2> QED BY <2>2 DEF P, Regs
<1> HIDE DEF K
<1>5. \A i \in 0 .. 8 : K[i] = RegStep(hooks, v, K, i)
  BY <1>1, <1>4 DEF IsRegs
<1>6. K[0] = Without(hooks, OldMarks) /\ \A i \in 1 .. 8 : K[i] = Register(K[i - 1], Shipped(v)[i])
  BY <1>5 DEF RegStep
<1> QED BY <1>1, <1>2, <1>6 DEF K

\* The hooks an up-to-date settings.json has: what runs under each of ig's matchers is what
\* this version ships, and nothing of the old hooks is left.
HooksCurrent(hooks, v) ==
    /\ \A k \in 1 .. 8 : FirstIs(hooks, Shipped(v)[k])
    /\ \A h \in ToSet(hooks) : h.mark \notin OldMarks

LEMMA RegisterAllIs ==
    ASSUME NEW hooks \in Seq(Hooks), NEW v \in Versions
    PROVE  /\ RegisterAll(hooks, v) \in Seq(Hooks)
           /\ HooksCurrent(RegisterAll(hooks, v), v)
           /\ Unmarked(RegisterAll(hooks, v)) = Unmarked(hooks)
<1> DEFINE K == Regs(hooks, v)
           S == Shipped(v)
           P(i) == /\ K[i] \in Seq(Hooks) /\ Unmarked(K[i]) = Unmarked(hooks)
                   /\ \A x \in ToSet(K[i]) : x.mark \notin OldMarks
                   /\ \A k \in 1 .. i : FirstIs(K[i], S[k])
           T == {i \in Nat : i <= 8 => P(i)}
<1>1. /\ RegisterAll(hooks, v) = K[8] /\ K[0] = Without(hooks, OldMarks)
      /\ \A i \in 1 .. 8 : K[i] = Register(K[i - 1], S[i])
  BY RegsDef
<1>2. \A k \in 1 .. 8 : S[k] \in Hooks /\ S[k].mark # "none" /\ S[k].mark \notin OldMarks
  BY ShippedFacts
<1>3. \A k, l \in 1 .. 8 : k # l => ~ Like(S[k], S[l])
  BY ShippedAreUnlike
<1> HIDE DEF K, S
<1>4. P(0)
  <2>1. "none" \notin OldMarks
    BY DEF OldMarks
  <2>2. /\ K[0] \in Seq(Hooks) /\ Unmarked(K[0]) = Unmarked(hooks)
        /\ \A x \in ToSet(K[0]) : x.mark \notin OldMarks
    BY <1>1, <2>1, WithoutKeeps
  <2> QED BY <2>2
<1>5. ASSUME NEW i \in Nat, i + 1 <= 8, P(i) PROVE P(i + 1)
  <2>1. i + 1 \in 1 .. 8 /\ (i + 1) - 1 = i
    BY <1>5
  <2>2. K[i + 1] = Register(K[i], S[i + 1])
    BY <1>1, <2>1
  <2>3. S[i + 1] \in Hooks /\ S[i + 1].mark # "none" /\ S[i + 1].mark \notin OldMarks
    BY <1>2, <2>1
  <2>4. K[i] \in Seq(Hooks) /\ Unmarked(K[i]) = Unmarked(hooks)
        /\ (\A x \in ToSet(K[i]) : x.mark \notin OldMarks)
        /\ \A k \in 1 .. i : FirstIs(K[i], S[k])
    BY <1>5
  <2>5. /\ K[i + 1] \in Seq(Hooks) /\ FirstIs(K[i + 1], S[i + 1])
        /\ Unmarked(K[i + 1]) = Unmarked(K[i])
        /\ \A x \in ToSet(K[i + 1]) : x.mark \notin OldMarks
        /\ \A g \in Hooks : ~ Like(S[i + 1], g) /\ FirstIs(K[i], g) => FirstIs(K[i + 1], g)
    BY <2>2, <2>3, <2>4, RegisterIs
  <2>6. ASSUME NEW k \in 1 .. i + 1 PROVE FirstIs(K[i + 1], S[k])
    <3>1. CASE k = i + 1
      BY <2>5, <3>1
    <3>2. CASE k # i + 1
      <4>1. k \in 1 .. i /\ k \in 1 .. 8
        BY <2>1, <3>2
      <4> QED BY <1>2, <1>3, <2>1, <2>4, <2>5, <3>2, <4>1
    <3> QED BY <3>1, <3>2
  <2> QED BY <2>4, <2>5, <2>6
<1> HIDE DEF P
<1>6. 0 \in T /\ \A i \in Nat : i \in T => i + 1 \in T
  BY <1>4, <1>5
<1>7. 8 \in T
  <2> HIDE DEF T
  <2>1. Nat \subseteq T
    BY <1>6, NatInduct
  <2> QED BY <2>1
<1>8. P(8)
  BY <1>7
<1> QED BY <1>1, <1>8 DEF P, HooksCurrent, S

LEMMA HooksSettle ==
    ASSUME NEW hooks \in Seq(Hooks), NEW v \in Versions, HooksCurrent(hooks, v)
    PROVE  /\ RegisterAll(hooks, v) = hooks
           /\ ToSet(Shipped(v)) \subseteq ToSet(hooks)
           /\ \A i \in DOMAIN hooks : hooks[i].mark \notin OldMarks
<1> DEFINE K == Regs(hooks, v)
           S == Shipped(v)
           T == {i \in Nat : i <= 8 => K[i] = hooks}
<1>1. /\ RegisterAll(hooks, v) = K[8] /\ K[0] = Without(hooks, OldMarks)
      /\ \A i \in 1 .. 8 : K[i] = Register(K[i - 1], S[i])
  BY RegsDef
<1>2. \A k \in 1 .. 8 : S[k] \in Hooks /\ S[k].mark # "none" /\ S[k].mark \notin OldMarks
  BY ShippedFacts
<1>3. (\A k \in 1 .. 8 : FirstIs(hooks, S[k])) /\ \A h \in ToSet(hooks) : h.mark \notin OldMarks
  BY DEF HooksCurrent
<1>4. S \in Seq(Hooks) /\ Len(S) = 8
  BY ShippedFacts
<1> HIDE DEF K, S
<1>5. 0 \in T
  <2>1. "none" \notin OldMarks
    BY DEF OldMarks
  <2> QED BY <1>1, <1>3, <2>1, WithoutKeeps
<1>6. ASSUME NEW i \in Nat, i \in T PROVE i + 1 \in T
  <2> SUFFICES ASSUME i + 1 <= 8 PROVE K[i + 1] = hooks
    OBVIOUS
  <2>1. i + 1 \in 1 .. 8 /\ (i + 1) - 1 = i /\ K[i] = hooks
    BY <1>6
  <2>2. K[i + 1] = Register(hooks, S[i + 1])
    BY <1>1, <2>1
  <2> DEFINE h == S[i + 1]
  <2>3. h \in Hooks /\ h.mark # "none" /\ h.mark \notin OldMarks /\ FirstIs(hooks, h)
    BY <1>2, <1>3, <2>1
  <2>4. Register(hooks, h) = hooks
    <3> HIDE DEF h
    <3> QED BY <2>3, RegisterIs
  <2> QED BY <2>2, <2>4
<1>7. 8 \in T
  <2> HIDE DEF T
  <2>1. Nat \subseteq T
    BY <1>5, <1>6, NatInduct
  <2> QED BY <2>1
<1>8. ASSUME NEW h \in ToSet(S) PROVE h \in ToSet(hooks)
  <2>1. PICK k \in 1 .. 8 : h = S[k]
    BY <1>4 DEF ToSet
  <2>2. PICK i \in 1 .. Len(hooks) : hooks[i] = S[k]
    BY <1>3 DEF FirstIs
  <2> QED BY <2>1, <2>2 DEF ToSet
<1>9. \A i \in DOMAIN hooks : hooks[i].mark \notin OldMarks
  BY <1>3 DEF ToSet
<1> QED BY <1>1, <1>7, <1>8, <1>9 DEF S

\* After Claude's uninstaller no hook of any version is left.
LEMMA PrunedHasNoHook ==
    ASSUME NEW hooks, \A h \in ToSet(hooks) : h.mark \notin AgentMarks, NEW v \in Versions
    PROVE  ToSet(Shipped(v)) \cap ToSet(hooks) = {}
<1>1. ASSUME NEW h \in ToSet(Shipped(v)) PROVE h.mark \in AgentMarks
  <2>1. Len(Shipped(v)) = 8 /\ Shipped(v) \in Seq(Hooks)
    BY ShippedFacts
  <2>2. PICK k \in 1 .. 8 : h = Shipped(v)[k]
    BY <2>1 DEF ToSet
  <2> QED BY <2>2, ShippedFacts
<1> QED BY <1>1


\* The steps commands are made of, and those of each kind of command.
Texts == Upserted \cup AppendedTo
Upserts(set) == {Do("upsert", a) : a \in set}
Strips == {Do("strip", a) : a \in Texts}
Cuts == {Do("cut", a) : a \in Texts}
WritesOwn == {Do("write", f) : f \in Overwritten \cup Once}
Removes == {Do("remove", fs) : fs \in SUBSET (OwnFiles \cup {"session-start.sh"})}
ListSteps == {Do("list", l) : l \in Lists}
Unlists == {Do("unlist", l) : l \in Lists}

Permit == Do("permission", "settings.json")
Hook == Do("hooks", "settings.json")
Script == Do("scripts", "hooks")
Shell == Do("shell", "rc")
Prune == Do("prune", AgentMarks)

SetupDo == {Permit, Hook, Script, Shell} \cup Upserts(Texts) \cup WritesOwn \cup ListSteps
InstallDo == {Permit, Hook, Script, DryScripts} \cup Upserts(Texts) \cup WritesOwn \cup ListSteps
UninstallDo == {Prune} \cup Strips \cup Removes
FullDo == {Do("prune", UninstallMarks)} \cup Cuts \cup Removes \cup Unlists
\* What brings nothing of ig to Claude.
Quiet == {DryScripts} \cup Upserts(Texts \ {"claude"}) \cup WritesOwn \cup ListSteps
         \cup Strips \cup Removes
AllSteps == SetupDo \cup InstallDo \cup UninstallDo \cup FullDo

LEMMA SomeSteps ==
    /\ \A a \in Texts : Do("upsert", a) \in Upserts(Texts) /\ Do("strip", a) \in Strips
                        /\ Do("cut", a) \in Cuts
    /\ \A a \in Texts \ {"claude"} : Do("upsert", a) \in Upserts(Texts \ {"claude"})
    /\ \A f \in Overwritten \cup Once : Do("write", f) \in WritesOwn
    /\ \A l \in Lists : Do("list", l) \in ListSteps /\ Do("unlist", l) \in Unlists
    /\ \A fs \in SUBSET (OwnFiles \cup {"session-start.sh"}) : Do("remove", fs) \in Removes
    /\ {"claude", "codex", "gemini", "opencode", "kilo"} = Texts
    /\ {"rules/ig.md", "hermes", "antigravity", "explorer.md", "cursor", "windsurf", "cline",
        "aider/IG.md"} = Overwritten \cup Once
    /\ {"opencode.json", "aider.conf", "continue", "zed"} = Lists
  BY DEF Texts, Upserts, Strips, Cuts, WritesOwn, ListSteps, Unlists, Removes, Upserted, AppendedTo,
         Overwritten, Once, Lists

\* No step of one command is one of the others'.
LEMMA StepsDiffer ==
    /\ Shell \notin InstallDo \cup UninstallDo \cup FullDo \cup Quiet
    /\ Prune \notin SetupDo \cup InstallDo \cup FullDo \cup Quiet
<1>1. AgentMarks # UninstallMarks
  <2>1. "subagent-context.sh" \in AgentMarks /\ "subagent-context.sh" \notin UninstallMarks
    BY DEF AgentMarks, UninstallMarks
  <2> QED BY <2>1
<1>2. \A s \in InstallDo \cup UninstallDo \cup FullDo \cup Quiet : s.do # "shell"
  BY DEF InstallDo, UninstallDo, FullDo, Quiet, Permit, Hook, Script, Prune, Do, DryScripts,
         Upserts, WritesOwn, ListSteps, Strips, Cuts, Removes, Unlists
<1>3. \A s \in SetupDo \cup InstallDo \cup Quiet \cup Cuts \cup Removes \cup Unlists : s.do # "prune"
  BY DEF SetupDo, InstallDo, Quiet, Permit, Hook, Script, Shell, Do, DryScripts,
         Upserts, WritesOwn, ListSteps, Strips, Cuts, Removes, Unlists
<1>4. Shell.do = "shell" /\ Prune.do = "prune" /\ Prune # Do("prune", UninstallMarks)
  BY <1>1 DEF Shell, Prune, Do
<1> HIDE DEF Shell, Prune
<1> QED BY <1>2, <1>3, <1>4 DEF FullDo

LEMMA ConcatIn ==
    ASSUME NEW U, NEW s \in Seq(U), NEW t \in Seq(U)
    PROVE  s \o t \in Seq(U) /\ ToSet(s \o t) = ToSet(s) \cup ToSet(t)
  BY ToSetConcat

LEMMA ToSetIn ==
    ASSUME NEW U, NEW s \in Seq(U)
    PROVE  ToSet(s) \subseteq U
  BY DEF ToSet

\* run_setup_with_options does, for the agents that are there, what SetupIsCurrent needs done.
LEMMA SetupStepsAre ==
    /\ SetupSteps \in Seq(SetupDo) /\ SetupSteps # <<>>
    /\ \A a \in Texts \cap dirs : Do("upsert", a) \in ToSet(SetupSteps)
    /\ "claude" \in dirs => {Permit, Hook, Script} \subseteq ToSet(SetupSteps)
<1> DEFINE of(a, steps) == IF a \in dirs THEN steps ELSE <<>>
           u(a) == Do("upsert", a)
           s1 == of("claude", ConfigureClaude)
           s2 == of("codex", ConfigureCodex)
           s3 == of("opencode", ConfigureOpencode)
           s4 == of("cursor", ConfigureCursor)
           s5 == of("windsurf", ConfigureWindsurf)
           s6 == of("cline", ConfigureCline)
           s7 == of("gemini", ConfigureGemini)
           s8 == ConfigureAider
           s9 == ConfigureContinue
           s10 == ConfigureZed
           s11 == of("kilo", ConfigureKilo)
           s12 == <<Do("shell", "rc")>>
<1>0. /\ \A a \in Texts : Do("upsert", a) \in SetupDo
      /\ \A f \in Overwritten \cup Once : Do("write", f) \in SetupDo
      /\ \A l \in Lists : Do("list", l) \in SetupDo
      /\ Permit \in SetupDo /\ Hook \in SetupDo /\ Script \in SetupDo /\ Shell \in SetupDo
  BY SomeSteps DEF SetupDo
<1>1. ConfigureClaude \in Seq(SetupDo) /\ {Permit, Hook, Script, u("claude")} \subseteq ToSet(ConfigureClaude)
  <2> DEFINE a == <<Do("permission", "settings.json")>>
  <2>1. a \in Seq(SetupDo) /\ ToSet(a) = {Permit}
    BY <1>0, ToSetSingle DEF Permit
  <2>2. ClaudeRules \in Seq(SetupDo) /\ u("claude") \in ToSet(ClaudeRules)
    <3>1. Do("upsert", "claude") \in SetupDo /\ Do("write", "rules/ig.md") \in SetupDo
      BY <1>0, SomeSteps
    <3>2. ClaudeRules \in Seq(SetupDo) /\ Len(ClaudeRules) = 2 /\ ClaudeRules[1] = u("claude")
      BY <3>1 DEF ClaudeRules
    <3> QED BY <3>2 DEF ToSet
  <2>3. ClaudeHooks \in Seq(SetupDo) /\ {Hook, Script} \subseteq ToSet(ClaudeHooks)
    <3>1. Script \in SetupDo /\ Hook \in SetupDo /\ Do("write", "explorer.md") \in SetupDo
      BY <1>0, SomeSteps
    <3>2. ClaudeHooks = <<Script, Hook, Do("write", "explorer.md")>>
      BY DEF ClaudeHooks, Script, Hook
    <3>3. ClaudeHooks \in Seq(SetupDo) /\ Len(ClaudeHooks) = 3 /\ ClaudeHooks[1] = Script
          /\ ClaudeHooks[2] = Hook
      BY <3>1, <3>2
    <3> QED BY <3>3 DEF ToSet
  <2> HIDE DEF a, u
  <2>4. ConfigureClaude = (a \o ClaudeRules) \o ClaudeHooks
    BY DEF ConfigureClaude, a
  <2>5. a \o ClaudeRules \in Seq(SetupDo) /\ ToSet(a \o ClaudeRules) = ToSet(a) \cup ToSet(ClaudeRules)
    BY <2>1, <2>2, ConcatIn
  <2> DEFINE b == a \o ClaudeRules
  <2>7. b \in Seq(SetupDo)
    BY <2>5
  <2> HIDE DEF b
  <2>6. b \o ClaudeHooks \in Seq(SetupDo) /\ ToSet(b \o ClaudeHooks) = ToSet(b) \cup ToSet(ClaudeHooks)
    BY <2>3, <2>7, ConcatIn
  <2> QED BY <2>1, <2>2, <2>3, <2>4, <2>5, <2>6 DEF b
<1>2. /\ ConfigureCodex \in Seq(SetupDo) /\ ToSet(ConfigureCodex) = {u("codex")}
      /\ ConfigureGemini \in Seq(SetupDo) /\ ToSet(ConfigureGemini) = {u("gemini")}
      /\ ConfigureKilo \in Seq(SetupDo) /\ ToSet(ConfigureKilo) = {u("kilo")}
  BY <1>0, SomeSteps, ToSetSingle DEF ConfigureCodex, ConfigureGemini, ConfigureKilo
<1>3. ConfigureOpencode \in Seq(SetupDo) /\ u("opencode") \in ToSet(ConfigureOpencode)
  <2>1. Do("upsert", "opencode") \in SetupDo /\ Do("list", "opencode.json") \in SetupDo
    BY <1>0, SomeSteps
  <2>2. ConfigureOpencode \in Seq(SetupDo) /\ Len(ConfigureOpencode) = 2
        /\ ConfigureOpencode[1] = u("opencode")
    BY <2>1 DEF ConfigureOpencode
  <2> QED BY <2>2 DEF ToSet
<1>4. /\ ConfigureCursor \in Seq(SetupDo) /\ ConfigureWindsurf \in Seq(SetupDo)
      /\ ConfigureCline \in Seq(SetupDo) /\ ConfigureAider \in Seq(SetupDo)
      /\ ConfigureContinue \in Seq(SetupDo) /\ ConfigureZed \in Seq(SetupDo)
  <2>1. /\ Do("write", "cursor") \in SetupDo /\ Do("write", "windsurf") \in SetupDo
        /\ Do("write", "cline") \in SetupDo /\ Do("write", "aider/IG.md") \in SetupDo
        /\ Do("list", "aider.conf") \in SetupDo /\ Do("list", "continue") \in SetupDo
        /\ Do("list", "zed") \in SetupDo
    BY <1>0, SomeSteps
  <2> QED BY <2>1 DEF ConfigureCursor, ConfigureWindsurf, ConfigureCline, ConfigureAider,
                      ConfigureContinue, ConfigureZed
<1>5. s12 \in Seq(SetupDo) /\ ToSet(s12) = {Shell}
  BY <1>0, ToSetSingle DEF Shell
<1>6. /\ s1 \in Seq(SetupDo) /\ s2 \in Seq(SetupDo) /\ s3 \in Seq(SetupDo) /\ s4 \in Seq(SetupDo)
      /\ s5 \in Seq(SetupDo) /\ s6 \in Seq(SetupDo) /\ s7 \in Seq(SetupDo) /\ s8 \in Seq(SetupDo)
      /\ s9 \in Seq(SetupDo) /\ s10 \in Seq(SetupDo) /\ s11 \in Seq(SetupDo)
  <2>1. <<>> \in Seq(SetupDo)
    OBVIOUS
  <2> QED BY <1>1, <1>2, <1>3, <1>4, <2>1
<1>7. /\ "claude" \in dirs => {Permit, Hook, Script, u("claude")} \subseteq ToSet(s1)
      /\ "codex" \in dirs => u("codex") \in ToSet(s2)
      /\ "opencode" \in dirs => u("opencode") \in ToSet(s3)
      /\ "gemini" \in dirs => u("gemini") \in ToSet(s7)
      /\ "kilo" \in dirs => u("kilo") \in ToSet(s11)
  BY <1>1, <1>2, <1>3
<1> DEFINE t2 == s1 \o s2
           t3 == t2 \o s3
           t4 == t3 \o s4
           t5 == t4 \o s5
           t6 == t5 \o s6
           t7 == t6 \o s7
           t8 == t7 \o s8
           t9 == t8 \o s9
           t10 == t9 \o s10
           t11 == t10 \o s11
           t12 == t11 \o s12
<1>8. SetupSteps = t12
  BY DEF SetupSteps
<1> HIDE DEF s1, s2, s3, s4, s5, s6, s7, s8, s9, s10, s11, s12, u
<1>9. /\ t2 \in Seq(SetupDo) /\ ToSet(t2) = ToSet(s1) \cup ToSet(s2)
  BY <1>6, ConcatIn
<1> HIDE DEF t2
<1>10. t3 \in Seq(SetupDo) /\ ToSet(t3) = ToSet(t2) \cup ToSet(s3)
  BY <1>5, <1>6, <1>9, ConcatIn
<1> HIDE DEF t3
<1>11. t4 \in Seq(SetupDo) /\ ToSet(t4) = ToSet(t3) \cup ToSet(s4)
  BY <1>5, <1>6, <1>10, ConcatIn
<1> HIDE DEF t4
<1>12. t5 \in Seq(SetupDo) /\ ToSet(t5) = ToSet(t4) \cup ToSet(s5)
  BY <1>5, <1>6, <1>11, ConcatIn
<1> HIDE DEF t5
<1>13. t6 \in Seq(SetupDo) /\ ToSet(t6) = ToSet(t5) \cup ToSet(s6)
  BY <1>5, <1>6, <1>12, ConcatIn
<1> HIDE DEF t6
<1>14. t7 \in Seq(SetupDo) /\ ToSet(t7) = ToSet(t6) \cup ToSet(s7)
  BY <1>5, <1>6, <1>13, ConcatIn
<1> HIDE DEF t7
<1>15. t8 \in Seq(SetupDo) /\ ToSet(t8) = ToSet(t7) \cup ToSet(s8)
  BY <1>5, <1>6, <1>14, ConcatIn
<1> HIDE DEF t8
<1>16. t9 \in Seq(SetupDo) /\ ToSet(t9) = ToSet(t8) \cup ToSet(s9)
  BY <1>5, <1>6, <1>15, ConcatIn
<1> HIDE DEF t9
<1>17. t10 \in Seq(SetupDo) /\ ToSet(t10) = ToSet(t9) \cup ToSet(s10)
  BY <1>5, <1>6, <1>16, ConcatIn
<1> HIDE DEF t10
<1>18. t11 \in Seq(SetupDo) /\ ToSet(t11) = ToSet(t10) \cup ToSet(s11)
  BY <1>5, <1>6, <1>17, ConcatIn
<1> HIDE DEF t11
<1>19. t12 \in Seq(SetupDo) /\ ToSet(t12) = ToSet(t11) \cup ToSet(s12)
  BY <1>5, <1>6, <1>18, ConcatIn
<1>20. ToSet(t12) = ToSet(s1) \cup ToSet(s2) \cup ToSet(s3) \cup ToSet(s4) \cup ToSet(s5) \cup ToSet(s6)
         \cup ToSet(s7) \cup ToSet(s8) \cup ToSet(s9) \cup ToSet(s10) \cup ToSet(s11) \cup ToSet(s12)
  BY <1>9, <1>10, <1>11, <1>12, <1>13, <1>14, <1>15, <1>16, <1>17, <1>18, <1>19
<1> HIDE DEF t12
<1>21. t12 # <<>>
  BY <1>5, <1>20, ToSetEmpty
<1>22. \A a \in Texts \cap dirs : u(a) \in ToSet(t12)
  BY <1>7, <1>20, SomeSteps
<1> QED BY <1>7, <1>8, <1>19, <1>20, <1>21, <1>22 DEF u

LEMMA UninstallStepsAre ==
    /\ UninstallSteps("claude") \in Seq(UninstallDo)
    /\ ToSet(UninstallSteps("claude")) \subseteq
            {Do("strip", "claude"), Do("remove", Scripts \cup {"rules/ig.md", "explorer.md"}), Prune}
    /\ {Do("strip", "claude"), Do("remove", Scripts \cup {"rules/ig.md", "explorer.md"})}
            \subseteq ToSet(UninstallSteps("claude"))
    /\ \A a \in Agents \ {"claude"} : UninstallSteps(a) \in Seq(Strips \cup Removes)
<1>1. /\ \A a \in Texts : Do("strip", a) \in Strips
      /\ \A fs \in SUBSET (OwnFiles \cup {"session-start.sh"}) : Do("remove", fs) \in Removes
  BY SomeSteps
<1>2. /\ {"claude", "codex", "gemini", "kilo"} \subseteq Texts
      /\ {"cursor", "windsurf", "cline", "hermes", "antigravity"} \subseteq OwnFiles
      /\ Scripts \cup {"rules/ig.md", "explorer.md"} \subseteq OwnFiles
  BY SomeSteps DEF OwnFiles
<1> DEFINE r == Do("remove", Scripts \cup {"rules/ig.md", "explorer.md"})
<1>3. r \in Removes
  BY <1>1, <1>2
<1>4. UninstallSteps("claude") = <<Do("strip", "claude"), r, Prune>>
  BY DEF UninstallSteps, UninstallClaude, Prune
<1> HIDE DEF r
<1>5. Do("strip", "claude") \in UninstallDo /\ r \in UninstallDo /\ Prune \in UninstallDo
  BY <1>1, <1>2, <1>3 DEF UninstallDo
<1> DEFINE s == UninstallSteps("claude")
           t == <<Do("strip", "claude"), r, Prune>>
<1>9. t \in Seq(UninstallDo) /\ Len(t) = 3 /\ t[1] = Do("strip", "claude") /\ t[2] = r /\ t[3] = Prune
  BY <1>5
<1>6. /\ s \in Seq(UninstallDo) /\ Len(s) = 3
      /\ s[1] = Do("strip", "claude") /\ s[2] = r /\ s[3] = Prune
  BY <1>4, <1>9, Zenon
<1> HIDE DEF s, t
<1>7. ToSet(s) \subseteq {Do("strip", "claude"), r, Prune} /\ {Do("strip", "claude"), r} \subseteq ToSet(s)
  BY <1>6 DEF ToSet
<1>8. ASSUME NEW a \in Agents \ {"claude"} PROVE UninstallSteps(a) \in Seq(Strips \cup Removes)
  <2>1. UninstallSteps(a) \in {UninstallCodex, UninstallGemini, UninstallKilo, UninstallCursor,
            UninstallWindsurf, UninstallCline, UninstallHermes, UninstallAntigravity, UninstallOpencode}
    BY <1>8 DEF Agents, UninstallSteps
  <2>2. /\ Do("strip", "codex") \in Strips /\ Do("strip", "gemini") \in Strips
        /\ Do("strip", "kilo") \in Strips
    BY <1>1, <1>2
  <2>3. /\ Do("remove", {"cursor"}) \in Removes /\ Do("remove", {"windsurf"}) \in Removes
        /\ Do("remove", {"cline"}) \in Removes /\ Do("remove", {"hermes"}) \in Removes
        /\ Do("remove", {"antigravity"}) \in Removes
    BY <1>1, <1>2
  <2>4. /\ UninstallCodex \in Seq(Strips \cup Removes) /\ UninstallGemini \in Seq(Strips \cup Removes)
        /\ UninstallKilo \in Seq(Strips \cup Removes) /\ UninstallOpencode \in Seq(Strips \cup Removes)
    BY <2>2 DEF UninstallCodex, UninstallGemini, UninstallKilo, UninstallOpencode
  <2>5. /\ UninstallCursor \in Seq(Strips \cup Removes) /\ UninstallWindsurf \in Seq(Strips \cup Removes)
        /\ UninstallCline \in Seq(Strips \cup Removes) /\ UninstallHermes \in Seq(Strips \cup Removes)
        /\ UninstallAntigravity \in Seq(Strips \cup Removes)
    BY <2>3 DEF UninstallCursor, UninstallWindsurf, UninstallCline, UninstallHermes,
                UninstallAntigravity
  <2> QED BY <2>1, <2>4, <2>5
<1> QED BY <1>6, <1>7, <1>8 DEF r, s

LEMMA FullStepsAre == FullSteps \in Seq(FullDo)
<1> DEFINE of(a, steps) == IF a \in dirs THEN steps ELSE <<>>
           s1 == of("claude", RemoveClaudeConfig)
           s2 == of("codex", RemoveCodexConfig)
           s3 == of("opencode", RemoveOpencodeConfig)
           s4 == of("cursor", RemoveCursorConfig)
<1>1. /\ Do("remove", {"ig-guard.sh", "session-start.sh", "format.sh"}) \in FullDo
      /\ Do("remove", {"cursor"}) \in FullDo
  <2>1. /\ {"ig-guard.sh", "session-start.sh", "format.sh"} \in SUBSET (OwnFiles \cup {"session-start.sh"})
        /\ {"cursor"} \in SUBSET (OwnFiles \cup {"session-start.sh"})
    BY DEF OwnFiles, Once, Scripts
  <2> QED BY <2>1, SomeSteps DEF FullDo
<1>2. /\ Do("cut", "claude") \in FullDo /\ Do("cut", "codex") \in FullDo
      /\ Do("cut", "opencode") \in FullDo /\ Do("unlist", "opencode.json") \in FullDo
  BY SomeSteps DEF FullDo
<1>3. Do("prune", UninstallMarks) \in FullDo
  BY DEF FullDo
<1>4. s1 \in Seq(FullDo) /\ s2 \in Seq(FullDo) /\ s3 \in Seq(FullDo) /\ s4 \in Seq(FullDo)
  BY <1>1, <1>2, <1>3 DEF RemoveClaudeConfig, RemoveCodexConfig, RemoveOpencodeConfig,
                          RemoveCursorConfig
<1>5. FullSteps = ((s1 \o s2) \o s3) \o s4
  BY DEF FullSteps
<1> HIDE DEF s1, s2, s3, s4
<1>6. s1 \o s2 \in Seq(FullDo)
  BY <1>4, ConcatIn
<1>7. (s1 \o s2) \o s3 \in Seq(FullDo)
  BY <1>4, <1>6, ConcatIn
<1> QED BY <1>4, <1>5, <1>7, ConcatIn

LEMMA ClaudeStepsAre ==
    /\ <<Permit>> \in Seq(InstallDo) /\ ClaudeRules \in Seq(InstallDo)
    /\ ClaudeHooks \in Seq(InstallDo) /\ <<DryScripts>> \in Seq(InstallDo)
    /\ <<>> \in Seq(InstallDo)
<1>1. /\ Do("upsert", "claude") \in InstallDo /\ Do("write", "rules/ig.md") \in InstallDo
      /\ Do("write", "explorer.md") \in InstallDo /\ Script \in InstallDo /\ Hook \in InstallDo
      /\ Permit \in InstallDo /\ DryScripts \in InstallDo
  BY SomeSteps DEF InstallDo
<1>2. ClaudeHooks = <<Script, Hook, Do("write", "explorer.md")>>
  BY DEF ClaudeHooks, Script, Hook
<1> QED BY <1>1, <1>2 DEF ClaudeRules

LEMMA DrySetupIs == DrySetup \in Seq(InstallDo)
<1> DEFINE a == <<Permit>>
           b == <<DryScripts>>
           c == ClaudeRules
<1>1. a \in Seq(InstallDo) /\ b \in Seq(InstallDo) /\ c \in Seq(InstallDo) /\ <<>> \in Seq(InstallDo)
  BY ClaudeStepsAre
<1>2. DrySetup = IF "claude" \in dirs THEN (a \o c) \o b ELSE <<>>
  BY DEF DrySetup, Permit
<1> HIDE DEF a, b, c
<1>3. a \o c \in Seq(InstallDo)
  BY <1>1, ConcatIn
<1>4. (a \o c) \o b \in Seq(InstallDo)
  BY <1>1, <1>3, ConcatIn
<1> QED BY <1>1, <1>2, <1>4

\* What an installer writes: only Claude's brings a block, scripts or hooks to Claude.
LEMMA InstallStepsAre ==
    ASSUME NEW ctx \in Contexts
    PROVE  /\ InstallSteps("claude", ctx) \in Seq(InstallDo)
           /\ \A a \in Agents \ {"claude"} : InstallSteps(a, ctx) \in Seq(Quiet)
<1>1. InstallClaude(ctx) \in Seq(InstallDo)
  <2> DEFINE a == IF ctx.no_patch THEN <<>> ELSE <<Permit>>
             b == IF ctx.hook_only THEN <<>> ELSE ClaudeRules
             c == IF ctx.no_patch THEN <<>> ELSE ClaudeHooks
  <2>1. a \in Seq(InstallDo) /\ b \in Seq(InstallDo) /\ c \in Seq(InstallDo)
    BY ClaudeStepsAre
  <2>2. InstallClaude(ctx) = (a \o b) \o c
    BY DEF InstallClaude, Permit
  <2> HIDE DEF a, b, c
  <2>3. a \o b \in Seq(InstallDo)
    BY <2>1, ConcatIn
  <2> QED BY <2>1, <2>2, <2>3, ConcatIn
<1>2. InstallerOf("claude", ctx) = InstallClaude(ctx)
  BY DEF InstallerOf
<1>3. InstallSteps("claude", ctx) \in Seq(InstallDo)
  BY <1>1, <1>2, ClaudeStepsAre DEF InstallSteps, DryRun
<1>4. ASSUME NEW a \in Agents \ {"claude"} PROVE InstallSteps(a, ctx) \in Seq(Quiet)
  <2>1. InstallerOf(a, ctx) \in {InstallHermes, InstallAntigravity}
            \cup {InstallRules(s, ctx) : s \in {ConfigureCodex, ConfigureOpencode, ConfigureGemini,
                     ConfigureKilo, ConfigureCursor, ConfigureWindsurf, ConfigureCline}}
    BY <1>4 DEF Agents, InstallerOf
  <2>2. /\ Do("upsert", "codex") \in Quiet /\ Do("upsert", "opencode") \in Quiet
        /\ Do("upsert", "gemini") \in Quiet /\ Do("upsert", "kilo") \in Quiet
    BY SomeSteps DEF Quiet
  <2>3. /\ Do("write", "hermes") \in Quiet /\ Do("write", "antigravity") \in Quiet
        /\ Do("write", "cursor") \in Quiet /\ Do("write", "windsurf") \in Quiet
        /\ Do("write", "cline") \in Quiet /\ Do("list", "opencode.json") \in Quiet
        /\ DryScripts \in Quiet
    BY SomeSteps DEF Quiet
  <2>4. /\ InstallHermes \in Seq(Quiet) /\ InstallAntigravity \in Seq(Quiet) /\ <<>> \in Seq(Quiet)
        /\ ConfigureCursor \in Seq(Quiet) /\ ConfigureWindsurf \in Seq(Quiet)
        /\ ConfigureCline \in Seq(Quiet) /\ <<DryScripts>> \in Seq(Quiet)
    BY <2>3 DEF InstallHermes, InstallAntigravity, ConfigureCursor, ConfigureWindsurf, ConfigureCline
  <2>5. /\ ConfigureCodex \in Seq(Quiet) /\ ConfigureOpencode \in Seq(Quiet)
        /\ ConfigureGemini \in Seq(Quiet) /\ ConfigureKilo \in Seq(Quiet)
    BY <2>2, <2>3 DEF ConfigureCodex, ConfigureOpencode, ConfigureGemini, ConfigureKilo
  <2>6. InstallerOf(a, ctx) \in Seq(Quiet)
    BY <2>1, <2>4, <2>5 DEF InstallRules
  <2> QED BY <2>4, <2>6 DEF InstallSteps, DryRun
<1> QED BY <1>3, <1>4


Current(s, v) == \E p, q \in Seq(Tokens) : IsCurrent(s, p, v, q)
Hooked(s, v) == \E p, q \in Seq(Tokens) : IsHooked(s, p, v, q)

\* The shape of the state, without what the commands have done to it.
Shape ==
    /\ STypeOK /\ DOMAIN md = Texts /\ Closed(rc) /\ todo \in Seq(AllSteps)
    /\ \A a \in Upserted \ cut : At(md[a], 1) # "begin"

LEMMA VersionsAre == Versions = DOMAIN Body /\ Versions \subseteq Nat \ {0} /\ User \notin Versions
                     /\ Missing \notin Versions /\ User # Missing
<1>1. DOMAIN Body = Versions /\ MaxVersion \in Nat
  BY SetupAssumption DEF SetupAssumption
<1>2. Versions \subseteq Nat \ {0}
  BY <1>1 DEF Versions
<1> QED BY <1>1, <1>2 DEF User, Missing

LEMMA PerformIs ==
    ASSUME NEW step, Perform(step)
    PROVE  /\ step.do = "scripts" => InstallScripts(step.dry)
           /\ step.do \in RuleSteps => WriteRules(step)
           /\ step.do \in SettingsSteps => WriteSettings(step)
           /\ step.do = "write" => WriteOwn(step)
           /\ step.do \in {"list", "unlist"} => WriteList(step)
           /\ step.do = "shell" => WriteShellHook
           /\ step.do = "remove" => RemoveOwn(step.file)
  BY DEF Perform, RuleSteps, SettingsSteps

LEMMA EditedIs ==
    ASSUME NEW a, NEW s
    PROVE  /\ Edited(Do("upsert", a), s) = IF a \in Upserted THEN UpsertTitled(s, version, Titles[a])
                                           ELSE AppendOnce(s, version)
           /\ Edited(Do("strip", a), s) = Strip(s)
           /\ Edited(Do("cut", a), s) = RemoveSection(s)
<1>1. \A do, file : Do(do, file).do = do /\ Do(do, file).file = file
  BY DEF Do
<1> QED BY <1>1 DEF Edited

LEMMA ResetIs ==
    ASSUME NEW st, NEW marks
    PROVE  /\ Reset(Permit, st) = Permitted(st) /\ Reset(Hook, st) = Registered(st)
           /\ Reset(Do("prune", marks), st) = Pruned(st, marks)
<1>1. \A do, file : Do(do, file).do = do /\ Do(do, file).file = file
  BY DEF Do
<1> QED BY <1>1 DEF Reset, Permit, Hook

\* The kinds of steps, each with what it writes.
LEMMA StepKinds ==
    ASSUME NEW h \in AllSteps, Perform(h)
    PROVE  \/ h = Permit /\ WriteSettings(h)
           \/ h = Hook /\ WriteSettings(h)
           \/ h = Script /\ InstallScripts(FALSE)
           \/ h = DryScripts /\ InstallScripts(TRUE)
           \/ h = Shell /\ WriteShellHook
           \/ h = Prune /\ WriteSettings(h)
           \/ h = Do("prune", UninstallMarks) /\ WriteSettings(h)
           \/ \E a \in Texts : h = Do("upsert", a) /\ h.file = a /\ WriteRules(h)
           \/ \E a \in Texts : h = Do("strip", a) /\ h.file = a /\ WriteRules(h)
           \/ \E a \in Texts : h = Do("cut", a) /\ h.file = a /\ WriteRules(h)
           \/ \E f \in Overwritten \cup Once : h = Do("write", f) /\ h.file = f /\ WriteOwn(h)
           \/ \E fs \in SUBSET (OwnFiles \cup {"session-start.sh"}) :
                 h = Do("remove", fs) /\ RemoveOwn(fs)
           \/ \E l \in Lists : h = Do("list", l) /\ h.file = l /\ WriteList(h)
           \/ \E l \in Lists : h = Do("unlist", l) /\ h.file = l /\ WriteList(h)
<1>1. \A do, file : Do(do, file).do = do /\ Do(do, file).file = file /\ Do(do, file).dry = FALSE
  BY DEF Do
<1>2. DryScripts.do = "scripts" /\ DryScripts.dry = TRUE
  BY DEF DryScripts
<1>3. CASE h \in {Permit, Hook, Script, Shell, DryScripts, Prune, Do("prune", UninstallMarks)}
  <2>1. /\ Permit.do = "permission" /\ Hook.do = "hooks" /\ Script.do = "scripts" /\ Script.dry = FALSE
        /\ Shell.do = "shell" /\ Prune.do = "prune" /\ Prune.file = AgentMarks
        /\ Do("prune", UninstallMarks).do = "prune"
        /\ Do("prune", UninstallMarks).file = UninstallMarks
    BY <1>1 DEF Permit, Hook, Script, Shell, Prune
  <2>2. CASE h = Permit
    BY <2>1, <2>2, PerformIs DEF SettingsSteps
  <2>3. CASE h = Hook
    BY <2>1, <2>3, PerformIs DEF SettingsSteps
  <2>4. CASE h = Script
    BY <2>1, <2>4, PerformIs
  <2>5. CASE h = Shell
    BY <2>1, <2>5, PerformIs
  <2>6. CASE h = DryScripts
    BY <1>2, <2>6, PerformIs
  <2>7. CASE h = Prune
    BY <2>1, <2>7, PerformIs DEF SettingsSteps
  <2>8. CASE h = Do("prune", UninstallMarks)
    BY <2>1, <2>8, PerformIs DEF SettingsSteps
  <2> QED BY <1>3, <2>2, <2>3, <2>4, <2>5, <2>6, <2>7, <2>8
<1>4. CASE h \in Upserts(Texts)
  <2>1. PICK a \in Texts : h = Do("upsert", a)
    BY <1>4 DEF Upserts
  <2>2. h.do = "upsert" /\ h.file = a
    BY <1>1, <2>1
  <2> QED BY <2>1, <2>2, PerformIs DEF RuleSteps
<1>5. CASE h \in Strips
  <2>1. PICK a \in Texts : h = Do("strip", a)
    BY <1>5 DEF Strips
  <2>2. h.do = "strip" /\ h.file = a
    BY <1>1, <2>1
  <2> QED BY <2>1, <2>2, PerformIs DEF RuleSteps
<1>6. CASE h \in Cuts
  <2>1. PICK a \in Texts : h = Do("cut", a)
    BY <1>6 DEF Cuts
  <2>2. h.do = "cut" /\ h.file = a
    BY <1>1, <2>1
  <2> QED BY <2>1, <2>2, PerformIs DEF RuleSteps
<1>7. CASE h \in WritesOwn
  <2>1. PICK f \in Overwritten \cup Once : h = Do("write", f)
    BY <1>7 DEF WritesOwn
  <2>2. h.do = "write" /\ h.file = f
    BY <1>1, <2>1
  <2> QED BY <2>1, <2>2, PerformIs DEF RuleSteps
<1>8. CASE h \in Removes
  <2>1. PICK fs \in SUBSET (OwnFiles \cup {"session-start.sh"}) : h = Do("remove", fs)
    BY <1>8 DEF Removes
  <2>2. h.do = "remove" /\ h.file = fs
    BY <1>1, <2>1
  <2>3. RemoveOwn(h.file)
    BY <2>2, PerformIs
  <2>4. RemoveOwn(fs)
    BY <2>2, <2>3
  <2> QED BY <2>1, <2>4
<1>9. CASE h \in ListSteps
  <2>1. PICK l \in Lists : h = Do("list", l)
    BY <1>9 DEF ListSteps
  <2>2. h.do = "list" /\ h.file = l
    BY <1>1, <2>1
  <2> QED BY <2>1, <2>2, PerformIs DEF RuleSteps
<1>10. CASE h \in Unlists
  <2>1. PICK l \in Lists : h = Do("unlist", l)
    BY <1>10 DEF Unlists
  <2>2. h.do = "unlist" /\ h.file = l
    BY <1>1, <2>1
  <2> QED BY <2>1, <2>2, PerformIs DEF RuleSteps
<1> QED BY <1>3, <1>4, <1>5, <1>6, <1>7, <1>8, <1>9, <1>10
        DEF AllSteps, SetupDo, InstallDo, UninstallDo, FullDo

LEMMA DoDiffers ==
    /\ \A d1, d2, f1, f2 : Do(d1, f1) = Do(d2, f2) => d1 = d2 /\ f1 = f2
    /\ \A d, f : Do(d, f) # DryScripts
<1>1. \A do, file : Do(do, file).do = do /\ Do(do, file).file = file /\ Do(do, file).dry = FALSE
  BY DEF Do
<1>2. DryScripts.dry = TRUE
  BY DEF DryScripts
<1> QED BY <1>1, <1>2


\* What a step h leaves of rule file a.
RuleStep(h, a) ==
    /\ WellFormed(md'[a])
    /\ a \in Upserted => At(md'[a], 1) # "begin"
    /\ UsersText(md'[a]) = UsersText(md[a])
    /\ h = Do("upsert", a) => IF a \in Upserted THEN Current(md'[a], version)
                              ELSE Position(md'[a], "tools") > 0
    /\ h = Do("strip", a) => Position(md'[a], "begin") = 0
    /\ h \in {Do("upsert", a), Do("strip", a)} \/ md'[a] = md[a]

LEMMA RulesStep ==
    ASSUME Shape, NEW h \in AllSteps, Perform(h),
           cut' = IF h.do = "cut" THEN cut \cup {h.file} ELSE cut
    PROVE  /\ cut \subseteq cut' /\ cut' \subseteq Texts /\ DOMAIN md' = Texts
           /\ \A a \in Texts \ cut' : RuleStep(h, a)
<1>1. DOMAIN md = Texts /\ cut \subseteq Texts /\ version \in DOMAIN Body
  BY VersionsAre DEF Shape, STypeOK
<1>2. \A a \in Texts \ cut : /\ WellFormed(md[a])
                             /\ a \in Upserted => At(md[a], 1) # "begin"
  BY <1>1 DEF Shape, STypeOK
<1>3. \A d1, d2, f1, f2 : Do(d1, f1) = Do(d2, f2) => d1 = d2 /\ f1 = f2
  BY DoDiffers
<1>4. \A d, f : Do(d, f).do = d
  BY DEF Do
<1>5. \A a \in Texts : a \notin Upserted => a \in AppendedTo
  BY DEF Texts
<1>6. CASE h.do \notin {"upsert", "strip", "cut"}
  <2>1. \A a \in Texts : h # Do("upsert", a) /\ h # Do("strip", a) /\ h # Do("cut", a)
    BY <1>4, <1>6
  <2>2. md' = md
    <3>1. \/ WriteSettings(h) \/ InstallScripts(FALSE) \/ InstallScripts(TRUE) \/ WriteShellHook
          \/ WriteOwn(h) \/ (\E fs \in SUBSET (OwnFiles \cup {"session-start.sh"}) : RemoveOwn(fs))
          \/ WriteList(h)
      BY <2>1, StepKinds
    <3> QED BY <3>1 DEF WriteSettings, InstallScripts, WriteShellHook, WriteOwn, RemoveOwn, WriteList
  <2>3. cut' = cut
    BY <1>6
  <2> QED BY <1>1, <1>2, <2>1, <2>2, <2>3 DEF RuleStep
<1>7. CASE h.do = "upsert"
  <2>1. PICK a \in Texts : h = Do("upsert", a) /\ h.file = a /\ WriteRules(h)
    <3>1. /\ h # Permit /\ h # Hook /\ h # Script /\ h # DryScripts /\ h # Shell /\ h # Prune
          /\ \A f : h # Do("prune", f) /\ h # Do("strip", f) /\ h # Do("cut", f) /\ h # Do("write", f)
                    /\ h # Do("remove", f) /\ h # Do("list", f) /\ h # Do("unlist", f)
      BY <1>4, <1>7 DEF Permit, Hook, Script, DryScripts, Shell, Prune
    <3> QED BY <3>1, StepKinds
  <2> DEFINE new == IF a \in Upserted THEN UpsertTitled(md[a], version, Titles[a])
                    ELSE AppendOnce(md[a], version)
  <2>2. md' = [md EXCEPT ![a] = new]
    BY <2>1, EditedIs DEF WriteRules
  <2>3. cut' = cut
    BY <1>7
  <2>4. a \notin cut => /\ WellFormed(new)
                        /\ a \in Upserted => At(new, 1) # "begin"
                        /\ UsersText(new) = UsersText(md[a])
                        /\ IF a \in Upserted THEN Current(new, version) ELSE Position(new, "tools") > 0
    <3>1. CASE a \in Upserted /\ a \notin cut
      <4>1. WellFormed(md[a]) /\ At(md[a], 1) # "begin" /\ new = UpsertTitled(md[a], version, Titles[a])
        BY <1>2, <3>1
      <4>2. \E o, r \in Seq(Tokens) : IsCurrent(UpsertTitled(md[a], version, Titles[a]), o, version, r)
        BY <1>1, <4>1, UpsertTitledIs
      <4>3. Current(new, version)
        BY <4>1, <4>2 DEF Current
      <4>4. WellFormed(new) /\ At(new, 1) # "begin" /\ UsersText(new) = UsersText(md[a])
        BY <1>1, <4>1, UpsertTitledKeeps
      <4> HIDE DEF new
      <4> QED BY <3>1, <4>3, <4>4
    <3>2. CASE a \notin Upserted /\ a \notin cut
      <4>1. WellFormed(md[a]) /\ new = AppendOnce(md[a], version)
        BY <1>2, <3>2
      <4>2. WellFormed(new) /\ UsersText(new) = UsersText(md[a]) /\ Position(new, "tools") > 0
        BY <1>1, <4>1, AppendOnceKeeps
      <4> HIDE DEF new
      <4> QED BY <3>2, <4>2
    <3> QED BY <3>1, <3>2
  <2> HIDE DEF new
  <2>5. md'[a] = new /\ DOMAIN md' = Texts /\ \A b \in Texts : b # a => md'[b] = md[b]
    BY <1>1, <2>2
  <2>6. \A b : h = Do("upsert", b) => b = a
    BY <1>3, <2>1
  <2>7. \A b : h # Do("strip", b)
    BY <1>3, <2>1
  <2>8. ASSUME NEW b \in Texts \ cut PROVE RuleStep(h, b)
    <3>1. CASE b = a
      BY <2>1, <2>4, <2>5, <2>7, <3>1 DEF RuleStep
    <3>2. CASE b # a
      BY <1>2, <2>5, <2>6, <2>7, <3>2 DEF RuleStep
    <3> QED BY <3>1, <3>2
  <2> QED BY <1>1, <2>3, <2>5, <2>8
<1>8. CASE h.do = "strip"
  <2>1. PICK a \in Texts : h = Do("strip", a) /\ h.file = a /\ WriteRules(h)
    <3>1. /\ h # Permit /\ h # Hook /\ h # Script /\ h # DryScripts /\ h # Shell /\ h # Prune
          /\ \A f : h # Do("prune", f) /\ h # Do("upsert", f) /\ h # Do("cut", f) /\ h # Do("write", f)
                    /\ h # Do("remove", f) /\ h # Do("list", f) /\ h # Do("unlist", f)
      BY <1>4, <1>8 DEF Permit, Hook, Script, DryScripts, Shell, Prune
    <3> QED BY <3>1, StepKinds
  <2> DEFINE new == Strip(md[a])
  <2>2. md' = [md EXCEPT ![a] = new]
    BY <2>1, EditedIs DEF WriteRules
  <2>3. cut' = cut
    BY <1>8
  <2>4. a \notin cut => /\ WellFormed(new)
                        /\ a \in Upserted => At(new, 1) # "begin"
                        /\ UsersText(new) = UsersText(md[a]) /\ Position(new, "begin") = 0
    BY <1>2, StripKeeps
  <2> HIDE DEF new
  <2>5. md'[a] = new /\ DOMAIN md' = Texts /\ \A b \in Texts : b # a => md'[b] = md[b]
    BY <1>1, <2>2
  <2>6. \A b : h = Do("strip", b) => b = a
    BY <1>3, <2>1
  <2>7. \A b : h # Do("upsert", b)
    BY <1>3, <2>1
  <2>8. ASSUME NEW b \in Texts \ cut PROVE RuleStep(h, b)
    <3>1. CASE b = a
      BY <2>1, <2>4, <2>5, <2>7, <3>1 DEF RuleStep
    <3>2. CASE b # a
      BY <1>2, <2>5, <2>6, <2>7, <3>2 DEF RuleStep
    <3> QED BY <3>1, <3>2
  <2> QED BY <1>1, <2>3, <2>5, <2>8
<1>9. CASE h.do = "cut"
  <2>1. PICK a \in Texts : h = Do("cut", a) /\ h.file = a /\ WriteRules(h)
    <3>1. /\ h # Permit /\ h # Hook /\ h # Script /\ h # DryScripts /\ h # Shell /\ h # Prune
          /\ \A f : h # Do("prune", f) /\ h # Do("upsert", f) /\ h # Do("strip", f) /\ h # Do("write", f)
                    /\ h # Do("remove", f) /\ h # Do("list", f) /\ h # Do("unlist", f)
      BY <1>4, <1>9 DEF Permit, Hook, Script, DryScripts, Shell, Prune
    <3> QED BY <3>1, StepKinds
  <2>2. cut' = cut \cup {a}
    BY <1>9, <2>1
  <2>3. DOMAIN md' = Texts /\ \A b \in Texts : b # a => md'[b] = md[b]
    BY <1>1, <2>1 DEF WriteRules
  <2>4. \A b : h # Do("upsert", b) /\ h # Do("strip", b)
    BY <1>3, <2>1
  <2>5. ASSUME NEW b \in Texts \ cut' PROVE RuleStep(h, b)
    BY <1>2, <2>2, <2>3, <2>4 DEF RuleStep
  <2> QED BY <1>1, <2>1, <2>2, <2>3, <2>5
<1> QED BY <1>6, <1>7, <1>8, <1>9

\* What a step leaves of ig's and the users' files, of settings.json and of the shell's file.
OwnStep(h) ==
    /\ own' \in [OwnFiles -> {User, Missing, Torn} \cup Versions] /\ baks' \subseteq Scripts
    /\ \A f \in Scripts : /\ own[f] = User /\ h.do # "remove" => own'[f] = User \/ f \in baks'
                          /\ \/ h = Script \/ own'[f] = own[f]
                             \/ h \in Removes /\ own'[f] = Missing
    /\ \A f \in Once : own[f] = User /\ h.do # "remove" => own'[f] = User
    /\ h = Script => olds' = {} /\ \A f \in Scripts : own'[f] = version
    /\ h = Do("remove", Scripts \cup {"rules/ig.md", "explorer.md"}) =>
            \A f \in Scripts : own'[f] = Missing
    /\ olds' \subseteq olds

SettingsStep(h) ==
    /\ settings' \in [parses : BOOLEAN, perm : BOOLEAN, hooks : Seq(Hooks)]
    /\ settings'.parses = settings.parses
    /\ Unmarked(settings'.hooks) = Unmarked(settings.hooks)
    /\ h = Permit /\ settings.parses => settings'.perm
    /\ h = Hook /\ settings.parses => HooksCurrent(settings'.hooks, version)
    /\ h = Prune /\ settings.parses => \A x \in ToSet(settings'.hooks) : x.mark \notin AgentMarks
    /\ h \in SetupDo /\ settings.perm => settings'.perm
    /\ h \in SetupDo => h = Hook \/ settings'.hooks = settings.hooks
    /\ h \in Quiet \cup UninstallDo =>
          settings'.hooks = settings.hooks \/ (h = Prune /\ settings.parses)

ShellStep(h) == /\ Closed(rc')
                /\ h = Shell => Hooked(rc', version)
                /\ h = Shell \/ rc' = rc

LEMMA OwnFilesStep ==
    ASSUME Shape, NEW h \in AllSteps, Perform(h)
    PROVE  OwnStep(h) /\ dirs' = dirs
<1>1. /\ own \in [OwnFiles -> {User, Missing, Torn} \cup Versions] /\ baks \subseteq Scripts
      /\ version \in Versions
  BY DEF Shape, STypeOK
<1>2. \A d1, d2, f1, f2 : Do(d1, f1) = Do(d2, f2) => d1 = d2 /\ f1 = f2
  BY DoDiffers
<1>3. \A d, f : Do(d, f).do = d /\ Do(d, f) # DryScripts
  BY DoDiffers DEF Do
<1>4. Scripts \subseteq OwnFiles /\ Once \subseteq OwnFiles /\ Overwritten \subseteq OwnFiles
      /\ Scripts \cap (Overwritten \cup Once) = {} /\ Overwritten \cap Once = {}
  BY DEF OwnFiles, Scripts, Overwritten, Once
<1>5. User # Missing /\ User \notin Versions /\ Missing \notin Versions
  BY VersionsAre
<1> DEFINE remove == Do("remove", Scripts \cup {"rules/ig.md", "explorer.md"})
<1>6. Script # remove /\ remove.do = "remove" /\ Script.do = "scripts" /\ DryScripts.do = "scripts"
      /\ Script # DryScripts
  BY <1>3 DEF Script, DryScripts
<1>7. CASE h = Script /\ InstallScripts(FALSE)
  <2>1. /\ own' = [f \in OwnFiles |-> IF f \in Scripts THEN version ELSE own[f]]
        /\ baks' = baks \cup {f \in Scripts : own[f] = User} /\ olds' = {} /\ dirs' = dirs
    BY <1>7 DEF InstallScripts
  <2>2. \A f \in OwnFiles : own'[f] = IF f \in Scripts THEN version ELSE own[f]
    BY <2>1
  <2>3. \A f \in Once : own'[f] = own[f]
    BY <1>4, <2>2
  <2> HIDE DEF remove
  <2> QED BY <1>1, <1>4, <1>6, <1>7, <2>1, <2>2, <2>3 DEF OwnStep, remove
<1>8. CASE h # Script /\ h.do # "remove" /\ UNCHANGED <<own, baks, dirs>> /\ olds' \subseteq olds
  <2> HIDE DEF remove
  <2> QED BY <1>1, <1>6, <1>8 DEF OwnStep, remove
<1>9. ASSUME NEW f \in Overwritten \cup Once, h = Do("write", f), h.file = f, WriteOwn(h)
      PROVE  OwnStep(h) /\ dirs' = dirs
  <2>1. h.do = "write" /\ h # Script /\ h # remove
    BY <1>3, <1>9 DEF Script
  <2>2. /\ own' = [own EXCEPT ![f] = IF f \in Once /\ own[f] # Missing THEN own[f] ELSE version]
        /\ baks' = baks /\ olds' = olds /\ dirs' = dirs
    BY <1>9 DEF WriteOwn
  <2>3. own' \in [OwnFiles -> {User, Missing, Torn} \cup Versions]
    BY <1>1, <1>4, <2>2
  <2>4. \A g \in Scripts : own'[g] = own[g]
    BY <1>1, <1>4, <2>2
  <2>5. \A g \in Once : own[g] = User => own'[g] = User
    BY <1>1, <1>4, <1>5, <2>2
  <2> HIDE DEF remove
  <2> QED BY <1>1, <2>1, <2>2, <2>3, <2>4, <2>5 DEF OwnStep, remove
<1>10. ASSUME NEW fs \in SUBSET (OwnFiles \cup {"session-start.sh"}), h = Do("remove", fs), RemoveOwn(fs)
       PROVE  OwnStep(h) /\ dirs' = dirs
  <2>1. h.do = "remove" /\ h # Script /\ h \in Removes
    BY <1>3, <1>10 DEF Script, Removes
  <2>2. /\ own' = [f \in OwnFiles |-> IF f \in fs THEN Missing ELSE own[f]]
        /\ baks' = baks /\ olds' \subseteq olds /\ dirs' = dirs
    BY <1>10 DEF RemoveOwn
  <2>3. \A f \in OwnFiles : own'[f] = IF f \in fs THEN Missing ELSE own[f]
    BY <2>2
  <2>4. h = remove => \A f \in Scripts : f \in fs
    BY <1>2, <1>10
  <2>5. h = remove => \A f \in Scripts : own'[f] = Missing
    BY <1>4, <2>3, <2>4
  <2>6. own' \in [OwnFiles -> {User, Missing, Torn} \cup Versions]
    BY <1>1, <2>2
  <2>7. \A f \in Scripts : own'[f] = own[f] \/ own'[f] = Missing
    BY <1>4, <2>3
  <2> HIDE DEF remove
  <2> QED BY <1>1, <2>1, <2>2, <2>5, <2>6, <2>7 DEF OwnStep, remove
<1>11. \/ h = Script /\ InstallScripts(FALSE)
       \/ h # Script /\ h.do # "remove" /\ UNCHANGED <<own, baks, dirs>> /\ olds' \subseteq olds
       \/ \E f \in Overwritten \cup Once : h = Do("write", f) /\ h.file = f /\ WriteOwn(h)
       \/ \E fs \in SUBSET (OwnFiles \cup {"session-start.sh"}) : h = Do("remove", fs) /\ RemoveOwn(fs)
  <2>1. /\ Permit # Script /\ Permit.do # "remove" /\ Hook # Script /\ Hook.do # "remove"
        /\ DryScripts.do # "remove" /\ Shell # Script /\ Shell.do # "remove"
        /\ Prune # Script /\ Prune.do # "remove"
    BY <1>2, <1>3, <1>6 DEF Permit, Hook, Script, Shell, Prune
  <2>2. \A f : /\ Do("prune", f) # Script /\ Do("upsert", f) # Script /\ Do("strip", f) # Script
               /\ Do("cut", f) # Script /\ Do("list", f) # Script /\ Do("unlist", f) # Script
    BY <1>2 DEF Script
  <2>3. InstallScripts(TRUE) => UNCHANGED <<own, baks, dirs>> /\ olds' \subseteq olds
    BY DEF InstallScripts
  <2>4. /\ WriteSettings(h) => UNCHANGED <<own, baks, dirs, olds>>
        /\ WriteShellHook => UNCHANGED <<own, baks, dirs, olds>>
        /\ WriteRules(h) => UNCHANGED <<own, baks, dirs, olds>>
        /\ WriteList(h) => UNCHANGED <<own, baks, dirs, olds>>
    BY DEF WriteSettings, WriteShellHook, WriteRules, WriteList
  <2>5. CASE h.do = "write"
    <3>1. \E f \in Overwritten \cup Once : h = Do("write", f) /\ h.file = f /\ WriteOwn(h)
      <4>1. /\ h # Permit /\ h # Hook /\ h # Script /\ h # DryScripts /\ h # Shell /\ h # Prune
            /\ \A f : h # Do("prune", f) /\ h # Do("upsert", f) /\ h # Do("strip", f) /\ h # Do("cut", f)
                      /\ h # Do("remove", f) /\ h # Do("list", f) /\ h # Do("unlist", f)
        BY <1>3, <2>5 DEF Permit, Hook, Script, DryScripts, Shell, Prune
      <4> QED BY <4>1, StepKinds
    <3> QED BY <3>1
  <2>6. CASE h.do = "remove"
    <3>1. \E fs \in SUBSET (OwnFiles \cup {"session-start.sh"}) : h = Do("remove", fs) /\ RemoveOwn(fs)
      <4>1. /\ h # Permit /\ h # Hook /\ h # Script /\ h # DryScripts /\ h # Shell /\ h # Prune
            /\ \A f : h # Do("prune", f) /\ h # Do("upsert", f) /\ h # Do("strip", f) /\ h # Do("cut", f)
                      /\ h # Do("write", f) /\ h # Do("list", f) /\ h # Do("unlist", f)
        BY <1>3, <2>6 DEF Permit, Hook, Script, DryScripts, Shell, Prune
      <4> QED BY <4>1, StepKinds
    <3> QED BY <3>1
  <2>7. CASE h.do \notin {"write", "remove"}
    <3>1. \A f : h # Do("write", f) /\ h # Do("remove", f)
      BY <1>3, <2>7
    <3>2. \/ h = Script /\ InstallScripts(FALSE)
          \/ h # Script /\ UNCHANGED <<own, baks, dirs>> /\ olds' \subseteq olds
      BY <1>6, <2>1, <2>2, <2>3, <2>4, <3>1, StepKinds
    <3> QED BY <2>7, <3>2
  <2> QED BY <2>5, <2>6, <2>7
<1> QED BY <1>7, <1>8, <1>9, <1>10, <1>11


LEMMA PruneIsNeither ==
    /\ Do("prune", UninstallMarks) \notin SetupDo \cup Quiet \cup UninstallDo
    /\ Prune \notin SetupDo /\ Hook \notin Quiet \cup UninstallDo
    /\ Prune # Do("prune", UninstallMarks)
<1>1. AgentMarks # UninstallMarks
  <2>1. "subagent-context.sh" \in AgentMarks /\ "subagent-context.sh" \notin UninstallMarks
    BY DEF AgentMarks, UninstallMarks
  <2> QED BY <2>1
<1>2. \A d1, d2, f1, f2 : Do(d1, f1) = Do(d2, f2) => d1 = d2 /\ f1 = f2
  BY DoDiffers
<1>3. \A d, f : Do(d, f) # DryScripts
  BY DoDiffers
<1>4. Prune # Do("prune", UninstallMarks)
  BY <1>1, <1>2 DEF Prune
<1>5. \A f : Do("prune", f) \notin SetupDo
  BY <1>2 DEF SetupDo, Permit, Hook, Script, Shell, Upserts, WritesOwn, ListSteps
<1>6. \A f : Do("prune", f) \notin Quiet /\ Do("hooks", f) \notin Quiet
  BY <1>2, <1>3 DEF Quiet, Upserts, WritesOwn, ListSteps, Strips, Removes
<1>7. Do("prune", UninstallMarks) \notin UninstallDo /\ \A f : Do("hooks", f) \notin UninstallDo
  BY <1>1, <1>2 DEF UninstallDo, Prune, Strips, Removes
<1> QED BY <1>4, <1>5, <1>6, <1>7 DEF Prune, Hook

LEMMA MarksAreMarks == "none" \notin AgentMarks /\ "none" \notin UninstallMarks
  BY DEF AgentMarks, UninstallMarks

LEMMA SettingsAreStepped ==
    ASSUME Shape, NEW h \in AllSteps, Perform(h)
    PROVE  SettingsStep(h)
<1>1. /\ settings \in [parses : BOOLEAN, perm : BOOLEAN, hooks : Seq(Hooks)]
      /\ version \in Versions
  BY DEF Shape, STypeOK
<1>2. settings.parses \in BOOLEAN /\ settings.perm \in BOOLEAN /\ settings.hooks \in Seq(Hooks)
  BY <1>1
<1>3. \A d1, d2, f1, f2 : Do(d1, f1) = Do(d2, f2) => d1 = d2 /\ f1 = f2
  BY DoDiffers
<1>4. Permit # Hook /\ Permit # Prune /\ Hook # Prune
  BY <1>3 DEF Permit, Hook, Prune
<1>5. CASE h = Permit /\ WriteSettings(h)
  <2>1. /\ settings' \in [parses : BOOLEAN, perm : BOOLEAN, hooks : Seq(Hooks)]
        /\ settings'.parses = settings.parses /\ settings'.hooks = settings.hooks
        /\ settings.parses \/ settings.perm => settings'.perm
    <3>1. CASE settings' = settings /\ (settings.perm \/ ~ settings.parses)
      BY <1>1, <3>1
    <3>2. CASE settings' = [settings EXCEPT !.perm = TRUE]
      BY <1>1, <3>2
    <3>3. settings' = Permitted(settings)
      BY <1>5, ResetIs DEF WriteSettings
    <3> QED BY <3>1, <3>2, <3>3 DEF Permitted
  <2> QED BY <1>4, <1>5, <2>1 DEF SettingsStep
<1>6. CASE h = Hook /\ WriteSettings(h)
  <2> DEFINE new == RegisterAll(settings.hooks, version)
  <2>1. new \in Seq(Hooks) /\ HooksCurrent(new, version) /\ Unmarked(new) = Unmarked(settings.hooks)
    BY <1>1, <1>2, RegisterAllIs
  <2>2. settings' = IF settings.parses THEN [settings EXCEPT !.hooks = new] ELSE settings
    <3>1. settings' = Registered(settings)
      BY <1>6, ResetIs DEF WriteSettings
    <3> QED BY <3>1 DEF Registered
  <2> HIDE DEF new
  <2>3. /\ settings' \in [parses : BOOLEAN, perm : BOOLEAN, hooks : Seq(Hooks)]
        /\ settings'.parses = settings.parses /\ settings'.perm = settings.perm
        /\ settings'.hooks = IF settings.parses THEN new ELSE settings.hooks
    <3>1. CASE settings.parses
      <4>1. settings' = [settings EXCEPT !.hooks = new]
        BY <2>2, <3>1
      <4> QED BY <1>1, <2>1, <3>1, <4>1
    <3>2. CASE ~ settings.parses
      BY <1>1, <2>2, <3>2
    <3> QED BY <3>1, <3>2
  <2> QED BY <1>4, <1>6, <2>1, <2>3, PruneIsNeither DEF SettingsStep
<1>7. ASSUME NEW marks \in {AgentMarks, UninstallMarks}, h = Do("prune", marks), WriteSettings(h)
      PROVE  SettingsStep(h)
  <2> DEFINE new == Without(settings.hooks, marks)
  <2>1. /\ new \in Seq(Hooks) /\ Unmarked(new) = Unmarked(settings.hooks)
        /\ \A x \in ToSet(new) : x.mark \notin marks
    <3>1. "none" \notin marks
      BY <1>7, MarksAreMarks
    <3> QED BY <1>2, <3>1, WithoutKeeps
  <2>2. settings' = IF settings.parses THEN [settings EXCEPT !.perm = FALSE, !.hooks = new] ELSE settings
    <3>1. settings' = Pruned(settings, marks)
      BY <1>7, ResetIs DEF WriteSettings
    <3> QED BY <3>1 DEF Pruned
  <2> HIDE DEF new
  <2>3. /\ settings' \in [parses : BOOLEAN, perm : BOOLEAN, hooks : Seq(Hooks)]
        /\ settings'.parses = settings.parses
        /\ settings'.hooks = IF settings.parses THEN new ELSE settings.hooks
    <3>1. CASE settings.parses
      <4>1. settings' = [settings EXCEPT !.perm = FALSE, !.hooks = new]
        BY <2>2, <3>1
      <4> QED BY <1>1, <2>1, <3>1, <4>1
    <3>2. CASE ~ settings.parses
      BY <1>1, <2>2, <3>2
    <3> QED BY <3>1, <3>2
  <2>4. h # Permit /\ h # Hook /\ h \notin SetupDo
    <3>1. h # Permit /\ h # Hook
      BY <1>3, <1>7 DEF Permit, Hook
    <3> QED BY <1>7, <3>1, PruneIsNeither DEF Prune
  <2>5. h = Prune => marks = AgentMarks
    BY <1>3, <1>7 DEF Prune
  <2>6. h \in Quiet \cup UninstallDo => h = Prune
    BY <1>7, PruneIsNeither DEF Prune
  <2> QED BY <2>1, <2>3, <2>4, <2>5, <2>6 DEF SettingsStep
<1>8. CASE settings' = settings /\ h # Permit /\ h # Hook /\ h # Prune
  BY <1>1, <1>8 DEF SettingsStep
<1>9. \/ h = Permit /\ WriteSettings(h)
      \/ h = Hook /\ WriteSettings(h)
      \/ \E marks \in {AgentMarks, UninstallMarks} : h = Do("prune", marks) /\ WriteSettings(h)
      \/ settings' = settings /\ h # Permit /\ h # Hook /\ h # Prune
  <2>1. \A f : /\ Do("upsert", f) \notin {Permit, Hook, Prune} /\ Do("strip", f) \notin {Permit, Hook, Prune}
               /\ Do("cut", f) \notin {Permit, Hook, Prune} /\ Do("write", f) \notin {Permit, Hook, Prune}
               /\ Do("remove", f) \notin {Permit, Hook, Prune} /\ Do("list", f) \notin {Permit, Hook, Prune}
               /\ Do("unlist", f) \notin {Permit, Hook, Prune}
    BY <1>3 DEF Permit, Hook, Prune
  <2>2. Script \notin {Permit, Hook, Prune} /\ Shell \notin {Permit, Hook, Prune}
        /\ DryScripts \notin {Permit, Hook, Prune}
    BY <1>3, DoDiffers DEF Permit, Hook, Prune, Script, Shell
  <2>3. /\ \A d : InstallScripts(d) => settings' = settings
        /\ WriteShellHook => settings' = settings
        /\ WriteRules(h) => settings' = settings
        /\ WriteOwn(h) => settings' = settings
        /\ \A fs : RemoveOwn(fs) => settings' = settings
        /\ WriteList(h) => settings' = settings
    BY DEF InstallScripts, WriteShellHook, WriteRules, WriteOwn, RemoveOwn, WriteList
  <2>4. CASE h \in {Permit, Hook, Prune, Do("prune", UninstallMarks)}
    <3>1. h.do \in SettingsSteps
      BY <1>3, <2>4 DEF Permit, Hook, Prune, Do, SettingsSteps
    <3>2. WriteSettings(h)
      BY <3>1, PerformIs
    <3> QED BY <2>4, <3>2 DEF Prune
  <2>5. CASE h \notin {Permit, Hook, Prune, Do("prune", UninstallMarks)}
    <3>1. settings' = settings
      BY <2>3, <2>5, StepKinds
    <3> QED BY <2>5, <3>1
  <2> QED BY <2>4, <2>5
<1> QED BY <1>5, <1>6, <1>7, <1>8, <1>9

LEMMA ShellFileStep ==
    ASSUME Shape, NEW h \in AllSteps, Perform(h)
    PROVE  ShellStep(h)
<1>1. Closed(rc) /\ version \in DOMAIN Body
  BY VersionsAre DEF Shape, STypeOK
<1>2. CASE h = Shell
  <2>1. WriteShellHook
    <3>1. h.do = "shell"
      BY <1>2 DEF Shell, Do
    <3> QED BY <3>1, PerformIs
  <2>2. rc' = InstallShellHook(rc, version)
    BY <2>1 DEF WriteShellHook
  <2>3. PICK p, q \in Seq(Tokens) : IsHooked(InstallShellHook(rc, version), p, version, q) /\ Closed(q)
    BY <1>1, InstallShellHookIs
  <2>4. Closed(rc')
    BY <2>2, <2>3, HookedIsClosed
  <2>5. Hooked(rc', version)
    BY <2>2, <2>3 DEF Hooked
  <2> QED BY <1>2, <2>4, <2>5 DEF ShellStep
<1>3. CASE h # Shell
  <2>1. rc' = rc
    <3>1. /\ WriteSettings(h) => rc' = rc
          /\ \A d : InstallScripts(d) => rc' = rc
          /\ WriteRules(h) => rc' = rc
          /\ WriteOwn(h) => rc' = rc
          /\ \A fs : RemoveOwn(fs) => rc' = rc
          /\ WriteList(h) => rc' = rc
      BY DEF WriteSettings, InstallScripts, WriteRules, WriteOwn, RemoveOwn, WriteList
    <3> QED BY <1>3, <3>1, StepKinds
  <2> QED BY <1>1, <1>3, <2>1 DEF ShellStep
<1> QED BY <1>2, <1>3


RemoveScripts == Do("remove", Scripts \cup {"rules/ig.md", "explorer.md"})

\* What `ig setup` has done of what is not in left, the steps that are still to come.
RuleDone(a) == a \in cut \/ IF a \in Upserted THEN Current(md[a], version)
                            ELSE Position(md[a], "tools") > 0
SetupDone(left) ==
    /\ \A a \in Texts \cap dirs : Do("upsert", a) \in left \/ RuleDone(a)
    /\ "claude" \in dirs =>
         /\ Permit \in left \/ (settings.parses => settings.perm)
         /\ Hook \in left \/ (settings.parses => HooksCurrent(settings.hooks, version))
         /\ Script \in left \/ (olds = {} /\ \A f \in Scripts : own[f] = version)

\* What Claude's uninstaller has done of it, up to the hooks, which it does last.
NoBlock == "claude" \in cut \/ Position(md["claude"], "begin") = 0
NoScripts == \A f \in Scripts : own[f] \in {Missing, User}
NoHooks == settings.parses => \A x \in ToSet(settings.hooks) : x.mark \notin AgentMarks
UninstallDone(left) ==
    /\ Do("strip", "claude") \in left \/ NoBlock
    /\ RemoveScripts \in left \/ NoScripts

SetupInv ==
    Shell \in ToSet(todo) => ToSet(todo) \subseteq SetupDo /\ (flawed \/ SetupDone(ToSet(todo)))
SettledInv == settled => todo = <<>> /\ SetupDone({}) /\ Hooked(rc, version)
UninstallInv ==
    Prune \in ToSet(todo) =>
        ToSet(todo) \subseteq UninstallDo /\ (flawed \/ UninstallDone(ToSet(todo)))
GoneInv ==
    "claude" \in gone => /\ ToSet(todo) \subseteq Quiet \cup UninstallDo
                         /\ NoBlock /\ NoScripts /\ NoHooks
Inv == Shape /\ SetupInv /\ SettledInv /\ UninstallInv /\ GoneInv

LEMMA InitInv == Init => Inv
<1> SUFFICES ASSUME Init PROVE Inv
  OBVIOUS
<1>1. PICK p \in Profiles :
        /\ dirs = p.dirs /\ olds = p.olds /\ rc = p.rc
        /\ md = [a \in Upserted \cup AppendedTo |-> p.text]
        /\ settings = [parses |-> p.parses, perm |-> FALSE, hooks |-> p.hooks]
        /\ own = [f \in OwnFiles |-> IF f \in p.own THEN User ELSE Missing]
  BY DEF Init
<1>2. /\ version = 1 /\ todo = <<>> /\ settled = FALSE /\ flawed = FALSE /\ gone = {} /\ cut = {}
      /\ baks = {}
  BY DEF Init
<1>3. /\ p.dirs \subseteq Agents /\ p.parses \in BOOLEAN /\ WellFormed(p.text)
      /\ At(p.text, 1) # "begin" /\ Closed(p.rc) /\ p.hooks \in Seq(Hooks)
  BY SetupAssumption DEF SetupAssumption, ProfilesAssumption
<1>4. 1 \in Versions
  BY SetupAssumption DEF SetupAssumption, Versions
<1>5. DOMAIN md = Texts /\ \A a \in Texts : md[a] = p.text
  BY <1>1 DEF Texts
<1>6. /\ own \in [OwnFiles -> {User, Missing, Torn} \cup Versions]
      /\ settings \in [parses : BOOLEAN, perm : BOOLEAN, hooks : Seq(Hooks)]
  BY <1>1, <1>3
<1>7. STypeOK
  BY <1>1, <1>2, <1>3, <1>4, <1>5, <1>6 DEF STypeOK
<1>8. Upserted \subseteq Texts /\ todo \in Seq(AllSteps)
  BY <1>2 DEF Texts
<1>9. Shape
  BY <1>1, <1>2, <1>3, <1>5, <1>7, <1>8 DEF Shape
<1>10. ToSet(todo) = {}
  BY <1>2, ToSetEmpty
<1> QED BY <1>2, <1>9, <1>10 DEF Inv, SetupInv, SettledInv, UninstallInv, GoneInv

---------------------------------------------------------------------------
(* The steps of a running command *)

LEMMA HeadAndTail ==
    ASSUME NEW U, NEW s \in Seq(U), s # <<>>
    PROVE  Head(s) \in U /\ Tail(s) \in Seq(U) /\ ToSet(s) = {Head(s)} \cup ToSet(Tail(s))
<1>1. Head(s) \in U /\ Tail(s) \in Seq(U) /\ Len(s) \in Nat /\ Len(s) >= 1
  OBVIOUS
<1>2. Head(s) = s[1] /\ Len(Tail(s)) = Len(s) - 1 /\ \A i \in 1 .. Len(s) - 1 : Tail(s)[i] = s[i + 1]
  OBVIOUS
<1> DEFINE t == Tail(s)
<1>3. \A i \in 1 .. Len(s) : i = 1 \/ (i - 1 \in 1 .. Len(t) /\ t[i - 1] = s[i])
  BY <1>1, <1>2
<1>4. \A i \in 1 .. Len(t) : i + 1 \in 1 .. Len(s) /\ t[i] = s[i + 1]
  BY <1>1, <1>2
<1> HIDE DEF t
<1>7. t \in Seq(U)
  BY <1>1 DEF t
<1>8. ToSet(s) = {s[i] : i \in 1 .. Len(s)} /\ ToSet(t) = {t[i] : i \in 1 .. Len(t)}
  BY <1>7 DEF ToSet
<1>5. ToSet(s) \subseteq {s[1]} \cup ToSet(t)
  <2> SUFFICES ASSUME NEW i \in 1 .. Len(s) PROVE s[i] \in {s[1]} \cup ToSet(t)
    BY <1>8
  <2> QED BY <1>3, <1>8
<1>6. {s[1]} \cup ToSet(t) \subseteq ToSet(s)
  BY <1>1, <1>4, <1>8
<1> QED BY <1>1, <1>2, <1>5, <1>6 DEF t

LEMMA ShapeStep ==
    ASSUME Shape, Step
    PROVE  /\ Shape' /\ Head(todo) \in AllSteps /\ Perform(Head(todo))
           /\ ToSet(todo) = {Head(todo)} \cup ToSet(Tail(todo)) /\ todo' = Tail(todo)
           /\ version' = version /\ dirs' = dirs /\ cut \subseteq cut'
           /\ cut' = IF Head(todo).do = "cut" THEN cut \cup {Head(todo).file} ELSE cut
           /\ \A a \in Texts \ cut' : RuleStep(Head(todo), a)
           /\ OwnStep(Head(todo)) /\ SettingsStep(Head(todo)) /\ ShellStep(Head(todo))
<1> DEFINE h == Head(todo)
<1>1. /\ h \in AllSteps /\ Tail(todo) \in Seq(AllSteps)
      /\ ToSet(todo) = {h} \cup ToSet(Tail(todo))
  BY HeadAndTail DEF Shape, Step
<1>2. /\ Perform(h) /\ todo' = Tail(todo) /\ version' = version
      /\ cut' = IF h.do = "cut" THEN cut \cup {h.file} ELSE cut
      /\ gone' \subseteq gone \cup {"claude"} /\ settled' \in BOOLEAN /\ flawed' \in BOOLEAN
  BY DEF Step
<1> HIDE DEF h
<1>3. /\ cut \subseteq cut' /\ cut' \subseteq Texts /\ DOMAIN md' = Texts
      /\ \A a \in Texts \ cut' : RuleStep(h, a)
  BY <1>1, <1>2, RulesStep
<1>4. OwnStep(h) /\ dirs' = dirs
  BY <1>1, <1>2, OwnFilesStep
<1>5. SettingsStep(h) /\ ShellStep(h)
  BY <1>1, <1>2, SettingsAreStepped, ShellFileStep
<1>6. STypeOK'
  <2>1. version' \in Versions /\ dirs' \subseteq Agents /\ gone' \subseteq Agents
    BY <1>2, <1>4 DEF Shape, STypeOK, Agents
  <2>2. own' \in [OwnFiles -> {User, Missing, Torn} \cup Versions] /\ baks' \subseteq Scripts
    BY <1>4 DEF OwnStep
  <2>3. settings' \in [parses : BOOLEAN, perm : BOOLEAN, hooks : Seq(Hooks)]
    BY <1>5 DEF SettingsStep
  <2>4. \A a \in DOMAIN md' \ cut' : WellFormed(md'[a])
    BY <1>3 DEF RuleStep
  <2> QED BY <1>2, <1>3, <2>1, <2>2, <2>3, <2>4 DEF STypeOK
<1>7. Upserted \subseteq Texts
  BY DEF Texts
<1>8. \A a \in Upserted \ cut' : At(md'[a], 1) # "begin"
  BY <1>3, <1>7 DEF RuleStep
<1>9. Closed(rc')
  BY <1>5 DEF ShellStep
<1>10. Shape'
  BY <1>1, <1>2, <1>3, <1>6, <1>8, <1>9 DEF Shape
<1> QED BY <1>1, <1>2, <1>3, <1>4, <1>5, <1>10 DEF h

\* A step of a setup does what it is there for, and undoes nothing that is done.
LEMMA SetupDoneStep ==
    ASSUME Shape, Step, NEW left, ToSet(todo) = {Head(todo)} \cup left, Head(todo) \in SetupDo,
           SetupDone(ToSet(todo))
    PROVE  SetupDone(left)'
<1> DEFINE h == Head(todo)
<1>1. /\ version' = version /\ dirs' = dirs /\ cut \subseteq cut'
      /\ \A a \in Texts \ cut' : RuleStep(h, a)
      /\ OwnStep(h) /\ SettingsStep(h)
  BY ShapeStep
<1>2. \A d1, d2, f1, f2 : Do(d1, f1) = Do(d2, f2) => d1 = d2 /\ f1 = f2
  BY DoDiffers
<1>3. /\ \A a \in Texts \cap dirs : Do("upsert", a) \in {h} \cup left \/ RuleDone(a)
      /\ "claude" \in dirs =>
           /\ Permit \in {h} \cup left \/ (settings.parses => settings.perm)
           /\ Hook \in {h} \cup left \/ (settings.parses => HooksCurrent(settings.hooks, version))
           /\ Script \in {h} \cup left \/ (olds = {} /\ \A f \in Scripts : own[f] = version)
  BY DEF SetupDone
<1> HIDE DEF h
<1>4. h \in SetupDo
  BY DEF h
<1>5. \A a : h # Do("strip", a)
  BY <1>2, <1>4 DEF SetupDo, Permit, Hook, Script, Shell, Upserts, WritesOwn, ListSteps
<1>6. h \notin Removes
  BY <1>2, <1>4 DEF SetupDo, Permit, Hook, Script, Shell, Upserts, WritesOwn, ListSteps, Removes
<1>7. ASSUME NEW a \in Texts \cap dirs', Do("upsert", a) \notin left PROVE RuleDone(a)'
  <2>1. CASE a \in cut'
    BY <2>1 DEF RuleDone
  <2>2. CASE a \notin cut'
    <3>1. RuleStep(h, a) /\ a \notin cut /\ a \in dirs
      BY <1>1, <2>2
    <3>2. CASE h = Do("upsert", a)
      BY <1>1, <3>1, <3>2 DEF RuleStep, RuleDone
    <3>3. CASE h # Do("upsert", a)
      <4>1. md'[a] = md[a]
        BY <1>5, <3>1, <3>3 DEF RuleStep
      <4>2. RuleDone(a)
        BY <1>3, <1>7, <3>1, <3>3
      <4> QED BY <1>1, <3>1, <4>1, <4>2 DEF RuleDone
    <3> QED BY <3>2, <3>3
  <2> QED BY <2>1, <2>2
<1>8. ASSUME "claude" \in dirs'
      PROVE  /\ Permit \in left \/ (settings'.parses => settings'.perm)
             /\ Hook \in left \/ (settings'.parses => HooksCurrent(settings'.hooks, version'))
             /\ Script \in left \/ (olds' = {} /\ \A f \in Scripts : own'[f] = version')
  <2>1. "claude" \in dirs
    BY <1>1, <1>8
  <2>2. Permit \in left \/ (settings'.parses => settings'.perm)
    BY <1>1, <1>3, <1>4, <2>1 DEF SettingsStep
  <2>3. Hook \in left \/ (settings'.parses => HooksCurrent(settings'.hooks, version'))
    BY <1>1, <1>3, <1>4, <2>1 DEF SettingsStep
  <2>4. Script \in left \/ (olds' = {} /\ \A f \in Scripts : own'[f] = version')
    BY <1>1, <1>3, <1>6, <2>1 DEF OwnStep
  <2> QED BY <2>2, <2>3, <2>4
<1> QED BY <1>7, <1>8 DEF SetupDone

\* Claude's uninstaller takes all there is, and what is gone stays away as long as no
\* command brings it back.
LEMMA UninstallDoneStep ==
    ASSUME Shape, Step, NEW left, ToSet(todo) = {Head(todo)} \cup left,
           Head(todo) \in Quiet \cup UninstallDo
    PROVE  /\ Head(todo) \in UninstallDo /\ UninstallDone(ToSet(todo)) => UninstallDone(left)'
           /\ NoBlock => NoBlock'
           /\ NoScripts => NoScripts'
           /\ NoHooks => NoHooks'
           /\ Head(todo) = Prune => NoHooks'
<1> DEFINE h == Head(todo)
<1>1. /\ version' = version /\ dirs' = dirs /\ cut \subseteq cut'
      /\ \A a \in Texts \ cut' : RuleStep(h, a)
      /\ OwnStep(h) /\ SettingsStep(h)
  BY ShapeStep
<1>2. \A d1, d2, f1, f2 : Do(d1, f1) = Do(d2, f2) => d1 = d2 /\ f1 = f2
  BY DoDiffers
<1>3. UninstallDone(ToSet(todo)) => /\ Do("strip", "claude") \in {h} \cup left \/ NoBlock
                                    /\ RemoveScripts \in {h} \cup left \/ NoScripts
  BY DEF UninstallDone
<1>4. h \in Quiet \cup UninstallDo
  OBVIOUS
<1> HIDE DEF h
<1>5. h # Do("upsert", "claude") /\ h # Script
  BY <1>2, <1>4, DoDiffers DEF Quiet, UninstallDo, Script, Prune, Upserts, WritesOwn, ListSteps, Strips, Removes
<1>6. "claude" \in Texts
  BY DEF Texts, Upserted
<1>7. NoBlock \/ h = Do("strip", "claude") => NoBlock'
  <2>1. CASE "claude" \in cut'
    BY <2>1 DEF NoBlock
  <2>2. CASE "claude" \notin cut'
    <3>1. RuleStep(h, "claude") /\ "claude" \notin cut
      BY <1>1, <1>6, <2>2
    <3> QED BY <1>5, <3>1 DEF RuleStep, NoBlock
  <2> QED BY <2>1, <2>2
<1>8. NoScripts \/ h = RemoveScripts => NoScripts'
  BY <1>1, <1>5 DEF OwnStep, NoScripts, RemoveScripts
<1>9. NoHooks \/ h = Prune => NoHooks'
  BY <1>1, <1>4 DEF SettingsStep, NoHooks
<1>10. UninstallDone(ToSet(todo)) => UninstallDone(left)'
  <2> SUFFICES ASSUME UninstallDone(ToSet(todo)) PROVE UninstallDone(left)'
    OBVIOUS
  <2>1. Do("strip", "claude") \in left \/ NoBlock'
    BY <1>3, <1>7
  <2>2. RemoveScripts \in left \/ NoScripts'
    BY <1>3, <1>8
  <2> QED BY <2>1, <2>2 DEF UninstallDone
<1> QED BY <1>7, <1>8, <1>9, <1>10 DEF h

LEMMA StepInv == Inv /\ Step => Inv'
<1> SUFFICES ASSUME Inv, Step PROVE Inv'
  OBVIOUS
<1> DEFINE h == Head(todo)
<1>8. PICK left : left = ToSet(Tail(todo))
  OBVIOUS
<1>0. Shape /\ SetupInv /\ SettledInv /\ UninstallInv /\ GoneInv
  BY DEF Inv
<1>1. /\ Shape' /\ h \in AllSteps /\ ToSet(todo) = {h} \cup left /\ todo' = Tail(todo)
      /\ version' = version /\ ShellStep(h)
  BY <1>0, <1>8, ShapeStep
<1>2. /\ settled' = (Tail(todo) = <<>> /\ ~ flawed /\ h = Do("shell", "rc"))
      /\ gone' = IF Tail(todo) = <<>> /\ ~ flawed /\ h.do = "prune" /\ h.file = AgentMarks
                 THEN gone \cup {"claude"} ELSE gone
      /\ flawed' = (flawed /\ Tail(todo) # <<>>)
  BY DEF Step
<1>3. ToSet(todo') = left
  BY <1>1, <1>8
<1>4. SetupInv'
  <2> SUFFICES ASSUME Shell \in left PROVE left \subseteq SetupDo /\ (flawed' \/ SetupDone(left)')
    BY <1>3 DEF SetupInv, SetupDone, RuleDone
  <2>1. ToSet(todo) \subseteq SetupDo /\ (flawed \/ SetupDone(ToSet(todo)))
    BY <1>0, <1>1 DEF SetupInv
  <2>2. Tail(todo) # <<>>
    BY <1>8, ToSetEmpty
  <2>3. ASSUME SetupDone(ToSet(todo)) PROVE SetupDone(left)'
    <3> QED BY <1>0, <1>1, <2>1, <2>3, SetupDoneStep DEF h
  <2> QED BY <1>1, <1>2, <2>1, <2>2, <2>3
<1>5. SettledInv'
  <2> SUFFICES ASSUME settled' PROVE todo' = <<>> /\ SetupDone({})' /\ Hooked(rc', version')
    BY DEF SettledInv
  <2>1. Tail(todo) = <<>> /\ h = Shell /\ left = {} /\ ~ flawed
    BY <1>2, <1>8, ToSetEmpty DEF Shell
  <2>2. ToSet(todo) \subseteq SetupDo /\ SetupDone(ToSet(todo))
    BY <1>0, <1>1, <2>1 DEF SetupInv
  <2>3. SetupDone({})'
    BY <1>0, <1>1, <2>1, <2>2, SetupDoneStep DEF h
  <2>4. Hooked(rc', version')
    BY <1>1, <2>1 DEF ShellStep
  <2> QED BY <1>1, <2>1, <2>3, <2>4
<1>6. UninstallInv'
  <2> SUFFICES ASSUME Prune \in left
               PROVE  left \subseteq UninstallDo /\ (flawed' \/ UninstallDone(left)')
    BY <1>3 DEF UninstallInv, UninstallDone
  <2>1. ToSet(todo) \subseteq UninstallDo /\ (flawed \/ UninstallDone(ToSet(todo)))
    BY <1>0, <1>1 DEF UninstallInv
  <2>2. h \in UninstallDo /\ Tail(todo) # <<>>
    BY <1>1, <1>8, <2>1, ToSetEmpty
  <2>3. ASSUME UninstallDone(ToSet(todo)) PROVE UninstallDone(left)'
    <3> QED BY <1>0, <1>1, <2>1, <2>2, <2>3, UninstallDoneStep DEF h
  <2> QED BY <1>1, <1>2, <2>1, <2>2, <2>3
<1>7. GoneInv'
  <2> SUFFICES ASSUME "claude" \in gone'
               PROVE  left \subseteq Quiet \cup UninstallDo /\ NoBlock' /\ NoScripts' /\ NoHooks'
    BY <1>3 DEF GoneInv
  <2>1. CASE "claude" \in gone
    <3>1. ToSet(todo) \subseteq Quiet \cup UninstallDo /\ NoBlock /\ NoScripts /\ NoHooks
      BY <1>0, <2>1 DEF GoneInv
    <3>2. h \in Quiet \cup UninstallDo
      BY <1>1, <3>1
    <3>3. NoBlock' /\ NoScripts' /\ NoHooks'
      <4> QED BY <1>0, <1>1, <3>1, <3>2, UninstallDoneStep DEF h
    <3> QED BY <1>1, <3>1, <3>3
  <2>2. CASE "claude" \notin gone
    <3>1. Tail(todo) = <<>> /\ h.do = "prune" /\ h.file = AgentMarks /\ left = {} /\ ~ flawed
      BY <1>2, <1>8, <2>2, ToSetEmpty
    <3>2. h = Prune
      <4>1. \A d, f : Do(d, f).do = d /\ Do(d, f).file = f
        BY DEF Do
      <4>2. DryScripts.do = "scripts"
        BY DEF DryScripts
      <4>3. h = Prune \/ h = Do("prune", UninstallMarks)
        <5>1. /\ h # Permit /\ h # Hook /\ h # Script /\ h # DryScripts /\ h # Shell
              /\ \A f : h # Do("upsert", f) /\ h # Do("strip", f) /\ h # Do("cut", f)
                        /\ h # Do("write", f) /\ h # Do("remove", f) /\ h # Do("list", f)
                        /\ h # Do("unlist", f)
          BY <3>1, <4>1, <4>2 DEF Permit, Hook, Script, Shell
        <5>2. Perform(h)
          BY <1>0, ShapeStep
        <5> HIDE DEF h
        <5> QED BY <1>1, <5>1, <5>2, StepKinds
      <4> QED BY <3>1, <4>1, <4>3 DEF Prune
    <3>3. ToSet(todo) = {Prune} /\ ToSet(todo) \subseteq UninstallDo /\ UninstallDone(ToSet(todo))
      BY <1>0, <1>1, <3>1, <3>2 DEF UninstallInv
    <3>4. NoBlock /\ NoScripts
      <4>1. Do("strip", "claude") # Prune /\ RemoveScripts # Prune
        BY DoDiffers DEF Prune, RemoveScripts
      <4> QED BY <3>3, <4>1 DEF UninstallDone
    <3>5. h \in Quiet \cup UninstallDo
      BY <3>2, <3>3
    <3>6. NoBlock' /\ NoScripts' /\ NoHooks'
      <4> QED BY <1>0, <1>1, <3>2, <3>4, <3>5, UninstallDoneStep DEF h
    <3> QED BY <3>1, <3>6
  <2> QED BY <2>1, <2>2
<1> QED BY <1>1, <1>4, <1>5, <1>6, <1>7 DEF Inv


---------------------------------------------------------------------------
(* The steps between commands *)

\* A command that begins changes no file; what it is to do is of its own kind, and
\* only one that brings nothing of ig to Claude leaves Claude uninstalled.
LEMMA BeginInv ==
    ASSUME Inv, NEW steps, steps \in Seq(AllSteps), Begin(steps),
           version' \in Versions, dirs' \subseteq Agents, gone' \subseteq gone,
           md' = md, rc' = rc, settings' = settings, own' = own, baks' = baks,
           \/ Shell \notin ToSet(steps)
           \/ /\ ToSet(steps) \subseteq SetupDo /\ dirs' = dirs
              /\ \A a \in Texts \cap dirs : Do("upsert", a) \in ToSet(steps)
              /\ "claude" \in dirs => {Permit, Hook, Script} \subseteq ToSet(steps),
           \/ Prune \notin ToSet(steps)
           \/ /\ ToSet(steps) \subseteq UninstallDo
              /\ {Do("strip", "claude"), RemoveScripts} \subseteq ToSet(steps),
           "claude" \in gone' => ToSet(steps) \subseteq Quiet \cup UninstallDo
    PROVE  Inv'
<1>1. todo' = steps /\ settled' = FALSE /\ cut' = cut /\ flawed' = flawed
  BY DEF Begin
<1>2. Shape /\ GoneInv
  BY DEF Inv
<1>3. STypeOK'
  <2>1. gone' \subseteq Agents
    BY <1>2 DEF Shape, STypeOK
  <2> QED BY <1>1, <1>2, <2>1 DEF Shape, STypeOK
<1>4. Shape'
  BY <1>1, <1>2, <1>3 DEF Shape
<1>5. SetupInv'
  BY <1>1 DEF SetupInv, SetupDone
<1>6. SettledInv'
  BY <1>1 DEF SettledInv
<1>7. UninstallInv'
  BY <1>1 DEF UninstallInv, UninstallDone
<1>8. GoneInv'
  BY <1>1, <1>2 DEF GoneInv, NoBlock, NoScripts, NoHooks
<1> QED BY <1>4, <1>5, <1>6, <1>7, <1>8 DEF Inv

LEMMA SetupBeginsInv == Inv /\ (Setup \/ Update) => Inv'
<1> SUFFICES ASSUME Inv, Setup \/ Update PROVE Inv'
  OBVIOUS
<1>1. PICK steps : steps = SetupSteps
  OBVIOUS
<1>2. /\ Begin(steps) /\ gone' = {} /\ version' \in {version, version + 1} /\ dirs' = dirs
      /\ version' = version \/ version < MaxVersion
      /\ md' = md /\ rc' = rc /\ settings' = settings /\ own' = own /\ baks' = baks
  BY <1>1 DEF Setup, Update, files
<1>3. version \in Versions /\ dirs \subseteq Agents
  BY DEF Inv, Shape, STypeOK
<1>4. version' \in Versions
  BY <1>2, <1>3, SetupAssumption DEF SetupAssumption, Versions
<1>5. /\ steps \in Seq(SetupDo) /\ ToSet(steps) \subseteq SetupDo
      /\ \A a \in Texts \cap dirs : Do("upsert", a) \in ToSet(steps)
      /\ "claude" \in dirs => {Permit, Hook, Script} \subseteq ToSet(steps)
  BY <1>1, SetupStepsAre, ToSetIn
<1>6. steps \in Seq(AllSteps) /\ Prune \notin ToSet(steps)
  BY <1>5, StepsDiffer DEF AllSteps
<1> QED BY <1>2, <1>3, <1>4, <1>5, <1>6, BeginInv

LEMMA InstallBeginsInv ==
    Inv /\ (SetupDry \/ \E a \in Targets, ctx \in Contexts : Install(a, ctx)) => Inv'
<1> SUFFICES ASSUME Inv, SetupDry \/ \E a \in Targets, ctx \in Contexts : Install(a, ctx)
             PROVE  Inv'
  OBVIOUS
<1>1. version \in Versions /\ dirs \subseteq Agents /\ Targets \subseteq Agents
  BY SetupAssumption DEF Inv, Shape, STypeOK, SetupAssumption
<1>2. CASE SetupDry
  <2>1. PICK steps : steps = DrySetup
    OBVIOUS
  <2>2. /\ Begin(steps) /\ gone' = {} /\ version' = version /\ dirs' = dirs
        /\ md' = md /\ rc' = rc /\ settings' = settings /\ own' = own /\ baks' = baks
    BY <1>2, <2>1 DEF SetupDry, files
  <2>3. steps \in Seq(InstallDo) /\ ToSet(steps) \subseteq InstallDo
    BY <2>1, DrySetupIs, ToSetIn
  <2>4. steps \in Seq(AllSteps) /\ Prune \notin ToSet(steps) /\ Shell \notin ToSet(steps)
    BY <2>3, StepsDiffer DEF AllSteps
  <2> QED BY <1>1, <2>2, <2>4, BeginInv
<1>3. ASSUME NEW a \in Targets, NEW ctx \in Contexts, Install(a, ctx) PROVE Inv'
  <2>1. PICK steps : steps = InstallSteps(a, ctx)
    OBVIOUS
  <2>2. /\ Begin(steps) /\ gone' = gone \ {a} /\ version' = version
        /\ md' = md /\ rc' = rc /\ settings' = settings /\ own' = own /\ baks' = baks
    BY <1>3, <2>1 DEF Install
  <2>3. dirs' \subseteq Agents
    BY <1>1, <1>3 DEF Install
  <2>4. CASE a = "claude"
    <3>1. steps \in Seq(InstallDo) /\ ToSet(steps) \subseteq InstallDo
      BY <2>1, <2>4, InstallStepsAre, ToSetIn
    <3>2. steps \in Seq(AllSteps) /\ Prune \notin ToSet(steps) /\ Shell \notin ToSet(steps)
      BY <3>1, StepsDiffer DEF AllSteps
    <3> QED BY <1>1, <2>2, <2>3, <2>4, <3>2, BeginInv
  <2>5. CASE a # "claude"
    <3>1. steps \in Seq(Quiet) /\ ToSet(steps) \subseteq Quiet
      BY <1>1, <2>1, <2>5, InstallStepsAre, ToSetIn
    <3>2. Quiet \subseteq AllSteps
      BY DEF Quiet, AllSteps, InstallDo, UninstallDo, Upserts
    <3>3. steps \in Seq(AllSteps) /\ Prune \notin ToSet(steps) /\ Shell \notin ToSet(steps)
      BY <3>1, <3>2, StepsDiffer
    <3> QED BY <1>1, <2>2, <2>3, <3>1, <3>3, BeginInv
  <2> QED BY <2>4, <2>5
<1> QED BY <1>2, <1>3

LEMMA UninstallBeginsInv == Inv /\ (UninstallAll \/ \E a \in Targets : Uninstall(a)) => Inv'
<1> SUFFICES ASSUME Inv, UninstallAll \/ \E a \in Targets : Uninstall(a) PROVE Inv'
  OBVIOUS
<1>1. version \in Versions /\ dirs \subseteq Agents /\ Targets \subseteq Agents
  BY SetupAssumption DEF Inv, Shape, STypeOK, SetupAssumption
<1>2. CASE UninstallAll
  <2>1. PICK steps : steps = FullSteps
    OBVIOUS
  <2>2. /\ Begin(steps) /\ gone' = {} /\ version' = version /\ dirs' = dirs
        /\ md' = md /\ rc' = rc /\ settings' = settings /\ own' = own /\ baks' = baks
    BY <1>2, <2>1 DEF UninstallAll, files
  <2>3. steps \in Seq(FullDo) /\ ToSet(steps) \subseteq FullDo
    BY <2>1, FullStepsAre, ToSetIn
  <2>4. steps \in Seq(AllSteps) /\ Prune \notin ToSet(steps) /\ Shell \notin ToSet(steps)
    BY <2>3, StepsDiffer DEF AllSteps
  <2> QED BY <1>1, <2>2, <2>4, BeginInv
<1>3. ASSUME NEW a \in Targets, Uninstall(a) PROVE Inv'
  <2>1. PICK steps : steps = UninstallSteps(a)
    OBVIOUS
  <2>2. /\ Begin(steps) /\ gone' = gone /\ version' = version /\ dirs' = dirs
        /\ md' = md /\ rc' = rc /\ settings' = settings /\ own' = own /\ baks' = baks
    BY <1>3, <2>1 DEF Uninstall, files
  <2>3. CASE a = "claude"
    <3>1. /\ steps \in Seq(UninstallDo) /\ ToSet(steps) \subseteq UninstallDo
          /\ {Do("strip", "claude"), RemoveScripts} \subseteq ToSet(steps)
      BY <2>1, <2>3, UninstallStepsAre, ToSetIn DEF RemoveScripts
    <3>2. steps \in Seq(AllSteps) /\ Shell \notin ToSet(steps)
      BY <3>1, StepsDiffer DEF AllSteps
    <3> QED BY <1>1, <2>2, <3>1, <3>2, BeginInv
  <2>4. CASE a # "claude"
    <3>1. steps \in Seq(Strips \cup Removes) /\ ToSet(steps) \subseteq Strips \cup Removes
      BY <1>1, <2>1, <2>4, UninstallStepsAre, ToSetIn
    <3>2. Strips \cup Removes \subseteq Quiet /\ Strips \cup Removes \subseteq AllSteps
      BY DEF Quiet, AllSteps, UninstallDo
    <3>3. /\ steps \in Seq(AllSteps) /\ Prune \notin ToSet(steps) /\ Shell \notin ToSet(steps)
          /\ ToSet(steps) \subseteq Quiet
      BY <3>1, <3>2, StepsDiffer
    <3> QED BY <1>1, <2>2, <3>3, BeginInv
  <2> QED BY <2>3, <2>4
<1> QED BY <1>2, <1>3

---------------------------------------------------------------------------
(* The steps that fail, and deaths *)

\* What is known of the file of a step from what the step does.
LEMMA FilesOfSteps ==
    ASSUME NEW h \in AllSteps
    PROVE  /\ h.do \in RuleSteps => h.file \in Texts /\ h = Do(h.do, h.file)
           /\ h.do = "write" => h.file \in Overwritten \cup Once
           /\ h.do = "remove" => h.file \subseteq OwnFiles \cup {"session-start.sh"}
           /\ h.do = "scripts" /\ ~ h.dry => h = Script
           /\ h.do = "permission" => h = Permit
           /\ h.do = "hooks" => h = Hook
<1>1. \A do, file : Do(do, file).do = do /\ Do(do, file).file = file /\ Do(do, file).dry = FALSE
  BY DEF Do
<1>2. CASE h \in {Permit, Hook, Script, Shell, DryScripts, Prune, Do("prune", UninstallMarks)}
  <2>1. DryScripts.do = "scripts" /\ DryScripts.dry
    BY DEF DryScripts
  <2> QED BY <1>1, <1>2, <2>1 DEF Permit, Hook, Script, Shell, Prune, RuleSteps
<1>3. CASE h \in Upserts(Texts) \cup Strips \cup Cuts
  <2>1. PICK do \in {"upsert", "strip", "cut"}, a \in Texts : h = Do(do, a)
    BY <1>3 DEF Upserts, Strips, Cuts
  <2>2. h.do = do /\ h.file = a
    BY <1>1, <2>1
  <2> QED BY <2>1, <2>2
<1>4. CASE h \in WritesOwn
  <2>1. PICK f \in Overwritten \cup Once : h = Do("write", f)
    BY <1>4 DEF WritesOwn
  <2>2. h.do = "write" /\ h.file = f
    BY <1>1, <2>1
  <2> QED BY <2>1, <2>2 DEF RuleSteps
<1>5. CASE h \in Removes
  <2>1. PICK fs \in SUBSET (OwnFiles \cup {"session-start.sh"}) : h = Do("remove", fs)
    BY <1>5 DEF Removes
  <2>2. h.do = "remove" /\ h.file = fs
    BY <1>1, <2>1
  <2> QED BY <2>1, <2>2 DEF RuleSteps
<1>6. CASE h \in ListSteps \cup Unlists
  <2>1. PICK do \in {"list", "unlist"}, l \in Lists : h = Do(do, l)
    BY <1>6 DEF ListSteps, Unlists
  <2>2. h.do = do
    BY <1>1, <2>1
  <2> QED BY <2>1, <2>2 DEF RuleSteps
<1> QED BY <1>2, <1>3, <1>4, <1>5, <1>6 DEF AllSteps, SetupDo, InstallDo, UninstallDo, FullDo

\* What a step h that fails, or that the command dies in, leaves of the files.
FailedStep(h) ==
    /\ dirs' = dirs /\ DOMAIN md' = Texts /\ Closed(rc')
    /\ \A a \in Texts \ cut :
         /\ WellFormed(md'[a])
         /\ a \in Upserted => At(md'[a], 1) # "begin"
         /\ \/ md'[a] = md[a]
            \/ /\ h.do \in RuleSteps /\ h.file = a
               /\ h = Do("upsert", a) \/ Position(md'[a], "begin") = 0
    /\ own' \in [OwnFiles -> {User, Missing, Torn} \cup Versions] /\ baks' \subseteq Scripts
    /\ \A f \in Scripts : \/ own'[f] = own[f] \/ h = Script
                          \/ h.do = "remove" /\ own'[f] = Missing
    /\ \A f \in Once : own[f] = User /\ h.do # "remove" => own'[f] = User
    /\ settings' \in [parses : BOOLEAN, perm : BOOLEAN, hooks : Seq(Hooks)]
    /\ \/ settings' = settings
       \/ h.do \in SettingsSteps /\ (h \in {Permit, Hook} \/ ~ settings'.parses)

\* What a failing step does not write stays.
LEMMA FailsIn ==
    ASSUME Shape, NEW h, dirs' = dirs,
           \/ md' = md
           \/ /\ DOMAIN md' = Texts
              /\ \A a \in Texts \ cut :
                   /\ WellFormed(md'[a])
                   /\ a \in Upserted => At(md'[a], 1) # "begin"
                   /\ \/ md'[a] = md[a]
                      \/ /\ h.do \in RuleSteps /\ h.file = a
                         /\ h = Do("upsert", a) \/ Position(md'[a], "begin") = 0,
           rc' = rc \/ Closed(rc'),
           \/ UNCHANGED <<own, baks>>
           \/ /\ own' \in [OwnFiles -> {User, Missing, Torn} \cup Versions] /\ baks' \subseteq Scripts
              /\ \A f \in Scripts : \/ own'[f] = own[f] \/ h = Script
                                    \/ h.do = "remove" /\ own'[f] = Missing
              /\ \A f \in Once : own[f] = User /\ h.do # "remove" => own'[f] = User,
           \/ settings' = settings
           \/ /\ settings' \in [parses : BOOLEAN, perm : BOOLEAN, hooks : Seq(Hooks)]
              /\ h.do \in SettingsSteps /\ (h \in {Permit, Hook} \/ ~ settings'.parses)
    PROVE  FailedStep(h)
<1>1. /\ DOMAIN md = Texts /\ Closed(rc) /\ cut \subseteq Texts
      /\ own \in [OwnFiles -> {User, Missing, Torn} \cup Versions] /\ baks \subseteq Scripts
      /\ settings \in [parses : BOOLEAN, perm : BOOLEAN, hooks : Seq(Hooks)]
      /\ \A a \in Texts \ cut : WellFormed(md[a])
      /\ \A a \in Upserted \ cut : At(md[a], 1) # "begin"
  BY DEF Shape, STypeOK
<1> QED BY <1>1 DEF FailedStep

LEMMA EmptyText == /\ WellFormed(<<>>) /\ At(<<>>, 1) # "begin" /\ Position(<<>>, "begin") = 0
                   /\ Closed(<<>>)
<1>1. <<>> \in Seq(Tokens)
  OBVIOUS
<1>2. DOMAIN <<>> = {}
  OBVIOUS
<1>3. WellFormed(<<>>) /\ Position(<<>>, "begin") = 0
  BY <1>1, BareEmpty, BarePositions DEF WellFormed
<1>4. At(<<>>, 1) # "begin"
  BY <1>2 DEF At
<1>5. Closed(<<>>)
  BY <1>1, <1>2 DEF Closed
<1> QED BY <1>3, <1>4, <1>5

LEMMA EmptyFileIs == ASSUME Shape, NEW h \in AllSteps, EmptyFile(h) PROVE FailedStep(h)
<1>1. /\ DOMAIN md = Texts /\ own \in [OwnFiles -> {User, Missing, Torn} \cup Versions]
      /\ baks \subseteq Scripts
      /\ \A a \in Texts \ cut : WellFormed(md[a])
      /\ \A a \in Upserted \ cut : At(md[a], 1) # "begin"
  BY DEF Shape, STypeOK
<1>2. CASE /\ h.do \in RuleSteps /\ md' = [md EXCEPT ![h.file] = <<>>]
           /\ UNCHANGED <<dirs, rc, settings, own, baks>>
  <2>1. h.file \in Texts
    BY <1>2, FilesOfSteps
  <2>2. PICK a : a = h.file
    OBVIOUS
  <2>3. md'[a] = <<>> /\ DOMAIN md' = Texts /\ \A b \in Texts : b # a => md'[b] = md[b]
    BY <1>1, <1>2, <2>1, <2>2
  <2>4. \A b \in Texts \ cut :
            /\ WellFormed(md'[b])
            /\ b \in Upserted => At(md'[b], 1) # "begin"
            /\ md'[b] = md[b] \/ (b = a /\ Position(md'[b], "begin") = 0)
    BY <1>1, <2>3, EmptyText
  <2> QED BY <1>2, <2>2, <2>3, <2>4, FailsIn
<1>3. CASE /\ h.do \in SettingsSteps /\ settings' = [parses |-> FALSE, perm |-> FALSE, hooks |-> <<>>]
           /\ UNCHANGED <<dirs, md, rc, own, baks>>
  <2>1. settings' \in [parses : BOOLEAN, perm : BOOLEAN, hooks : Seq(Hooks)] /\ ~ settings'.parses
    BY <1>3
  <2> QED BY <1>3, <2>1, FailsIn
<1>4. CASE /\ h.do = "write" /\ own' = [own EXCEPT ![h.file] = Torn]
           /\ IF h.file \in Once THEN own[h.file] = Missing ELSE own[h.file] # version
           /\ UNCHANGED <<dirs, md, rc, settings, baks>>
  <2>1. h.file \in Overwritten \cup Once
    BY <1>4, FilesOfSteps
  <2>2. Overwritten \cup Once \subseteq OwnFiles /\ Scripts \subseteq OwnFiles
        /\ Scripts \cap (Overwritten \cup Once) = {} /\ Overwritten \cap Once = {}
    BY DEF OwnFiles, Scripts, Overwritten, Once
  <2>3. User # Missing
    BY VersionsAre
  <2>4. own' \in [OwnFiles -> {User, Missing, Torn} \cup Versions]
    BY <1>1, <1>4
  <2>5. \A f \in Scripts : own'[f] = own[f]
    BY <1>1, <1>4, <2>1, <2>2
  <2>6. \A f \in Once : own[f] = User => own'[f] = User
    BY <1>1, <1>4, <2>1, <2>2, <2>3 DEF OwnFiles
  <2> QED BY <1>1, <1>4, <2>4, <2>5, <2>6, FailsIn
<1>5. CASE UNCHANGED <<dirs, md, rc, settings, own, baks>>
  BY <1>5, FailsIn
<1>6. CASE rc' = <<>> /\ UNCHANGED <<dirs, md, settings, own, baks>>
  BY <1>6, EmptyText, FailsIn
<1> QED BY <1>2, <1>3, <1>4, <1>5, <1>6 DEF EmptyFile

LEMMA UnreadIs == ASSUME Shape, NEW h \in AllSteps, Unread(h) PROVE FailedStep(h)
<1>1. /\ DOMAIN md = Texts /\ version \in DOMAIN Body /\ version \in Versions
      /\ \A a \in Texts \ cut : WellFormed(md[a])
      /\ \A a \in Upserted \ cut : At(md[a], 1) # "begin"
  BY VersionsAre DEF Shape, STypeOK
<1>2. CASE /\ h.do = "upsert" /\ md' = [md EXCEPT ![h.file] = Edited(h, <<>>)]
           /\ UNCHANGED <<dirs, rc, settings, own, baks>>
  <2>1. h.do \in RuleSteps
    BY <1>2 DEF RuleSteps
  <2>2. h.file \in Texts /\ h = Do("upsert", h.file)
    BY <1>2, <2>1, FilesOfSteps
  <2>3. PICK a \in Texts : a = h.file /\ h = Do("upsert", a)
    BY <2>2
  <2>4. PICK new : new = Edited(h, <<>>)
    OBVIOUS
  <2>5. new = IF a \in Upserted THEN UpsertTitled(<<>>, version, Titles[a]) ELSE AppendOnce(<<>>, version)
    BY <2>3, <2>4, EditedIs
  <2>6. WellFormed(new) /\ (a \in Upserted => At(new, 1) # "begin")
    <3>1. CASE a \in Upserted
      BY <1>1, <2>5, <3>1, EmptyText, UpsertTitledKeeps
    <3>2. CASE a \notin Upserted
      BY <1>1, <2>5, <3>2, EmptyText, AppendOnceKeeps
    <3> QED BY <3>1, <3>2
  <2>7. md'[a] = new /\ DOMAIN md' = Texts /\ \A b \in Texts : b # a => md'[b] = md[b]
    BY <1>1, <1>2, <2>3, <2>4
  <2>8. \A b \in Texts \ cut :
            /\ WellFormed(md'[b])
            /\ b \in Upserted => At(md'[b], 1) # "begin"
            /\ md'[b] = md[b] \/ (h.do \in RuleSteps /\ h.file = b /\ h = Do("upsert", b))
    BY <1>1, <2>1, <2>3, <2>6, <2>7
  <2> QED BY <1>2, <2>7, <2>8, FailsIn
<1>3. CASE /\ h.do \in {"permission", "hooks"}
           /\ settings' = Reset(h, [parses |-> TRUE, perm |-> FALSE, hooks |-> <<>>])
           /\ UNCHANGED <<dirs, md, rc, own, baks>>
  <2> DEFINE none == [parses |-> TRUE, perm |-> FALSE, hooks |-> <<>>]
  <2>1. \/ h = Permit /\ settings' = Permitted(none)
        \/ h = Hook /\ settings' = Registered(none)
    BY <1>3, FilesOfSteps, ResetIs
  <2>2. Permitted(none) = [parses |-> TRUE, perm |-> TRUE, hooks |-> <<>>]
    BY DEF Permitted
  <2>3. Registered(none) = [parses |-> TRUE, perm |-> FALSE, hooks |-> RegisterAll(<<>>, version)]
    BY DEF Registered
  <2>4. RegisterAll(<<>>, version) \in Seq(Hooks)
    <3>1. <<>> \in Seq(Hooks)
      OBVIOUS
    <3> QED BY <1>1, <3>1, RegisterAllIs
  <2>5. settings' \in [parses : BOOLEAN, perm : BOOLEAN, hooks : Seq(Hooks)] /\ h \in {Permit, Hook}
    <3>1. PICK reg \in Seq(Hooks) : reg = RegisterAll(<<>>, version)
      BY <2>4
    <3>2. <<>> \in Seq(Hooks)
      OBVIOUS
    <3>3. CASE h = Permit /\ settings' = [parses |-> TRUE, perm |-> TRUE, hooks |-> <<>>]
      BY <3>2, <3>3
    <3>4. CASE h = Hook /\ settings' = [parses |-> TRUE, perm |-> FALSE, hooks |-> reg]
      BY <3>1, <3>4
    <3> QED BY <2>1, <2>2, <2>3, <3>1, <3>3, <3>4
  <2>6. h.do \in SettingsSteps
    BY <1>3 DEF SettingsSteps
  <2> QED BY <1>3, <2>5, <2>6, FailsIn
<1>4. CASE UNCHANGED <<dirs, md, rc, settings, own, baks>>
  BY <1>4, FailsIn
<1>5. CASE rc' = InstallShellHook(<<>>, version) /\ UNCHANGED <<dirs, md, settings, own, baks>>
  <2>1. PICK p, q \in Seq(Tokens) : IsHooked(InstallShellHook(<<>>, version), p, version, q) /\ Closed(q)
    BY <1>1, EmptyText, InstallShellHookIs
  <2>2. Closed(rc')
    BY <1>5, <2>1, HookedIsClosed
  <2> QED BY <1>5, <2>2, FailsIn
<1> QED BY <1>2, <1>3, <1>4, <1>5 DEF Unread

LEMMA SomeScriptsIs == ASSUME Shape, NEW h \in AllSteps, SomeScripts(h) PROVE FailedStep(h)
<1>1. /\ own \in [OwnFiles -> {User, Missing, Torn} \cup Versions] /\ baks \subseteq Scripts
      /\ version \in Versions
  BY DEF Shape, STypeOK
<1>2. h = Script /\ UNCHANGED <<dirs, md, rc, settings>>
  BY FilesOfSteps DEF SomeScripts
<1>3. /\ Scripts \subseteq OwnFiles /\ Scripts \cap Once = {} /\ Once \subseteq OwnFiles
      /\ \A i \in DOMAIN InOrder : /\ InOrder[i] \in Scripts
                                   /\ {InOrder[j] : j \in 1 .. i - 1} \subseteq Scripts
  <2>1. Scripts \subseteq OwnFiles /\ Scripts \cap Once = {} /\ Once \subseteq OwnFiles
    BY DEF OwnFiles, Scripts, Once
  <2>2. DOMAIN InOrder = 1 .. 3 /\ \A i \in 1 .. 3 : InOrder[i] \in Scripts
    BY DEF InOrder, Scripts
  <2> QED BY <2>1, <2>2
<1>4. PICK i \in DOMAIN InOrder, renamed \in BOOLEAN, f \in Scripts :
        \E new \in {version, Torn, IF renamed THEN Missing ELSE own[f]}, others \in SUBSET Scripts :
            /\ own' = [g \in OwnFiles |-> IF g = f THEN new
                                          ELSE IF g \in others THEN version ELSE own[g]]
            /\ baks' = baks \cup {g \in others \cup (IF renamed THEN {f} ELSE {}) : own[g] = User}
  BY <1>3 DEF SomeScripts
<1>5. PICK new \in {version, Torn, IF renamed THEN Missing ELSE own[f]}, others \in SUBSET Scripts :
            /\ own' = [g \in OwnFiles |-> IF g = f THEN new
                                          ELSE IF g \in others THEN version ELSE own[g]]
            /\ baks' = baks \cup {g \in others \cup (IF renamed THEN {f} ELSE {}) : own[g] = User}
  BY <1>4
<1>6. new \in {User, Missing, Torn} \cup Versions
  BY <1>1, <1>3
<1>7. own' \in [OwnFiles -> {User, Missing, Torn} \cup Versions] /\ baks' \subseteq Scripts
  <2>1. own' \in [OwnFiles -> {User, Missing, Torn} \cup Versions]
    BY <1>1, <1>5, <1>6
  <2>2. baks' \subseteq Scripts
    BY <1>1, <1>5
  <2> QED BY <2>1, <2>2
<1>8. \A g \in Once : own'[g] = own[g]
  BY <1>3, <1>5
<1> QED BY <1>2, <1>7, <1>8, FailsIn

LEMMA SomeRemovedIs == ASSUME Shape, NEW h \in AllSteps, SomeRemoved(h) PROVE FailedStep(h)
<1>1. /\ own \in [OwnFiles -> {User, Missing, Torn} \cup Versions] /\ baks \subseteq Scripts
      /\ Scripts \subseteq OwnFiles
  BY DEF Shape, STypeOK, OwnFiles
<1>2. PICK fs : h.do = "remove" /\ RemoveOwn(fs)
  BY DEF SomeRemoved
<1>3. /\ own' = [f \in OwnFiles |-> IF f \in fs THEN Missing ELSE own[f]]
      /\ UNCHANGED <<dirs, md, rc, settings, baks>>
  BY <1>2 DEF RemoveOwn
<1>4. own' \in [OwnFiles -> {User, Missing, Torn} \cup Versions]
  BY <1>1, <1>3
<1>5. \A f \in Scripts : own'[f] = own[f] \/ own'[f] = Missing
  BY <1>1, <1>3
<1> QED BY <1>1, <1>2, <1>3, <1>4, <1>5, FailsIn

\* A step that fails, and a death, leave the files well formed.
LEMMA FailingShape ==
    ASSUME Shape, StepFails \/ Die
    PROVE  /\ Shape' /\ FailedStep(Head(todo)) /\ cut' = cut /\ gone' = gone /\ version' = version
           /\ Head(todo) \in AllSteps /\ ToSet(todo) = {Head(todo)} \cup ToSet(Tail(todo))
<1>1. /\ Head(todo) \in AllSteps /\ Tail(todo) \in Seq(AllSteps)
      /\ ToSet(todo) = {Head(todo)} \cup ToSet(Tail(todo))
  BY HeadAndTail DEF Shape, StepFails, Die
<1>2. PICK h \in AllSteps : h = Head(todo)
  BY <1>1
<1>3. /\ cut' = cut /\ gone' = gone /\ version' = version
      /\ \/ UNCHANGED files \/ EmptyFile(h) \/ Unread(h) \/ SomeScripts(h) \/ SomeRemoved(h)
      /\ todo' = Tail(todo) \/ todo' = <<>>
      /\ flawed' \in BOOLEAN /\ (settled' = FALSE \/ settled' = settled)
  BY <1>2 DEF StepFails, Die
<1>4. ASSUME UNCHANGED files PROVE FailedStep(h)
  <2>1. UNCHANGED <<dirs, md, rc, settings, own, baks>>
    BY <1>4 DEF files
  <2> QED BY <2>1, FailsIn
<1>5. FailedStep(h)
  <2>1. EmptyFile(h) => FailedStep(h)
    BY EmptyFileIs
  <2>2. Unread(h) => FailedStep(h)
    BY UnreadIs
  <2>3. SomeScripts(h) => FailedStep(h)
    BY SomeScriptsIs
  <2>4. SomeRemoved(h) => FailedStep(h)
    BY SomeRemovedIs
  <2> QED BY <1>3, <1>4, <2>1, <2>2, <2>3, <2>4
<1>6. STypeOK'
  <2>1. settled' \in BOOLEAN /\ version' \in Versions /\ dirs' \subseteq Agents /\ gone' \subseteq Agents
        /\ cut' \subseteq DOMAIN md'
    BY <1>3, <1>5 DEF Shape, STypeOK, FailedStep
  <2>2. \A a \in DOMAIN md' \ cut' : WellFormed(md'[a])
    BY <1>3, <1>5 DEF FailedStep
  <2> QED BY <1>3, <1>5, <2>1, <2>2 DEF STypeOK, FailedStep
<1>7. todo' \in Seq(AllSteps)
  <2>1. <<>> \in Seq(AllSteps)
    OBVIOUS
  <2> QED BY <1>1, <1>3, <2>1
<1>8. \A a \in Upserted \ cut' : At(md'[a], 1) # "begin"
  <2>1. Upserted \subseteq Texts
    BY DEF Texts
  <2> QED BY <1>3, <1>5, <2>1 DEF FailedStep
<1>9. Shape'
  BY <1>5, <1>6, <1>7, <1>8 DEF Shape, FailedStep
<1> QED BY <1>1, <1>2, <1>3, <1>5, <1>9

\* What is gone stays away when a step fails that is not there to bring it.
LEMMA FailingStaysGone ==
    ASSUME Inv, StepFails \/ Die, "claude" \in gone
    PROVE  ToSet(todo) \subseteq Quiet \cup UninstallDo /\ NoBlock' /\ NoScripts' /\ NoHooks'
<1>1. Shape /\ ToSet(todo) \subseteq Quiet \cup UninstallDo /\ NoBlock /\ NoScripts /\ NoHooks
  BY DEF Inv, GoneInv
<1>2. PICK h \in Quiet \cup UninstallDo : FailedStep(h) /\ cut' = cut
  BY <1>1, FailingShape
<1>3. \A d1, d2, f1, f2 : Do(d1, f1) = Do(d2, f2) => d1 = d2 /\ f1 = f2
  BY DoDiffers
<1>4. h # Do("upsert", "claude") /\ h # Script /\ h # Permit /\ h # Hook
  BY <1>2, <1>3, DoDiffers DEF Quiet, UninstallDo, Script, Permit, Hook, Prune, Upserts, WritesOwn,
                             ListSteps, Strips, Removes
<1>5. NoBlock'
  <2>1. "claude" \in Texts
    BY DEF Texts, Upserted
  <2> QED BY <1>1, <1>2, <1>4, <2>1 DEF FailedStep, NoBlock
<1>6. NoScripts'
  BY <1>1, <1>2, <1>4 DEF FailedStep, NoScripts
<1>7. NoHooks'
  BY <1>1, <1>2, <1>4 DEF FailedStep, NoHooks
<1> QED BY <1>1, <1>5, <1>6, <1>7

LEMMA StepFailsInv == Inv /\ StepFails => Inv'
<1> SUFFICES ASSUME Inv, StepFails PROVE Inv'
  OBVIOUS
<1>1. PICK left : left = ToSet(Tail(todo))
  OBVIOUS
<1>2. /\ Shape' /\ gone' = gone /\ ToSet(todo) = {Head(todo)} \cup left
  BY <1>1, FailingShape DEF Inv
<1>3. /\ ToSet(todo') = left /\ settled' = FALSE /\ flawed' = (Tail(todo) # <<>>)
  BY <1>1 DEF StepFails
<1>4. left # {} => flawed'
  BY <1>1, <1>3, ToSetEmpty
<1>5. SetupInv' /\ UninstallInv' /\ SettledInv'
  BY <1>2, <1>3, <1>4 DEF Inv, SetupInv, UninstallInv, SettledInv
<1>6. GoneInv'
  BY <1>2, <1>3, FailingStaysGone DEF GoneInv
<1> QED BY <1>2, <1>5, <1>6 DEF Inv

LEMMA DieInv == Inv /\ Die => Inv'
<1> SUFFICES ASSUME Inv, Die PROVE Inv'
  OBVIOUS
<1>1. Shape' /\ gone' = gone
  BY FailingShape DEF Inv
<1>2. ToSet(todo') = {} /\ ~ settled'
  BY ToSetEmpty DEF Die, Inv, SettledInv
<1>3. SetupInv' /\ SettledInv' /\ UninstallInv'
  BY <1>2 DEF SetupInv, SettledInv, UninstallInv
<1>4. GoneInv'
  BY <1>1, <1>2, FailingStaysGone DEF GoneInv
<1> QED BY <1>1, <1>3, <1>4 DEF Inv

LEMMA EditInv == Inv /\ Edit => Inv'
<1> SUFFICES ASSUME Inv, Edit PROVE Inv'
  OBVIOUS
<1>1. /\ todo = <<>> /\ todo' = todo /\ version' = version /\ settled' = FALSE /\ gone' = gone
      /\ cut' = cut /\ flawed' = flawed
      /\ (\E a \in Upserted : EditText(a)) \/ EditScript
  BY DEF Edit
<1>2. ToSet(todo) = {} /\ Shape /\ GoneInv
  BY <1>1, ToSetEmpty DEF Inv
<1>3. SetupInv' /\ SettledInv' /\ UninstallInv'
  BY <1>1, <1>2 DEF SetupInv, SettledInv, UninstallInv
<1>4. ASSUME NEW a \in Upserted, EditText(a) PROVE Shape' /\ GoneInv'
  <2>1. PICK i \in {1, 2, Len(md[a])} \cap DOMAIN md[a] :
            md[a][i] = NL /\ md' = [md EXCEPT ![a] = WithLine(md[a], i)]
    BY <1>4 DEF EditText, WithLine
  <2>2. /\ dirs' = dirs /\ rc' = rc /\ settings' = settings /\ own' = own /\ baks' = baks
    BY <1>4 DEF EditText
  <2>3. a \in Texts /\ DOMAIN md = Texts
    BY <1>2 DEF Texts, Shape
  <2>4. DOMAIN md' = Texts /\ \A b \in Texts : b # a => md'[b] = md[b]
    BY <2>1, <2>3
  <2>5. md'[a] = WithLine(md[a], i)
    BY <2>1, <2>3
  <2>6. a \notin cut => /\ WellFormed(md'[a]) /\ At(md'[a], 1) # "begin"
                        /\ Position(md[a], "begin") = 0 => Position(md'[a], "begin") = 0
    <3> SUFFICES ASSUME a \notin cut
                 PROVE  /\ WellFormed(md'[a]) /\ At(md'[a], 1) # "begin"
                        /\ Position(md[a], "begin") = 0 => Position(md'[a], "begin") = 0
      OBVIOUS
    <3>1. WellFormed(md[a]) /\ At(md[a], 1) # "begin"
      BY <1>2, <2>3 DEF Shape, STypeOK
    <3>2. i \in 1 .. Len(md[a]) /\ i \in {1, 2, Len(md[a])} /\ md[a][i] = NL
      BY <2>1, <3>1 DEF WellFormed
    <3> QED BY <2>5, <3>1, <3>2, WithLineKeeps
  <2>7. STypeOK'
    <3>1. \A b \in DOMAIN md' \ cut' : WellFormed(md'[b])
      BY <1>1, <1>2, <2>3, <2>4, <2>6 DEF Shape, STypeOK
    <3> QED BY <1>1, <1>2, <2>2, <2>3, <2>4, <3>1 DEF Shape, STypeOK
  <2>8. \A b \in Upserted \ cut' : At(md'[b], 1) # "begin"
    <3>1. Upserted \subseteq Texts
      BY DEF Texts
    <3> QED BY <1>1, <1>2, <2>4, <2>6, <3>1 DEF Shape
  <2>9. Shape'
    BY <1>1, <1>2, <2>2, <2>4, <2>7, <2>8 DEF Shape
  <2>10. NoBlock => NoBlock'
    <3>1. "claude" \in Texts
      BY DEF Texts, Upserted
    <3> QED BY <1>1, <2>4, <2>6, <3>1 DEF NoBlock
  <2> QED BY <1>1, <1>2, <2>2, <2>9, <2>10 DEF GoneInv, NoScripts, NoHooks
<1>5. ASSUME EditScript PROVE Shape' /\ GoneInv'
  <2>1. /\ dirs' = dirs /\ rc' = rc /\ settings' = settings /\ baks' = baks /\ md' = md
        /\ \E f \in Scripts : own' = [own EXCEPT ![f] = User]
    BY <1>5 DEF EditScript
  <2>2. own \in [OwnFiles -> {User, Missing, Torn} \cup Versions] /\ Scripts \subseteq OwnFiles
    BY <1>2 DEF Shape, STypeOK, OwnFiles
  <2>3. own' \in [OwnFiles -> {User, Missing, Torn} \cup Versions]
    BY <2>1, <2>2
  <2>4. NoScripts => NoScripts'
    BY <2>1, <2>2 DEF NoScripts
  <2>5. Shape'
    BY <1>1, <1>2, <2>1, <2>3 DEF Shape, STypeOK
  <2> QED BY <1>1, <1>2, <2>1, <2>4, <2>5 DEF GoneInv, NoBlock, NoHooks
<1> QED BY <1>1, <1>3, <1>4, <1>5 DEF Inv

LEMMA NextInv == Inv /\ [Next]_vars => Inv'
<1> SUFFICES ASSUME Inv, [Next]_vars PROVE Inv'
  OBVIOUS
<1>1. CASE UNCHANGED vars
  BY <1>1 DEF vars, files, Inv, Shape, STypeOK, SetupInv, SettledInv, UninstallInv, GoneInv,
              SetupDone, RuleDone, UninstallDone, NoBlock, NoScripts, NoHooks
<1>2. CASE Setup \/ Update
  BY <1>2, SetupBeginsInv
<1>3. CASE SetupDry \/ \E a \in Targets, ctx \in Contexts : Install(a, ctx)
  BY <1>3, InstallBeginsInv
<1>4. CASE UninstallAll \/ \E a \in Targets : Uninstall(a)
  BY <1>4, UninstallBeginsInv
<1>5. CASE Step
  BY <1>5, StepInv
<1>6. CASE StepFails \/ Die
  BY <1>6, StepFailsInv, DieInv
<1>7. CASE Edit
  BY <1>7, EditInv
<1> QED BY <1>1, <1>2, <1>3, <1>4, <1>5, <1>6, <1>7 DEF Next

LEMMA InvHolds == Spec => []Inv
  BY InitInv, NextInv, PTL DEF Spec


---------------------------------------------------------------------------
(* The theorems *)

\* Every text that `ig uninstall` has not cut holds one whole block of ig's, or none and
\* at most one section of an older ig, after whatever commands, edits and deaths: the
\* markers upsert_managed_block and strip_managed_block look for never come apart.
THEOREM SetupTypeCorrect == Spec => []STypeOK
<1>1. Inv => STypeOK
  BY DEF Inv, Shape
<1> QED BY <1>1, InvHolds, PTL

\* No step of a command takes away or reorders what users wrote around ig's block
\* (upsert_managed_block, strip_managed_block), the hooks of theirs that hold no word ig
\* looks for (ensure_hook_registered and the retain loops), or a rule file that ig writes
\* only where there is none; install_hook_file renames their scripts. A step that fails, and
\* a death, lose at most the file that is being written: what is in the others stays.
THEOREM KeepsWhatIsTheUsersHolds == Spec => KeepsWhatIsTheUsers
<1> DEFINE Texts_ == \A a \in DOMAIN md \ cut' :
                        \/ UsersText(md'[a]) = UsersText(md[a])
                        \/ Failing /\ Head(todo).do \in RuleSteps /\ Head(todo).file = a
           Hooks_ == \/ Unmarked(settings'.hooks) = Unmarked(settings.hooks)
                     \/ Failing /\ Head(todo).do \in SettingsSteps
           Scripts_ == \A f \in Scripts :
                 own[f] = User /\ Head(todo).do # "remove" =>
                    own'[f] = User \/ f \in baks' \/ (Failing /\ Head(todo).do = "scripts")
           Once_ == \A f \in Once : own[f] = User /\ Head(todo).do # "remove" => own'[f] = User
<1>1. Inv /\ [Next]_vars => [todo # <<>> => Texts_ /\ Hooks_ /\ Scripts_ /\ Once_]_vars
  <2> SUFFICES ASSUME Inv, Next, todo # <<>> PROVE Texts_ /\ Hooks_ /\ Scripts_ /\ Once_
    OBVIOUS
  <2>1. Step \/ StepFails \/ Die
    BY DEF Next, Setup, SetupDry, Update, UninstallAll, Uninstall, Install, Begin, Edit
  <2>2. CASE Step
    <3>1. /\ \A a \in Texts \ cut' : RuleStep(Head(todo), a)
          /\ OwnStep(Head(todo)) /\ SettingsStep(Head(todo)) /\ DOMAIN md = Texts
      BY <2>2, ShapeStep DEF Inv, Shape
    <3> QED BY <3>1 DEF RuleStep, OwnStep, SettingsStep
  <2>3. CASE StepFails \/ Die
    <3>1. FailedStep(Head(todo)) /\ cut' = cut /\ DOMAIN md = Texts
      BY <2>3, FailingShape DEF Inv, Shape
    <3>2. Failing
      BY <2>3 DEF Failing
    <3>3. Script.do = "scripts"
      BY DEF Script, Do
    <3> QED BY <3>1, <3>2, <3>3 DEF FailedStep
  <2> QED BY <2>1, <2>2, <2>3
<1> QED BY <1>1, InvHolds, PTL DEF Spec, KeepsWhatIsTheUsers

\* After `ig setup --agent claude --uninstall` ran to its end without a failing step, no
\* step of anything but an installation, failing or not, brings ig's block, one of its three
\* scripts or a hook that one of the modelled versions ships back for Claude to run.
THEOREM UninstalledIsGoneHolds == Spec => []UninstalledIsGone
<1>1. Inv => UninstalledIsGone
  <2> SUFFICES ASSUME NoBlock, NoScripts, NoHooks
               PROVE  /\ "claude" \notin cut => Position(md["claude"], "begin") = 0
                      /\ \A f \in Scripts : own[f] \in {Missing, User}
                      /\ settings.parses =>
                           \A v \in Versions : ToSet(Shipped(v)) \cap ToSet(settings.hooks) = {}
    BY DEF Inv, GoneInv, UninstalledIsGone
  <2>1. settings.parses =>
            \A v \in Versions : ToSet(Shipped(v)) \cap ToSet(settings.hooks) = {}
    BY PrunedHasNoHook DEF NoHooks
  <2> QED BY <2>1 DEF NoBlock, NoScripts
<1> QED BY <1>1, InvHolds, PTL

\* What is true of a rule file and of Claude's settings when an undisturbed `ig setup` has
\* ended.
LEMMA SettledIs ==
    ASSUME Inv, settled
    PROVE  /\ version \in Versions /\ version \in DOMAIN Body
           /\ \A a \in (Upserted \cap dirs) \ cut : Current(md[a], version)
           /\ \A a \in (AppendedTo \cap dirs) \ cut : Position(md[a], "tools") > 0
           /\ Hooked(rc, version) /\ settings.hooks \in Seq(Hooks)
           /\ "claude" \in dirs =>
                /\ settings.parses => settings.perm /\ HooksCurrent(settings.hooks, version)
                /\ olds = {} /\ \A f \in Scripts : own[f] = version
<1>1. /\ \A a \in Texts \cap dirs : RuleDone(a)
      /\ "claude" \in dirs =>
           /\ settings.parses => settings.perm
           /\ settings.parses => HooksCurrent(settings.hooks, version)
           /\ olds = {} /\ \A f \in Scripts : own[f] = version
  BY DEF Inv, SettledInv, SetupDone
<1>2. /\ version \in Versions /\ version \in DOMAIN Body /\ settings.hooks \in Seq(Hooks)
      /\ Hooked(rc, version)
  BY VersionsAre DEF Inv, Shape, STypeOK, SettledInv
<1>3. Upserted \subseteq Texts /\ AppendedTo \subseteq Texts /\ Upserted \cap AppendedTo = {}
  BY DEF Texts, Upserted, AppendedTo
<1>4. \A a \in (Upserted \cap dirs) \ cut : Current(md[a], version)
  BY <1>1, <1>3 DEF RuleDone
<1>5. \A a \in (AppendedTo \cap dirs) \ cut : Position(md[a], "tools") > 0
  BY <1>1, <1>3 DEF RuleDone
<1> QED BY <1>1, <1>2, <1>4, <1>5

\* When `ig setup` has ended undisturbed, no step of it having failed, Claude's and Codex's rules hold this version's
\* block once and no other, and each hook this version ships is what runs under its
\* matcher, whatever users and older versions of ig had put there.
THEOREM SetupIsCurrentHolds == Spec => []SetupIsCurrent
<1>1. Inv => SetupIsCurrent
  <2> SUFFICES ASSUME Inv, settled
               PROVE  /\ \A a \in (Upserted \cap dirs) \ cut :
                           /\ \E i \in 1 .. Len(md[a]) - 7 :
                                 SubSeq(md[a], i, i + 7) = Block(version) \o <<NL>>
                           /\ Cardinality({i \in DOMAIN md[a] :
                                 md[a][i] \in {"tools", "old", "begin"}
                                 \/ md[a][i] \in {Body[v] : v \in Versions}}) = 3
                      /\ settings.parses /\ "claude" \in dirs =>
                           /\ ToSet(Shipped(version)) \subseteq ToSet(settings.hooks)
                           /\ settings.perm
                           /\ \A i \in DOMAIN settings.hooks : settings.hooks[i].mark \notin OldMarks
                      /\ "claude" \in dirs => Drifted = {} /\ olds = {}
    BY DEF SetupIsCurrent
  <2>1. ASSUME NEW a \in (Upserted \cap dirs) \ cut
        PROVE  /\ \E i \in 1 .. Len(md[a]) - 7 :
                     SubSeq(md[a], i, i + 7) = Block(version) \o <<NL>>
               /\ Cardinality({i \in DOMAIN md[a] :
                     md[a][i] \in {"tools", "old", "begin"}
                     \/ md[a][i] \in {Body[v] : v \in Versions}}) = 3
    <3>1. PICK p, q \in Seq(Tokens) : IsCurrent(md[a], p, version, q)
      BY <2>1, SettledIs DEF Current
    <3>2. \E i \in 1 .. Len(md[a]) - 7 : SubSeq(md[a], i, i + 7) = Block(version) \o <<NL>>
      BY <3>1, CurrentHasTheBlock
    <3>3. IsBlocked(md[a], p, version, q)
      BY <3>1 DEF IsCurrent
    <3>4. Cardinality({i \in DOMAIN md[a] : md[a][i] \in {"tools", "old", "begin"}
                            \/ md[a][i] \in {Body[u] : u \in DOMAIN Body}}) = 3
      BY <3>3, BlockedHasOneBlock
    <3> QED BY <3>2, <3>4, VersionsAre
  <2>2. ASSUME settings.parses, "claude" \in dirs
        PROVE  /\ ToSet(Shipped(version)) \subseteq ToSet(settings.hooks) /\ settings.perm
               /\ \A i \in DOMAIN settings.hooks : settings.hooks[i].mark \notin OldMarks
    BY <2>2, SettledIs, HooksSettle
  <2>3. "claude" \in dirs => Drifted = {} /\ olds = {}
    BY SettledIs DEF Drifted
  <2> QED BY <2>1, <2>2, <2>3
<1> QED BY <1>1, InvHolds, PTL

\* And a second `ig setup` of that version changes nothing but the line end that an
\* uninstall took before the block, a third one nothing at all: run after run, the
\* texts, the hook list and the start-up file stop growing.
THEOREM SetupSettlesHolds == Spec => []SetupSettles
<1>1. Inv => SetupSettles
  <2> SUFFICES ASSUME Inv, settled
               PROVE  /\ \A a \in (Upserted \cap dirs) \ cut :
                           LET again == UpsertTitled(md[a], version, Titles[a])
                           IN  /\ again = Unjoined(md[a])
                               /\ UpsertTitled(again, version, Titles[a]) = again
                      /\ \A a \in (AppendedTo \cap dirs) \ cut : AppendOnce(md[a], version) = md[a]
                      /\ InstallShellHook(rc, version) = rc
                      /\ settings.parses /\ "claude" \in dirs =>
                              RegisterAll(settings.hooks, version) = settings.hooks
    BY DEF SetupSettles
  <2>1. ASSUME NEW a \in (Upserted \cap dirs) \ cut
        PROVE  /\ UpsertTitled(md[a], version, Titles[a]) = Unjoined(md[a])
               /\ UpsertTitled(Unjoined(md[a]), version, Titles[a]) = Unjoined(md[a])
    <3>1. PICK p, q \in Seq(Tokens) : IsCurrent(md[a], p, version, q)
      BY <2>1, SettledIs DEF Current
    <3> QED BY <3>1, CurrentSettles
  <2>2. \A a \in (AppendedTo \cap dirs) \ cut : AppendOnce(md[a], version) = md[a]
    BY SettledIs DEF AppendOnce
  <2>3. InstallShellHook(rc, version) = rc
    BY SettledIs, HookedSettles DEF Hooked
  <2>4. ASSUME settings.parses, "claude" \in dirs
        PROVE  RegisterAll(settings.hooks, version) = settings.hooks
    BY <2>4, SettledIs, HooksSettle
  <2> QED BY <2>1, <2>2, <2>3, <2>4
<1> QED BY <1>1, InvHolds, PTL
=============================================================================
