------------------------- MODULE TaskHistoryProofs -------------------------
(***************************************************************************)
(* The anomaly check flags no task that does what it did, for every length *)
(* of the ring and every usage: although avg_history() is called with the  *)
(* index for the length, what it averages are samples of the last          *)
(* HISTORY_LEN cycles, and a usage within 60% of each of them is within    *)
(* 60% of their average.                                                   *)
(***************************************************************************)
EXTENDS TaskHistory, FiniteSetTheorems, SequenceTheorems, WellFoundedInduction, TLAPS

-----------------------------------------------------------------------------
(***************************************************************************)
(* The inductive invariant: which of the recent samples each slot holds,   *)
(* in the first round and after.                                           *)
(***************************************************************************)
RingIsRecent ==
  /\ ~history_filled => Len(recent) = history_index
  /\ history_filled => Len(recent) = HISTORY_LEN
  /\ \A s \in Samples :
       /\ s < history_index => cpu_history[s] = recent[Len(recent) - history_index + s + 1]
       /\ history_filled /\ s >= history_index => cpu_history[s] = recent[s - history_index + 1]

IInv == TypeOK /\ recent \in Seq(Usages) /\ RingIsRecent

LEMMA Limits == HISTORY_LEN \in Nat /\ HISTORY_LEN >= 2 /\ 0 \in Samples
<1>1. HISTORY_LEN \in Nat /\ HISTORY_LEN >= 2
  BY TaskHistoryAssumption, SMT
<1> QED BY <1>1, SMT DEF Samples

LEMMA SequenceType ==
  ASSUME NEW s \in Seq(Usages), Len(s) <= HISTORY_LEN
  PROVE  s \in UNION {[1 .. n -> Usages] : n \in 0 .. HISTORY_LEN}
<1>1. s \in [1 .. Len(s) -> Usages] /\ Len(s) \in 0 .. HISTORY_LEN
  BY Limits, SMT
<1> QED BY <1>1

LEMMA InitIInv == Init => IInv
<1> SUFFICES ASSUME Init PROVE IInv
  OBVIOUS
<1>1. recent \in Seq(Usages) /\ Len(recent) = 0
  BY SMT DEF Init
<1>2. recent \in UNION {[1 .. n -> Usages] : n \in 0 .. HISTORY_LEN}
  BY <1>1, SequenceType, Limits
<1>3. 0 \in 0 .. HISTORY_LEN
  BY Limits, SMT
<1>4. TypeOK
  BY <1>2, <1>3, Limits DEF Init, TypeOK, Average
<1>5. RingIsRecent
  BY <1>1, SMT DEF Init, RingIsRecent, Samples
<1> QED BY <1>1, <1>4, <1>5 DEF IInv

\* The index moves on by one, or back to slot 0.
LEMMA Advance ==
  ASSUME IInv
  PROVE  /\ NextIndex \in Samples
         /\ history_index + 1 < HISTORY_LEN => NextIndex = history_index + 1
         /\ history_index + 1 = HISTORY_LEN => NextIndex = 0
         /\ history_index + 1 <= HISTORY_LEN
<1>1. history_index \in 0 .. HISTORY_LEN - 1
  BY DEF IInv, TypeOK, Samples
<1>2. /\ NextIndex \in 0 .. HISTORY_LEN - 1
      /\ history_index + 1 < HISTORY_LEN => NextIndex = history_index + 1
      /\ history_index + 1 = HISTORY_LEN => NextIndex = 0
      /\ history_index + 1 <= HISTORY_LEN
  <2>1. CASE history_index + 1 < HISTORY_LEN
    BY <1>1, <2>1, Limits, SMT DEF NextIndex
  <2>2. CASE history_index + 1 = HISTORY_LEN
    BY <1>1, <2>2, Limits, SMT DEF NextIndex
  <2> QED BY <1>1, <2>1, <2>2, Limits, SMT
<1> QED BY <1>2 DEF Samples

\* One sample more: it comes last, the others stay or move up by one.
Slid(new, old, usage) ==
  /\ new \in Seq(Usages)
  /\ new[Len(new)] = usage
  /\ Len(old) < HISTORY_LEN =>
       /\ Len(new) = Len(old) + 1
       /\ \A i \in 1 .. Len(old) : new[i] = old[i]
  /\ Len(old) = HISTORY_LEN =>
       /\ Len(new) = HISTORY_LEN
       /\ \A i \in 1 .. HISTORY_LEN - 1 : new[i] = old[i + 1]

LEMMA RecentSlides ==
  ASSUME NEW old \in Seq(Usages), NEW usage \in Usages, Len(old) <= HISTORY_LEN
  PROVE  Slid(Append(IF Len(old) < HISTORY_LEN THEN old ELSE Tail(old), usage), old, usage)
<1>1. CASE Len(old) < HISTORY_LEN
  BY <1>1, Limits, SMT DEF Slid
<1>2. CASE ~(Len(old) < HISTORY_LEN)
  <2>1. Len(old) = HISTORY_LEN /\ HISTORY_LEN \in Nat /\ HISTORY_LEN >= 2
    BY <1>2, Limits, SMT
  <2>2. /\ Tail(old) \in Seq(Usages) /\ Len(Tail(old)) = HISTORY_LEN - 1
        /\ \A i \in 1 .. HISTORY_LEN - 1 : Tail(old)[i] = old[i + 1]
    BY <2>1, SMT
  <2> DEFINE t == Tail(old)
  <2> HIDE DEF t
  <2>3. /\ t \in Seq(Usages) /\ Len(t) = HISTORY_LEN - 1
        /\ \A i \in 1 .. HISTORY_LEN - 1 : t[i] = old[i + 1]
    BY <2>2 DEF t
  <2>4. /\ Append(t, usage) \in Seq(Usages) /\ Len(Append(t, usage)) = HISTORY_LEN
        /\ Append(t, usage)[HISTORY_LEN] = usage
        /\ \A i \in 1 .. HISTORY_LEN - 1 : Append(t, usage)[i] = t[i]
    BY <2>1, <2>3, SMT
  <2>5. Slid(Append(t, usage), old, usage)
    BY <2>1, <2>3, <2>4 DEF Slid
  <2> QED BY <1>2, <2>5 DEF t
<1> QED BY <1>1, <1>2

-----------------------------------------------------------------------------
(***************************************************************************)
(* The sum of a sequence.  FoldSeq is defined over the sets of indices, by *)
(* recursion on an element of each.                                        *)
(***************************************************************************)
One(K) == CHOOSE k \in K : TRUE

IsSum(g, s) ==
  g = [K \in SUBSET DOMAIN s |-> IF K = {} THEN 0 ELSE s[One(K)] + g[K \ {One(K)}]]

\* What the fold unfolds to.
LEMMA SumOfDef ==
  ASSUME NEW s
  PROVE  SumOf(s) = (CHOOSE g : IsSum(g, s))[DOMAIN s]
BY DEF SumOf, IsSum, One, FoldSeq, FoldFunction, FoldFunctionOnSet, MapThenFoldSet

\* The percentages in a sequence of them.
LEMMA ElementType ==
  ASSUME NEW S, NEW s \in Seq(S), NEW k \in DOMAIN s
  PROVE  s[k] \in S
OBVIOUS

LEMMA Percentage ==
  ASSUME NEW s \in Seq(0 .. 100), NEW k \in DOMAIN s
  PROVE  s[k] \in Nat /\ s[k] <= 100
<1>1. s[k] \in 0 .. 100
  BY ElementType
<1> DEFINE v == s[k]
<1>2. v \in 0 .. 100
  BY <1>1
<1> HIDE DEF v
<1>3. v \in Nat /\ v <= 100
  BY <1>2, SMT
<1> QED BY <1>3 DEF v

\* s[k] things for every k in K: their number is the sum.
Things(s, K) == {z \in K \X Nat : z[2] < s[z[1]]}

LEMMA ThingsFinite ==
  ASSUME NEW s \in Seq(0 .. 100), NEW K \in SUBSET DOMAIN s
  PROVE  IsFiniteSet(Things(s, K))
<1>1. IsFiniteSet(DOMAIN s) /\ IsFiniteSet(0 .. 100)
  <2>1. DOMAIN s = 1 .. Len(s) /\ Len(s) \in Int
    BY LenProperties
  <2>2. \A n \in Int : IsFiniteSet(1 .. n) /\ IsFiniteSet(0 .. n)
    BY FS_Interval
  <2>3. 100 \in Int
    OBVIOUS
  <2> QED BY <2>1, <2>2, <2>3
<1>2. IsFiniteSet((DOMAIN s) \X (0 .. 100))
  BY <1>1, FS_Product
<1>3. Things(s, K) \subseteq (DOMAIN s) \X (0 .. 100)
  <2> SUFFICES ASSUME NEW k \in K, NEW m \in Nat, m < s[k]
               PROVE  k \in DOMAIN s /\ m \in 0 .. 100
    BY DEF Things
  <2>1. k \in DOMAIN s
    OBVIOUS
  <2>2. s[k] \in Nat /\ s[k] <= 100
    BY <2>1, Percentage
  <2> DEFINE v == s[k]
  <2> HIDE DEF v
  <2>3. v \in Nat /\ v <= 100 /\ m < v
    BY <2>2 DEF v
  <2>4. m \in 0 .. 100
    BY <2>3, SMT
  <2> QED BY <2>1, <2>4
<1> QED BY <1>2, <1>3, FS_Subset

LEMMA ThingsOneMore ==
  ASSUME NEW s \in Seq(0 .. 100), NEW K \in SUBSET DOMAIN s, NEW k \in K
  PROVE  Cardinality(Things(s, K)) = s[k] + Cardinality(Things(s, K \ {k}))
<1> DEFINE w == s[k]
           B == Things(s, K \ {k})
           C == {z \in Things(s, K) : z[1] = k}
<1>1. w \in Nat
  BY Percentage
<1>2. Things(s, K) = B \cup C /\ B \cap C = {}
  BY DEF Things
<1>3. B \subseteq Things(s, K) /\ C \subseteq Things(s, K)
  BY <1>2
<1>4. IsFiniteSet(B) /\ IsFiniteSet(C)
  BY <1>3, ThingsFinite, FS_Subset
<1>5. Cardinality(C) = w
  <2> DEFINE f == [m \in 0 .. w - 1 |-> <<k, m>>]
  <2>1. C = {<<k, m>> : m \in 0 .. w - 1}
    BY <1>1 DEF Things
  <2>2. f \in Bijection(0 .. w - 1, C)
    BY <2>1 DEF Bijection, Injection, Surjection, IsInjective
  <2>3. IsFiniteSet(0 .. w - 1) /\ Cardinality(0 .. w - 1) = w
    <3>1. w - 1 \in Int /\ w \in Nat
      BY <1>1
    <3> HIDE DEF w
    <3>2. /\ IsFiniteSet(0 .. w - 1)
          /\ Cardinality(0 .. w - 1) = IF 0 > w - 1 THEN 0 ELSE w - 1 - 0 + 1
      BY <3>1, FS_Interval
    <3> QED BY <3>1, <3>2
  <2> QED BY <2>2, <2>3, FS_Bijection DEF ExistsBijection
<1>6. Cardinality(B) \in Nat /\ Cardinality(C) \in Nat /\ Cardinality(B \cap C) = 0
  BY <1>2, <1>4, FS_CardinalityType, FS_EmptySet
<1> HIDE DEF B, C, w
<1>7. Cardinality(B \cup C) = Cardinality(B) + Cardinality(C) - Cardinality(B \cap C)
  BY <1>4, FS_Union
<1>8. Cardinality(Things(s, K)) = w + Cardinality(B)
  BY <1>1, <1>2, <1>5, <1>6, <1>7
<1> QED BY <1>8 DEF B, w

\* The recursion has a solution, so the fold is one.
LEMMA SumExists ==
  ASSUME NEW s \in Seq(0 .. 100)
  PROVE  \E g : /\ SumOf(s) = g[DOMAIN s]
                /\ \A K \in SUBSET DOMAIN s :
                     g[K] = IF K = {} THEN 0 ELSE s[One(K)] + g[K \ {One(K)}]
<1> DEFINE D == DOMAIN s
           count == [K \in SUBSET D |-> Cardinality(Things(s, K))]
<1>1. Cardinality(Things(s, {})) = 0
  BY FS_EmptySet DEF Things
<1>2. ASSUME NEW K \in SUBSET D, K # {}
      PROVE  /\ One(K) \in K /\ K \ {One(K)} \in SUBSET D
             /\ Cardinality(Things(s, K)) = s[One(K)] + Cardinality(Things(s, K \ {One(K)}))
  <2>1. One(K) \in K
    BY <1>2 DEF One
  <2> QED BY <2>1, ThingsOneMore
<1>3. IsSum(count, s)
  <2>1. ASSUME NEW K \in SUBSET D
        PROVE  count[K] = IF K = {} THEN 0 ELSE s[One(K)] + count[K \ {One(K)}]
    BY <1>1, <1>2
  <2> QED BY <2>1 DEF IsSum
<1> DEFINE g == CHOOSE h : IsSum(h, s)
<1>4. IsSum(g, s)
  BY <1>3
<1>5. SumOf(s) = g[D]
  BY SumOfDef
<1> HIDE DEF g, count
<1>6. \A K \in SUBSET D : g[K] = IF K = {} THEN 0 ELSE s[One(K)] + g[K \ {One(K)}]
  BY <1>4 DEF IsSum
<1> QED BY <1>5, <1>6

\* Within 60%: the condition FarFrom denies.
Near(total, sum) == 10 * Difference(total, sum) <= 6 * sum

LEMMA NearAdds ==
  ASSUME NEW a \in Nat, NEW b \in Nat, NEW x \in Nat, NEW y \in Nat, Near(a, x), Near(b, y)
  PROVE  Near(a + b, x + y)
BY SMT DEF Near, Difference

\* A usage within 60% of every sample is, times their number, within 60% of their sum.
LEMMA SumClose ==
  ASSUME NEW s \in Seq(0 .. 100), NEW u \in Nat, \A i \in DOMAIN s : Near(u, s[i])
  PROVE  SumOf(s) \in Nat /\ Near(u * Len(s), SumOf(s))
<1> DEFINE D == DOMAIN s
<1>1. Len(s) \in Nat /\ D = 1 .. Len(s) /\ IsFiniteSet(D) /\ Cardinality(D) = Len(s)
  <2>1. Len(s) \in Nat /\ D = 1 .. Len(s)
    OBVIOUS
  <2> DEFINE n == Len(s)
  <2> HIDE DEF n
  <2>2. n \in Nat
    BY <2>1 DEF n
  <2>3. IsFiniteSet(1 .. n) /\ Cardinality(1 .. n) = IF 1 > n THEN 0 ELSE n - 1 + 1
    BY <2>2, FS_Interval
  <2>4. Cardinality(1 .. n) = n
    BY <2>2, <2>3, SMT
  <2> QED BY <2>1, <2>3, <2>4 DEF n
<1>2. PICK g : /\ SumOf(s) = g[D]
               /\ \A K \in SUBSET D : g[K] = IF K = {} THEN 0 ELSE s[One(K)] + g[K \ {One(K)}]
  BY SumExists
\* no smallest set of indices for which it fails
<1> DEFINE Right(K) == g[K] \in Nat /\ Near(u * Cardinality(K), g[K])
           Wrong == {K \in SUBSET D : ~Right(K)}
<1>3. Wrong = {}
  <2> SUFFICES ASSUME Wrong # {} PROVE FALSE
    OBVIOUS
  <2>1. Wrong \subseteq FiniteSubsetsOf(D)
    BY <1>1, FS_Subset DEF FiniteSubsetsOf
  <2> HIDE DEF Wrong
  <2>2. PICK K \in Wrong : \A L \in Wrong : <<L, K>> \notin StrictSubsetOrdering(D)
    BY <1>1, <2>1, FS_StrictSubsetOrderingWellFounded, WFMin
  <2>3. K \in SUBSET D /\ ~Right(K)
    BY <2>2 DEF Wrong
  <2>4. K # {}
    <3>1. g[{}] = 0 /\ Cardinality({}) = 0 /\ {} \in SUBSET D
      BY <1>2, FS_EmptySet
    <3>2. u * 0 = 0 /\ Near(0, 0) /\ 0 \in Nat
      BY SMT DEF Near, Difference
    <3>3. Right({})
      BY <3>1, <3>2
    <3> QED BY <2>3, <3>3
  <2> DEFINE k == One(K)
             L == K \ {k}
  <2>5. k \in K /\ L \in SUBSET D
    BY <2>3, <2>4 DEF One
  <2>6. L \notin Wrong
    <3>1. <<L, K>> \in StrictSubsetOrdering(D)
      BY <2>3, <2>5 DEF StrictSubsetOrdering
    <3> QED BY <2>2, <3>1
  <2>7. Right(L)
    BY <2>5, <2>6 DEF Wrong
  <2>8. g[K] = s[k] + g[L]
    BY <1>2, <2>3, <2>4
  <2>9. /\ Cardinality(L) = Cardinality(K) - 1
        /\ Cardinality(K) \in Nat /\ Cardinality(L) \in Nat
    <3>1. IsFiniteSet(K) /\ IsFiniteSet(L)
      BY <1>1, <2>3, <2>5, FS_Subset
    <3> QED BY <2>5, <3>1, FS_RemoveElement, FS_CardinalityType
  <2>10. s[k] \in Nat /\ Near(u, s[k])
    <3>1. k \in DOMAIN s
      BY <2>3, <2>5
    <3> QED BY <3>1, Percentage
  <2> HIDE DEF k, L
  <2>11. u * Cardinality(K) = u + (u * Cardinality(L)) /\ u * Cardinality(L) \in Nat
    BY <2>9, SMT
  <2>12. Near(u + (u * Cardinality(L)), s[k] + g[L])
    BY <2>7, <2>10, <2>11, NearAdds
  <2>13. s[k] + g[L] \in Nat
    BY <2>7, <2>10, SMT
  <2> QED BY <2>3, <2>8, <2>11, <2>12, <2>13
<1>4. Right(D)
  BY <1>3
<1> QED BY <1>1, <1>2, <1>4

-----------------------------------------------------------------------------
(* The step.                                                               *)

LEMMA Parts ==
  ASSUME IInv, NEW usage \in Usages, Sense(usage)
  PROVE  /\ HISTORY_LEN \in Nat /\ HISTORY_LEN >= 2
         /\ history_index \in Nat /\ history_index < HISTORY_LEN
         /\ history_filled \in BOOLEAN /\ recent \in Seq(Usages)
         /\ Len(recent) \in Nat /\ Len(recent) <= HISTORY_LEN
         /\ Slid(recent', recent, usage)
         /\ history_index' = NextIndex
         /\ history_filled' = (history_filled \/ history_index' = 0)
         /\ cpu_history'[history_index] = usage
         /\ \A s \in Samples : s # history_index => cpu_history'[s] = cpu_history[s]
<1>1. history_index \in 0 .. HISTORY_LEN - 1 /\ history_index \in Samples
  BY DEF IInv, TypeOK, Samples
<1>2. history_index \in Nat /\ history_index < HISTORY_LEN
  BY <1>1, Limits, SMT
<1>3. recent \in Seq(Usages) /\ Len(recent) \in Nat /\ history_filled \in BOOLEAN
  BY DEF IInv, TypeOK
<1>4. Len(recent) <= HISTORY_LEN
  <2>1. Len(recent) = history_index \/ Len(recent) = HISTORY_LEN
    BY <1>3 DEF IInv, RingIsRecent
  <2> QED BY <1>2, <2>1, Limits, SMT
<1>5. Slid(recent', recent, usage)
  BY <1>3, <1>4, RecentSlides DEF Sense
<1>6. /\ cpu_history'[history_index] = usage
      /\ \A s \in Samples : s # history_index => cpu_history'[s] = cpu_history[s]
  BY <1>1 DEF Sense, IInv, TypeOK
<1> QED BY <1>2, <1>3, <1>4, <1>5, <1>6, Limits DEF Sense

\* The first round.
LEMMA FirstRound ==
  ASSUME IInv, NEW usage \in Usages, Sense(usage), ~history_filled
  PROVE  RingIsRecent'
<1> DEFINE i == history_index
           j == history_index'
           n == Len(recent)
<1>1. n = i /\ \A s \in Samples : s < i => cpu_history[s] = recent[n - i + s + 1]
  BY DEF IInv, RingIsRecent
<1>2. /\ HISTORY_LEN \in Nat /\ HISTORY_LEN >= 2 /\ i \in Nat /\ i < HISTORY_LEN
      /\ j = NextIndex
      /\ history_filled' = (j = 0)
      /\ cpu_history'[i] = usage
      /\ \A s \in Samples : s # i => cpu_history'[s] = cpu_history[s]
      /\ Slid(recent', recent, usage)
  BY Parts
<1>3. /\ Len(recent') = i + 1 /\ recent'[i + 1] = usage
      /\ \A m \in 1 .. i : recent'[m] = recent[m]
  BY <1>1, <1>2 DEF Slid
<1>4. /\ i + 1 < HISTORY_LEN => j = i + 1
      /\ i + 1 = HISTORY_LEN => j = 0
  BY <1>2, Advance
<1> HIDE DEF i, j, n
<1>5. ASSUME NEW s \in Samples, s <= i PROVE cpu_history'[s] = recent'[s + 1]
  <2>1. s \in Nat
    BY Limits, SMT DEF Samples
  <2>2. CASE s = i
    BY <1>2, <1>3, <2>2
  <2>3. CASE s # i
    <3>1. s < i /\ s + 1 \in 1 .. i /\ n - i + s + 1 = s + 1
      BY <1>1, <1>2, <1>5, <2>1, <2>3, SMT
    <3> QED BY <1>1, <1>2, <1>3, <2>3, <3>1
  <2> QED BY <2>2, <2>3
<1>6. CASE i + 1 < HISTORY_LEN
  <2>0. j = i + 1 /\ j # 0
    BY <1>2, <1>4, <1>6, SMT
  <2>1. j = i + 1 /\ j # 0 /\ ~history_filled' /\ Len(recent') = j
    BY <1>2, <1>3, <2>0
  <2>2. ASSUME NEW s \in Samples, s < j
        PROVE  cpu_history'[s] = recent'[Len(recent') - j + s + 1]
    <3>1. s <= i /\ Len(recent') - j + s + 1 = s + 1
      BY <1>2, <2>1, <2>2, Limits, SMT DEF Samples
    <3> QED BY <1>5, <3>1
  <2> QED BY <2>1, <2>2 DEF RingIsRecent, j
<1>7. CASE i + 1 = HISTORY_LEN
  <2>1. j = 0 /\ history_filled' /\ Len(recent') = HISTORY_LEN
    BY <1>2, <1>3, <1>4, <1>7
  <2>2. ASSUME NEW s \in Samples
        PROVE  ~(s < j) /\ cpu_history'[s] = recent'[s - j + 1]
    <3>1. s <= i /\ s - j + 1 = s + 1 /\ ~(s < j)
      BY <1>2, <1>7, <2>1, Limits, SMT DEF Samples
    <3> QED BY <1>5, <3>1
  <2> QED BY <2>1, <2>2 DEF RingIsRecent, j
<1> QED BY <1>2, <1>6, <1>7, SMT

\* The rounds after it.
LEMMA LaterRounds ==
  ASSUME IInv, NEW usage \in Usages, Sense(usage), history_filled
  PROVE  RingIsRecent'
<1> DEFINE i == history_index
           j == history_index'
           N == HISTORY_LEN
<1>1. /\ Len(recent) = N
      /\ \A s \in Samples : /\ s < i => cpu_history[s] = recent[N - i + s + 1]
                            /\ s >= i => cpu_history[s] = recent[s - i + 1]
  BY DEF IInv, RingIsRecent
<1>2. /\ N \in Nat /\ N >= 2 /\ i \in Nat /\ i < N
      /\ j = NextIndex
      /\ history_filled'
      /\ cpu_history'[i] = usage
      /\ \A s \in Samples : s # i => cpu_history'[s] = cpu_history[s]
      /\ Slid(recent', recent, usage)
  BY Parts
<1>3. /\ Len(recent') = N /\ recent'[N] = usage
      /\ \A m \in 1 .. N - 1 : recent'[m] = recent[m + 1]
  BY <1>1, <1>2 DEF Slid
<1>4. /\ i + 1 < N => j = i + 1
      /\ i + 1 = N => j = 0
  BY <1>2, Advance
<1>5. \A s \in Samples : s \in Nat /\ s < N
  BY Limits, SMT DEF Samples
<1> HIDE DEF i, j, N
<1>6. ASSUME NEW s \in Samples, s < i
      PROVE  cpu_history'[s] = recent'[N - i + s]
  <2>1. N - i + s \in 1 .. N - 1 /\ (N - i + s) + 1 = N - i + s + 1 /\ s # i
    BY <1>2, <1>5, <1>6, SMT
  <2>2. recent'[N - i + s] = recent[N - i + s + 1]
    BY <1>3, <2>1
  <2> QED BY <1>1, <1>2, <1>6, <2>1, <2>2
<1>7. ASSUME NEW s \in Samples, s > i
      PROVE  cpu_history'[s] = recent'[s - i]
  <2>1. s - i \in 1 .. N - 1 /\ (s - i) + 1 = s - i + 1 /\ s # i /\ s >= i
    BY <1>2, <1>5, <1>7, SMT
  <2>2. recent'[s - i] = recent[s - i + 1]
    BY <1>3, <2>1
  <2> QED BY <1>1, <1>2, <2>1, <2>2
<1>8. ASSUME NEW s \in Samples
      PROVE  /\ s < j => cpu_history'[s] = recent'[N - j + s + 1]
             /\ s >= j => cpu_history'[s] = recent'[s - j + 1]
  <2>1. CASE i + 1 < N
    <3>1. j = i + 1
      BY <1>4, <2>1
    <3>2. CASE s < i
      <4>1. ~(s >= j) /\ N - j + s + 1 = N - i + s
        BY <1>2, <1>5, <3>1, <3>2, SMT
      <4> QED BY <1>6, <3>2, <4>1
    <3>3. CASE s = i
      <4>1. ~(s >= j) /\ N - j + s + 1 = N
        BY <1>2, <1>5, <3>1, <3>3, SMT
      <4> QED BY <1>2, <1>3, <3>3, <4>1
    <3>4. CASE s > i
      <4>1. ~(s < j) /\ s - j + 1 = s - i
        BY <1>2, <1>5, <3>1, <3>4, SMT
      <4> QED BY <1>7, <3>4, <4>1
    <3> QED BY <1>2, <1>5, <3>2, <3>3, <3>4, SMT
  <2>2. CASE i + 1 = N
    <3>1. j = 0
      BY <1>4, <2>2
    <3>2. CASE s < i
      <4>1. ~(s < j) /\ s - j + 1 = N - i + s
        BY <1>2, <1>5, <2>2, <3>1, <3>2, SMT
      <4> QED BY <1>6, <3>2, <4>1
    <3>3. CASE s = i
      <4>1. ~(s < j) /\ s - j + 1 = N
        BY <1>2, <1>5, <2>2, <3>1, <3>3, SMT
      <4> QED BY <1>2, <1>3, <3>3, <4>1
    <3> QED BY <1>2, <1>5, <2>2, <3>2, <3>3, SMT
  <2> QED BY <1>2, <2>1, <2>2, SMT
<1>9. Len(recent') - j = N - j
  BY <1>3
<1> QED BY <1>2, <1>3, <1>8, <1>9 DEF RingIsRecent, j, N

\* What the average is one of.
LEMMA ComparedType == IInv => Compared.count \in 0 .. HISTORY_LEN
<1> SUFFICES ASSUME IInv PROVE Compared.count \in 0 .. HISTORY_LEN
  OBVIOUS
<1>1. history_index \in 0 .. HISTORY_LEN - 1
  BY DEF IInv, TypeOK, Samples
<1>2. history_index \in 0 .. HISTORY_LEN /\ 0 \in 0 .. HISTORY_LEN
  BY <1>1, Limits, SMT
<1>3. Compared.count = IF history_filled THEN history_index ELSE 0
  BY DEF Compared, avg_history, Average
<1> QED BY <1>2, <1>3

LEMMA NextIInv == IInv /\ [Next]_vars => IInv'
<1> SUFFICES ASSUME IInv, [Next]_vars PROVE IInv'
  OBVIOUS
<1>1. CASE UNCHANGED vars
  BY <1>1 DEF vars, IInv, TypeOK, RingIsRecent
<1>2. ASSUME NEW usage \in Usages, Sense(usage) PROVE IInv'
  <2>1. RingIsRecent'
    BY <1>2, FirstRound, LaterRounds
  <2>2. recent' \in Seq(Usages) /\ Len(recent') <= HISTORY_LEN
    <3>1. /\ Slid(recent', recent, usage) /\ HISTORY_LEN \in Nat
          /\ Len(recent) \in Nat /\ Len(recent) <= HISTORY_LEN
      BY <1>2, Parts
    <3>2. recent' \in Seq(Usages)
      BY <3>1 DEF Slid
    <3>3. /\ Len(recent) < HISTORY_LEN => Len(recent') = Len(recent) + 1
          /\ Len(recent) = HISTORY_LEN => Len(recent') = HISTORY_LEN
      BY <3>1 DEF Slid
    <3> QED BY <3>1, <3>2, <3>3, SMT
  <2>3. history_index' \in Samples /\ history_filled' \in BOOLEAN /\ anomaly' \in BOOLEAN
    BY <1>2, Advance DEF Sense, is_anomalous
  <2>4. average'.count \in 0 .. HISTORY_LEN
    BY <1>2, ComparedType DEF Sense
  <2>5. cpu_history' \in [Samples -> Usages \cup {0}]
    BY <1>2 DEF Sense, IInv, TypeOK
  <2>6. recent' \in UNION {[1 .. n -> Usages] : n \in 0 .. HISTORY_LEN}
    BY <2>2, SequenceType
  <2> QED BY <2>1, <2>2, <2>3, <2>4, <2>5, <2>6 DEF IInv, TypeOK
<1> QED BY <1>1, <1>2 DEF Next

LEMMA AlwaysI == Spec => []IInv
BY InitIInv, NextIInv, PTL DEF Spec

-----------------------------------------------------------------------------
(* The flag.                                                               *)

LEMMA Flagged ==
  ASSUME IInv, NEW usage \in Usages, is_anomalous(usage, Compared)
  PROVE  \E i \in 1 .. Len(recent) : FarFrom(usage, recent[i])
<1> SUFFICES ASSUME \A i \in 1 .. Len(recent) : ~FarFrom(usage, recent[i]) PROVE FALSE
  OBVIOUS
<1> DEFINE c   == history_index
           s   == [i \in 1 .. c |-> cpu_history[i - 1]]
           sum == SumOf(s)
<1>1. c \in Nat /\ c < HISTORY_LEN /\ HISTORY_LEN \in Nat
  <2>1. history_index \in 0 .. HISTORY_LEN - 1
    BY DEF IInv, TypeOK, Samples
  <2> QED BY <2>1, Limits, SMT
<1>2. history_filled /\ Compared = [sum |-> sum, count |-> c]
  <2>1. Compared.count > 0
    BY DEF is_anomalous
  <2>2. CASE ~history_filled
    <3>1. Compared.count = 0
      BY <2>2 DEF Compared, Average
    <3> QED BY <2>1, <3>1
  <2>3. CASE history_filled
    BY <2>3 DEF Compared, avg_history, Average
  <2> QED BY <2>2, <2>3
<1>3. 10 * Difference(usage * c, sum) > 6 * sum
  <2> HIDE DEF c, sum
  <2> QED BY <1>2 DEF is_anomalous
<1>4. usage \in 0 .. 100 /\ usage \in Nat /\ Usages \subseteq 0 .. 100
  <2>1. usage \in 0 .. 100 /\ Usages \subseteq 0 .. 100
    BY TaskHistoryAssumption
  <2> QED BY <2>1, SMT
<1>5. Len(recent) = HISTORY_LEN
  BY <1>2 DEF IInv, RingIsRecent
<1>6. ASSUME NEW i \in 1 .. c
      PROVE  \E m \in 1 .. Len(recent) : s[i] = recent[m]
  <2>1. /\ i - 1 \in Samples /\ i - 1 < c /\ HISTORY_LEN - c + i \in 1 .. HISTORY_LEN
        /\ HISTORY_LEN - c + (i - 1) + 1 = HISTORY_LEN - c + i
    BY <1>1, SMT DEF Samples
  <2>2. cpu_history[i - 1] = recent[Len(recent) - c + (i - 1) + 1]
    BY <2>1 DEF IInv, RingIsRecent
  <2>3. s[i] = cpu_history[i - 1]
    OBVIOUS
  <2> QED BY <1>5, <2>1, <2>2, <2>3
<1>7. /\ DOMAIN s = 1 .. c
      /\ \A i \in DOMAIN s : s[i] \in 0 .. 100
  <2>1. DOMAIN s = 1 .. c
    OBVIOUS
  <2>2. ASSUME NEW i \in 1 .. c PROVE s[i] \in 0 .. 100
    <3>1. PICK m \in 1 .. Len(recent) : s[i] = recent[m]
      BY <1>6
    <3>2. recent[m] \in Usages
      <4>1. recent \in Seq(Usages)
        BY DEF IInv
      <4>2. m \in DOMAIN recent
        BY <4>1
      <4> QED BY <4>1, <4>2, ElementType
    <3> QED BY <1>4, <3>1, <3>2
  <2> QED BY <2>1, <2>2
<1>8. s \in Seq(0 .. 100) /\ Len(s) = c
  <2>1. s = [i \in 1 .. c |-> s[i]]
    OBVIOUS
  <2> HIDE DEF s, c
  <2>2. s \in [1 .. c -> 0 .. 100]
    BY <1>7, <2>1
  <2> QED BY <1>1, <2>2
<1>9. \A i \in DOMAIN s : Near(usage, s[i])
  <2> SUFFICES ASSUME NEW i \in 1 .. c PROVE Near(usage, s[i])
    BY <1>7
  <2>1. PICK m \in 1 .. Len(recent) : s[i] = recent[m]
    BY <1>6
  <2>2. ~FarFrom(usage, s[i])
    BY <2>1
  <2>3. s[i] \in Nat
    <3>1. i \in DOMAIN s
      OBVIOUS
    <3> HIDE DEF s
    <3> QED BY <1>8, <3>1, Percentage
  <2> DEFINE v == s[i]
  <2> HIDE DEF v
  <2>4. v \in Nat /\ ~FarFrom(usage, v)
    BY <2>2, <2>3 DEF v
  <2>5. Near(usage, v)
    BY <1>4, <2>4, SMT DEF Near, FarFrom, Difference
  <2> QED BY <2>5 DEF v
<1> HIDE DEF s
<1>10. sum \in Nat /\ Near(usage * c, sum)
  BY <1>4, <1>8, <1>9, SumClose
<1> HIDE DEF sum
<1>11. usage * c \in Nat
  BY <1>1, <1>4, SMT
<1> QED BY <1>3, <1>10, <1>11, SMT DEF Near, Difference

LEMMA NextFlag ==
  IInv /\ [Next]_vars =>
    [anomaly' => \E i \in 1 .. Len(recent) : FarFrom(recent'[Len(recent')], recent[i])]_vars
<1> SUFFICES ASSUME IInv, Next, anomaly'
             PROVE  \E i \in 1 .. Len(recent) : FarFrom(recent'[Len(recent')], recent[i])
  OBVIOUS
<1>1. PICK usage \in Usages : Sense(usage)
  BY DEF Next
<1>2. is_anomalous(usage, Compared)
  BY <1>1 DEF Sense
<1>3. recent'[Len(recent')] = usage
  <2>1. Slid(recent', recent, usage)
    BY <1>1, Parts
  <2> QED BY <2>1 DEF Slid
<1> QED BY <1>2, <1>3, Flagged

-----------------------------------------------------------------------------
(* The theorems.                                                           *)

\* The ring keeps percentages, its index stays in it and an average is over no more
\* samples than it has (ai_sense, avg_history).
THEOREM TypeCorrect == Spec => []TypeOK
<1>1. IInv => TypeOK
  BY DEF IInv
<1> QED BY AlwaysI, <1>1, PTL

\* A task is called anomalous only when its usage is more than 60% off that of one of
\* the cycles before, for every length of the ring (ai_sense, is_anomalous).
THEOREM FlagsAreDeviations == Spec => FlagIsDeviation
<1>1. IInv /\ [Next]_vars =>
        [anomaly' => \E i \in 1 .. Len(recent) : FarFrom(recent'[Len(recent')], recent[i])]_vars
  BY NextFlag
<1> QED BY AlwaysI, <1>1, PTL DEF Spec, FlagIsDeviation
=============================================================================
