-------------------------- MODULE RetrievalProofs ----------------------------
(***************************************************************************)
(* Theorems about Retrieval, for every repository, every chunker whose     *)
(* output is well formed, and every set of queries and limits.  They rest  *)
(* on facts about the operators of SymbolLookup, which come first: order,  *)
(* lines, joined pieces, the tree of a symbol.                             *)
(***************************************************************************)
EXTENDS Retrieval, SequenceTheorems, FiniteSetTheorems, WellFoundedInduction, TLAPS

----------------------------------------------------------------------------
(* Induction over numbers, with the property as a set.                     *)

LEMMA UpTo0 ==
    ASSUME NEW n \in Nat, NEW P, 0 \in P, \A k \in 0 .. n - 1 : k \in P => k + 1 \in P
    PROVE  \A k \in 0 .. n : k \in P
<1> DEFINE bad == {k \in 0 .. n : k \notin P}
<1> SUFFICES ASSUME bad # {}
             PROVE  FALSE
  OBVIOUS
<1>1. bad \subseteq Nat
  OBVIOUS
<1> HIDE DEF bad
<1>2. PICK k \in bad : \A j \in bad : <<j, k>> \notin OpToRel(<, Nat)
  BY <1>1, NatLessThanWellFounded, WFMin
<1>3. k \in 0 .. n /\ k \notin P /\ k # 0
  BY <1>2 DEF bad
<1>4. k - 1 \in P
  <2>1. CASE k - 1 \in bad
    <3>1. <<k - 1, k>> \in OpToRel(<, Nat)
      BY <1>3 DEF OpToRel
    <3> QED BY <1>2, <2>1, <3>1
  <2>2. CASE k - 1 \notin bad
    BY <1>3, <2>2 DEF bad
  <2> QED BY <2>1, <2>2
<1>5. k - 1 \in 0 .. n - 1 /\ (k - 1) + 1 = k
  BY <1>3
<1> QED BY <1>3, <1>4, <1>5

\* A function on 0 .. n given by its first value and its steps.
StepsBy(f, n, base, step) ==
    f[0] = base /\ \A i \in 1 .. n : f[i] = step[<<i, f[i - 1]>>]

LEMMA StepsExist ==
    ASSUME NEW n \in Nat, NEW V, NEW base \in V, NEW step \in [(1 .. n) \X V -> V]
    PROVE  \E f \in [0 .. n -> V] : StepsBy(f, n, base, step)
<1> USE DEF StepsBy
<1> DEFINE Steps(f, k) == StepsBy(f, k, base, step)
           P == {k \in 0 .. n : \E f \in [0 .. k -> V] : Steps(f, k)}
<1>1. 0 \in P
  <2> DEFINE f == [i \in 0 .. 0 |-> base]
  <2>1. f \in [0 .. 0 -> V] /\ f[0] = base
    OBVIOUS
  <2>2. \A i \in 1 .. 0 : f[i] = step[<<i, f[i - 1]>>]
    OBVIOUS
  <2> HIDE DEF f
  <2> QED BY <2>1, <2>2
<1>2. ASSUME NEW k \in 0 .. n - 1, k \in P
      PROVE  k + 1 \in P
  <2>1. PICK f \in [0 .. k -> V] : Steps(f, k)
    BY <1>2
  <2> DEFINE g == [i \in 0 .. k + 1 |-> IF i = k + 1 THEN step[<<k + 1, f[k]>>] ELSE f[i]]
  <2>2. step[<<k + 1, f[k]>>] \in V
    BY <2>1
  <2>3. g \in [0 .. k + 1 -> V]
    BY <2>1, <2>2
  <2>4. g[0] = base
    BY <2>1
  <2>5. /\ g[k + 1] = step[<<k + 1, f[k]>>]
        /\ \A i \in 0 .. k : g[i] = f[i]
    OBVIOUS
  <2> HIDE DEF g
  <2>6. ASSUME NEW i \in 1 .. k + 1
        PROVE  g[i] = step[<<i, g[i - 1]>>]
    <3>1. i - 1 \in 0 .. k /\ g[i - 1] = f[i - 1]
      BY <2>5
    <3>2. CASE i = k + 1
      <4>1. i - 1 = k
        BY <3>2
      <4> QED BY <2>5, <3>1, <3>2, <4>1
    <3>3. CASE i # k + 1
      <4>1. i \in 1 .. k /\ i \in 0 .. k
        BY <3>3
      <4> QED BY <2>1, <2>5, <3>1, <4>1
    <3> QED BY <3>2, <3>3
  <2>7. Steps(g, k + 1)
    BY <2>4, <2>6
  <2>8. k + 1 \in 0 .. n
    OBVIOUS
  <2> HIDE DEF Steps
  <2> QED BY <2>3, <2>7, <2>8
<1> HIDE DEF P
<1>3. n \in P
  BY <1>1, <1>2, UpTo0
<1> QED BY <1>3 DEF P

----------------------------------------------------------------------------
(* Joined pieces.                                                          *)

\* What FlattenSeq has joined up to each piece.
JoinedBy(f, s) ==
    f = [i \in 1 .. Len(s) |-> IF i = 1 THEN s[i] ELSE f[i - 1] \o s[i]]

LEMMA JoinedValue ==
    ASSUME NEW s, NEW f, JoinedBy(f, s), NEW i \in 1 .. Len(s)
    PROVE  f[i] = IF i = 1 THEN s[i] ELSE f[i - 1] \o s[i]
<1>1. f = [j \in 1 .. Len(s) |-> IF j = 1 THEN s[j] ELSE f[j - 1] \o s[j]]
  BY DEF JoinedBy
<1> QED BY <1>1

LEMMA JoinedExists ==
    ASSUME NEW S, NEW s \in Seq(Seq(S))
    PROVE  \E f \in [1 .. Len(s) -> Seq(S)] : JoinedBy(f, s)
<1> DEFINE n == Len(s)
           step == [p \in (1 .. n) \X Seq(S) |-> IF p[1] = 1 THEN s[p[1]] ELSE p[2] \o s[p[1]]]
<1>1. n \in Nat /\ \A i \in 1 .. n : s[i] \in Seq(S)
  OBVIOUS
<1> HIDE DEF n
<1> DEFINE V == Seq(S)
           base == << >>
<1>2. base \in V /\ \A v \in V, i \in 1 .. n : v \o s[i] \in V
  BY <1>1
<1>3. step \in [(1 .. n) \X V -> V]
  BY <1>1, <1>2
<1> HIDE DEF step, V, base
<1>4. PICK g \in [0 .. n -> V] : StepsBy(g, n, base, step)
  BY <1>1, <1>2, <1>3, StepsExist
<1>5. \A i \in 1 .. n : g[i] = step[<<i, g[i - 1]>>]
  BY <1>4 DEF StepsBy
<1> USE DEF V
<1> DEFINE f == [i \in 1 .. n |-> g[i]]
<1>6. f \in [1 .. n -> Seq(S)]
  BY <1>4
<1>7. ASSUME NEW i \in 1 .. n
      PROVE  f[i] = IF i = 1 THEN s[i] ELSE f[i - 1] \o s[i]
  <2>1. i - 1 \in 0 .. n /\ <<i, g[i - 1]>> \in (1 .. n) \X Seq(S)
    BY <1>1, <1>4
  <2>2. g[i] = IF i = 1 THEN s[i] ELSE g[i - 1] \o s[i]
    BY <1>5, <2>1 DEF step
  <2>3. i # 1 => i - 1 \in 1 .. n
    BY <1>1
  <2> QED BY <2>2, <2>3
<1>8. JoinedBy(f, s)
  BY <1>6, <1>7 DEF JoinedBy, n
<1> QED BY <1>6, <1>8 DEF n

Agree(f, g, n) == \A i \in 1 .. n : f[i] = g[i]

LEMMA JoinedUnique ==
    ASSUME NEW s, NEW t, NEW f, NEW g, JoinedBy(f, s), JoinedBy(g, t),
           NEW n \in Nat, n <= Len(s), n <= Len(t), Len(s) \in Nat, Len(t) \in Nat,
           Agree(s, t, n)
    PROVE  Agree(f, g, n)
<1> USE DEF Agree
<1> DEFINE P == {i \in 0 .. n : i = 0 \/ f[i] = g[i]}
<1>1. 0 \in P
  OBVIOUS
<1>2. ASSUME NEW k \in 0 .. n - 1, k \in P
      PROVE  k + 1 \in P
  <2>1. k + 1 \in 1 .. Len(s) /\ k + 1 \in 1 .. Len(t)
    OBVIOUS
  <2>2. /\ f[k + 1] = IF k + 1 = 1 THEN s[k + 1] ELSE f[(k + 1) - 1] \o s[k + 1]
        /\ g[k + 1] = IF k + 1 = 1 THEN t[k + 1] ELSE g[(k + 1) - 1] \o t[k + 1]
    BY <2>1, JoinedValue
  <2>3. (k + 1) - 1 = k /\ s[k + 1] = t[k + 1]
    OBVIOUS
  <2> QED BY <1>2, <2>2, <2>3
<1> HIDE DEF P
<1>3. \A i \in 0 .. n : i \in P
  BY <1>1, <1>2, UpTo0
<1> QED BY <1>3 DEF P

LEMMA FlattenUnfolded ==
    ASSUME NEW s
    PROVE  FlattenSeq(s) = IF Len(s) = 0 THEN s ELSE (CHOOSE f : JoinedBy(f, s))[Len(s)]
BY DEF FlattenSeq, JoinedBy

LEMMA FlattenEmpty == FlattenSeq(<< >>) = << >>
BY FlattenUnfolded

LEMMA FlattenTyped ==
    ASSUME NEW S, NEW s \in Seq(Seq(S))
    PROVE  FlattenSeq(s) \in Seq(S)
<1>1. CASE Len(s) = 0
  <2>1. s = << >> /\ << >> \in Seq(S)
    BY <1>1
  <2>2. FlattenSeq(s) = << >>
    BY <2>1, FlattenEmpty
  <2> QED BY <2>1, <2>2
<1>2. CASE Len(s) # 0
  <2> DEFINE F == CHOOSE f : JoinedBy(f, s)
  <2>1. PICK f \in [1 .. Len(s) -> Seq(S)] : JoinedBy(f, s)
    BY JoinedExists
  <2>2. JoinedBy(F, s)
    BY <2>1
  <2>3. FlattenSeq(s) = F[Len(s)]
    BY <1>2, FlattenUnfolded
  <2> DEFINE n == Len(s)
  <2>4. n \in Nat /\ n \in 1 .. n /\ n <= n
    BY <1>2
  <2> HIDE DEF F, n
  <2>5. Agree(F, f, n)
    <3>1. n <= Len(s) /\ Len(s) \in Nat /\ Agree(s, s, n)
      BY <2>4 DEF n, Agree
    <3> QED BY <2>1, <2>2, <2>4, <3>1, JoinedUnique
  <2>6. f[n] \in Seq(S)
    BY <2>1, <2>4 DEF n
  <2> QED BY <2>3, <2>4, <2>5, <2>6 DEF n, Agree
<1> QED BY <1>1, <1>2

\* One more piece is joined at the end.
LEMMA FlattenAppend ==
    ASSUME NEW S, NEW s \in Seq(Seq(S)), NEW t \in Seq(S)
    PROVE  FlattenSeq(Append(s, t)) = FlattenSeq(s) \o t
<1> DEFINE r == Append(s, t)
           n == Len(s)
           F == CHOOSE f : JoinedBy(f, r)
           G == CHOOSE f : JoinedBy(f, s)
<1>1. r \in Seq(Seq(S)) /\ Len(r) = n + 1 /\ n \in Nat /\ r[n + 1] = t
      /\ Len(r) \in Nat /\ n + 1 # 0 /\ \A i \in 1 .. n : r[i] = s[i]
  OBVIOUS
<1> HIDE DEF r, n
<1>2. JoinedBy(F, r)
  <2>1. \E f : JoinedBy(f, r)
    BY <1>1, JoinedExists
  <2> QED BY <2>1
<1>3. FlattenSeq(r) = F[n + 1]
  BY <1>1, FlattenUnfolded
<1> HIDE DEF F
<1>4. F[n + 1] = IF n + 1 = 1 THEN t ELSE F[(n + 1) - 1] \o t
  BY <1>1, <1>2, JoinedValue
<1>5. CASE n = 0
  <2>1. s = << >>
    BY <1>5 DEF n
  <2>2. FlattenSeq(s) = << >> /\ << >> \o t = t
    BY <2>1, FlattenEmpty, ConcatEmptySeq
  <2>3. F[n + 1] = t
    BY <1>4, <1>5
  <2> QED BY <1>3, <2>2, <2>3 DEF r
<1>6. CASE n # 0
  <2>1. JoinedBy(G, s)
    <3>1. \E f : JoinedBy(f, s)
      BY JoinedExists
    <3> QED BY <3>1
  <2>2. FlattenSeq(s) = G[n]
    BY <1>6, FlattenUnfolded DEF n
  <2> HIDE DEF G
  <2>3. n <= Len(r) /\ n <= Len(s) /\ Len(s) \in Nat /\ n \in 1 .. n
    BY <1>1, <1>6 DEF n
  <2>4. Agree(F, G, n)
    <3>1. Agree(r, s, n) /\ n \in Nat /\ Len(r) \in Nat
      BY <1>1 DEF Agree
    <3> QED BY <1>2, <2>1, <2>3, <3>1, JoinedUnique
  <2>5. (n + 1) - 1 = n /\ n + 1 # 1
    BY <1>1, <1>6
  <2>6. F[n + 1] = F[n] \o t
    BY <1>4, <2>5
  <2> QED BY <1>3, <2>2, <2>3, <2>4, <2>6 DEF r, Agree
<1> QED BY <1>5, <1>6

\* Joining the first pieces and then the others is joining them all.
LEMMA FlattenSplit ==
    ASSUME NEW S, NEW s \in Seq(Seq(S)), NEW k \in 0 .. Len(s)
    PROVE  FlattenSeq(s) = FlattenSeq(SubSeq(s, 1, k)) \o FlattenSeq(SubSeq(s, k + 1, Len(s)))
<1> DEFINE n == Len(s) - k
           a == FlattenSeq(SubSeq(s, 1, k))
           From(m) == SubSeq(s, k + 1, k + m)
           First(m) == SubSeq(s, 1, k + m)
           P == {m \in 0 .. n : FlattenSeq(First(m)) = a \o FlattenSeq(From(m))}
<1>1. n \in Nat /\ k \in Nat
  OBVIOUS
<1>2. \A m \in 0 .. n : First(m) \in Seq(Seq(S)) /\ From(m) \in Seq(Seq(S))
  OBVIOUS
<1>3. a \in Seq(S)
  <2>1. SubSeq(s, 1, k) \in Seq(Seq(S))
    OBVIOUS
  <2> QED BY <2>1, FlattenTyped
<1>4. 0 \in P
  <2>1. From(0) = << >> /\ First(0) = SubSeq(s, 1, k)
    OBVIOUS
  <2>2. FlattenSeq(From(0)) = << >> /\ FlattenSeq(First(0)) = a
    BY <2>1, FlattenEmpty
  <2> HIDE DEF a, From, First
  <2>3. a \o << >> = a
    BY <1>3, ConcatEmptySeq
  <2>4. FlattenSeq(First(0)) = a \o FlattenSeq(From(0))
    BY <2>2, <2>3
  <2>5. 0 \in 0 .. n
    BY <1>1
  <2> QED BY <2>4, <2>5
<1>5. ASSUME NEW m \in 0 .. n - 1, m \in P
      PROVE  m + 1 \in P
  <2> DEFINE e == s[k + m + 1]
  <2>1. e \in Seq(S) /\ m \in 0 .. n /\ m + 1 \in 0 .. n
    OBVIOUS
  <2>2. First(m + 1) = Append(First(m), e) /\ From(m + 1) = Append(From(m), e)
    OBVIOUS
  <2>3. First(m) \in Seq(Seq(S)) /\ From(m) \in Seq(Seq(S))
    BY <1>2, <2>1
  <2>4. FlattenSeq(First(m)) = a \o FlattenSeq(From(m))
    BY <1>5
  <2> HIDE DEF e, First, From, a
  <2>5. FlattenSeq(First(m + 1)) = FlattenSeq(First(m)) \o e
    BY <2>1, <2>2, <2>3, FlattenAppend
  <2>6. FlattenSeq(From(m + 1)) = FlattenSeq(From(m)) \o e
    BY <2>1, <2>2, <2>3, FlattenAppend
  <2>7. FlattenSeq(From(m)) \in Seq(S)
    BY <2>3, FlattenTyped
  <2>8. (a \o FlattenSeq(From(m))) \o e = a \o (FlattenSeq(From(m)) \o e)
    <3> DEFINE b == FlattenSeq(From(m))
    <3>1. b \in Seq(S)
      BY <2>7
    <3> HIDE DEF b
    <3>2. (a \o b) \o e = a \o (b \o e)
      BY <1>3, <2>1, <3>1, ConcatAssociative
    <3> QED BY <3>2 DEF b
  <2> QED BY <2>1, <2>4, <2>5, <2>6, <2>8
<1> HIDE DEF P, n
<1>6. \A m \in 0 .. n : m \in P
  BY <1>1, <1>4, <1>5, UpTo0
<1>7. n \in P
  BY <1>1, <1>6
<1>8. First(n) = s /\ From(n) = SubSeq(s, k + 1, Len(s))
  BY DEF n
<1> HIDE DEF First, From
<1> QED BY <1>7, <1>8 DEF P

----------------------------------------------------------------------------
(* Numbers.                                                                *)

LEMMA MaxOfTwo ==
    ASSUME NEW a \in Int, NEW b \in Int
    PROVE  Max({a, b}) \in {a, b} /\ Max({a, b}) >= a /\ Max({a, b}) >= b
<1>1. \E x \in {a, b} : \A y \in {a, b} : x >= y
  OBVIOUS
<1> QED BY <1>1 DEF Max

LEMMA MinOfTwo ==
    ASSUME NEW a \in Int, NEW b \in Int
    PROVE  Min({a, b}) \in {a, b} /\ Min({a, b}) <= a /\ Min({a, b}) <= b
<1>1. \E x \in {a, b} : \A y \in {a, b} : x <= y
  OBVIOUS
<1> QED BY <1>1 DEF Min

LEMMA MaxOfBounded ==
    ASSUME NEW S, S # {}, NEW n \in Nat, \A i \in S : i \in Nat /\ i <= n
    PROVE  Max(S) \in S /\ Max(S) \in Nat
<1> DEFINE gaps == {n - i : i \in S}
<1>1. gaps \subseteq Nat /\ gaps # {}
  OBVIOUS
<1> HIDE DEF gaps
<1>2. PICK g \in gaps : \A h \in gaps : <<h, g>> \notin OpToRel(<, Nat)
  BY <1>1, NatLessThanWellFounded, WFMin
<1>3. PICK i \in S : g = n - i
  BY DEF gaps
<1>4. ASSUME NEW j \in S
      PROVE  i >= j
  <2>1. n - j \in gaps
    BY DEF gaps
  <2>2. ~(n - j < g) /\ g \in Nat /\ n - j \in Nat
    BY <1>1, <1>2, <2>1 DEF OpToRel
  <2> QED BY <1>3, <2>2
<1> QED BY <1>4 DEF Max

----------------------------------------------------------------------------
(* The order of symbols.                                                   *)

LEMMA LexTransitive ==
    ASSUME NEW a \in Seq(Int), NEW b \in Seq(Int), NEW c \in Seq(Int),
           LexLess(a, b), LexLess(b, c)
    PROVE  LexLess(a, c)
<1>1. PICK i \in 1 .. Len(b) :
          /\ \A j \in 1 .. i - 1 : j <= Len(a) /\ a[j] = b[j]
          /\ i > Len(a) \/ a[i] < b[i]
  BY DEF LexLess
<1>2. PICK k \in 1 .. Len(c) :
          /\ \A j \in 1 .. k - 1 : j <= Len(b) /\ b[j] = c[j]
          /\ k > Len(b) \/ b[k] < c[k]
  BY DEF LexLess
<1>3. CASE i < k
  <2>1. i \in 1 .. Len(c)
    BY <1>3
  <2>2. \A j \in 1 .. i - 1 : j <= Len(a) /\ a[j] = c[j]
    BY <1>1, <1>2, <1>3
  <2>3. i > Len(a) \/ a[i] < c[i]
    BY <1>1, <1>2, <1>3
  <2> QED BY <2>1, <2>2, <2>3 DEF LexLess
<1>4. CASE k < i
  <2>1. \A j \in 1 .. k - 1 : j <= Len(a) /\ a[j] = c[j]
    BY <1>1, <1>2, <1>4
  <2>2. a[k] < c[k]
    BY <1>1, <1>2, <1>4
  <2> QED BY <2>1, <2>2 DEF LexLess
<1>5. CASE i = k
  <2>1. \A j \in 1 .. k - 1 : j <= Len(a) /\ a[j] = c[j]
    BY <1>1, <1>2, <1>5
  <2>2. b[k] < c[k]
    BY <1>1, <1>2, <1>5
  <2>3. k > Len(a) \/ a[k] < c[k]
    <3>1. CASE k > Len(a)
      BY <3>1
    <3>2. CASE ~(k > Len(a))
      <4>1. a[k] \in Int /\ b[k] \in Int /\ c[k] \in Int /\ a[k] < b[k]
        BY <1>1, <1>5, <3>2
      <4> QED BY <2>2, <4>1
    <3> QED BY <3>1, <3>2
  <2> QED BY <2>1, <2>3 DEF LexLess
<1> QED BY <1>3, <1>4, <1>5

LEMMA LexIrreflexive == ASSUME NEW a \in Seq(Int) PROVE ~LexLess(a, a)
BY DEF LexLess

\* The types that the order and the answers need of a symbol's row.
TypedRow(s) ==
    /\ s.path \in Int /\ s.start \in Int /\ s.end \in Int /\ s.name \in Int
    /\ s.type \in {"class", "file", "method"}
    /\ s.id \in Seq(Int)

LEMMA SortKeyTyped ==
    ASSUME NEW s, TypedRow(s)
    PROVE  SymbolSortKey(s) \in Seq(Int)
<1>1. TypeRank[s.type] \in Int
  BY DEF TypedRow, TypeRank
<1>2. <<s.path, s.start, s.end, TypeRank[s.type], s.name>> \in Seq(Int)
  BY <1>1 DEF TypedRow
<1> QED BY <1>2 DEF SymbolSortKey, TypedRow

\* Some row of a finite set has none before it.
LEMMA SomeFirst ==
    ASSUME NEW rows, IsFiniteSet(rows), rows # {}, \A s \in rows : TypedRow(s)
    PROVE  \E s \in rows : \A r \in rows : ~Before(r, s)
<1> DEFINE Below(s) == {r \in rows : Before(r, s)}
           sizes == {Cardinality(Below(s)) : s \in rows}
<1>1. \A s \in rows : IsFiniteSet(Below(s)) /\ Cardinality(Below(s)) \in Nat
  BY FS_Subset, FS_CardinalityType
<1>2. sizes \subseteq Nat /\ sizes # {}
  BY <1>1
<1> HIDE DEF sizes
<1>3. PICK n \in sizes : \A m \in sizes : <<m, n>> \notin OpToRel(<, Nat)
  BY <1>2, NatLessThanWellFounded, WFMin
<1>4. PICK s \in rows : n = Cardinality(Below(s))
  BY <1>3 DEF sizes
<1>5. SUFFICES ASSUME NEW r \in rows, Before(r, s)
               PROVE  FALSE
  BY <1>4
<1>6. \A q \in Below(r) : q \in Below(s)
  BY <1>5, SortKeyTyped, LexTransitive DEF Before
<1>7. r \in Below(s) /\ r \notin Below(r)
  BY <1>5, SortKeyTyped, LexIrreflexive DEF Before
<1>8. Cardinality(Below(r)) < Cardinality(Below(s))
  <2>1. Below(r) \in SUBSET Below(s) /\ Below(r) # Below(s)
    BY <1>6, <1>7
  <2>2. IsFiniteSet(Below(s))
    BY <1>1
  <2> HIDE DEF Below
  <2>3. /\ Cardinality(Below(r)) <= Cardinality(Below(s))
        /\ Cardinality(Below(r)) # Cardinality(Below(s))
    BY <2>1, <2>2, FS_Subset
  <2> QED BY <1>1, <2>3
<1>9. Cardinality(Below(r)) \in sizes
  BY DEF sizes
<1> QED
  <2>1. <<Cardinality(Below(r)), n>> \in OpToRel(<, Nat)
    BY <1>1, <1>4, <1>8 DEF OpToRel
  <2> QED BY <1>3, <1>9, <2>1
\* A relation that sorts a set.
Sorting(less, S) ==
    /\ \A x \in S : <<x, x>> \notin less
    /\ \A x, y, z \in S : <<x, y>> \in less /\ <<y, z>> \in less => <<x, z>> \in less
    /\ \A x, y \in S : x = y \/ <<x, y>> \in less \/ <<y, x>> \in less

\* A sequence of the elements of a set, each once, in the order of a relation.
SortedBy(o, S, less) ==
    /\ o \in [1 .. Cardinality(S) -> S]
    /\ \A x \in S : \E k \in 1 .. Cardinality(S) : o[k] = x
    /\ \A i, j \in 1 .. Cardinality(S) : i < j => <<o[i], o[j]>> \in less

LEMMA InOrderSorts ==
    ASSUME NEW S, NEW less, IsFiniteSet(S), Sorting(less, S)
    PROVE  SortedBy(InOrder(S, less), S, less)
<1> DEFINE n == Cardinality(S)
           Below(x) == {y \in S : <<y, x>> \in less}
           rank == [x \in S |-> Cardinality(Below(x))]
<1>1. n \in Nat
  BY FS_CardinalityType
<1>2. ASSUME NEW x \in S
      PROVE  IsFiniteSet(Below(x)) /\ rank[x] \in 0 .. n - 1
  <2>1. Below(x) \in SUBSET S /\ Below(x) # S
    BY DEF Sorting
  <2>2. rank[x] = Cardinality(Below(x))
    OBVIOUS
  <2> HIDE DEF Below, rank
  <2>3. /\ IsFiniteSet(Below(x)) /\ Cardinality(Below(x)) \in Nat
        /\ Cardinality(Below(x)) <= n /\ Cardinality(Below(x)) # n
    BY <2>1, FS_Subset, FS_CardinalityType
  <2> QED BY <1>1, <2>2, <2>3
<1>3. ASSUME NEW x \in S, NEW y \in S, <<x, y>> \in less
      PROVE  rank[x] < rank[y]
  <2>1. Below(x) \in SUBSET Below(y)
    BY <1>3 DEF Sorting
  <2>2. Below(x) # Below(y)
    <3>1. x \in Below(y) /\ x \notin Below(x)
      BY <1>3 DEF Sorting
    <3> QED BY <3>1
  <2>3. rank[x] = Cardinality(Below(x)) /\ rank[y] = Cardinality(Below(y))
    OBVIOUS
  <2>4. rank[x] \in Int /\ rank[y] \in Int /\ IsFiniteSet(Below(y))
    BY <1>2
  <2> HIDE DEF Below, rank
  <2>5. Cardinality(Below(x)) <= Cardinality(Below(y))
        /\ Cardinality(Below(x)) # Cardinality(Below(y))
    BY <2>1, <2>2, <2>4, FS_Subset
  <2> QED BY <2>3, <2>4, <2>5
<1>4. \A x, y \in S : rank[x] = rank[y] => x = y
  <2> SUFFICES ASSUME NEW x \in S, NEW y \in S, x # y
               PROVE  rank[x] # rank[y]
    OBVIOUS
  <2>1. <<x, y>> \in less \/ <<y, x>> \in less
    BY DEF Sorting
  <2>2. rank[x] < rank[y] \/ rank[y] < rank[x]
    BY <1>3, <2>1
  <2>3. rank[x] \in 0 .. n - 1 /\ rank[y] \in 0 .. n - 1
    BY <1>2
  <2> HIDE DEF rank, n
  <2> QED BY <1>1, <2>2, <2>3
<1>5. \A k \in 1 .. n : \E x \in S : rank[x] = k - 1
  <2>1. rank \in [S -> 0 .. n - 1]
    <3>1. \A x \in S : rank[x] \in 0 .. n - 1
      BY <1>2
    <3>2. rank = [x \in S |-> rank[x]]
      OBVIOUS
    <3> HIDE DEF rank
    <3> QED BY <3>1, <3>2
  <2> DEFINE T == 0 .. n - 1
  <2>2. rank \in Injection(S, T)
    BY <1>4, <2>1 DEF Injection, IsInjective
  <2>3. IsFiniteSet(T) /\ Cardinality(T) = n
    BY <1>1, FS_Interval
  <2> HIDE DEF T, rank
  <2>4. rank \in Surjection(S, T)
    BY <2>2, <2>3, FS_Injection
  <2>5. \A m \in T : \E x \in S : rank[x] = m
    BY <2>4 DEF Surjection
  <2> QED BY <1>1, <2>5 DEF T
<1> DEFINE o == InOrder(S, less)
<1>6. ASSUME NEW k \in 1 .. n
      PROVE  o[k] \in S /\ rank[o[k]] = k - 1
  <2>1. o[k] = CHOOSE x \in S : Cardinality(Below(x)) = k - 1
    BY DEF InOrder
  <2>2. PICK x \in S : rank[x] = k - 1
    BY <1>5
  <2>3. \E y \in S : Cardinality(Below(y)) = k - 1
    BY <2>2
  <2>4. o[k] \in S /\ Cardinality(Below(o[k])) = k - 1
    <3> DEFINE c == o[k]
    <3>1. c = CHOOSE y \in S : Cardinality(Below(y)) = k - 1
      BY <2>1
    <3> HIDE DEF c
    <3>2. c \in S /\ Cardinality(Below(c)) = k - 1
      BY <2>3, <3>1
    <3> QED BY <3>2 DEF c
  <2> QED BY <2>4
<1>7. o \in [1 .. n -> S]
  <2> DEFINE Chosen(k) == CHOOSE x \in S : Cardinality({y \in S : <<y, x>> \in less}) = k - 1
  <2>1. o = [k \in 1 .. n |-> Chosen(k)]
    BY DEF InOrder
  <2>2. \A k \in 1 .. n : o[k] \in S
    BY <1>6
  <2> HIDE DEF o, Chosen
  <2> QED BY <2>1, <2>2
<1> HIDE DEF o
<1>8. ASSUME NEW x \in S
      PROVE  \E k \in 1 .. n : o[k] = x
  <2> DEFINE k == rank[x] + 1
  <2>1. k \in 1 .. n /\ k - 1 = rank[x]
    BY <1>1, <1>2
  <2> HIDE DEF k
  <2>2. o[k] \in S /\ rank[o[k]] = rank[x]
    BY <1>6, <2>1
  <2> HIDE DEF rank
  <2> QED BY <1>4, <2>1, <2>2
<1>9. ASSUME NEW i \in 1 .. n, NEW j \in 1 .. n, i < j
      PROVE  <<o[i], o[j]>> \in less
  <2>1. o[i] \in S /\ o[j] \in S /\ rank[o[i]] = i - 1 /\ rank[o[j]] = j - 1
    BY <1>6
  <2> HIDE DEF rank
  <2>2. o[i] # o[j] /\ ~(rank[o[j]] < rank[o[i]])
    BY <1>9, <2>1
  <2> QED BY <1>3, <2>1, <2>2 DEF Sorting
<1> HIDE DEF n
<1> QED BY <1>7, <1>8, <1>9 DEF SortedBy, o, n
LEMMA LeastOf ==
    ASSUME NEW S, S \subseteq Nat, S # {}
    PROVE  \E m \in S : \A k \in S : m <= k
<1>1. PICK m \in S : \A k \in S : <<k, m>> \notin OpToRel(<, Nat)
  BY NatLessThanWellFounded, WFMin
<1>2. \A k \in S : ~(k < m)
  BY <1>1 DEF OpToRel
<1> QED BY <1>2

LEMMA LexTotal ==
    ASSUME NEW a \in Seq(Int), NEW b \in Seq(Int), a # b
    PROVE  LexLess(a, b) \/ LexLess(b, a)
<1> DEFINE Alike(i) == i <= Len(a) /\ i <= Len(b) /\ a[i] = b[i]
           apart == {i \in Nat : i >= 1 /\ ~Alike(i)}
<1>1. Len(a) + Len(b) + 1 \in apart
  OBVIOUS
<1>2. PICK i \in apart : \A k \in apart : i <= k
  BY <1>1, LeastOf
<1>3. i \in Nat /\ i >= 1 /\ ~Alike(i)
  BY <1>2
<1>4. \A j \in 1 .. i - 1 : j <= Len(a) /\ j <= Len(b) /\ a[j] = b[j]
  <2> SUFFICES ASSUME NEW j \in 1 .. i - 1
               PROVE  Alike(j)
    OBVIOUS
  <2>1. j \in Nat /\ j >= 1 /\ ~(i <= j)
    BY <1>3
  <2> QED BY <1>2, <2>1
<1> HIDE DEF apart
<1>5. CASE i > Len(a) /\ i > Len(b)
  <2>1. Len(a) = i - 1 /\ Len(b) = i - 1
    <3>1. i - 1 \in 1 .. i - 1 \/ i - 1 = 0
      BY <1>3
    <3>2. i - 1 <= Len(a) /\ i - 1 <= Len(b)
      BY <1>4, <3>1
    <3> QED BY <1>3, <1>5, <3>2
  <2>2. a = b
    BY <1>4, <2>1, SeqEqual
  <2> QED BY <2>2
<1>6. CASE i > Len(a) /\ i <= Len(b)
  <2>1. i \in 1 .. Len(b)
    BY <1>3, <1>6
  <2> QED BY <1>4, <1>6, <2>1 DEF LexLess
<1>7. CASE i <= Len(a) /\ i > Len(b)
  <2>1. i \in 1 .. Len(a) /\ \A j \in 1 .. i - 1 : b[j] = a[j]
    BY <1>3, <1>4, <1>7
  <2> QED BY <1>4, <1>7, <2>1 DEF LexLess
<1>8. CASE i <= Len(a) /\ i <= Len(b)
  <2>1. i \in 1 .. Len(a) /\ i \in 1 .. Len(b) /\ a[i] # b[i]
    BY <1>3, <1>8
  <2>2. a[i] \in Int /\ b[i] \in Int
    BY <2>1
  <2>3. a[i] < b[i] \/ b[i] < a[i]
    BY <2>1, <2>2
  <2>4. \A j \in 1 .. i - 1 : b[j] = a[j]
    BY <1>4
  <2> QED BY <1>4, <2>1, <2>3, <2>4 DEF LexLess
<1> QED BY <1>3, <1>5, <1>6, <1>7, <1>8

LEMMA SameTail ==
    ASSUME NEW S, NEW h \in Seq(S), NEW g \in Seq(S), NEW a \in Seq(S), NEW b \in Seq(S),
           Len(h) = Len(g), h \o a = g \o b
    PROVE  a = b
<1> DEFINE x == h \o a
           y == g \o b
<1>1. /\ Len(x) = Len(h) + Len(a)
      /\ \A i \in 1 .. Len(h) + Len(a) : x[i] = IF i <= Len(h) THEN h[i] ELSE a[i - Len(h)]
  BY ConcatProperties
<1>2. /\ Len(y) = Len(g) + Len(b)
      /\ \A i \in 1 .. Len(g) + Len(b) : y[i] = IF i <= Len(g) THEN g[i] ELSE b[i - Len(g)]
  BY ConcatProperties
<1>3. x = y
  OBVIOUS
<1> HIDE DEF x, y
<1>4. Len(a) \in Nat /\ Len(b) \in Nat /\ Len(h) \in Nat
  OBVIOUS
<1>5. Len(a) = Len(b)
  BY <1>1, <1>2, <1>3, <1>4
<1>6. ASSUME NEW i \in 1 .. Len(a)
      PROVE  a[i] = b[i]
  <2> DEFINE k == Len(h) + i
  <2>1. k \in 1 .. Len(h) + Len(a) /\ ~(k <= Len(h)) /\ k - Len(h) = i
    BY <1>4
  <2> HIDE DEF k
  <2>2. x[k] = a[i] /\ y[k] = b[i]
    BY <1>1, <1>2, <1>5, <2>1
  <2> QED BY <1>3, <2>2
<1> QED BY <1>5, <1>6, SeqEqual

\* The rows of symbols are sorted by their keys.
LEMMA SymbolsSorted ==
    ASSUME NEW rows, IsFiniteSet(rows), \A s \in rows : TypedRow(s),
           \A r, s \in rows : r.id = s.id => r = s
    PROVE  SortedBy(InSymbolOrder(rows), rows, {p \in rows \X rows : Before(p[1], p[2])})
<1> DEFINE less == {p \in rows \X rows : Before(p[1], p[2])}
<1>1. \A s \in rows : SymbolSortKey(s) \in Seq(Int)
  BY SortKeyTyped
<1>2. \A r, s \in rows : <<r, s>> \in less <=> LexLess(SymbolSortKey(r), SymbolSortKey(s))
  BY DEF Before
<1>3. ASSUME NEW r \in rows, NEW s \in rows, SymbolSortKey(r) = SymbolSortKey(s)
      PROVE  r = s
  <2> DEFINE Head5(x) == <<x.path, x.start, x.end, TypeRank[x.type], x.name>>
  <2>1. r.id \in Seq(Int) /\ s.id \in Seq(Int)
    BY DEF TypedRow
  <2>2. TypeRank[r.type] \in Int /\ TypeRank[s.type] \in Int
    BY DEF TypedRow, TypeRank
  <2>3. Head5(r) \in Seq(Int) /\ Head5(s) \in Seq(Int) /\ Len(Head5(r)) = 5 /\ Len(Head5(s)) = 5
    BY <2>2 DEF TypedRow
  <2>4. Head5(r) \o r.id = Head5(s) \o s.id
    BY <1>3 DEF SymbolSortKey
  <2> HIDE DEF Head5
  <2> DEFINE h == Head5(r)
             g == Head5(s)
             a == r.id
             b == s.id
  <2>5. h \in Seq(Int) /\ g \in Seq(Int) /\ a \in Seq(Int) /\ b \in Seq(Int)
        /\ Len(h) = 5 /\ Len(g) = 5 /\ h \o a = g \o b
    BY <2>1, <2>3, <2>4
  <2> HIDE DEF h, g, a, b
  <2>6. Len(h) = Len(g)
    BY <2>5
  <2>7. h \o a = g \o b
    BY <2>5
  <2>8. a = b
    BY <2>5, <2>6, <2>7, SameTail
  <2> QED BY <2>8 DEF a, b
<1>4. Sorting(less, rows)
  <2>1. \A s \in rows : <<s, s>> \notin less
    BY <1>1, <1>2, LexIrreflexive
  <2>2. ASSUME NEW x \in rows, NEW y \in rows, NEW z \in rows,
               <<x, y>> \in less, <<y, z>> \in less
        PROVE  <<x, z>> \in less
    <3>1. LexLess(SymbolSortKey(x), SymbolSortKey(z))
      BY <1>1, <1>2, <2>2, LexTransitive
    <3> QED BY <1>2, <3>1
  <2>3. ASSUME NEW x \in rows, NEW y \in rows, x # y
        PROVE  <<x, y>> \in less \/ <<y, x>> \in less
    <3>1. SymbolSortKey(x) # SymbolSortKey(y)
      BY <1>3, <2>3
    <3> HIDE DEF less
    <3> QED BY <1>1, <1>2, <3>1, LexTotal
  <2> HIDE DEF less
  <2> QED BY <2>1, <2>2, <2>3 DEF Sorting
<1>5. InSymbolOrder(rows) = InOrder(rows, less)
  BY DEF InSymbolOrder
<1> HIDE DEF less
<1>6. SortedBy(InOrder(rows, less), rows, less)
  BY <1>4, InOrderSorts
<1> QED BY <1>5, <1>6 DEF less

\* The pieces of one symbol: typed, and each with a number of its own.
Numbered(rows) ==
    /\ IsFiniteSet(rows)
    /\ \A c \in rows : c.piece \in Int /\ c.count \in Int /\ c.start \in Int /\ c.end \in Int
    /\ \A c, d \in rows : c.piece = d.piece => c = d

LEMMA PiecesOfSome ==
    ASSUME NEW rows, Numbered(rows), NEW some \in SUBSET rows
    PROVE  Numbered(some)
BY FS_Subset DEF Numbered

LEMMA PiecesOrdered ==
    ASSUME NEW rows, Numbered(rows)
    PROVE  LET o == InPieceOrder(rows)
               n == Cardinality(rows)
           IN  /\ n \in Nat /\ o \in [1 .. n -> rows]
               /\ \A x \in rows : \E k \in 1 .. n : o[k] = x
               /\ \A i, j \in 1 .. n : i < j => o[i].piece < o[j].piece
<1> DEFINE less == {p \in rows \X rows : LexLess(PieceSortKey(p[1]), PieceSortKey(p[2]))}
           o == InPieceOrder(rows)
           n == Cardinality(rows)
<1>1. \A c \in rows : PieceSortKey(c) \in Seq(Int)
  BY DEF Numbered, PieceSortKey
<1>2. \A r, s \in rows : <<r, s>> \in less <=> LexLess(PieceSortKey(r), PieceSortKey(s))
  OBVIOUS
<1>3. \A r, s \in rows : PieceSortKey(r) = PieceSortKey(s) => r = s
  BY DEF PieceSortKey, Numbered
<1>4. Sorting(less, rows)
  <2>1. \A s \in rows : <<s, s>> \notin less
    BY <1>1, <1>2, LexIrreflexive
  <2>2. ASSUME NEW x \in rows, NEW y \in rows, NEW z \in rows,
               <<x, y>> \in less, <<y, z>> \in less
        PROVE  <<x, z>> \in less
    <3>1. LexLess(PieceSortKey(x), PieceSortKey(z))
      BY <1>1, <1>2, <2>2, LexTransitive
    <3> QED BY <1>2, <3>1
  <2>3. ASSUME NEW x \in rows, NEW y \in rows, x # y
        PROVE  <<x, y>> \in less \/ <<y, x>> \in less
    <3>1. PieceSortKey(x) # PieceSortKey(y)
      BY <1>3, <2>3
    <3> HIDE DEF less
    <3> QED BY <1>1, <1>2, <3>1, LexTotal
  <2> HIDE DEF less
  <2> QED BY <2>1, <2>2, <2>3 DEF Sorting
<1>5. ASSUME NEW x \in rows, NEW y \in rows, <<x, y>> \in less
      PROVE  x.piece < y.piece
  <2> DEFINE a == PieceSortKey(x)
             b == PieceSortKey(y)
  <2>1. a[1] = x.piece /\ b[1] = y.piece /\ x.piece \in Int /\ y.piece \in Int
    BY DEF PieceSortKey, Numbered
  <2>2. LexLess(a, b) /\ a # b
    <3>1. LexLess(a, b)
      BY <1>2, <1>5
    <3>2. a \in Seq(Int)
      BY <1>1
    <3> HIDE DEF a, b
    <3>3. ~LexLess(a, a)
      BY <3>2, LexIrreflexive
    <3> QED BY <3>1, <3>3
  <2>3. x.piece # y.piece
    <3>1. x # y
      BY <2>2
    <3> QED BY <3>1 DEF Numbered
  <2>4. a \in Seq(Int) /\ b \in Seq(Int) /\ Len(a) = 4 /\ Len(b) = 4
    BY <1>1 DEF PieceSortKey
  <2> HIDE DEF a, b
  <2>5. PICK i \in 1 .. Len(b) : /\ \A j \in 1 .. i - 1 : j <= Len(a) /\ a[j] = b[j]
                                 /\ i > Len(a) \/ a[i] < b[i]
    BY <2>2 DEF LexLess
  <2>6. i = 1
    <3>1. i > 1 => 1 \in 1 .. i - 1
      OBVIOUS
    <3> QED BY <2>1, <2>3, <2>4, <2>5, <3>1
  <2> QED BY <2>1, <2>4, <2>5, <2>6
<1>6. o = InOrder(rows, less)
  BY DEF InPieceOrder
<1>7. IsFiniteSet(rows) /\ n \in Nat
  BY FS_CardinalityType DEF Numbered
<1> HIDE DEF less, o
<1>8. SortedBy(o, rows, less)
  BY <1>4, <1>6, <1>7, InOrderSorts
<1>9. /\ o \in [1 .. n -> rows]
      /\ \A x \in rows : \E k \in 1 .. n : o[k] = x
      /\ \A i, j \in 1 .. n : i < j => <<o[i], o[j]>> \in less
  BY <1>8 DEF SortedBy
<1> HIDE DEF n
<1>10. \A i, j \in 1 .. n : i < j => o[i].piece < o[j].piece
  BY <1>5, <1>9
<1> QED BY <1>7, <1>9, <1>10 DEF o, n

LEMMA PiecesSorted ==
    ASSUME NEW rows, Numbered(rows)
    PROVE  InPieceOrder(rows) \in Seq(rows)
<1> DEFINE o == InPieceOrder(rows)
           n == Cardinality(rows)
<1>1. o \in [1 .. n -> rows] /\ n \in Nat
  BY PiecesOrdered
<1> HIDE DEF o, n
<1>2. o \in Seq(rows)
  BY <1>1
<1> QED BY <1>2 DEF o

\* Numbers that ascend and leave none out are counted.
CountsTo(g, m, n) ==
    /\ g \in [1 .. m -> 1 .. n]
    /\ \A i, j \in 1 .. m : i < j => g[i] < g[j]
    /\ \A k \in 1 .. n : \E i \in 1 .. m : g[i] = k

LEMMA Counting ==
    ASSUME NEW m \in Nat, NEW n \in Nat, NEW g, CountsTo(g, m, n)
    PROVE  m = n /\ \A k \in 1 .. m : g[k] = k
<1> USE DEF CountsTo
<1> DEFINE P == {k \in 0 .. m : \A j \in 1 .. k : g[j] = j}
<1>1. 0 \in P
  OBVIOUS
<1>2. ASSUME NEW k \in 0 .. m - 1, k \in P
      PROVE  k + 1 \in P
  <2> DEFINE c == k + 1
  <2>1. c \in 1 .. m /\ c \in Nat /\ c \in 0 .. m /\ \A j \in 1 .. c : j = c \/ j \in 1 .. k
    OBVIOUS
  <2>2. \A j \in 1 .. k : g[j] = j
    BY <1>2
  <2>3. g[c] \in 1 .. n
    BY <2>1
  <2>4. ~(g[c] < c)
    <3> SUFFICES ASSUME g[c] < c PROVE FALSE
      OBVIOUS
    <3>1. g[c] \in 1 .. k /\ g[c] \in 1 .. m
      BY <2>1, <2>3
    <3>2. g[g[c]] = g[c]
      BY <2>2, <3>1
    <3>3. g[g[c]] < g[c]
      BY <2>1, <3>1
    <3> QED BY <2>3, <3>2, <3>3
  <2>5. ~(g[c] > c)
    <3> SUFFICES ASSUME g[c] > c PROVE FALSE
      OBVIOUS
    <3>1. c \in 1 .. n
      BY <2>1, <2>3
    <3>2. PICK i \in 1 .. m : g[i] = c
      BY <3>1
    <3>3. i \in 1 .. k \/ i = c \/ c < i
      BY <2>1
    <3>4. i \notin 1 .. k
      BY <2>1, <2>2, <3>2
    <3>5. i # c
      BY <2>1, <2>3, <3>2
    <3>6. c < i => g[c] < g[i]
      BY <2>1
    <3> QED BY <2>1, <2>3, <3>2, <3>3, <3>4, <3>5, <3>6
  <2>6. g[c] = c
    BY <2>1, <2>3, <2>4, <2>5
  <2> QED BY <2>1, <2>2, <2>6
<1> HIDE DEF P
<1>3. m \in P
  <2>1. m \in 0 .. m
    OBVIOUS
  <2> QED BY <1>1, <1>2, <2>1, UpTo0
<1>4. \A k \in 1 .. m : g[k] = k
  BY <1>3 DEF P
<1>5. ~(m > n)
  <2>1. m > n => m \in 1 .. m /\ g[m] \in 1 .. n
    OBVIOUS
  <2> QED BY <1>4, <2>1
<1>6. ~(n > m)
  <2>1. n > m => n \in 1 .. n /\ \A i \in 1 .. m : i # n
    OBVIOUS
  <2> QED BY <1>4, <2>1
<1> QED BY <1>4, <1>5, <1>6

\* Pieces that are numbered from 0 are in the order of their numbers.
LEMMA NumberedOrder ==
    ASSUME NEW rows, Numbered(rows), NEW n \in Nat, NEW row \in [1 .. n -> rows],
           \A x \in rows : \E i \in 1 .. n : row[i] = x,
           \A i \in 1 .. n : row[i].piece = i - 1
    PROVE  InPieceOrder(rows) = row
<1> DEFINE o == InPieceOrder(rows)
           m == Cardinality(rows)
<1>1. /\ m \in Nat /\ o \in [1 .. m -> rows]
      /\ \A x \in rows : \E k \in 1 .. m : o[k] = x
      /\ \A i, j \in 1 .. m : i < j => o[i].piece < o[j].piece
  BY PiecesOrdered
<1> HIDE DEF o, m
<1> DEFINE g == [k \in 1 .. m |-> o[k].piece + 1]
<1>2. \A x \in rows : x.piece + 1 \in 1 .. n /\ row[x.piece + 1] = x
  <2> TAKE x \in rows
  <2>1. PICK i \in 1 .. n : row[i] = x
    OBVIOUS
  <2>2. x.piece = i - 1
    BY <2>1
  <2>3. x.piece + 1 = i
    BY <2>1, <2>2
  <2> QED BY <2>1, <2>3
<1>3. g \in [1 .. m -> 1 .. n]
  BY <1>1, <1>2
<1>4. ASSUME NEW i \in 1 .. m, NEW j \in 1 .. m, i < j
      PROVE  g[i] < g[j]
  <2>1. o[i].piece < o[j].piece /\ g[i] = o[i].piece + 1 /\ g[j] = o[j].piece + 1
    BY <1>1, <1>4
  <2>2. o[i] \in rows /\ o[j] \in rows
    BY <1>1
  <2>3. o[i].piece \in Int /\ o[j].piece \in Int
    BY <2>2 DEF Numbered
  <2> HIDE DEF g
  <2> QED BY <2>1, <2>3
<1>5. ASSUME NEW k \in 1 .. n
      PROVE  \E i \in 1 .. m : g[i] = k
  <2>1. row[k] \in rows /\ row[k].piece = k - 1
    OBVIOUS
  <2>2. PICK i \in 1 .. m : o[i] = row[k]
    BY <1>1, <2>1
  <2>3. g[i] = k
    BY <2>1, <2>2
  <2> QED BY <2>3
<1>6. \A k \in 1 .. m : o[k] = row[g[k]]
  BY <1>1, <1>2
<1> HIDE DEF g
<1>7. m = n /\ \A k \in 1 .. m : g[k] = k
  <2>1. CountsTo(g, m, n)
    BY <1>3, <1>4, <1>5 DEF CountsTo
  <2> QED BY <1>1, <2>1, Counting
<1>8. \A k \in 1 .. n : o[k] = row[k]
  BY <1>6, <1>7
<1> QED BY <1>1, <1>7, <1>8 DEF o

LEMMA SetToSeqTyped ==
    ASSUME NEW S, IsFiniteSet(S)
    PROVE  SetToSeq(S) \in Seq(S)
<1> DEFINE n == Cardinality(S)
           Fits(f) == f \in [1 .. n -> S] /\ IsInjective(f)
           o == SetToSeq(S)
<1>1. n \in Nat /\ ExistsBijection(1 .. n, S)
  BY FS_CardinalityType
<1>2. PICK f \in Bijection(1 .. n, S) : TRUE
  BY <1>1 DEF ExistsBijection
<1>3. f \in [1 .. n -> S] /\ IsInjective(f)
  BY <1>2 DEF Bijection, Injection
<1>4. o = CHOOSE g \in [1 .. n -> S] : IsInjective(g)
  BY DEF SetToSeq
<1> HIDE DEF o, n
<1>5. o \in [1 .. n -> S]
  BY <1>3, <1>4
<1>6. o \in Seq(S)
  BY <1>1, <1>5
<1> QED BY <1>6 DEF o

\* The pieces behind the chain so far, and the chain with them.
NextLinks(rows, heads, sofar) ==
    IF sofar = << >> THEN heads ELSE {c \in rows : c.id = Last(sofar).next}
WithLinks(rows, heads, sofar) == sofar \o SetToSeq(NextLinks(rows, heads, sofar))

LEMMA ChainFollows ==
    ASSUME NEW rows, IsFiniteSet(rows), NEW heads \in SUBSET rows
    PROVE  \E follow \in [0 .. Cardinality(rows) -> Seq(rows)] :
              /\ Chain(rows, heads) = follow[Cardinality(rows)]
              /\ follow[0] = << >>
              /\ \A i \in 1 .. Cardinality(rows) : follow[i] = WithLinks(rows, heads, follow[i - 1])
<1> DEFINE n == Cardinality(rows)
           V == Seq(rows)
           Extended(sofar) == WithLinks(rows, heads, sofar)
           step == [p \in (1 .. n) \X V |-> Extended(p[2])]
           base == << >>
           IsFollow(f) == f = [i \in 0 .. n |-> IF i = 0 THEN << >> ELSE Extended(f[i - 1])]
<1>1. n \in Nat
  BY FS_CardinalityType
<1>2. \A v \in V : Extended(v) \in V
  <2> SUFFICES ASSUME NEW v \in V
               PROVE  Extended(v) \in V
    OBVIOUS
  <2> DEFINE links == NextLinks(rows, heads, v)
  <2>1. links \in SUBSET rows
    BY DEF NextLinks
  <2> HIDE DEF links
  <2>2. IsFiniteSet(links)
    BY <2>1, FS_Subset
  <2>3. SetToSeq(links) \in Seq(links)
    BY <2>2, SetToSeqTyped
  <2>4. SetToSeq(links) \in Seq(rows)
    BY <2>1, <2>3, SeqMonotonic
  <2> QED BY <2>4 DEF WithLinks, links
<1> HIDE DEF Extended
<1>3. base \in V /\ step \in [(1 .. n) \X V -> V]
  BY <1>2
<1> HIDE DEF n, V, step, base
<1>4. PICK f \in [0 .. n -> V] : StepsBy(f, n, base, step)
  BY <1>1, <1>3, StepsExist
<1>5. ASSUME NEW i \in 0 .. n
      PROVE  f[i] = IF i = 0 THEN << >> ELSE Extended(f[i - 1])
  <2>1. CASE i = 0
    BY <1>4, <2>1 DEF StepsBy, base
  <2>2. CASE i # 0
    <3>1. i \in 1 .. n /\ i - 1 \in 0 .. n
      BY <1>1, <2>2
    <3>2. f[i] = step[<<i, f[i - 1]>>] /\ f[i - 1] \in V
      BY <1>4, <3>1 DEF StepsBy
    <3>3. step[<<i, f[i - 1]>>] = Extended(f[i - 1])
      BY <3>1, <3>2 DEF step
    <3> QED BY <2>2, <3>2, <3>3
  <2> QED BY <2>1, <2>2
<1>6. IsFollow(f)
  <2>1. f = [i \in 0 .. n |-> f[i]]
    BY <1>4
  <2> QED BY <1>5, <2>1
<1> DEFINE follow == CHOOSE g : IsFollow(g)
<1>7. IsFollow(follow)
  BY <1>6
<1>8. Chain(rows, heads) = follow[n]
  BY DEF Chain, n, Extended, WithLinks, NextLinks
<1> HIDE DEF follow
<1> DEFINE P == {i \in 0 .. n : follow[i] \in V}
<1>9. follow = [i \in 0 .. n |-> IF i = 0 THEN << >> ELSE Extended(follow[i - 1])]
  BY <1>7
<1> HIDE DEF IsFollow
<1>10. \A i \in 0 .. n : follow[i] = IF i = 0 THEN << >> ELSE Extended(follow[i - 1])
  BY <1>9
<1>11. 0 \in P
  BY <1>1, <1>3, <1>10 DEF base
<1>12. ASSUME NEW k \in 0 .. n - 1, k \in P
       PROVE  k + 1 \in P
  <2>1. k + 1 \in 0 .. n /\ k + 1 # 0 /\ (k + 1) - 1 = k
    BY <1>1
  <2>2. follow[k + 1] = Extended(follow[k])
    BY <1>10, <2>1
  <2> QED BY <1>2, <1>12, <2>1, <2>2
<1> HIDE DEF P
<1>13. \A k \in 0 .. n : k \in P
  BY <1>1, <1>11, <1>12, UpTo0
<1>14. follow \in [0 .. n -> V]
  <2>1. \A k \in 0 .. n : follow[k] \in V
    BY <1>13 DEF P
  <2>2. follow = [k \in 0 .. n |-> follow[k]]
    <3>1. DOMAIN follow = 0 .. n
      BY <1>9
    <3> QED BY <1>9, <3>1
  <2> QED BY <2>1, <2>2
<1>15. follow[0] = << >> /\ \A i \in 1 .. n : follow[i] = WithLinks(rows, heads, follow[i - 1])
  <2>1. 0 \in 0 .. n /\ \A i \in 1 .. n : i \in 0 .. n /\ i # 0
    BY <1>1
  <2> QED BY <1>10, <2>1 DEF Extended
<1> QED BY <1>8, <1>14, <1>15 DEF n, V

\* The chain of pieces is made of pieces.
LEMMA ChainTyped ==
    ASSUME NEW rows, IsFiniteSet(rows), NEW heads \in SUBSET rows
    PROVE  Chain(rows, heads) \in Seq(rows)
<1>1. PICK follow \in [0 .. Cardinality(rows) -> Seq(rows)] : Chain(rows, heads) = follow[Cardinality(rows)]
  BY ChainFollows
<1>2. Cardinality(rows) \in 0 .. Cardinality(rows)
  <2>1. Cardinality(rows) \in Nat
    BY FS_CardinalityType
  <2> QED BY <2>1
<1> QED BY <1>1, <1>2

LEMMA SetToSeqOfOne ==
    ASSUME NEW x
    PROVE  SetToSeq({x}) = <<x>>
<1> DEFINE S == {x}
           o == SetToSeq(S)
<1>1. IsFiniteSet(S) /\ Cardinality(S) = 1
  BY FS_Singleton
<1>2. o = CHOOSE f \in [1 .. 1 -> S] : IsInjective(f)
  BY <1>1 DEF SetToSeq
<1>3. [i \in 1 .. 1 |-> x] \in [1 .. 1 -> S] /\ IsInjective([i \in 1 .. 1 |-> x])
  BY DEF IsInjective
<1>4. o \in [1 .. 1 -> S]
  BY <1>2, <1>3
<1> HIDE DEF o
<1>5. o = [i \in 1 .. 1 |-> x]
  BY <1>4
<1>6. [i \in 1 .. 1 |-> x] = <<x>>
  OBVIOUS
<1> QED BY <1>5, <1>6 DEF o

\* Pieces that are linked in the order of their numbers: the first has no piece
\* before it, each names the next, and no two have an id in common.
LinkedRow(row, n) ==
    /\ \A i \in 1 .. n : row[i].prev = Nil <=> i = 1
    /\ \A i \in 1 .. n - 1 : row[i].next = row[i + 1].id
    /\ \A i, j \in 1 .. n : row[i].id = row[j].id => i = j

\* A chain from the first piece follows them.
LEMMA ChainIs ==
    ASSUME NEW rows, IsFiniteSet(rows), NEW n \in Nat \ {0}, Cardinality(rows) = n,
           NEW row \in Seq(rows), Len(row) = n,
           \A x \in rows : \E i \in 1 .. n : row[i] = x, LinkedRow(row, n)
    PROVE  Chain(rows, {c \in rows : c.prev = Nil}) = row
<1> DEFINE heads == {c \in rows : c.prev = Nil}
<1>1. PICK follow \in [0 .. n -> Seq(rows)] :
         /\ Chain(rows, heads) = follow[n]
         /\ follow[0] = << >>
         /\ \A i \in 1 .. n : follow[i] = WithLinks(rows, heads, follow[i - 1])
  <2>1. heads \in SUBSET rows
    OBVIOUS
  <2> HIDE DEF heads
  <2> DEFINE Follows(m) == \E follow \in [0 .. m -> Seq(rows)] :
                             /\ Chain(rows, heads) = follow[m]
                             /\ follow[0] = << >>
                             /\ \A i \in 1 .. m : follow[i] = WithLinks(rows, heads, follow[i - 1])
  <2>2. Follows(Cardinality(rows))
    BY <2>1, ChainFollows
  <2> HIDE DEF Follows
  <2>3. Follows(n)
    BY <2>2
  <2> QED BY <2>3 DEF Follows
<1> DEFINE P == {k \in 0 .. n : follow[k] = SubSeq(row, 1, k)}
<1>2. 1 \in 1 .. n /\ 0 \in 0 .. n /\ n \in 0 .. n /\ \A i \in 1 .. n : row[i] \in rows
  OBVIOUS
<1>3. heads = {row[1]}
  BY <1>2 DEF LinkedRow
<1> HIDE DEF heads
<1>4. 0 \in P
  <2>1. SubSeq(row, 1, 0) = << >>
    OBVIOUS
  <2> QED BY <1>1, <1>2, <2>1
<1>5. ASSUME NEW k \in 0 .. n - 1, k \in P
      PROVE  k + 1 \in P
  <2> DEFINE sofar == SubSeq(row, 1, k)
             x == row[k + 1]
  <2>1. k + 1 \in 0 .. n /\ k + 1 \in 1 .. n /\ k + 1 - 1 = k
    OBVIOUS
  <2>2. follow[k] = sofar
    BY <1>5
  <2>3. SubSeq(row, 1, k + 1) = sofar \o <<x>>
    <3>1. k + 1 <= Len(row)
      OBVIOUS
    <3> QED BY <3>1
  <2>4. k # 0 => sofar # << >> /\ Last(sofar) = row[k]
    <3> SUFFICES ASSUME k # 0 PROVE sofar # << >> /\ Last(sofar) = row[k]
      OBVIOUS
    <3>1. Len(sofar) = k /\ sofar[k] = row[k]
      OBVIOUS
    <3> HIDE DEF sofar
    <3>2. Len(<< >>) = 0
      OBVIOUS
    <3> QED BY <3>1, <3>2 DEF Last
  <2>5. k = 0 => sofar = << >> /\ x = row[1]
    OBVIOUS
  <2> HIDE DEF sofar
  <2>6. NextLinks(rows, heads, sofar) = {x}
    <3>1. CASE k = 0
      BY <1>3, <2>5, <3>1 DEF NextLinks
    <3>2. CASE k # 0
      <4>1. row[k].next = x.id
        <5>1. k \in 1 .. n - 1
          BY <3>2
        <5> QED BY <5>1 DEF LinkedRow
      <4>2. \A c \in rows : c.id = x.id => c = x
        <5> TAKE c \in rows
        <5>1. PICK i \in 1 .. n : row[i] = c
          OBVIOUS
        <5> QED BY <2>1, <5>1 DEF LinkedRow
      <4>3. {c \in rows : c.id = row[k].next} = {x}
        <5>1. x \in rows
          BY <1>2, <2>1
        <5> HIDE DEF x
        <5> QED BY <4>1, <4>2, <5>1
      <4> QED BY <2>4, <3>2, <4>3 DEF NextLinks
    <3> QED BY <3>1, <3>2
  <2> HIDE DEF x
  <2>7. WithLinks(rows, heads, sofar) = sofar \o <<x>>
    BY <2>6, SetToSeqOfOne DEF WithLinks
  <2>8. follow[k + 1] = WithLinks(rows, heads, follow[k])
    BY <1>1, <2>1
  <2>9. follow[k + 1] = SubSeq(row, 1, k + 1)
    BY <2>2, <2>3, <2>7, <2>8
  <2> QED BY <2>1, <2>9
<1> HIDE DEF P
<1>6. n \in P
  BY <1>2, <1>4, <1>5, UpTo0
<1>7. SubSeq(row, 1, n) = row
  OBVIOUS
<1> QED BY <1>1, <1>6, <1>7 DEF P, heads

\* Linked pieces are ordered by their numbers.
LEMMA LinkedOrder ==
    ASSUME NEW rows, Numbered(rows), NEW n \in Nat \ {0}, NEW row \in [1 .. n -> rows],
           \A x \in rows : \E i \in 1 .. n : row[i] = x,
           \A i \in 1 .. n : row[i].piece = i - 1, LinkedRow(row, n)
    PROVE  OrderedChunks(rows) = row
<1> DEFINE heads == {c \in rows : c.prev = Nil}
<1>1. InPieceOrder(rows) = row
  BY NumberedOrder
<1>2. Cardinality(rows) = n
  <2> DEFINE m == Cardinality(rows)
  <2>1. m \in Nat /\ InPieceOrder(rows) \in [1 .. m -> rows]
    BY PiecesOrdered
  <2> HIDE DEF m
  <2>2. DOMAIN row = 1 .. m /\ DOMAIN row = 1 .. n
    BY <1>1, <2>1
  <2>3. m = n
    <3>1. 1 .. m = 1 .. n /\ n \in 1 .. n
      BY <2>2
    <3> QED BY <2>1, <3>1
  <2> QED BY <2>3 DEF m
<1>3. row \in Seq(rows) /\ Len(row) = n
  OBVIOUS
<1>4. Chain(rows, heads) = row
  BY <1>2, <1>3, ChainIs DEF Numbered
<1>5. rows \ ToSet(row) = {}
  BY DEF ToSet
<1>6. InPieceOrder({}) = << >>
  <2> DEFINE o == InPieceOrder({})
             m == Cardinality({})
  <2>1. Numbered({})
    BY FS_EmptySet DEF Numbered
  <2>2. o \in [1 .. m -> {}] /\ m = 0
    BY <2>1, FS_EmptySet, PiecesOrdered
  <2> HIDE DEF o, m
  <2>3. o \in Seq({}) /\ Len(o) = 0
    BY <2>2
  <2> QED BY <2>3 DEF o
<1>7. WithRest(Chain(rows, heads), rows) = row
  <2>1. row \o << >> = row
    BY <1>3
  <2> HIDE DEF heads
  <2> QED BY <1>4, <1>5, <1>6, <2>1 DEF WithRest
<1> QED BY <1>1, <1>7 DEF OrderedChunks

\* The ordered chunks of a symbol are chunks of it.
LEMMA OrderedTyped ==
    ASSUME NEW rows, Numbered(rows)
    PROVE  OrderedChunks(rows) \in Seq(rows)
<1> DEFINE heads == {c \in rows : c.prev = Nil}
<1>1. InPieceOrder(rows) \in Seq(rows)
  BY PiecesSorted
<1>2. WithRest(Chain(rows, heads), rows) \in Seq(rows)
  <2> DEFINE chain == Chain(rows, heads)
             rest == rows \ ToSet(chain)
  <2>1. chain \in Seq(rows)
    BY ChainTyped DEF Numbered
  <2> HIDE DEF chain
  <2>2. rest \in SUBSET rows
    OBVIOUS
  <2>3. InPieceOrder(rest) \in Seq(rest)
    <3> HIDE DEF rest
    <3> QED BY <2>2, PiecesOfSome, PiecesSorted
  <2>4. InPieceOrder(rest) \in Seq(rows)
    <3> HIDE DEF rest
    <3> QED BY <2>2, <2>3, SeqMonotonic
  <2> QED BY <2>1, <2>4 DEF WithRest, chain, rest
<1> QED BY <1>1, <1>2 DEF OrderedChunks
----------------------------------------------------------------------------
(* Lines.                                                                  *)

\* Where the n lines of a text end, in order.
EndsOf(ends, n, text) ==
    /\ n \in Nat /\ n = LineCount(text) /\ ends = Ascending(LineEnds(text))
    /\ ends \in [1 .. n -> LineEnds(text)]
    /\ \A i \in LineEnds(text) : \E k \in 1 .. n : ends[k] = i
    /\ \A i, j \in 1 .. n : i < j => ends[i] < ends[j]

LEMMA EndsOrdered ==
    ASSUME NEW A, NEW text \in Seq(A)
    PROVE  /\ IsFiniteSet(LineEnds(text)) /\ LineEnds(text) \subseteq 1 .. Len(text)
           /\ EndsOf(Ascending(LineEnds(text)), LineCount(text), text)
<1> DEFINE S == LineEnds(text)
           less == {p \in S \X S : p[1] < p[2]}
<1>1. S \in SUBSET (1 .. Len(text)) /\ Len(text) \in Nat
  BY DEF LineEnds
<1> HIDE DEF S
<1>2. IsFiniteSet(S)
  <2>1. IsFiniteSet(1 .. Len(text))
    BY <1>1, FS_Interval
  <2> QED BY <1>1, <2>1, FS_Subset
<1>3. Cardinality(S) \in Nat
  BY <1>2, FS_CardinalityType
<1>4. \A x, y \in S : <<x, y>> \in less <=> x < y
  OBVIOUS
<1>5. \A x \in S : x \in Nat
  BY <1>1
<1> HIDE DEF less
<1>6. Sorting(less, S)
  BY <1>4, <1>5 DEF Sorting
<1>7. SortedBy(InOrder(S, less), S, less)
  BY <1>2, <1>6, InOrderSorts
<1>8. Ascending(S) = InOrder(S, less)
  BY DEF Ascending, less
<1> DEFINE o == Ascending(S)
           n == Cardinality(S)
<1>9. /\ o \in [1 .. n -> S]
      /\ \A x \in S : \E k \in 1 .. n : o[k] = x
      /\ \A i, j \in 1 .. n : i < j => <<o[i], o[j]>> \in less
  BY <1>7, <1>8 DEF SortedBy
<1> HIDE DEF o
<1>10. \A i, j \in 1 .. n : i < j => o[i] < o[j]
  <2> HIDE DEF n
  <2> QED BY <1>4, <1>9
<1>11. n = LineCount(text) /\ o = Ascending(LineEnds(text)) /\ S = LineEnds(text)
  BY DEF LineCount, S, o
<1> HIDE DEF n
<1>12. EndsOf(o, n, text)
  BY <1>3, <1>9, <1>10, <1>11 DEF EndsOf, n
<1> QED BY <1>1, <1>2, <1>11, <1>12

\* A line ends in the text, the last one with it.
LEMMA EndsBounds ==
    ASSUME NEW A, NEW text \in Seq(A), NEW ends, NEW n, EndsOf(ends, n, text), NEW k \in 1 .. n
    PROVE  ends[k] \in 1 .. Len(text)
<1>1. ends[k] \in LineEnds(text)
  BY DEF EndsOf
<1> QED BY <1>1, EndsOrdered

LEMMA LastEnd ==
    ASSUME NEW A, NEW text \in Seq(A), NEW ends, NEW n, EndsOf(ends, n, text), text # << >>
    PROVE  n \in 1 .. n /\ ends[n] = Len(text)
<1>1. Len(text) \in LineEnds(text)
  BY DEF LineEnds
<1>2. PICK k \in 1 .. n : ends[k] = Len(text)
  BY <1>1 DEF EndsOf
<1>3. n \in Nat /\ n >= 1 /\ n \in 1 .. n
  BY DEF EndsOf
<1>4. k < n => ends[k] < ends[n]
  BY <1>3 DEF EndsOf
<1>5. ends[n] \in 1 .. Len(text)
  BY <1>3, EndsBounds
<1> QED BY <1>2, <1>3, <1>4, <1>5

\* A text up to the end of its k-th line has k lines.
LEMMA PrefixCount ==
    ASSUME NEW A, NEW text \in Seq(A), NEW ends, NEW n, EndsOf(ends, n, text), NEW k \in 1 .. n
    PROVE  LineCount(SubSeq(text, 1, ends[k])) = k
<1> DEFINE e == ends[k]
           prefix == SubSeq(text, 1, e)
           T == LineEnds(prefix)
           f == [j \in 1 .. k |-> ends[j]]
<1>1. n \in Nat /\ e \in LineEnds(text) /\ e \in 1 .. Len(text)
  BY EndsBounds DEF EndsOf
<1>2. Len(prefix) = e /\ \A i \in 1 .. e : prefix[i] = text[i]
  BY <1>1
<1>3. \A i : i \in T <=> i \in LineEnds(text) /\ i <= e
  <2>1. \A i : i \in T <=> i \in 1 .. e /\ (text[i] \in LineBreaks \/ i = e)
    BY <1>2 DEF LineEnds
  <2>2. \A i : i \in LineEnds(text) <=> i \in 1 .. Len(text) /\ (text[i] \in LineBreaks \/ i = Len(text))
    BY DEF LineEnds
  <2> HIDE DEF T, prefix, e
  <2> QED BY <1>1, <2>1, <2>2
<1> HIDE DEF T, prefix
<1>4. \A j \in 1 .. k : ends[j] \in T
  <2> SUFFICES ASSUME NEW j \in 1 .. k
               PROVE  ends[j] \in T
    OBVIOUS
  <2> HIDE DEF e
  <2>0. j \in 1 .. n
    BY <1>1
  <2>1. j \in 1 .. n /\ ends[j] \in LineEnds(text) /\ ends[j] \in 1 .. Len(text)
    BY <2>0, EndsBounds DEF EndsOf
  <2>2. j < k => ends[j] < e
    BY <1>1, <2>1 DEF EndsOf, e
  <2>3. j = k => ends[j] = e
    BY DEF e
  <2>4. j < k \/ j = k
    BY <1>1
  <2> QED BY <1>1, <1>3, <2>1, <2>2, <2>3, <2>4
<1>5. \A i \in T : \E j \in 1 .. k : ends[j] = i
  <2> SUFFICES ASSUME NEW i \in T
               PROVE  \E j \in 1 .. k : ends[j] = i
    OBVIOUS
  <2>1. i \in LineEnds(text) /\ i <= e
    BY <1>3
  <2>2. PICK j \in 1 .. n : ends[j] = i
    BY <2>1 DEF EndsOf
  <2>3. k < j => ends[k] < ends[j]
    BY DEF EndsOf
  <2>4. ends[j] \in 1 .. Len(text)
    BY <1>1, EndsBounds
  <2> QED BY <1>1, <2>1, <2>2, <2>3, <2>4
<1>6. \A i, j \in 1 .. k : ends[i] = ends[j] => i = j
  <2> SUFFICES ASSUME NEW i \in 1 .. k, NEW j \in 1 .. k, i # j
               PROVE  ends[i] # ends[j]
    OBVIOUS
  <2>1. i \in 1 .. n /\ j \in 1 .. n /\ (i < j \/ j < i)
    BY <1>1
  <2>2. ends[i] < ends[j] \/ ends[j] < ends[i]
    BY <2>1 DEF EndsOf
  <2>3. ends[i] \in 1 .. Len(text) /\ ends[j] \in 1 .. Len(text)
    BY <2>1, EndsBounds
  <2> QED BY <2>2, <2>3
<1>7. f \in Bijection(1 .. k, T)
  <2>1. f \in [1 .. k -> T]
    BY <1>4
  <2>2. f \in Injection(1 .. k, T)
    BY <1>6, <2>1 DEF Injection, IsInjective
  <2>3. f \in Surjection(1 .. k, T)
    BY <1>5, <2>1 DEF Surjection
  <2> QED BY <2>2, <2>3 DEF Bijection
<1>8. k \in Nat /\ IsFiniteSet(1 .. k) /\ Cardinality(1 .. k) = k
  BY <1>1, FS_Interval
<1>9. Cardinality(T) = k
  BY <1>7, <1>8, FS_Bijection DEF ExistsBijection
<1> QED BY <1>9 DEF LineCount, T, prefix, e

\* The lines of a text, joined up to one of them.
LEMMA KeptTyped ==
    ASSUME NEW A, NEW text \in Seq(A)
    PROVE  KeptLines(text) \in Seq(Seq(A)) /\ Len(KeptLines(text)) = LineCount(text)
<1> DEFINE n == LineCount(text)
           ends == Ascending(LineEnds(text))
           LineAt(k) == SubSeq(text, IF k = 1 THEN 1 ELSE ends[k - 1] + 1, ends[k])
<1>1. EndsOf(ends, n, text)
  BY EndsOrdered
<1>2. KeptLines(text) = [k \in 1 .. n |-> LineAt(k)]
  BY DEF KeptLines
<1> HIDE DEF n, ends
<1>3. n \in Nat
  BY <1>1 DEF EndsOf
<1>4. ASSUME NEW k \in 1 .. n
      PROVE  LineAt(k) \in Seq(A)
  <2>1. ends[k] \in 1 .. Len(text)
    BY <1>1, EndsBounds
  <2>2. k # 1 => k - 1 \in 1 .. n
    BY <1>3
  <2>3. k # 1 => ends[k - 1] \in 1 .. Len(text)
    BY <1>1, <2>2, EndsBounds
  <2> DEFINE from == IF k = 1 THEN 1 ELSE ends[k - 1] + 1
             to == ends[k]
  <2>4. from \in Nat /\ from >= 1 /\ to \in 1 .. Len(text)
    BY <2>1, <2>3
  <2> HIDE DEF from, to
  <2>5. SubSeq(text, from, to) \in Seq(A)
    BY <2>4
  <2> QED BY <2>5 DEF from, to
<1> HIDE DEF LineAt
<1> QED BY <1>2, <1>3, <1>4 DEF n

LEMMA KeptUpTo ==
    ASSUME NEW A, NEW text \in Seq(A), NEW ends, NEW n, EndsOf(ends, n, text), NEW m \in 1 .. n
    PROVE  FlattenSeq(SubSeq(KeptLines(text), 1, m)) = SubSeq(text, 1, ends[m])
<1> DEFINE lines == KeptLines(text)
           P == {k \in 0 .. n : k = 0 \/ FlattenSeq(SubSeq(lines, 1, k)) = SubSeq(text, 1, ends[k])}
<1>1. n \in Nat /\ n = LineCount(text) /\ ends = Ascending(LineEnds(text))
  BY DEF EndsOf
<1>2. lines = [k \in 1 .. n |-> SubSeq(text, IF k = 1 THEN 1 ELSE ends[k - 1] + 1, ends[k])]
  BY <1>1 DEF KeptLines
<1>3. lines \in Seq(Seq(A)) /\ Len(lines) = n
  BY <1>1, KeptTyped
<1> HIDE DEF lines
<1>4. 0 \in P
  BY <1>1
<1>5. ASSUME NEW k \in 0 .. n - 1, k \in P
      PROVE  k + 1 \in P
  <2>1. k + 1 \in 1 .. n /\ k \in Nat /\ k + 1 # 0 /\ k + 1 \in 0 .. n
    BY <1>1
  <2> DEFINE joined == FlattenSeq(SubSeq(lines, 1, k + 1))
  <2>0. SUFFICES joined = SubSeq(text, 1, ends[k + 1])
    BY <2>1
  <2>2. lines[k + 1] = SubSeq(text, IF k + 1 = 1 THEN 1 ELSE ends[(k + 1) - 1] + 1, ends[k + 1])
    BY <1>2, <2>1
  <2>3. SubSeq(lines, 1, k + 1) = Append(SubSeq(lines, 1, k), lines[k + 1])
        /\ SubSeq(lines, 1, k) \in Seq(Seq(A)) /\ lines[k + 1] \in Seq(A)
    BY <1>3, <2>1
  <2>4. FlattenSeq(SubSeq(lines, 1, k + 1)) = FlattenSeq(SubSeq(lines, 1, k)) \o lines[k + 1]
    BY <2>3, FlattenAppend
  <2>5. ends[k + 1] \in 1 .. Len(text)
    BY <2>1, EndsBounds
  <2>6. CASE k = 0
    <3>1. SubSeq(lines, 1, k) = << >>
      BY <1>3, <2>6
    <3>2. FlattenSeq(SubSeq(lines, 1, k)) = << >>
      BY <3>1, FlattenEmpty
    <3>3. lines[k + 1] = SubSeq(text, 1, ends[k + 1])
      BY <2>2, <2>6
    <3>4. << >> \o lines[k + 1] = lines[k + 1]
      BY <2>3, ConcatEmptySeq
    <3> QED BY <2>4, <3>2, <3>3, <3>4
  <2>7. CASE k # 0
    <3>1. k \in 1 .. n /\ (k + 1) - 1 = k /\ k + 1 # 1 /\ k < k + 1
      BY <1>1, <2>1, <2>7
    <3>2. ends[k] \in 1 .. Len(text) /\ ends[k] < ends[k + 1]
      BY <2>1, <3>1, EndsBounds DEF EndsOf
    <3>3. lines[k + 1] = SubSeq(text, ends[k] + 1, ends[k + 1])
      BY <2>2, <3>1
    <3>4. FlattenSeq(SubSeq(lines, 1, k)) = SubSeq(text, 1, ends[k])
      BY <1>5, <2>7
    <3> DEFINE a == ends[k]
               b == ends[k + 1]
    <3>5. a \in 1 - 1 .. Len(text) /\ b \in a .. Len(text) /\ 1 \in 1 .. Len(text) + 1
      BY <2>5, <3>2
    <3> HIDE DEF a, b
    <3>6. SubSeq(text, 1, a) \o SubSeq(text, a + 1, b) = SubSeq(text, 1, b)
      BY <3>5, ConcatAdjacentSubSeq
    <3> QED BY <2>4, <3>3, <3>4, <3>6 DEF a, b
  <2> QED BY <2>6, <2>7
<1> HIDE DEF P
<1>6. m \in P
  <2>1. \A k \in 0 .. n : k \in P
    BY <1>1, <1>4, <1>5, UpTo0
  <2> QED BY <1>1, <2>1
<1> QED BY <1>6 DEF P, lines
LEMMA KeptWhole ==
    ASSUME NEW A, NEW text \in Seq(A)
    PROVE  FlattenSeq(KeptLines(text)) = text
<1> DEFINE n == LineCount(text)
           ends == Ascending(LineEnds(text))
           lines == KeptLines(text)
<1>1. EndsOf(ends, n, text)
  BY EndsOrdered
<1>2. lines \in Seq(Seq(A)) /\ Len(lines) = n
  BY KeptTyped
<1> HIDE DEF n, ends, lines
<1>3. CASE text = << >>
  <2>0. n # 0 => n \in Nat /\ 1 \in 1 .. n
    BY <1>1 DEF EndsOf
  <2>1. n = 0
    <3> SUFFICES ASSUME n # 0
                 PROVE  FALSE
      OBVIOUS
    <3>1. ends[1] \in 1 .. Len(text)
      BY <1>1, <2>0, EndsBounds
    <3> QED BY <1>3, <3>1
  <2>2. lines = << >>
    BY <1>2, <2>1
  <2> QED BY <1>3, <2>2, FlattenEmpty DEF lines
<1>4. CASE text # << >>
  <2>1. n \in 1 .. n /\ ends[n] = Len(text)
    BY <1>1, <1>4, LastEnd
  <2>2. n \in 1 .. n /\ n \in Nat
    BY <1>1, <2>1 DEF EndsOf
  <2>3. FlattenSeq(SubSeq(lines, 1, n)) = SubSeq(text, 1, ends[n])
    BY <1>1, <2>2, KeptUpTo DEF lines
  <2>4. SubSeq(lines, 1, n) = lines /\ SubSeq(text, 1, Len(text)) = text
    BY <1>2, <2>2, SubSeqFull
  <2> QED BY <2>1, <2>3, <2>4 DEF lines
<1> QED BY <1>3, <1>4

\* The lines behind the k-th one are the text behind its end.
LEMMA KeptFrom ==
    ASSUME NEW A, NEW text \in Seq(A), NEW ends, NEW n, EndsOf(ends, n, text), NEW k \in 1 .. n
    PROVE  FlattenSeq(SubSeq(KeptLines(text), k + 1, n)) = SubSeq(text, ends[k] + 1, Len(text))
<1> DEFINE lines == KeptLines(text)
           e == ends[k]
           rest == FlattenSeq(SubSeq(lines, k + 1, n))
           first == SubSeq(text, 1, e)
           behind == SubSeq(text, e + 1, Len(text))
<1>1. n \in Nat /\ n = LineCount(text)
  BY DEF EndsOf
<1>2. lines \in Seq(Seq(A)) /\ Len(lines) = n
  BY <1>1, KeptTyped
<1>3. e \in 1 .. Len(text)
  BY EndsBounds
<1>4. FlattenSeq(lines) = text
  BY KeptWhole
<1>5. FlattenSeq(SubSeq(lines, 1, k)) = first
  BY KeptUpTo
<1> HIDE DEF lines, e
<1>6. text = first \o rest
  <2>1. k \in 0 .. Len(lines)
    BY <1>1, <1>2
  <2>2. FlattenSeq(lines)
          = FlattenSeq(SubSeq(lines, 1, k)) \o FlattenSeq(SubSeq(lines, k + 1, Len(lines)))
    BY <1>2, <2>1, FlattenSplit
  <2> QED BY <1>2, <1>4, <1>5, <2>2
<1>7. text = first \o behind
  <2>1. 1 \in 1 .. Len(text) + 1 /\ e \in 1 - 1 .. Len(text) /\ Len(text) \in e .. Len(text)
    BY <1>3
  <2>2. first \o behind = SubSeq(text, 1, Len(text))
    BY <2>1, ConcatAdjacentSubSeq
  <2> QED BY <2>2, SubSeqFull
<1>8. first \in Seq(A) /\ behind \in Seq(A)
  BY <1>3
<1>9. rest \in Seq(A)
  <2>1. SubSeq(lines, k + 1, n) \in Seq(Seq(A))
    BY <1>1, <1>2
  <2> QED BY <2>1, FlattenTyped
<1> HIDE DEF rest, first, behind
<1>10. rest = behind
  <2>1. first \o rest = first \o behind
    BY <1>6, <1>7
  <2> QED BY <1>8, <1>9, <2>1, SameTail
<1> QED BY <1>10 DEF rest, behind, lines, e

\* The ends of a text behind the end of one of its lines.
LEMMA EndsBehind ==
    ASSUME NEW A, NEW text \in Seq(A), NEW e \in 0 .. Len(text) - 1, NEW i
    PROVE  i \in LineEnds(SubSeq(text, e + 1, Len(text)))
             <=> i \in 1 .. Len(text) - e /\ e + i \in LineEnds(text)
<1> DEFINE rest == SubSeq(text, e + 1, Len(text))
<1>1. Len(rest) = Len(text) - e /\ \A j \in 1 .. Len(text) - e : rest[j] = text[e + j]
  OBVIOUS
<1> HIDE DEF rest
<1>2. i \in LineEnds(rest) <=> i \in 1 .. Len(text) - e /\ (text[e + i] \in LineBreaks \/ i = Len(text) - e)
  BY <1>1 DEF LineEnds
<1>3. i \in 1 .. Len(text) - e =>
         (e + i \in LineEnds(text) <=> text[e + i] \in LineBreaks \/ e + i = Len(text))
  BY DEF LineEnds
<1>4. i \in 1 .. Len(text) - e => (e + i = Len(text) <=> i = Len(text) - e)
  OBVIOUS
<1> QED BY <1>2, <1>3, <1>4 DEF rest

\* A text behind whole lines has the lines that are left.
LEMMA CountBehind ==
    ASSUME NEW A, NEW x \in Seq(A), NEW y \in Seq(A), x # << >> => x[Len(x)] \in LineBreaks
    PROVE  LineCount(x \o y) = LineCount(x) + LineCount(y)
<1> DEFINE z == x \o y
           m == Len(x)
           moved == {m + i : i \in LineEnds(y)}
           f == [i \in LineEnds(y) |-> m + i]
<1>1. /\ z \in Seq(A) /\ Len(z) = m + Len(y)
      /\ \A i \in 1 .. m + Len(y) : z[i] = IF i <= m THEN x[i] ELSE y[i - m]
      /\ m \in Nat /\ Len(y) \in Nat
  BY ConcatProperties
<1>2. /\ IsFiniteSet(LineEnds(x)) /\ IsFiniteSet(LineEnds(y))
      /\ LineEnds(x) \subseteq 1 .. m /\ LineEnds(y) \subseteq 1 .. Len(y)
  BY EndsOrdered
<1>3. m # 0 => x[m] \in LineBreaks
  <2>1. m # 0 => x # << >>
    OBVIOUS
  <2> QED BY <2>1
<1> HIDE DEF z, m
<1>4. LineEnds(z) = LineEnds(x) \cup moved
  <2>1. ASSUME NEW i \in 1 .. m
        PROVE  i \in LineEnds(z) <=> i \in LineEnds(x)
    <3>1. i \in LineEnds(z) <=> (x[i] \in LineBreaks \/ i = m + Len(y))
      BY <1>1 DEF LineEnds
    <3>2. i \in LineEnds(x) <=> (x[i] \in LineBreaks \/ i = m)
      BY DEF LineEnds, m
    <3> QED BY <1>1, <1>3, <3>1, <3>2
  <2>2. ASSUME NEW i \in 1 .. Len(y)
        PROVE  m + i \in LineEnds(z) <=> i \in LineEnds(y)
    <3>1. m + i \in 1 .. m + Len(y) /\ ~(m + i <= m) /\ (m + i) - m = i
      BY <1>1
    <3>2. z[m + i] = y[i]
      BY <1>1, <3>1
    <3>3. m + i \in LineEnds(z) <=> (y[i] \in LineBreaks \/ m + i = m + Len(y))
      BY <1>1, <3>1, <3>2 DEF LineEnds
    <3>4. i \in LineEnds(y) <=> (y[i] \in LineBreaks \/ i = Len(y))
      BY DEF LineEnds
    <3>5. m + i = m + Len(y) <=> i = Len(y)
      <4> DEFINE k == Len(y)
      <4>1. k \in Int /\ m \in Int /\ i \in Int
        BY <1>1
      <4> HIDE DEF k
      <4>2. m + i = m + k <=> i = k
        BY <4>1
      <4> QED BY <4>2 DEF k
    <3> QED BY <3>3, <3>4, <3>5
  <2>3. LineEnds(z) \subseteq 1 .. m + Len(y)
    BY <1>1 DEF LineEnds
  <2>4. \A i \in 1 .. m + Len(y) : i \in 1 .. m \/ (i - m \in 1 .. Len(y) /\ m + (i - m) = i)
    BY <1>1
  <2>5. \A i \in LineEnds(z) : i \in LineEnds(x) \cup moved
    <3> SUFFICES ASSUME NEW i \in LineEnds(z), i \notin 1 .. m
                 PROVE  i \in moved
      BY <2>1
    <3>1. i - m \in 1 .. Len(y) /\ m + (i - m) = i
      BY <2>3, <2>4
    <3>2. i - m \in LineEnds(y)
      BY <2>2, <3>1
    <3> QED BY <3>1, <3>2
  <2>6. \A i \in LineEnds(x) : i \in LineEnds(z)
    BY <1>2, <2>1
  <2>7. \A i \in moved : i \in LineEnds(z)
    BY <1>2, <2>2
  <2> QED BY <2>5, <2>6, <2>7
<1>5. f \in Bijection(LineEnds(y), moved)
  <2>1. f \in [LineEnds(y) -> moved]
    OBVIOUS
  <2>2. \A i, j \in LineEnds(y) : f[i] = f[j] => i = j
    BY <1>1, <1>2
  <2>3. f \in Injection(LineEnds(y), moved)
    BY <2>1, <2>2 DEF Injection, IsInjective
  <2>4. f \in Surjection(LineEnds(y), moved)
    BY <2>1 DEF Surjection
  <2> QED BY <2>3, <2>4 DEF Bijection
<1>6. LineEnds(x) \cap moved = {}
  BY <1>1, <1>2
<1> HIDE DEF moved, f
<1>7. IsFiniteSet(moved) /\ Cardinality(moved) = Cardinality(LineEnds(y))
  BY <1>2, <1>5, FS_Bijection DEF ExistsBijection
<1>8. Cardinality(LineEnds(x)) \in Nat /\ Cardinality(LineEnds(y)) \in Nat
  BY <1>2, FS_CardinalityType
<1>9. Cardinality(LineEnds(x) \cup moved)
        = Cardinality(LineEnds(x)) + Cardinality(moved) - Cardinality({})
  BY <1>2, <1>6, <1>7, FS_Union
<1>10. Cardinality(LineEnds(z)) = Cardinality(LineEnds(x)) + Cardinality(LineEnds(y))
  BY <1>4, <1>7, <1>8, <1>9, FS_EmptySet
<1> QED BY <1>10 DEF LineCount, z
LEMMA SomeLine ==
    ASSUME NEW A, NEW text \in Seq(A)
    PROVE  LineCount(text) \in Nat /\ (text # << >> => LineCount(text) >= 1)
<1> DEFINE n == LineCount(text)
           ends == Ascending(LineEnds(text))
<1>1. EndsOf(ends, n, text)
  BY EndsOrdered
<1> HIDE DEF n, ends
<1>2. n \in Nat
  BY <1>1 DEF EndsOf
<1>3. text # << >> => n \in 1 .. n
  BY <1>1, LastEnd
<1> QED BY <1>2, <1>3 DEF n

LEMMA BehindEnd ==
    ASSUME NEW A, NEW text \in Seq(A), NEW e \in LineEnds(text)
    PROVE  LET k == LineCount(SubSeq(text, 1, e))
           IN  /\ k \in 1 .. LineCount(text)
               /\ FlattenSeq(SubSeq(KeptLines(text), k + 1, LineCount(text)))
                    = SubSeq(text, e + 1, Len(text))
<1> DEFINE n == LineCount(text)
           ends == Ascending(LineEnds(text))
<1>1. EndsOf(ends, n, text)
  BY EndsOrdered
<1> HIDE DEF ends, n
<1>2. PICK k \in 1 .. n : ends[k] = e
  BY <1>1 DEF EndsOf
<1>3. LineCount(SubSeq(text, 1, ends[k])) = k
  BY <1>1, PrefixCount
<1>4. FlattenSeq(SubSeq(KeptLines(text), k + 1, n)) = SubSeq(text, ends[k] + 1, Len(text))
  BY <1>1, KeptFrom
<1> QED BY <1>2, <1>3, <1>4 DEF n

\* Is no line of a text longer than size?
LinesUpTo(text, size) == \A i \in DOMAIN KeptLines(text) : Len(KeptLines(text)[i]) <= size

\* The line behind the end of another ends within its size.
LEMMA NextEnd ==
    ASSUME NEW A, NEW text \in Seq(A), NEW size \in Nat, LinesUpTo(text, size),
           NEW e \in 0 .. Len(text) - 1, e = 0 \/ e \in LineEnds(text)
    PROVE  \E f \in LineEnds(text) : e < f /\ f <= e + size
<1> DEFINE n == LineCount(text)
           ends == Ascending(LineEnds(text))
           lines == KeptLines(text)
<1>1. EndsOf(ends, n, text)
  BY EndsOrdered
<1>2. lines = [k \in 1 .. n |-> SubSeq(text, IF k = 1 THEN 1 ELSE ends[k - 1] + 1, ends[k])]
  BY DEF KeptLines
<1>3. \A i \in 1 .. n : Len(lines[i]) <= size
  BY <1>2 DEF LinesUpTo
<1> HIDE DEF n, ends, lines
<1>4. n \in 1 .. n /\ ends[n] = Len(text) /\ n \in Nat
  <2>1. text # << >>
    OBVIOUS
  <2> QED BY <1>1, <2>1, LastEnd DEF EndsOf
<1>5. CASE e = 0
  <2>1. 1 \in 1 .. n
    BY <1>4
  <2>2. lines[1] = SubSeq(text, 1, ends[1]) /\ ends[1] \in 1 .. Len(text)
    BY <1>1, <1>2, <2>1, EndsBounds
  <2>3. Len(lines[1]) = ends[1]
    BY <2>2
  <2>4. ends[1] \in LineEnds(text)
    BY <1>1, <2>1 DEF EndsOf
  <2> QED BY <1>3, <1>5, <2>1, <2>2, <2>3, <2>4
<1>6. CASE e # 0
  <2>1. PICK k \in 1 .. n : ends[k] = e
    BY <1>1, <1>6 DEF EndsOf
  <2>2. k # n
    BY <1>4, <2>1
  <2> DEFINE next == k + 1
  <2>3. next \in 1 .. n /\ next # 1 /\ next - 1 = k /\ k < next
    BY <1>4, <2>2
  <2> HIDE DEF next
  <2>4. lines[next] = SubSeq(text, e + 1, ends[next])
    BY <1>2, <2>1, <2>3
  <2>5. ends[next] \in 1 .. Len(text) /\ ends[next] \in LineEnds(text) /\ e < ends[next]
    <3>1. ends[next] \in LineEnds(text) /\ ends[k] < ends[next]
      BY <1>1, <2>3 DEF EndsOf
    <3> QED BY <1>1, <2>1, <2>3, <3>1, EndsBounds
  <2>6. Len(lines[next]) = ends[next] - e
    BY <2>4, <2>5
  <2>7. ends[next] - e <= size
    BY <1>3, <2>3, <2>6
  <2>8. ends[next] <= e + size
    BY <2>5, <2>7
  <2> QED BY <2>5, <2>8
<1> QED BY <1>5, <1>6

\* What is returned of a text from the end e of a line on, up to another one.
ReturnedTo(text, e, size, f) ==
    /\ f \in LineEnds(text) /\ f \in e + 1 .. e + size
    /\ FittingPrefix(SubSeq(text, e + 1, Len(text)), size) = SubSeq(text, e + 1, f)
    /\ LineCount(SubSeq(text, e + 1, f)) >= 1
    /\ LineCount(SubSeq(text, 1, f))
         = LineCount(SubSeq(text, 1, e)) + LineCount(SubSeq(text, e + 1, f))

LEMMA ReturnsLines ==
    ASSUME NEW A, NEW text \in Seq(A), NEW size \in Nat, LinesUpTo(text, size),
           NEW e \in 0 .. Len(text) - 1, e = 0 \/ e \in LineEnds(text)
    PROVE  \E f \in LineEnds(text) : ReturnedTo(text, e, size, f)
<1> DEFINE rest == SubSeq(text, e + 1, Len(text))
           within == {i \in LineEnds(rest) : i <= size}
           cut == Max(within)
           f == e + cut
<1>1. PICK g \in LineEnds(text) : e < g /\ g <= e + size
  BY NextEnd
<1>2. g \in 1 .. Len(text) /\ g - e \in 1 .. Len(text) - e /\ e + (g - e) = g
  BY <1>1 DEF LineEnds
<1>3. g - e \in LineEnds(rest)
  BY <1>1, <1>2, EndsBehind
<1>4. \A i \in within : i \in Nat /\ i <= size
  BY DEF LineEnds
<1>5. g - e \in within
  BY <1>1, <1>2, <1>3
<1>6. cut \in within
  <2> HIDE DEF within
  <2> QED BY <1>4, <1>5, MaxOfBounded
<1>7. FittingPrefix(rest, size) = SubSeq(rest, 1, cut)
  BY <1>5 DEF FittingPrefix
<1>8. cut \in LineEnds(rest) /\ cut <= size
  BY <1>6
<1> HIDE DEF within, cut
<1>9. cut \in 1 .. Len(text) - e /\ e + cut \in LineEnds(text)
  <2> HIDE DEF rest
  <2> QED BY <1>8, EndsBehind DEF rest
<1>10. SubSeq(rest, 1, cut) = SubSeq(text, e + 1, f)
  BY <1>9
<1>11. f \in LineEnds(text) /\ f \in e + 1 .. e + size /\ f \in e + 1 .. Len(text)
  BY <1>8, <1>9
<1> HIDE DEF f, rest
<1> DEFINE x == SubSeq(text, 1, e)
           y == SubSeq(text, e + 1, f)
<1>12. x \in Seq(A) /\ y \in Seq(A) /\ Len(x) = e /\ Len(y) = f - e
  BY <1>11
<1>13. x # << >> => x[Len(x)] \in LineBreaks
  <2> SUFFICES ASSUME x # << >>
               PROVE  x[Len(x)] \in LineBreaks
    OBVIOUS
  <2>1. e # 0
    OBVIOUS
  <2>2. text[e] \in LineBreaks
    BY <2>1 DEF LineEnds
  <2> QED BY <1>12, <2>1, <2>2
<1>14. x \o y = SubSeq(text, 1, f)
  <2>1. 1 \in 1 .. Len(text) + 1 /\ e \in 1 - 1 .. Len(text) /\ f \in e .. Len(text)
    BY <1>11
  <2> QED BY <2>1, ConcatAdjacentSubSeq
<1>15. y # << >>
  BY <1>11, <1>12
<1> HIDE DEF x, y
<1>16. LineCount(x \o y) = LineCount(x) + LineCount(y)
  BY <1>12, <1>13, CountBehind
<1>17. LineCount(y) >= 1
  BY <1>12, <1>15, SomeLine
<1>18. ReturnedTo(text, e, size, f)
  BY <1>7, <1>10, <1>11, <1>14, <1>16, <1>17 DEF ReturnedTo, x, y, rest
<1> QED BY <1>11, <1>18
----------------------------------------------------------------------------
(* Limits.                                                                 *)

LEMMA LastOne ==
    ASSUME NEW A, NEW x \in Seq(A), NEW a \in A
    PROVE  LET y == x \o <<a>>
           IN  y \in Seq(A) /\ y # << >> /\ Front(y) = x /\ Last(y) = a
<1> DEFINE y == x \o <<a>>
<1>1. /\ y \in Seq(A) /\ Len(y) = Len(x) + 1 /\ y[Len(x) + 1] = a
      /\ \A i \in 1 .. Len(x) : y[i] = x[i]
  OBVIOUS
<1> HIDE DEF y
<1>2. Len(x) \in Nat
  OBVIOUS
<1>3. Last(y) = a /\ y # << >>
  BY <1>1, <1>2 DEF Last
<1>4. Front(y) = SubSeq(y, 1, Len(x))
  BY <1>1, <1>2 DEF Front
<1>5. SubSeq(y, 1, Len(x)) = SubSeq(x, 1, Len(x))
  BY <1>1, <1>2
<1>6. Front(y) = x
  BY <1>4, <1>5, SubSeqFull
<1> QED BY <1>1, <1>3, <1>6 DEF y

LEMMA NotedWithin ==
    ASSUME NEW A, NL \in A, Sentinel \in A, NEW text \in Seq(A), NEW rest \in Seq(A),
           NEW maxLines \in Nat \ {0}, LineCount(text) <= maxLines, NEW pieces
    PROVE  Honoured(WithNote(pieces, text).code, text \o rest, maxLines)
<1> DEFINE full == text \o rest
           code == WithNote(pieces, text).code
           n == Len(text)
<1>1. n \in 0 .. Len(full) /\ SubSeq(full, 1, n) = text
  <2>1. /\ full \in Seq(A) /\ Len(full) = Len(text) + Len(rest)
        /\ Len(text) \in Nat /\ Len(rest) \in Nat
        /\ \A i \in 1 .. Len(text) : full[i] = text[i]
    OBVIOUS
  <2> HIDE DEF full
  <2>2. SubSeq(full, 1, n) = SubSeq(text, 1, n)
    BY <2>1
  <2> QED BY <2>1, <2>2, SubSeqFull
<1>2. code \in {text \o <<Sentinel>>, text \o <<NL, Sentinel>>}
  <2>1. text \o << >> = text /\ (text \o <<NL>>) \o <<Sentinel>> = text \o <<NL, Sentinel>>
    OBVIOUS
  <2> QED BY <2>1 DEF WithNote
<1> HIDE DEF full, code, n
<1>3. \E m \in 0 .. Len(full) :
         /\ LineCount(SubSeq(full, 1, m)) <= maxLines
         /\ code \in {SubSeq(full, 1, m) \o <<Sentinel>>, SubSeq(full, 1, m) \o <<NL, Sentinel>>}
  BY <1>1, <1>2
<1>4. maxLines > 0
  OBVIOUS
<1>5. Honoured(code, full, maxLines)
  BY <1>3, <1>4 DEF Honoured
<1> QED BY <1>5 DEF full, code

\* Pieces that are within the limit together have no more lines.
LEMMA TogetherCount ==
    ASSUME NEW A, NEW pieces \in Seq(Seq(A)), NEW maxLines \in Nat,
           NEW n \in TogetherWithin(pieces, maxLines)
    PROVE  LineCount(FlattenSeq(SubSeq(pieces, 1, n))) <= maxLines
<1>1. /\ n \in 0 .. Len(pieces)
      /\ \A k \in 1 .. n : LineCount(FlattenSeq(SubSeq(pieces, 1, k))) <= maxLines
  BY DEF TogetherWithin
<1>2. CASE n = 0
  <2> DEFINE text == FlattenSeq(SubSeq(pieces, 1, n))
  <2>1. SubSeq(pieces, 1, n) = << >>
    BY <1>2
  <2>2. text = << >>
    BY <2>1, FlattenEmpty
  <2> HIDE DEF text
  <2>3. LineEnds(text) = {}
    BY <2>2 DEF LineEnds
  <2>4. LineCount(text) = 0
    BY <2>3, FS_EmptySet DEF LineCount
  <2> QED BY <2>4 DEF text
<1>3. CASE n # 0
  <2>1. n \in 1 .. n
    BY <1>1, <1>3
  <2> QED BY <1>1, <2>1
<1> QED BY <1>2, <1>3

LEMMA LimitedWithin ==
    ASSUME NEW A, NL \in A, Sentinel \in A, NEW pieces \in Seq(Seq(A)), NEW maxLines \in Nat
    PROVE  Honoured(LimitPieces(pieces, maxLines).code, FlattenSeq(pieces), maxLines)
<1> DEFINE together == TogetherWithin(pieces, maxLines)
           n == IF maxLines = 0 THEN Len(pieces) ELSE Max(together)
<1>1. LimitPieces(pieces, maxLines) = UpTo(pieces, n)
  BY DEF LimitPieces
<1>2. maxLines # 0 => n \in together
  <2>1. Len(pieces) \in Nat /\ 0 \in together /\ \A i \in together : i \in Nat /\ i <= Len(pieces)
    BY DEF TogetherWithin
  <2> HIDE DEF together
  <2> QED BY <2>1, MaxOfBounded
<1>3. maxLines # 0 => /\ n \in 0 .. Len(pieces)
                      /\ LineCount(FlattenSeq(SubSeq(pieces, 1, n))) <= maxLines
  <2>1. \A m \in together : m \in 0 .. Len(pieces)
    BY DEF TogetherWithin
  <2> HIDE DEF n
  <2> QED BY <1>2, <2>1, TogetherCount
<1>4. n = Len(pieces) \/ maxLines # 0
  OBVIOUS
<1> HIDE DEF n, together
<1>5. CASE n = Len(pieces)
  <2>1. LimitPieces(pieces, maxLines).code = FlattenSeq(pieces)
    BY <1>1, <1>5 DEF UpTo
  <2>2. SubSeq(pieces, 1, Len(pieces)) = pieces
    BY SubSeqFull
  <2> QED BY <1>3, <1>5, <2>1, <2>2 DEF Honoured
<1>6. CASE n # Len(pieces)
  <2> DEFINE some == SubSeq(pieces, 1, n)
             others == SubSeq(pieces, n + 1, Len(pieces))
             text == FlattenSeq(some)
             rest == FlattenSeq(others)
  <2>1. maxLines \in Nat \ {0} /\ n \in 0 .. Len(pieces) /\ LineCount(text) <= maxLines
    BY <1>3, <1>4, <1>6
  <2>2. some \in Seq(Seq(A)) /\ others \in Seq(Seq(A))
    BY <2>1
  <2>3. FlattenSeq(pieces) = text \o rest
    BY <2>1, FlattenSplit
  <2>4. LimitPieces(pieces, maxLines) = WithNote(some, text)
    BY <1>1, <1>6 DEF UpTo
  <2> HIDE DEF some, others
  <2>5. text \in Seq(A) /\ rest \in Seq(A)
    BY <2>2, FlattenTyped
  <2> HIDE DEF text, rest
  <2>6. Honoured(WithNote(some, text).code, text \o rest, maxLines)
    BY <2>1, <2>5, NotedWithin
  <2> QED BY <2>3, <2>4, <2>6
<1> QED BY <1>5, <1>6
----------------------------------------------------------------------------
(* The tree of a symbol.                                                   *)

Kids(rows, s) == InSymbolOrder({r \in rows : r.parent = s.id})

\* A symbol's code above those that f gives its children.
NodeOver(tables, rows, maxLines, s, f) ==
    CodeOfChunks(s, OrderedChunks(LoadChunks(tables, s.id)), maxLines,
                 [i \in DOMAIN Kids(rows, s) |-> f[Kids(rows, s)[i]]])

TreeBy(f, tables, rows, maxLines) == f = [s \in rows |-> NodeOver(tables, rows, maxLines, s, f)]

LEMMA TreeUnfolded ==
    ASSUME NEW tables, NEW row, NEW rows, NEW maxLines
    PROVE  BuildCodeTree(tables, row, rows, maxLines)
             = NodeOver(tables, rows, maxLines, row, CHOOSE f : TreeBy(f, tables, rows, maxLines))
BY DEF BuildCodeTree, NodeOver, TreeBy, Kids, Each

\* Rows whose children are sorted, and deeper than they are.
Deeper(h, rows) ==
    /\ IsFiniteSet(rows) /\ h \in [rows -> Nat]
    /\ \A r, s \in rows : r.parent = s.id => h[r] < h[s]
    /\ \A r \in rows : TypedRow(r)
    /\ \A r, s \in rows : r.id = s.id => r = s

LEMMA KidsAreRows ==
    ASSUME NEW rows, NEW h, Deeper(h, rows), NEW s
    PROVE  /\ DOMAIN Kids(rows, s) = 1 .. Cardinality({r \in rows : r.parent = s.id})
           /\ \A i \in DOMAIN Kids(rows, s) : Kids(rows, s)[i] \in {r \in rows : r.parent = s.id}
<1> DEFINE kids == {r \in rows : r.parent = s.id}
           o == InSymbolOrder(kids)
           less == {p \in kids \X kids : Before(p[1], p[2])}
<1>1. kids \in SUBSET rows /\ IsFiniteSet(rows)
  BY DEF Deeper
<1>2. \A r \in kids : TypedRow(r)
  BY DEF Deeper
<1>3. \A q, r \in kids : q.id = r.id => q = r
  BY DEF Deeper
<1>4. Kids(rows, s) = o
  BY DEF Kids
<1>5. IsFiniteSet(kids)
  <2> HIDE DEF kids
  <2> QED BY <1>1, FS_Subset
<1> HIDE DEF kids
<1>6. SortedBy(o, kids, less)
  BY <1>2, <1>3, <1>5, SymbolsSorted
<1>7. o \in [1 .. Cardinality(kids) -> kids]
  BY <1>6 DEF SortedBy
<1> HIDE DEF o
<1> QED BY <1>4, <1>7 DEF kids

\* The number of rows that are deeper bounds the depth below a row.
LEMMA Ranked ==
    ASSUME NEW rows, NEW h, Deeper(h, rows)
    PROVE  \E g \in [rows -> 0 .. Cardinality(rows)] : Deeper(g, rows)
<1> DEFINE n == Cardinality(rows)
           Below(s) == {r \in rows : h[r] < h[s]}
           g == [s \in rows |-> Cardinality(Below(s))]
<1>1. IsFiniteSet(rows) /\ n \in Nat
  BY FS_CardinalityType DEF Deeper
<1>2. ASSUME NEW s \in rows
      PROVE  IsFiniteSet(Below(s)) /\ g[s] = Cardinality(Below(s)) /\ g[s] \in 0 .. n
  <2>1. Below(s) \in SUBSET rows /\ g[s] = Cardinality(Below(s))
    OBVIOUS
  <2> HIDE DEF Below, g
  <2>2. IsFiniteSet(Below(s)) /\ Cardinality(Below(s)) \in Nat /\ Cardinality(Below(s)) <= n
    BY <1>1, <2>1, FS_Subset, FS_CardinalityType
  <2> QED BY <1>1, <2>1, <2>2
<1>3. ASSUME NEW r \in rows, NEW s \in rows, r.parent = s.id
      PROVE  g[r] < g[s]
  <2>1. h[r] < h[s] /\ \A q \in rows : h[q] \in Nat
    BY <1>3 DEF Deeper
  <2>2. Below(r) \in SUBSET Below(s)
    BY <2>1
  <2>3. r \in Below(s) /\ r \notin Below(r)
    BY <2>1
  <2>4. IsFiniteSet(Below(s)) /\ g[r] = Cardinality(Below(r)) /\ g[s] = Cardinality(Below(s))
        /\ g[r] \in 0 .. n /\ g[s] \in 0 .. n
    BY <1>2
  <2> HIDE DEF Below, g
  <2>5. Cardinality(Below(r)) <= Cardinality(Below(s))
        /\ Cardinality(Below(r)) # Cardinality(Below(s))
    BY <2>2, <2>3, <2>4, FS_Subset
  <2> QED BY <1>1, <2>4, <2>5
<1>4. g \in [rows -> 0 .. n]
  <2>1. g = [s \in rows |-> g[s]]
    OBVIOUS
  <2>2. \A s \in rows : g[s] \in 0 .. n
    BY <1>2
  <2> HIDE DEF g
  <2> QED BY <2>1, <2>2
<1> HIDE DEF g
<1>5. g \in [rows -> Nat]
  BY <1>1, <1>4
<1>6. Deeper(g, rows)
  BY <1>3, <1>5 DEF Deeper
<1> QED BY <1>4, <1>6

\* Nothing but the children of a row matters to what is made of it.
LEMMA SameBelow ==
    ASSUME NEW tables, NEW rows, NEW h, Deeper(h, rows), NEW maxLines, NEW s, NEW f, NEW g,
           \A r \in rows : r.parent = s.id => f[r] = g[r]
    PROVE  NodeOver(tables, rows, maxLines, s, f) = NodeOver(tables, rows, maxLines, s, g)
<1> DEFINE kids == Kids(rows, s)
<1>1. \A i \in DOMAIN kids : kids[i] \in rows /\ kids[i].parent = s.id
  BY KidsAreRows
<1> HIDE DEF kids
<1>2. [i \in DOMAIN kids |-> f[kids[i]]] = [i \in DOMAIN kids |-> g[kids[i]]]
  BY <1>1
<1> QED BY <1>2 DEF NodeOver, kids

\* The recursion of the tree comes to an end, whatever the rows are.
LEMMA TreeExists ==
    ASSUME NEW tables, NEW rows, NEW deep, Deeper(deep, rows), NEW maxLines
    PROVE  \E f : TreeBy(f, tables, rows, maxLines)
<1> DEFINE n == Cardinality(rows)
<1>1. PICK h \in [rows -> 0 .. n] : Deeper(h, rows)
  BY Ranked
<1>2. n \in Nat
  BY FS_CardinalityType DEF Deeper
<1> HIDE DEF n
<1> DEFINE Low(k) == {s \in rows : h[s] < k}
           Over(s, f) == NodeOver(tables, rows, maxLines, s, f)
           Grown(f, k) == f = [s \in Low(k) |-> Over(s, f)]
           P == {k \in 0 .. n + 1 : \E f : Grown(f, k)}
<1>3. \A s \in rows : h[s] \in 0 .. n
  BY <1>1
<1>4. \A s, r \in rows : r.parent = s.id => h[r] < h[s]
  BY <1>1 DEF Deeper
<1>5. \A s, f, g : (\A r \in rows : r.parent = s.id => f[r] = g[r]) => Over(s, f) = Over(s, g)
  BY <1>1, SameBelow
<1> HIDE DEF Over
<1>6. 0 \in P
  <2> DEFINE f == [s \in {} |-> s]
  <2>1. Low(0) = {}
    BY <1>3
  <2>2. [s \in {} |-> Over(s, f)] = f
    OBVIOUS
  <2> HIDE DEF f, Low
  <2>3. Grown(f, 0)
    BY <2>1, <2>2
  <2>4. 0 \in 0 .. n + 1
    BY <1>2
  <2> QED BY <2>3, <2>4
<1>7. ASSUME NEW k \in 0 .. (n + 1) - 1, k \in P
      PROVE  k + 1 \in P
  <2>1. PICK f : Grown(f, k)
    BY <1>7
  <2> DEFINE g == [s \in Low(k + 1) |-> Over(s, f)]
  <2>2. \A s \in Low(k) : f[s] = Over(s, f)
    BY <2>1
  <2>3. \A s \in Low(k + 1) : g[s] = Over(s, f)
    OBVIOUS
  <2>4. k \in Int /\ k + 1 \in 0 .. n + 1
    BY <1>2
  <2>5. ASSUME NEW s \in Low(k + 1)
        PROVE  Over(s, f) = Over(s, g)
    <3>1. ASSUME NEW r \in rows, r.parent = s.id
          PROVE  f[r] = g[r]
      <4>1. h[r] < h[s] /\ h[s] < k + 1 /\ h[r] \in Int /\ h[s] \in Int
        BY <1>3, <1>4, <3>1
      <4>2. r \in Low(k) /\ r \in Low(k + 1)
        BY <2>4, <4>1
      <4> HIDE DEF g, Low
      <4> QED BY <2>2, <2>3, <4>2
    <3> HIDE DEF g
    <3> QED BY <1>5, <3>1
  <2>6. g = [s \in Low(k + 1) |-> Over(s, g)]
    <3>1. [s \in Low(k + 1) |-> Over(s, f)] = [s \in Low(k + 1) |-> Over(s, g)]
      <4> HIDE DEF g, Low
      <4> QED BY <2>5
    <3> QED BY <3>1
  <2> HIDE DEF g
  <2>7. Grown(g, k + 1)
    BY <2>6
  <2> HIDE DEF Grown
  <2> QED BY <2>4, <2>7
<1> HIDE DEF P
<1>8. n + 1 \in P
  <2>1. \A k \in 0 .. n + 1 : k \in P
    <3> DEFINE m == n + 1
    <3>1. m \in Nat /\ 0 \in P /\ \A k \in 0 .. m - 1 : k \in P => k + 1 \in P
      BY <1>2, <1>6, <1>7
    <3> HIDE DEF m
    <3>2. \A k \in 0 .. m : k \in P
      BY <3>1, UpTo0
    <3> QED BY <3>2 DEF m
  <2> QED BY <1>2, <2>1
<1>9. PICK f : Grown(f, n + 1)
  BY <1>8 DEF P
<1>10. Low(n + 1) = rows
  BY <1>2, <1>3
<1>11. f = [s \in rows |-> Over(s, f)]
  <2> HIDE DEF Low
  <2> QED BY <1>9, <1>10
<1>12. TreeBy(f, tables, rows, maxLines)
  BY <1>11 DEF TreeBy, Over
<1> QED BY <1>12
\* The chunks of a database: typed, with those of one symbol apart.
ChunksTyped(tables) ==
    /\ \A id : Numbered(LoadChunks(tables, id))
    /\ \A c \in tables.chunks : c.content \in Seq(Int \X Int)

PieceTexts(tables, id) == Each(OrderedChunks(LoadChunks(tables, id)), LAMBDA c : c.content)

FullCode(tables, id) == FlattenSeq(PieceTexts(tables, id))

LEMMA ContentsTyped ==
    ASSUME NEW tables, ChunksTyped(tables), NEW id
    PROVE  PieceTexts(tables, id) \in Seq(Seq(Int \X Int)) /\ FullCode(tables, id) \in Seq(Int \X Int)
<1> DEFINE rows == LoadChunks(tables, id)
           o == OrderedChunks(rows)
           A == Int \X Int
<1>1. rows \subseteq tables.chunks
  BY DEF LoadChunks
<1>2. \A c \in rows : c.content \in Seq(A)
  BY <1>1 DEF ChunksTyped
<1>3. Numbered(rows)
  BY DEF ChunksTyped
<1> HIDE DEF rows
<1>4. o \in Seq(rows)
  BY <1>3, OrderedTyped
<1>5. PieceTexts(tables, id) = [i \in DOMAIN o |-> o[i].content]
  BY DEF PieceTexts, Each, rows
<1> HIDE DEF o, A
<1>6. DOMAIN o = 1 .. Len(o) /\ Len(o) \in Nat /\ \A i \in 1 .. Len(o) : o[i] \in rows
  BY <1>4
<1>7. PieceTexts(tables, id) \in Seq(Seq(A))
  <2> DEFINE n == Len(o)
             B == Seq(A)
             contents == [i \in 1 .. n |-> o[i].content]
  <2>1. n \in Nat /\ \A i \in 1 .. n : o[i].content \in B
    BY <1>2, <1>6
  <2> HIDE DEF n, B
  <2>2. contents \in Seq(B)
    BY <2>1
  <2>3. PieceTexts(tables, id) = contents
    BY <1>5, <1>6 DEF n
  <2> QED BY <2>2, <2>3 DEF B
<1>8. FlattenSeq(PieceTexts(tables, id)) \in Seq(A)
  BY <1>7, FlattenTyped
<1> QED BY <1>7, <1>8 DEF FullCode, A

\* The code of a symbol, with up to maxLines lines or whole.
CodedAs(c, tables, s, maxLines) ==
    /\ c.id = s.id /\ c.start = s.start /\ c.end = s.end
    /\ Honoured(c.code, FullCode(tables, s.id), maxLines)
    /\ maxLines = 0 => c.code = FullCode(tables, s.id)

LEMMA NodeChildren ==
    ASSUME NEW tables, NEW rows, NEW maxLines, NEW s, NEW f
    PROVE  NodeOver(tables, rows, maxLines, s, f).children
             = [i \in DOMAIN Kids(rows, s) |-> f[Kids(rows, s)[i]]]
BY DEF NodeOver, CodeOfChunks, SymbolCode

LEMMA NodeCode ==
    ASSUME NEW tables, ChunksTyped(tables), NEW rows, NEW maxLines \in Nat, NEW s, NEW f
    PROVE  CodedAs(NodeOver(tables, rows, maxLines, s, f), tables, s, maxLines)
<1> DEFINE c == NodeOver(tables, rows, maxLines, s, f)
           children == [i \in DOMAIN Kids(rows, s) |-> f[Kids(rows, s)[i]]]
           limited == LimitPieces(PieceTexts(tables, s.id), maxLines)
<1>1. c = SymbolCode(s, PieceSignature(OrderedChunks(LoadChunks(tables, s.id))), limited, children)
  BY DEF NodeOver, CodeOfChunks, PieceTexts
<1> HIDE DEF c
<1>2. /\ c.id = s.id /\ c.start = s.start /\ c.end = s.end
      /\ c.code = limited.code
  BY <1>1 DEF SymbolCode
<1>3. NL \in Int \X Int /\ Sentinel \in Int \X Int
  BY DEF NL, Sentinel
<1>4. Honoured(limited.code, FlattenSeq(PieceTexts(tables, s.id)), maxLines)
  <2>1. PieceTexts(tables, s.id) \in Seq(Seq(Int \X Int))
    BY ContentsTyped
  <2> QED BY <1>3, <2>1, LimitedWithin
<1>5. maxLines = 0 => limited.code = FlattenSeq(PieceTexts(tables, s.id))
  BY DEF LimitPieces, UpTo
<1> QED BY <1>2, <1>4, <1>5 DEF CodedAs, c, FullCode

----------------------------------------------------------------------------
(* The rows of an index.                                                   *)

\* The rows are those of the files that were inserted, whole.
RowsInv ==
    /\ \E repository \in Repositories : files \cup refused \cup todo \subseteq repository
    /\ db.symbols = UNION {SymbolRows(e.file, Chunked[e.file]) : e \in files}
    /\ db.chunks = UNION {ChunkRows(e.file, Chunked[e.file]) : e \in files}
    /\ db.tags = UNION {{<<TagToString(e.branch), c.id>> : c \in Chunked[e.file].chunks} :
                           e \in files}
    /\ \A e \in files : ~InsertRaises(Chunked[e.file])
    /\ IsFiniteSet(db.symbols) /\ IsFiniteSet(db.chunks)

\* What a symbol's row has of the symbol, and a chunk's of the chunk.
LEMMA WithFileOfSymbol ==
    ASSUME NEW s \in SymbolRecord, NEW file
    PROVE  LET row == WithFile(s, file)
           IN  /\ row.path = file.path /\ row.key = file.key
               /\ row.id = s.id /\ row.name = s.name /\ row.parent = s.parent
               /\ row.type = s.type /\ row.start = s.start /\ row.end = s.end
<1>1. DOMAIN s = {"id", "type", "name", "parent", "start", "end", "signature"}
  BY DEF SymbolRecord
<1> QED BY <1>1 DEF WithFile

LEMMA WithFileOfChunk ==
    ASSUME NEW c \in ChunkRecord, NEW file
    PROVE  LET row == WithFile(c, file)
           IN  /\ row.path = file.path /\ row.key = file.key
               /\ row.id = c.id /\ row.symbol = c.symbol /\ row.content = c.content
               /\ row.piece = c.piece /\ row.count = c.count
               /\ row.start = c.start /\ row.end = c.end
<1>1. DOMAIN c = {"id", "symbol", "piece", "count", "prev", "next", "content", "start",
                  "end", "signature"}
  BY DEF ChunkRecord
<1> QED BY <1>1 DEF WithFile

\* The assumptions on the files of an index that is under way.
LEMMA IndexedEntries ==
    ASSUME RowsInv
    PROVE  /\ \A e \in files \cup todo : WellFormed(Chunked[e.file]) /\ e.file.path \in Int
           /\ \A e, f \in files \cup todo : e # f => Apart(Chunked[e.file], Chunked[f.file])
           /\ \A e, f \in files \cup todo : e.file.key = f.file.key => e = f
           /\ \A e, f \in files \cup todo :
                 e.file.path = f.file.path /\ e.branch = f.branch => e = f
<1>1. PICK repository \in Repositories : files \cup todo \subseteq repository
  BY DEF RowsInv
<1>2. \A e \in repository : e.file.path \in Int /\ WellFormed(Chunked[e.file])
  BY ChunkedAssumption
<1>3. \A e, f \in repository : e # f => Apart(Chunked[e.file], Chunked[f.file])
  BY ChunkedAssumption
<1> QED BY <1>1, <1>2, <1>3, RepositoriesAssumption

\* A row of a file comes from a symbol that the chunker made of it.
LEMMA SymbolOfRow ==
    ASSUME NEW e, WellFormed(Chunked[e.file]), e.file.path \in Int,
           NEW row \in SymbolRows(e.file, Chunked[e.file])
    PROVE  /\ row.path = e.file.path /\ row.key = e.file.key
           /\ TypedRow(row) /\ row.name # EmptyQuery
           /\ \E i \in DOMAIN Chunked[e.file].symbols :
                 /\ row = WithFile(Chunked[e.file].symbols[i], e.file)
                 /\ row.id = Chunked[e.file].symbols[i].id
                 /\ row.parent = Chunked[e.file].symbols[i].parent
<1>1. PICK i \in DOMAIN Chunked[e.file].symbols :
          row = WithFile(Chunked[e.file].symbols[i], e.file)
  BY DEF SymbolRows, ToSet
<1> DEFINE s == Chunked[e.file].symbols[i]
<1>2. s \in SymbolRecord /\ s.name # EmptyQuery
  BY <1>1 DEF WellFormed, ToSet
<1> HIDE DEF s
<1>3. /\ row.path = e.file.path /\ row.key = e.file.key
      /\ row.id = s.id /\ row.name = s.name /\ row.parent = s.parent
      /\ row.type = s.type /\ row.start = s.start /\ row.end = s.end
  BY <1>1, <1>2, WithFileOfSymbol DEF s
<1>4. TypedRow(row)
  BY <1>2, <1>3 DEF TypedRow, SymbolRecord
<1> QED BY <1>1, <1>2, <1>3, <1>4 DEF s

LEMMA ChunkOfRow ==
    ASSUME NEW e, WellFormed(Chunked[e.file]),
           NEW row \in ChunkRows(e.file, Chunked[e.file])
    PROVE  /\ row.path = e.file.path /\ row.key = e.file.key
           /\ \E c \in Chunked[e.file].chunks :
                 row = WithFile(c, e.file) /\ row.id = c.id /\ row.symbol = c.symbol
<1>1. PICK c \in Chunked[e.file].chunks : row = WithFile(c, e.file)
  BY DEF ChunkRows
<1>2. c \in ChunkRecord
  BY <1>1 DEF WellFormed
<1> QED BY <1>1, <1>2, WithFileOfChunk

\* An entry that is not indexed has no rows to delete.
LEMMA NothingDeleted ==
    ASSUME RowsInv, NEW entry \in todo, entry \notin files
    PROVE  LET emptied == DeletedRows(entry.file.key)
           IN  /\ emptied.symbols = db.symbols
               /\ emptied.chunks = db.chunks
               /\ emptied.tags = db.tags
<1>1. \A s \in db.symbols : s.key # entry.file.key
  <2> SUFFICES ASSUME NEW s \in db.symbols
               PROVE  s.key # entry.file.key
    OBVIOUS
  <2>1. PICK e \in files : s \in SymbolRows(e.file, Chunked[e.file])
    BY DEF RowsInv
  <2>2. s.key = e.file.key
    BY <2>1, IndexedEntries, SymbolOfRow
  <2> QED BY <2>2, IndexedEntries
<1>2. \A c \in db.chunks : c.key # entry.file.key
  <2> SUFFICES ASSUME NEW c \in db.chunks
               PROVE  c.key # entry.file.key
    OBVIOUS
  <2>1. PICK e \in files : c \in ChunkRows(e.file, Chunked[e.file])
    BY DEF RowsInv
  <2>2. c.key = e.file.key
    BY <2>1, IndexedEntries, ChunkOfRow
  <2> QED BY <2>2, IndexedEntries
<1>3. \A t \in db.tags : \E c \in db.chunks : t[2] = c.id
  <2> SUFFICES ASSUME NEW t \in db.tags
               PROVE  \E c \in db.chunks : t[2] = c.id
    OBVIOUS
  <2>1. PICK e \in files : \E c \in Chunked[e.file].chunks :
                              t = <<TagToString(e.branch), c.id>>
    BY DEF RowsInv
  <2>2. PICK c \in Chunked[e.file].chunks : t = <<TagToString(e.branch), c.id>>
    BY <2>1
  <2>3. WithFile(c, e.file) \in db.chunks
    BY <2>2 DEF RowsInv, ChunkRows
  <2>4. c \in ChunkRecord
    BY <2>2, IndexedEntries DEF WellFormed, ToSet
  <2>5. WithFile(c, e.file).id = c.id
    BY <2>4, WithFileOfChunk
  <2> QED BY <2>2, <2>3, <2>5
<1> QED BY <1>1, <1>2, <1>3 DEF DeletedRows

LEMMA FiniteRows ==
    ASSUME NEW file, NEW packed, WellFormed(packed)
    PROVE  IsFiniteSet(SymbolRows(file, packed)) /\ IsFiniteSet(ChunkRows(file, packed))
<1>1. ASSUME NEW S, NEW seq \in Seq(S)
      PROVE  IsFiniteSet({WithFile(s, file) : s \in ToSet(seq)})
  <2> DEFINE n == Len(seq)
             rows == {WithFile(s, file) : s \in ToSet(seq)}
             rowOf == [i \in 1 .. n |-> WithFile(seq[i], file)]
  <2>1. n \in Nat /\ DOMAIN seq = 1 .. n
    OBVIOUS
  <2>2. rows = {WithFile(seq[i], file) : i \in 1 .. n}
    BY <2>1 DEF ToSet
  <2> HIDE DEF n, rows
  <2>3. rowOf \in Surjection(1 .. n, rows)
    BY <2>2 DEF Surjection
  <2>4. IsFiniteSet(rows)
    BY <2>1, <2>3, FS_Interval, FS_Surjection
  <2> QED BY <2>4 DEF rows
<1>2. IsFiniteSet({WithFile(c, file) : c \in packed.chunks})
  <2> DEFINE rowOf == [c \in packed.chunks |-> WithFile(c, file)]
             rows == {WithFile(c, file) : c \in packed.chunks}
  <2>1. rowOf \in Surjection(packed.chunks, rows)
    BY DEF Surjection
  <2> HIDE DEF rowOf, rows
  <2>2. IsFiniteSet(rows)
    BY <2>1, FS_Surjection DEF WellFormed
  <2> QED BY <2>2 DEF rows
<1> QED BY <1>1, <1>2 DEF WellFormed, SymbolRows, ChunkRows

\* Indexing a file adds its rows whole, or none.
LEMMA IndexFileKeepsRows ==
    ASSUME RowsInv, NEW entry \in todo, entry \notin files, IndexFile(entry)
    PROVE  RowsInv' /\ Ids \subseteq Ids'
<1>1. \E repository \in Repositories : (files \cup refused \cup todo)' \subseteq repository
  <2>1. PICK repository \in Repositories : files \cup refused \cup todo \subseteq repository
    BY DEF RowsInv
  <2>2. (files \cup refused \cup todo)' \subseteq files \cup refused \cup todo
    BY DEF IndexFile
  <2> QED BY <2>1, <2>2
<1> DEFINE packed == Chunked[entry.file]
           emptied == DeletedRows(entry.file.key)
<1>2. emptied.symbols = db.symbols /\ emptied.chunks = db.chunks /\ emptied.tags = db.tags
  BY NothingDeleted
<1>3. \A branch : TagToString(branch)' = TagToString(branch)
  BY DEF IndexFile, TagToString
<1> HIDE DEF emptied
<1>4. CASE files' = files
  <2>1. db' = db \/ db' = emptied
    <3>1. entry \in files' => files' # files
      OBVIOUS
    <3> QED BY <1>4, <3>1 DEF IndexFile, emptied
  <2>2. db'.symbols = db.symbols /\ db'.chunks = db.chunks /\ db'.tags = db.tags
    BY <1>2, <2>1
  <2> QED BY <1>1, <1>3, <1>4, <2>2 DEF RowsInv, Ids
<1>5. CASE files' # files
  <2>1. /\ files' = files \cup {entry} /\ ~InsertRaises(packed)
        /\ db' = InsertedRows(emptied, entry, packed)
    BY <1>5 DEF IndexFile, emptied
  <2>2. /\ db'.symbols = db.symbols \cup SymbolRows(entry.file, packed)
        /\ db'.chunks = db.chunks \cup ChunkRows(entry.file, packed)
        /\ db'.tags = db.tags
              \cup {<<TagToString(entry.branch), c.id>> : c \in packed.chunks}
    BY <1>2, <2>1 DEF InsertedRows
  <2>3. IsFiniteSet(db'.symbols) /\ IsFiniteSet(db'.chunks)
    <3>1. IsFiniteSet(SymbolRows(entry.file, packed)) /\ IsFiniteSet(ChunkRows(entry.file, packed))
      BY IndexedEntries, FiniteRows
    <3>2. IsFiniteSet(db.symbols) /\ IsFiniteSet(db.chunks)
      BY DEF RowsInv
    <3>3. /\ IsFiniteSet(db.symbols \cup SymbolRows(entry.file, packed))
          /\ IsFiniteSet(db.chunks \cup ChunkRows(entry.file, packed))
      BY <3>1, <3>2, FS_Union
    <3> QED BY <2>2, <3>3
  <2>4. db'.symbols = UNION {SymbolRows(e.file, Chunked[e.file]) : e \in files'}
    BY <2>1, <2>2 DEF RowsInv
  <2>5. db'.chunks = UNION {ChunkRows(e.file, Chunked[e.file]) : e \in files'}
    BY <2>1, <2>2 DEF RowsInv
  <2>6. db'.tags = UNION {{<<TagToString(e.branch), c.id>> : c \in Chunked[e.file].chunks} :
                             e \in files'}
    BY <2>1, <2>2 DEF RowsInv
  <2>7. \A e \in files' : ~InsertRaises(Chunked[e.file])
    BY <2>1 DEF RowsInv
  <2> QED BY <1>1, <1>3, <2>2, <2>3, <2>4, <2>5, <2>6, <2>7 DEF RowsInv, Ids
<1> QED BY <1>4, <1>5

\* Rows of different symbols have different ids, and so do chunks.
LEMMA UniqueIds ==
    ASSUME RowsInv
    PROVE  /\ \A r, s \in db.symbols : r.id = s.id => r = s
           /\ \A c, d \in db.chunks : c.id = d.id => c = d
<1>1. ASSUME NEW r \in db.symbols, NEW s \in db.symbols, r.id = s.id
      PROVE  r = s
  <2>1. PICK e \in files : r \in SymbolRows(e.file, Chunked[e.file])
    BY DEF RowsInv
  <2>2. PICK f \in files : s \in SymbolRows(f.file, Chunked[f.file])
    BY DEF RowsInv
  <2>3. WellFormed(Chunked[e.file]) /\ WellFormed(Chunked[f.file])
        /\ e.file.path \in Int /\ f.file.path \in Int
    BY IndexedEntries
  <2>4. PICK i \in DOMAIN Chunked[e.file].symbols :
            /\ r = WithFile(Chunked[e.file].symbols[i], e.file)
            /\ r.id = Chunked[e.file].symbols[i].id
    BY <2>1, <2>3, SymbolOfRow
  <2>5. PICK j \in DOMAIN Chunked[f.file].symbols :
            /\ s = WithFile(Chunked[f.file].symbols[j], f.file)
            /\ s.id = Chunked[f.file].symbols[j].id
    BY <2>2, <2>3, SymbolOfRow
  <2>6. e = f
    <3>1. /\ Chunked[e.file].symbols[i] \in ToSet(Chunked[e.file].symbols)
          /\ Chunked[f.file].symbols[j] \in ToSet(Chunked[f.file].symbols)
      BY DEF ToSet
    <3>2. ~Apart(Chunked[e.file], Chunked[f.file])
      BY <1>1, <2>4, <2>5, <3>1 DEF Apart
    <3> QED BY <3>2, IndexedEntries
  <2>7. i = j
    BY <1>1, <2>3, <2>4, <2>5, <2>6 DEF WellFormed
  <2> QED BY <2>4, <2>5, <2>6, <2>7
<1>2. ASSUME NEW c \in db.chunks, NEW d \in db.chunks, c.id = d.id
      PROVE  c = d
  <2>1. PICK e \in files : c \in ChunkRows(e.file, Chunked[e.file])
    BY DEF RowsInv
  <2>2. PICK f \in files : d \in ChunkRows(f.file, Chunked[f.file])
    BY DEF RowsInv
  <2>3. WellFormed(Chunked[e.file]) /\ WellFormed(Chunked[f.file])
    BY IndexedEntries
  <2>4. PICK k \in Chunked[e.file].chunks : c = WithFile(k, e.file) /\ c.id = k.id
    BY <2>1, <2>3, ChunkOfRow
  <2>5. PICK m \in Chunked[f.file].chunks : d = WithFile(m, f.file) /\ d.id = m.id
    BY <2>2, <2>3, ChunkOfRow
  <2>6. e = f
    <3>1. ~Apart(Chunked[e.file], Chunked[f.file])
      BY <1>2, <2>4, <2>5 DEF Apart
    <3> QED BY <3>1, IndexedEntries
  <2>7. k = m
    BY <1>2, <2>3, <2>4, <2>5, <2>6 DEF WellFormed
  <2> QED BY <2>4, <2>5, <2>6, <2>7
<1> QED BY <1>1, <1>2

\* The id of what the chunker made of an indexed file is in the index.
LEMMA SymbolIsIndexed ==
    ASSUME RowsInv, NEW e \in files, NEW s \in ToSet(Chunked[e.file].symbols)
    PROVE  s.id \in Ids
<1>1. WithFile(s, e.file) \in db.symbols
  BY DEF RowsInv, SymbolRows
<1>2. s \in SymbolRecord
  BY IndexedEntries DEF WellFormed, ToSet
<1>3. WithFile(s, e.file).id = s.id
  BY <1>2, WithFileOfSymbol
<1> QED BY <1>1, <1>3 DEF Ids

\* Parents are inserted first, so they are there.
LEMMA ParentsPresent ==
    ASSUME RowsInv, NEW row \in db.symbols, row.parent # Nil
    PROVE  row.parent \in Ids
<1>1. PICK e \in files : row \in SymbolRows(e.file, Chunked[e.file])
  BY DEF RowsInv
<1> DEFINE symbols == Chunked[e.file].symbols
<1>2. PICK i \in DOMAIN symbols : row.parent = symbols[i].parent
  BY <1>1, IndexedEntries, SymbolOfRow
<1>3. PICK j \in 1 .. i - 1 : symbols[j].id = symbols[i].parent
  BY <1>2 DEF RowsInv, InsertRaises
<1>4. j \in DOMAIN symbols
  BY <1>2, <1>3, IndexedEntries DEF WellFormed
<1> QED BY <1>2, <1>3, <1>4, SymbolIsIndexed DEF ToSet

LEMMA ChunksOwned ==
    ASSUME RowsInv, NEW c \in db.chunks
    PROVE  c.symbol \in Ids
<1>1. PICK e \in files : c \in ChunkRows(e.file, Chunked[e.file])
  BY DEF RowsInv
<1>2. PICK k \in Chunked[e.file].chunks : c.symbol = k.symbol
  BY <1>1, IndexedEntries, ChunkOfRow
<1>3. \E s \in ToSet(Chunked[e.file].symbols) : c.symbol = s.id
  <2>1. WellFormed(Chunked[e.file])
    BY IndexedEntries
  <2> QED BY <1>2, <2>1 DEF WellFormed
<1> QED BY <1>3, SymbolIsIndexed

\* A tag is that of the branch of the file whose chunk it is on.
LEMMA TagsOwned ==
    ASSUME RowsInv, NEW t \in db.tags
    PROVE  \E e \in files, c \in db.chunks :
              /\ c.key = e.file.key /\ c.path = e.file.path
              /\ t = <<TagToString(e.branch), c.id>>
<1>1. PICK e \in files :
          t \in {<<TagToString(e.branch), c.id>> : c \in Chunked[e.file].chunks}
  BY DEF RowsInv
<1>2. PICK c \in Chunked[e.file].chunks : t = <<TagToString(e.branch), c.id>>
  BY <1>1
<1>3. WithFile(c, e.file) \in db.chunks
  BY <1>2 DEF RowsInv, ChunkRows
<1>4. c \in ChunkRecord
  BY <1>2, IndexedEntries DEF WellFormed, ToSet
<1>5. /\ WithFile(c, e.file).id = c.id
      /\ WithFile(c, e.file).key = e.file.key /\ WithFile(c, e.file).path = e.file.path
  BY <1>4, WithFileOfChunk
<1> QED BY <1>2, <1>3, <1>5

LEMMA RowLines ==
    ASSUME RowsInv, NEW row \in db.symbols
    PROVE  TypedRow(row)
<1>1. PICK e \in files : row \in SymbolRows(e.file, Chunked[e.file])
  BY DEF RowsInv
<1> QED BY <1>1, IndexedEntries, SymbolOfRow

\* The chunks of a symbol are pieces of it, each with its own number.
LEMMA ChunksAreTyped ==
    ASSUME RowsInv
    PROVE  ChunksTyped(db)
<1>1. ASSUME NEW c \in db.chunks
      PROVE  \E e \in files : \E k \in Chunked[e.file].chunks :
                k \in ChunkRecord /\ c = WithFile(k, e.file)
  <2>1. PICK e \in files : c \in ChunkRows(e.file, Chunked[e.file])
    BY DEF RowsInv
  <2>2. PICK k \in Chunked[e.file].chunks : c = WithFile(k, e.file)
    BY <2>1 DEF ChunkRows
  <2>3. k \in ChunkRecord
    BY <2>2, IndexedEntries DEF WellFormed, ToSet
  <2> QED BY <2>2, <2>3
<1>2. ASSUME NEW c \in db.chunks
      PROVE  /\ c.content \in Seq(Int \X Int)
             /\ c.piece \in Int /\ c.count \in Int /\ c.start \in Int /\ c.end \in Int
  <2>1. PICK e \in files : \E k \in Chunked[e.file].chunks :
            k \in ChunkRecord /\ c = WithFile(k, e.file)
    BY <1>1
  <2>2. PICK k \in Chunked[e.file].chunks : k \in ChunkRecord /\ c = WithFile(k, e.file)
    BY <2>1
  <2>3. c.content = k.content /\ c.piece = k.piece /\ c.count = k.count
        /\ c.start = k.start /\ c.end = k.end
    BY <2>2, WithFileOfChunk
  <2> QED BY <2>2, <2>3 DEF ChunkRecord
<1>3. ASSUME NEW c \in db.chunks, NEW d \in db.chunks, c.symbol = d.symbol, c.piece = d.piece
      PROVE  c = d
  <2>1. PICK e \in files : \E k \in Chunked[e.file].chunks :
            k \in ChunkRecord /\ c = WithFile(k, e.file)
    BY <1>1
  <2>2. PICK k \in Chunked[e.file].chunks : k \in ChunkRecord /\ c = WithFile(k, e.file)
    BY <2>1
  <2>3. PICK f \in files : \E m \in Chunked[f.file].chunks :
            m \in ChunkRecord /\ d = WithFile(m, f.file)
    BY <1>1
  <2>4. PICK m \in Chunked[f.file].chunks : m \in ChunkRecord /\ d = WithFile(m, f.file)
    BY <2>3
  <2>5. k.symbol = m.symbol /\ k.piece = m.piece
    BY <1>3, <2>2, <2>4, WithFileOfChunk
  <2>6. WellFormed(Chunked[e.file]) /\ WellFormed(Chunked[f.file])
    BY IndexedEntries
  <2>7. PICK s \in ToSet(Chunked[e.file].symbols) : k.symbol = s.id
    BY <2>2, <2>6 DEF WellFormed
  <2>8. PICK r \in ToSet(Chunked[f.file].symbols) : m.symbol = r.id
    BY <2>4, <2>6 DEF WellFormed
  <2>9. e = f
    <3>1. ~Apart(Chunked[e.file], Chunked[f.file])
      BY <2>5, <2>7, <2>8 DEF Apart
    <3> QED BY <3>1, IndexedEntries
  <2>10. k = m
    BY <2>2, <2>4, <2>5, <2>6, <2>9 DEF WellFormed
  <2> QED BY <2>2, <2>4, <2>9, <2>10
<1>4. ASSUME NEW id
      PROVE  Numbered(LoadChunks(db, id))
  <2> DEFINE rows == LoadChunks(db, id)
  <2>1. rows \in SUBSET db.chunks /\ \A c \in rows : c.symbol = id
    BY DEF LoadChunks
  <2>2. IsFiniteSet(db.chunks)
    BY DEF RowsInv
  <2> HIDE DEF rows
  <2>3. IsFiniteSet(rows)
    BY <2>1, <2>2, FS_Subset
  <2>4. \A c \in rows : c.piece \in Int /\ c.count \in Int /\ c.start \in Int /\ c.end \in Int
    BY <1>2, <2>1
  <2>5. \A c, d \in rows : c.piece = d.piece => c = d
    BY <1>3, <2>1
  <2>6. Numbered(rows)
    BY <2>3, <2>4, <2>5 DEF Numbered
  <2> QED BY <2>6 DEF rows
<1>5. \A c \in db.chunks : c.content \in Seq(Int \X Int)
  BY <1>2
<1> QED BY <1>4, <1>5 DEF ChunksTyped

\* The symbol that a row is of: the i-th of its file.
IndexOf(row, e, i) ==
    /\ e \in files /\ i \in DOMAIN Chunked[e.file].symbols
    /\ row = WithFile(Chunked[e.file].symbols[i], e.file)

LEMMA HasPlace ==
    ASSUME RowsInv, NEW row \in db.symbols
    PROVE  \E e \in files : \E i \in DOMAIN Chunked[e.file].symbols : IndexOf(row, e, i)
<1>1. PICK e \in files : row \in SymbolRows(e.file, Chunked[e.file])
  BY DEF RowsInv
<1>2. PICK i \in DOMAIN Chunked[e.file].symbols :
          row = WithFile(Chunked[e.file].symbols[i], e.file)
  BY <1>1, IndexedEntries, SymbolOfRow
<1> QED BY <1>2 DEF IndexOf

LEMMA PlaceValues ==
    ASSUME RowsInv, NEW row, NEW e, NEW i, IndexOf(row, e, i)
    PROVE  LET s == Chunked[e.file].symbols[i]
           IN  /\ s \in SymbolRecord /\ s \in ToSet(Chunked[e.file].symbols)
               /\ row.id = s.id /\ row.parent = s.parent /\ row.id # Nil
               /\ row \in db.symbols
<1> DEFINE s == Chunked[e.file].symbols[i]
<1>1. e \in files /\ i \in DOMAIN Chunked[e.file].symbols /\ row = WithFile(s, e.file)
  BY DEF IndexOf
<1>2. WellFormed(Chunked[e.file])
  BY <1>1, IndexedEntries
<1>3. s \in ToSet(Chunked[e.file].symbols)
  BY <1>1 DEF ToSet
<1>4. s \in SymbolRecord /\ s.id # Nil
  <2>1. Chunked[e.file].symbols \in Seq(SymbolRecord)
    BY <1>2 DEF WellFormed
  <2> QED BY <1>1, <1>2, <1>3, <2>1 DEF WellFormed
<1>5. row \in db.symbols
  <2>1. row \in SymbolRows(e.file, Chunked[e.file])
    BY <1>1, <1>3 DEF SymbolRows
  <2> QED BY <1>1, <2>1 DEF RowsInv
<1> HIDE DEF s
<1>6. row.id = s.id /\ row.parent = s.parent
  BY <1>1, <1>4, WithFileOfSymbol
<1> QED BY <1>3, <1>4, <1>5, <1>6 DEF s

LEMMA OnePlace ==
    ASSUME RowsInv, NEW row, NEW e, NEW i, IndexOf(row, e, i), NEW f, NEW j, IndexOf(row, f, j)
    PROVE  e = f /\ i = j
<1>1. e \in files /\ f \in files /\ i \in DOMAIN Chunked[e.file].symbols
      /\ j \in DOMAIN Chunked[f.file].symbols
  BY DEF IndexOf
<1>2. Chunked[e.file].symbols[i].id = Chunked[f.file].symbols[j].id
      /\ Chunked[e.file].symbols[i] \in ToSet(Chunked[e.file].symbols)
      /\ Chunked[f.file].symbols[j] \in ToSet(Chunked[f.file].symbols)
  BY PlaceValues
<1>3. e = f
  <2>1. ~Apart(Chunked[e.file], Chunked[f.file])
    BY <1>2 DEF Apart
  <2> QED BY <1>1, <2>1, IndexedEntries
<1>4. WellFormed(Chunked[e.file])
  BY <1>1, IndexedEntries
<1> QED BY <1>1, <1>2, <1>3, <1>4 DEF WellFormed

\* How many symbols of its file are behind a row.
Behind(row) ==
    CHOOSE m \in Nat : \E e \in files : \E i \in DOMAIN Chunked[e.file].symbols :
        IndexOf(row, e, i) /\ m = Len(Chunked[e.file].symbols) - i

LEMMA BehindPlace ==
    ASSUME RowsInv, NEW row, NEW e, NEW i, IndexOf(row, e, i)
    PROVE  /\ Behind(row) = Len(Chunked[e.file].symbols) - i /\ Behind(row) \in Nat
           /\ i \in 1 .. Len(Chunked[e.file].symbols) /\ Len(Chunked[e.file].symbols) \in Nat
<1> DEFINE n == Len(Chunked[e.file].symbols)
           Fits(m) == \E f \in files : \E j \in DOMAIN Chunked[f.file].symbols :
                         IndexOf(row, f, j) /\ m = Len(Chunked[f.file].symbols) - j
<1>1. e \in files /\ i \in DOMAIN Chunked[e.file].symbols
  BY DEF IndexOf
<1>2. Chunked[e.file].symbols \in Seq(SymbolRecord)
  BY <1>1, IndexedEntries DEF WellFormed
<1>3. n \in Nat /\ i \in 1 .. n
  BY <1>1, <1>2
<1>4. n - i \in Nat /\ Fits(n - i)
  <2>1. Fits(n - i)
    BY <1>1
  <2> HIDE DEF n, Fits
  <2>2. n - i \in Nat
    BY <1>3
  <2> QED BY <2>1, <2>2 DEF n
<1>5. ASSUME NEW m, Fits(m)
      PROVE  m = n - i
  <2>1. PICK f \in files : \E j \in DOMAIN Chunked[f.file].symbols :
            IndexOf(row, f, j) /\ m = Len(Chunked[f.file].symbols) - j
    BY <1>5
  <2>2. PICK j \in DOMAIN Chunked[f.file].symbols :
            IndexOf(row, f, j) /\ m = Len(Chunked[f.file].symbols) - j
    BY <2>1
  <2>3. e = f /\ i = j
    BY <2>2, OnePlace
  <2> QED BY <2>2, <2>3
<1>6. Behind(row) = CHOOSE m \in Nat : Fits(m)
  BY DEF Behind
<1> HIDE DEF Fits
<1>7. Behind(row) = n - i
  BY <1>4, <1>5, <1>6
<1> QED BY <1>3, <1>4, <1>7

\* A parent is in front of its children.
LEMMA RowsAreDeeper ==
    ASSUME RowsInv, NEW rows \in SUBSET db.symbols
    PROVE  Deeper([r \in rows |-> Behind(r)], rows)
<1> DEFINE h == [r \in rows |-> Behind(r)]
<1>1. \A r \in rows : r \in db.symbols
  OBVIOUS
<1>2. ASSUME NEW r \in rows
      PROVE  Behind(r) \in Nat
  <2>1. PICK e \in files : \E i \in DOMAIN Chunked[e.file].symbols : IndexOf(r, e, i)
    BY HasPlace
  <2>2. PICK i \in DOMAIN Chunked[e.file].symbols : IndexOf(r, e, i)
    BY <2>1
  <2> QED BY <2>2, BehindPlace
<1>3. ASSUME NEW r \in rows, NEW s \in rows, r.parent = s.id
      PROVE  Behind(r) < Behind(s)
  <2>1. PICK e \in files : \E i \in DOMAIN Chunked[e.file].symbols : IndexOf(r, e, i)
    BY HasPlace
  <2>2. PICK i \in DOMAIN Chunked[e.file].symbols : IndexOf(r, e, i)
    BY <2>1
  <2> DEFINE symbols == Chunked[e.file].symbols
  <2>3. PICK f \in files : \E k \in DOMAIN Chunked[f.file].symbols : IndexOf(s, f, k)
    BY HasPlace
  <2>4. PICK k \in DOMAIN Chunked[f.file].symbols : IndexOf(s, f, k)
    BY <2>3
  <2>5. s.id # Nil
    BY <2>4, PlaceValues
  <2>6. r.parent = symbols[i].parent /\ symbols[i].parent # Nil
    BY <1>3, <2>2, <2>5, PlaceValues
  <2>7. PICK j \in 1 .. i - 1 : symbols[j].id = symbols[i].parent
    BY <2>2, <2>6 DEF RowsInv, InsertRaises
  <2>8. /\ Behind(r) = Len(symbols) - i /\ i \in 1 .. Len(symbols) /\ Len(symbols) \in Nat
    BY <2>2, BehindPlace
  <2>9. j \in 1 .. Len(symbols) /\ j < i /\ symbols \in Seq(SymbolRecord)
    BY <2>7, <2>8, IndexedEntries DEF WellFormed
  <2>10. j \in DOMAIN symbols
    BY <2>9
  <2> DEFINE q == WithFile(symbols[j], e.file)
  <2>11. IndexOf(q, e, j)
    BY <2>10 DEF IndexOf
  <2> HIDE DEF q
  <2>12. q.id = symbols[j].id /\ q \in db.symbols
    BY <2>11, PlaceValues
  <2>13. q = s
    BY <1>1, <1>3, <2>6, <2>7, <2>12, UniqueIds
  <2>14. Behind(s) = Len(symbols) - j
    BY <2>11, <2>13, BehindPlace
  <2> HIDE DEF symbols
  <2> QED BY <2>8, <2>9, <2>14
<1>4. h \in [rows -> Nat]
  BY <1>2
<1>5. \A r, s \in rows : r.parent = s.id => h[r] < h[s]
  BY <1>3
<1>6. IsFiniteSet(rows)
  BY FS_Subset DEF RowsInv
<1>7. \A r \in rows : TypedRow(r)
  BY <1>1, RowLines
<1>8. \A r, s \in rows : r.id = s.id => r = s
  BY <1>1, UniqueIds
<1> HIDE DEF h
<1> QED BY <1>4, <1>5, <1>6, <1>7, <1>8 DEF Deeper, h

----------------------------------------------------------------------------
(* Answers.                                                                *)

\* What a symbol's code has of its row.
LEMMA ReconstructedRow ==
    ASSUME NEW id, NEW scope, NEW code \in Reconstruct(db, id, scope, Whole)
    PROVE  \E row \in db.symbols : \E signature, limited, children :
              row.id = id /\ code = SymbolCode(row, signature, limited, children)
BY DEF Reconstruct, Rendered, Whole, BuildCodeTree, CodeOfChunks, SymbolRow

\* The code of a symbol is that of its chunks, all of it, whoever asks.
LEMMA ReconstructedCode ==
    ASSUME RowsInv, NEW id, NEW scope, NEW code \in Reconstruct(db, id, scope, Whole)
    PROVE  \E row \in db.symbols :
              /\ row.id = id /\ code.id = id /\ code.start = row.start /\ code.end = row.end
              /\ code.code = FullCode(db, id)
<1> DEFINE Below(row) == IF Whole.children /\ row.type \in {"file", "class"}
                         THEN {s \in Descendants(db, row.id) : PathInScope(s, scope)}
                         ELSE {}
<1>1. PICK row \in SymbolRow(db, id, scope) :
          code = Rendered(BuildCodeTree(db, row, Below(row), Whole.maxLines), Whole)
  BY DEF Reconstruct
<1> DEFINE rows == Below(row)
<1>2. code = Rendered(BuildCodeTree(db, row, rows, 0), Whole)
  BY <1>1 DEF Whole
<1> HIDE DEF rows, Below
<1>3. code = BuildCodeTree(db, row, rows, 0)
  BY <1>2 DEF Rendered, Whole
<1>4. PICK f : code = NodeOver(db, rows, 0, row, f)
  BY <1>3, TreeUnfolded
<1>5. row \in db.symbols /\ row.id = id
  BY DEF SymbolRow
<1>6. ChunksTyped(db)
  BY ChunksAreTyped
<1>7. /\ code.id = row.id /\ code.start = row.start /\ code.end = row.end
      /\ code.code = FullCode(db, row.id)
  <2>1. 0 \in Nat
    OBVIOUS
  <2>2. CodedAs(code, db, row, 0)
    BY <1>4, <1>6, <2>1, NodeCode
  <2> QED BY <2>2 DEF CodedAs
<1> QED BY <1>5, <1>7

LEMMA RowIs ==
    ASSUME RowsInv, NEW s \in db.symbols
    PROVE  RowOf(s.id) = s
BY UniqueIds DEF RowOf

LEMMA CodeIs ==
    ASSUME RowsInv, NEW s \in db.symbols
    PROVE  CodeOf(s) = FullCode(db, s.id)
<1> DEFINE scope == Scope({}, {})
           codes == Reconstruct(db, s.id, scope, Whole)
<1>1. s \in SymbolRow(db, s.id, scope)
  BY DEF SymbolRow, Scope, InScope, PathInScope, TagInScope
<1>2. codes # {}
  BY <1>1 DEF Reconstruct
<1>3. CodeOf(s) = (CHOOSE c \in codes : TRUE).code
  BY DEF CodeOf
<1> HIDE DEF codes
<1>4. (CHOOSE c \in codes : TRUE) \in codes
  BY <1>2
<1> QED BY <1>3, <1>4, ReconstructedCode DEF codes

LEMMA CodeTyped ==
    ASSUME RowsInv, NEW s \in db.symbols
    PROVE  CodeOf(s) \in Seq(Int \X Int)
BY CodeIs, ChunksAreTyped, ContentsTyped

\* The prefix in front of the marker has a number of lines.
LEMMA PrefixLines ==
    ASSUME NEW text, NEW budget \in Nat
    PROVE  LineCount(FittingPrefix(text, budget)) \in Nat
<1> DEFINE ends == {i \in LineEnds(text) : i <= budget}
           cut == IF ends = {} THEN budget ELSE Max(ends)
           prefix == SubSeq(text, 1, cut)
<1>1. cut \in Nat
  <2>1. \A i \in ends : i \in Nat /\ i <= budget
    BY DEF LineEnds
  <2> HIDE DEF ends
  <2> QED BY <2>1, MaxOfBounded
<1> HIDE DEF cut
<1>2. prefix = [i \in 1 .. cut |-> text[i]]
  BY <1>1
<1>3. Len(prefix) = cut
  BY <1>1, <1>2
<1> HIDE DEF prefix
<1>4. LineEnds(prefix) \in SUBSET (1 .. cut)
  BY <1>3 DEF LineEnds
<1>5. Cardinality(LineEnds(prefix)) \in Nat
  <2>1. IsFiniteSet(1 .. cut)
    BY <1>1, FS_Interval
  <2>2. IsFiniteSet(LineEnds(prefix))
    BY <1>4, <2>1, FS_Subset
  <2> QED BY <2>2, FS_CardinalityType
<1> QED BY <1>5 DEF LineCount, FittingPrefix, prefix, cut

\* An answer that is cut ends at its first line or behind it.
LEMMA CutEnds ==
    ASSUME NEW code, code.start \in Int, code.end \in Int, NEW limit \in CharLimits
    PROVE  LET reply == TruncateText(code, limit)
           IN  /\ reply.truncated => reply.returnedEnd >= code.start
               /\ ~reply.truncated => reply.returnedEnd = code.end
               /\ reply.returnedEnd \in Int
<1>1. limit \in Nat /\ limit > Len(Marker) /\ Len(Marker) = 1
  BY CharLimitsAssumption DEF Marker
<1> DEFINE prefix == FittingPrefix(code.code, limit - Len(Marker))
<1>2. LineCount(prefix) \in Nat
  BY <1>1, PrefixLines
<1> HIDE DEF prefix
<1>3. LastLineOf(code, prefix) \in Int /\ LastLineOf(code, prefix) >= code.start
  BY <1>2 DEF LastLineOf
<1>4. CASE Len(code.code) <= limit
  BY <1>4 DEF TruncateText, Reply
<1>5. CASE ~(Len(code.code) <= limit)
  <2>1. ~(limit <= Len(Marker))
    BY <1>1
  <2>2. TruncateText(code, limit) = CutReply(code, prefix)
    BY <1>5, <2>1, Zenon DEF TruncateText, prefix
  <2> QED BY <1>3, <2>2 DEF CutReply, Reply
<1> QED BY <1>4, <1>5

\* The lines of a range are lines of it, and of the symbol.
LEMMA RangeInside ==
    ASSUME RowsInv, NEW id, NEW scope, NEW first \in Int, NEW last \in Int,
           NEW code \in Reconstruct(db, id, scope, Whole),
           NEW ranged \in RangeOf(code, first, last)
    PROVE  /\ ranged.start \in Int /\ ranged.end \in Int
           /\ first <= ranged.start /\ ranged.start <= ranged.end
<1>1. PICK row \in db.symbols : \E signature, limited, children :
          code = SymbolCode(row, signature, limited, children)
  BY ReconstructedRow
<1>2. row.start \in Int /\ row.end \in Int
  <2>1. PICK e \in files : row \in SymbolRows(e.file, Chunked[e.file])
    BY DEF RowsInv
  <2> QED BY <2>1, IndexedEntries, SymbolOfRow DEF TypedRow
<1>3. code.start = row.start /\ code.end = row.end
  BY <1>1 DEF SymbolCode
<1> DEFINE From == Max({first, code.start})
           To == Min({last, code.end})
           text == FlattenSeq(Slice(KeptLines(code.code), From - code.start, To - code.start + 1))
<1>4. ranged = [code EXCEPT !.code = text, !.start = From, !.end = To] /\ ~(From > To)
  BY DEF RangeOf
<1>5. From \in Int /\ To \in Int /\ first <= From
  BY <1>2, <1>3, MaxOfTwo, MinOfTwo
<1> HIDE DEF From, To, text
<1>6. ranged.start = From /\ ranged.end = To
  BY <1>1, <1>4 DEF SymbolCode
<1> QED BY <1>4, <1>5, <1>6

----------------------------------------------------------------------------
(* Answers of the api.                                                     *)

\* Every code that a tree with up to maxLines lines can have.
TreeOver(rows, maxLines) == CHOOSE f : TreeBy(f, db, rows, maxLines)

NodesOf(row, rows, maxLines) ==
    {NodeOver(db, rows, maxLines, s, TreeOver(rows, maxLines)) : s \in {row} \cup rows}

Nodes(maxLines) ==
    UNION {NodesOf(p[1], p[2], maxLines) : p \in db.symbols \X SUBSET db.symbols}

LEMMA NodesClosed ==
    ASSUME RowsInv, NEW maxLines \in Nat, NEW c \in Nodes(maxLines)
    PROVE  /\ \E s \in db.symbols : CodedAs(c, db, s, maxLines)
           /\ ToSet(c.children) \subseteq Nodes(maxLines)
<1>1. PICK p \in db.symbols \X SUBSET db.symbols : c \in NodesOf(p[1], p[2], maxLines)
  BY DEF Nodes
<1> DEFINE row == p[1]
           rows == p[2]
           f == TreeOver(rows, maxLines)
<1>2. row \in db.symbols /\ rows \in SUBSET db.symbols
  OBVIOUS
<1>3. PICK s \in {row} \cup rows : c = NodeOver(db, rows, maxLines, s, f)
  BY <1>1 DEF NodesOf
<1>4. NodesOf(row, rows, maxLines) \subseteq Nodes(maxLines)
  BY <1>2 DEF Nodes
<1> HIDE DEF row, rows
<1>5. \A r \in rows : NodeOver(db, rows, maxLines, r, f) \in Nodes(maxLines)
  BY <1>4 DEF NodesOf
<1>6. Deeper([r \in rows |-> Behind(r)], rows)
  BY <1>2, RowsAreDeeper
<1>7. TreeBy(f, db, rows, maxLines)
  <2>1. \E g : TreeBy(g, db, rows, maxLines)
    BY <1>6, TreeExists
  <2> QED BY <2>1 DEF TreeOver
<1> HIDE DEF f
<1>8. \A r \in rows : f[r] \in Nodes(maxLines)
  <2>1. f = [r \in rows |-> NodeOver(db, rows, maxLines, r, f)]
    BY <1>7 DEF TreeBy
  <2>2. \A r \in rows : f[r] = NodeOver(db, rows, maxLines, r, f)
    BY <2>1
  <2> QED BY <1>5, <2>2
<1>9. CodedAs(c, db, s, maxLines)
  BY <1>3, ChunksAreTyped, NodeCode
<1>10. ToSet(c.children) \subseteq Nodes(maxLines)
  <2> DEFINE kids == Kids(rows, s)
  <2>1. c.children = [i \in DOMAIN kids |-> f[kids[i]]]
    BY <1>3, NodeChildren
  <2>2. \A i \in DOMAIN kids : kids[i] \in rows
    BY <1>6, KidsAreRows
  <2> HIDE DEF kids
  <2> QED BY <1>8, <2>1, <2>2 DEF ToSet
<1> QED BY <1>2, <1>3, <1>9, <1>10

LEMMA AnsweredNodes ==
    ASSUME NEW id, NEW scope, NEW how, how.detail = "body"
    PROVE  Reconstruct(db, id, scope, how) \subseteq Nodes(how.maxLines)
<1> DEFINE Below(row) == IF how.children /\ row.type \in {"file", "class"}
                         THEN {s \in Descendants(db, row.id) : PathInScope(s, scope)}
                         ELSE {}
<1> SUFFICES ASSUME NEW row \in SymbolRow(db, id, scope)
             PROVE  Rendered(BuildCodeTree(db, row, Below(row), how.maxLines), how)
                       \in Nodes(how.maxLines)
  BY DEF Reconstruct
<1> DEFINE rows == Below(row)
           c == BuildCodeTree(db, row, rows, how.maxLines)
<1>1. Rendered(c, how) = c
  BY DEF Rendered
<1>2. row \in db.symbols
  BY DEF SymbolRow
<1>3. rows \in SUBSET db.symbols
  BY DEF Descendants
<1> HIDE DEF rows, Below
<1>4. c = NodeOver(db, rows, how.maxLines, row, TreeOver(rows, how.maxLines))
  BY TreeUnfolded DEF TreeOver
<1> HIDE DEF c
<1>5. c \in NodesOf(row, rows, how.maxLines)
  BY <1>4 DEF NodesOf
<1>6. <<row, rows>> \in db.symbols \X SUBSET db.symbols
  BY <1>2, <1>3
<1>7. c \in Nodes(how.maxLines)
  BY <1>5, <1>6 DEF Nodes
<1> QED BY <1>1, <1>7 DEF c, rows

LEMMA SelectedNodes ==
    ASSUME NEW name, NEW chosen, NEW scope, NEW how, how.detail = "body"
    PROVE  Lookup(db, name, chosen, scope, how).selected \subseteq Nodes(how.maxLines)
<1> DEFINE result == Lookup(db, name, chosen, scope, how)
<1>1. \A c \in result.selected : \E id : c \in Reconstruct(db, id, scope, how)
  BY DEF Lookup, LookupIn, LookupAmong
<1> QED BY <1>1, AnsweredNodes

\* Rounds of children stay in a set that is closed under them.
LEMMA BelowStays ==
    ASSUME NEW G, \A c \in G : ToSet(c.children) \subseteq G,
           NEW codes \in SUBSET G, NEW depth \in Nat
    PROVE  WithBelow(codes, depth) \subseteq G
<1> DEFINE V == SUBSET G
           Round(X) == X \cup UNION {ToSet(c.children) : c \in X}
           step == [p \in (1 .. depth) \X V |-> Round(p[2])]
           IsDown(f) == f = [n \in 0 .. depth |-> IF n = 0 THEN codes ELSE Round(f[n - 1])]
           down == CHOOSE f : IsDown(f)
<1>1. \A X \in V : Round(X) \in V
  OBVIOUS
<1>2. WithBelow(codes, depth) = down[depth]
  BY DEF WithBelow
<1> HIDE DEF Round
<1>3. codes \in V /\ step \in [(1 .. depth) \X V -> V]
  BY <1>1
<1> HIDE DEF V, step
<1>4. PICK f \in [0 .. depth -> V] : StepsBy(f, depth, codes, step)
  BY <1>3, StepsExist
<1>5. ASSUME NEW n \in 0 .. depth
      PROVE  f[n] = IF n = 0 THEN codes ELSE Round(f[n - 1])
  <2>1. CASE n = 0
    BY <1>4, <2>1 DEF StepsBy
  <2>2. CASE n # 0
    <3>1. n \in 1 .. depth /\ n - 1 \in 0 .. depth
      BY <2>2
    <3>2. f[n] = step[<<n, f[n - 1]>>] /\ f[n - 1] \in V
      BY <1>4, <3>1 DEF StepsBy
    <3>3. step[<<n, f[n - 1]>>] = Round(f[n - 1])
      BY <3>1, <3>2 DEF step
    <3> QED BY <2>2, <3>2, <3>3
  <2> QED BY <2>1, <2>2
<1>6. IsDown(f)
  <2>1. f = [n \in 0 .. depth |-> f[n]]
    BY <1>4
  <2> QED BY <1>5, <2>1
<1>7. IsDown(down)
  BY <1>6
<1> HIDE DEF down
<1> DEFINE P == {n \in 0 .. depth : down[n] \in V}
<1>8. \A n \in 0 .. depth : down[n] = IF n = 0 THEN codes ELSE Round(down[n - 1])
  BY <1>7
<1>9. 0 \in P
  BY <1>3, <1>8
<1>10. ASSUME NEW k \in 0 .. depth - 1, k \in P
       PROVE  k + 1 \in P
  <2>1. k + 1 \in 0 .. depth /\ k + 1 # 0 /\ (k + 1) - 1 = k
    OBVIOUS
  <2>2. down[k + 1] = Round(down[k])
    BY <1>8, <2>1
  <2> QED BY <1>1, <1>10, <2>1, <2>2 DEF V
<1> HIDE DEF P
<1>11. depth \in P
  <2>1. \A k \in 0 .. depth : k \in P
    BY <1>9, <1>10, UpTo0
  <2> QED BY <2>1
<1> QED BY <1>2, <1>11 DEF P, V

----------------------------------------------------------------------------
(* What has been read.                                                     *)

\* A reply to the lines behind the end e of a line has them up to the end of
\* another one, or all of them.
RepliesFrom(text, start, e, reply) ==
    IF reply.truncated
    THEN \E f \in LineEnds(text) :
            /\ e < f /\ f < Len(text)
            /\ Kept(reply) = SubSeq(text, e + 1, f)
            /\ reply.returnedEnd = start + LineCount(SubSeq(text, 1, f)) - 1
    ELSE Kept(reply) = SubSeq(text, e + 1, Len(text))

LEMMA CutReads ==
    ASSUME NEW A, Sentinel \in A, NEW text \in Seq(A), NEW limit \in CharLimits,
           LinesUpTo(text, limit - Len(Marker)), NEW start \in Int,
           NEW e \in 0 .. Len(text), e = 0 \/ e \in LineEnds(text),
           NEW code, code.code = SubSeq(text, e + 1, Len(text)),
           code.start = start + LineCount(SubSeq(text, 1, e))
    PROVE  RepliesFrom(text, start, e, TruncateText(code, limit))
<1>1. limit \in Nat /\ limit > Len(Marker) /\ Len(Marker) = 1
  BY CharLimitsAssumption DEF Marker
<1> DEFINE rest == SubSeq(text, e + 1, Len(text))
           size == limit - Len(Marker)
           prefix == FittingPrefix(rest, size)
           reply == TruncateText(code, limit)
<1>2. size \in Nat /\ size = limit - 1
  BY <1>1
<1>3. Len(rest) = Len(text) - e /\ Len(text) \in Nat
  OBVIOUS
<1>4. CASE Len(rest) <= limit
  <2>1. reply.truncated = FALSE /\ reply.code = rest
    BY <1>4 DEF TruncateText, Reply
  <2> QED BY <2>1 DEF RepliesFrom, Kept
<1>5. CASE ~(Len(rest) <= limit)
  <2>1. e \in 0 .. Len(text) - 1
    BY <1>1, <1>3, <1>5
  <2> HIDE DEF size
  <2>2. PICK f \in LineEnds(text) : ReturnedTo(text, e, size, f)
    <3>1. size \in Nat /\ LinesUpTo(text, size)
      BY <1>2 DEF size
    <3>2. \E f \in LineEnds(text) : ReturnedTo(text, e, size, f)
      BY <2>1, <3>1, ReturnsLines
    <3> QED BY <3>2
  <2>3. /\ f \in e + 1 .. e + size /\ prefix = SubSeq(text, e + 1, f)
        /\ LineCount(prefix) >= 1
        /\ LineCount(SubSeq(text, 1, f)) = LineCount(SubSeq(text, 1, e)) + LineCount(prefix)
    BY <2>2 DEF ReturnedTo
  <2>4. f \in 1 .. Len(text)
    BY DEF LineEnds
  <2>5. e < f /\ f < Len(text)
    BY <1>1, <1>2, <1>3, <1>5, <2>1, <2>3, <2>4
  <2>6. reply = CutReply(code, prefix)
    <3>1. ~(limit <= Len(Marker))
      BY <1>1
    <3> QED BY <1>5, <3>1, Zenon DEF TruncateText, size
  <2> HIDE DEF prefix, rest
  <2>7. prefix \in Seq(A)
    BY <2>3, <2>4, <2>1
  <2>8. reply.truncated = TRUE /\ reply.code = prefix \o <<Sentinel>>
        /\ reply.returnedEnd = LastLineOf(code, prefix)
    BY <2>6 DEF CutReply, Reply, Marker
  <2> HIDE DEF reply
  <2>9. Kept(reply) = prefix
    BY <2>7, <2>8, LastOne DEF Kept
  <2>10. LineCount(prefix) \in Nat /\ LineCount(SubSeq(text, 1, e)) \in Nat
    <3>1. SubSeq(text, 1, e) \in Seq(A)
      BY <2>1
    <3> QED BY <2>7, <3>1, SomeLine
  <2> DEFINE c == LineCount(prefix)
             k == LineCount(SubSeq(text, 1, e))
             m == LineCount(SubSeq(text, 1, f))
  <2>11. reply.returnedEnd = start + m - 1
    <3>1. reply.returnedEnd = (start + k) + (IF c > 1 THEN c - 1 ELSE 0)
      BY <2>8 DEF LastLineOf
    <3>2. c >= 1 /\ m = k + c /\ c \in Nat /\ k \in Nat
      BY <2>3, <2>10
    <3> HIDE DEF c, k, m
    <3> QED BY <3>1, <3>2
  <2> QED BY <2>3, <2>5, <2>8, <2>9, <2>11 DEF RepliesFrom, reply
<1> HIDE DEF reply
<1> QED BY <1>4, <1>5 DEF reply

\* The symbol that is opened: up to the end of a line that a truncated answer
\* says it ended with, or all of it.
WholeRead(s, text, r) ==
    /\ r.end = s.end
    /\ LinesUpTo(text, r.limit - Len(Marker)) /\ LineCount(text) <= s.end - s.start + 1 =>
          IF r.reply.truncated
          THEN \E e \in LineEnds(text) :
                  /\ e < Len(text) /\ r.got = SubSeq(text, 1, e)
                  /\ r.reply.returnedEnd = s.start + LineCount(SubSeq(text, 1, e)) - 1
          ELSE r.got = text

RangeRead(s, text, r) ==
    LET first == r.reply.start - s.start + 1
        last == r.reply.end - s.start + 1
    IN  ~r.reply.truncated /\ last <= LineCount(text) =>
            r.got = FlattenSeq(SubSeq(KeptLines(text), first, last))

\* What a client has read is of a symbol of these rows.
ReadsOf(rows, r) ==
    \E s \in rows.symbols :
        /\ s.id = r.id
        /\ r.mode = "whole" => WholeRead(s, FullCode(rows, s.id), r)
        /\ r.mode = "range" => RangeRead(s, FullCode(rows, s.id), r)

\* A code and its symbol.
LEMMA CodeOfRow ==
    ASSUME RowsInv, NEW id, NEW scope, NEW code \in Reconstruct(db, id, scope, Whole)
    PROVE  \E s \in db.symbols :
              /\ s.id = id /\ code.start = s.start /\ code.end = s.end
              /\ code.code = FullCode(db, id)
              /\ s.start \in Int /\ s.end \in Int
              /\ FullCode(db, id) \in Seq(Int \X Int)
<1>1. PICK s \in db.symbols :
          /\ s.id = id /\ code.id = id /\ code.start = s.start /\ code.end = s.end
          /\ code.code = FullCode(db, id)
  BY ReconstructedCode
<1>2. s.start \in Int /\ s.end \in Int
  BY RowLines DEF TypedRow
<1>3. FullCode(db, id) \in Seq(Int \X Int)
  BY ChunksAreTyped, ContentsTyped
<1> QED BY <1>1, <1>2, <1>3

LEMMA OpenReadsWhole ==
    ASSUME RowsInv, NEW id, NEW limit \in CharLimits, Open(id, limit)
    PROVE  ReadsOf(db, reading')
<1> DEFINE scope == SessionScope({})
<1>1. PICK reply \in GetSymbol(db, id, scope, limit) :
          reading' = [mode |-> "whole", id |-> id, limit |-> limit, end |-> reply.end,
                      reply |-> reply, got |-> Kept(reply)]
  BY DEF Open
<1>2. PICK code \in Reconstruct(db, id, scope, Whole) : reply = TruncateText(code, limit)
  BY <1>1 DEF GetSymbol
<1> HIDE DEF scope
<1>3. PICK s \in db.symbols :
          /\ s.id = id /\ code.start = s.start /\ code.end = s.end
          /\ code.code = FullCode(db, id)
          /\ s.start \in Int /\ s.end \in Int
          /\ FullCode(db, id) \in Seq(Int \X Int)
  BY CodeOfRow
<1> DEFINE text == FullCode(db, id)
           A == Int \X Int
<1>4. reply.end = code.end
  BY <1>2 DEF TruncateText, CutReply, Reply
<1>5. /\ reading'.mode = "whole" /\ reading'.id = id /\ reading'.limit = limit
      /\ reading'.end = s.end /\ reading'.reply = reply /\ reading'.got = Kept(reply)
  BY <1>1, <1>3, <1>4
<1>6. text \in Seq(A) /\ code.code = text /\ Sentinel \in A
  BY <1>3 DEF Sentinel
<1> HIDE DEF text, A
<1>7. ASSUME LinesUpTo(text, limit - Len(Marker))
      PROVE  IF reply.truncated
             THEN \E e \in LineEnds(text) :
                     /\ e < Len(text) /\ Kept(reply) = SubSeq(text, 1, e)
                     /\ reply.returnedEnd = s.start + LineCount(SubSeq(text, 1, e)) - 1
             ELSE Kept(reply) = text
  <2> DEFINE zero == 0
  <2>1. zero \in 0 .. Len(text) /\ zero = 0 /\ zero + 1 = 1
    BY <1>6
  <2>2. SubSeq(text, 1, 0) = << >> /\ SubSeq(text, 1, Len(text)) = text
    BY <1>6, SubSeqFull
  <2>3. LineCount(<< >>) = 0
    <3>1. LineEnds(<< >>) = {}
      BY DEF LineEnds
    <3> QED BY <3>1, FS_EmptySet DEF LineCount
  <2>4. code.start = s.start + LineCount(SubSeq(text, 1, zero))
    <3>1. LineCount(SubSeq(text, 1, zero)) = 0
      BY <2>2, <2>3
    <3> HIDE DEF zero
    <3> QED BY <1>3, <3>1
  <2>5. code.code = SubSeq(text, zero + 1, Len(text))
    BY <1>6, <2>1, <2>2
  <2> HIDE DEF zero
  <2>6. RepliesFrom(text, s.start, zero, reply)
    <3>1. RepliesFrom(text, s.start, zero, TruncateText(code, limit))
      BY <1>3, <1>6, <1>7, <2>1, <2>4, <2>5, CutReads
    <3> QED BY <1>2, <3>1
  <2> QED BY <2>1, <2>2, <2>6 DEF RepliesFrom
<1>8. WholeRead(s, text, reading')
  BY <1>5, <1>7 DEF WholeRead
<1> QED BY <1>3, <1>5, <1>8 DEF ReadsOf, text

\* The lines of a range, and where they are.
RangedAs(ranged, code, from, to) ==
    /\ ranged.code = FlattenSeq(Slice(KeptLines(code.code), from - code.start,
                                      to - code.start + 1))
    /\ ranged.start = from /\ ranged.end = to

LEMMA RangeTaken ==
    ASSUME RowsInv, NEW id, NEW scope, NEW first \in Int, NEW last \in Int,
           NEW code \in Reconstruct(db, id, scope, Whole),
           NEW ranged \in RangeOf(code, first, last)
    PROVE  RangedAs(ranged, code, Max({first, code.start}), Min({last, code.end}))
<1>1. PICK row \in db.symbols : \E signature, limited, children :
          code = SymbolCode(row, signature, limited, children)
  BY ReconstructedRow
<1> DEFINE from == Max({first, code.start})
           to == Min({last, code.end})
           text == FlattenSeq(Slice(KeptLines(code.code), from - code.start, to - code.start + 1))
<1>2. ranged = [code EXCEPT !.code = text, !.start = from, !.end = to]
  BY DEF RangeOf
<1> HIDE DEF from, to, text
<1>3. ranged.start = from /\ ranged.end = to /\ ranged.code = text
  BY <1>1, <1>2 DEF SymbolCode
<1> QED BY <1>3 DEF RangedAs, from, to, text

LEMMA RangeReadsLines ==
    ASSUME RowsInv, NEW id, NEW limit \in CharLimits,
           NEW first \in LinesOf(id), NEW last \in LinesOf(id),
           AskRange(id, first, last, limit)
    PROVE  ReadsOf(db, reading')
<1> DEFINE scope == SessionScope({})
<1>1. PICK reply \in GetSymbolRange(db, id, first, last, scope, limit) :
          reading' = [mode |-> "range", id |-> id, limit |-> limit, end |-> last,
                      reply |-> reply, got |-> Kept(reply)]
  BY DEF AskRange
<1>2. first \in Int /\ last \in Int
  BY DEF LinesOf
<1>3. PICK code \in Reconstruct(db, id, scope, Whole) :
          \E ranged \in RangeOf(code, first, last) : reply = TruncateText(ranged, limit)
  BY <1>1 DEF GetSymbolRange
<1>4. PICK ranged \in RangeOf(code, first, last) : reply = TruncateText(ranged, limit)
  BY <1>3
<1> HIDE DEF scope
<1>5. PICK s \in db.symbols :
          /\ s.id = id /\ code.start = s.start /\ code.end = s.end
          /\ code.code = FullCode(db, id)
          /\ s.start \in Int /\ s.end \in Int
          /\ FullCode(db, id) \in Seq(Int \X Int)
  BY CodeOfRow
<1> DEFINE text == FullCode(db, id)
           from == Max({first, code.start})
           to == Min({last, code.end})
<1>6. RangedAs(ranged, code, from, to)
  BY <1>2, RangeTaken
<1>7. from \in Int /\ to \in Int
  BY <1>2, <1>5, MaxOfTwo, MinOfTwo
<1> HIDE DEF from, to
<1>8. reply.start = from /\ reply.end = to /\ (~reply.truncated => reply.code = ranged.code)
  <2>1. reply.start = ranged.start /\ reply.end = ranged.end
    BY <1>4 DEF TruncateText, CutReply, Reply
  <2>2. ~reply.truncated => reply.code = ranged.code
    BY <1>4 DEF TruncateText, CutReply, Reply
  <2> QED BY <1>6, <2>1, <2>2 DEF RangedAs
<1>9. /\ reading'.mode = "range" /\ reading'.id = id
      /\ reading'.reply = reply /\ reading'.got = Kept(reply)
  BY <1>1
<1>10. ASSUME ~reply.truncated, to - s.start + 1 <= LineCount(text)
       PROVE  Kept(reply) = FlattenSeq(SubSeq(KeptLines(text), from - s.start + 1, to - s.start + 1))
  <2> DEFINE lines == KeptLines(text)
             a == from - s.start
             b == to - s.start + 1
  <2>1. Len(lines) = LineCount(text) /\ LineCount(text) \in Nat
    BY <1>5, KeptTyped, SomeLine
  <2>2. Kept(reply) = FlattenSeq(Slice(lines, a, b))
    BY <1>5, <1>6, <1>8, <1>10 DEF RangedAs, Kept
  <2>3. b \in Int /\ b <= Len(lines) /\ Len(lines) \in Nat
    BY <1>5, <1>7, <1>10, <2>1
  <2> HIDE DEF lines, b
  <2>4. (IF b < Len(lines) THEN b ELSE Len(lines)) = b
    BY <2>3
  <2>5. Slice(lines, a, b) = SubSeq(lines, a + 1, b)
    BY <2>4 DEF Slice
  <2> QED BY <2>2, <2>5 DEF lines, b
<1> HIDE DEF text
<1>11. RangeRead(s, text, reading')
  BY <1>8, <1>9, <1>10 DEF RangeRead
<1> QED BY <1>5, <1>9, <1>11 DEF ReadsOf, text

LEMMA ReadOnReadsWhole ==
    ASSUME RowsInv, ReadOn, ReadsOf(db, reading), reading.limit \in CharLimits,
           reading.end \in Int, reading.reply.returnedEnd \in Int,
           DOMAIN reading = {"mode", "id", "limit", "end", "reply", "got"}
    PROVE  ReadsOf(db, reading')
<1> DEFINE scope == SessionScope({})
           id == reading.id
           limit == reading.limit
           next == reading.reply.returnedEnd + 1
<1>1. PICK reply \in GetSymbolRange(db, id, next, reading.end, scope, limit) :
          reading' = [reading EXCEPT !.reply = reply, !.got = @ \o Kept(reply)]
  BY DEF ReadOn
<1>2. PICK code \in Reconstruct(db, id, scope, Whole) :
          \E ranged \in RangeOf(code, next, reading.end) : reply = TruncateText(ranged, limit)
  BY <1>1 DEF GetSymbolRange
<1>3. PICK ranged \in RangeOf(code, next, reading.end) : reply = TruncateText(ranged, limit)
  BY <1>2
<1> HIDE DEF scope
<1>4. next \in Int
  OBVIOUS
<1> HIDE DEF next
<1>5. PICK s \in db.symbols :
          /\ s.id = id /\ code.start = s.start /\ code.end = s.end
          /\ code.code = FullCode(db, id)
          /\ s.start \in Int /\ s.end \in Int
          /\ FullCode(db, id) \in Seq(Int \X Int)
  BY CodeOfRow
<1> DEFINE text == FullCode(db, id)
           A == Int \X Int
<1>6. WholeRead(s, text, reading)
  <2>1. PICK r \in db.symbols : r.id = id /\ WholeRead(r, FullCode(db, r.id), reading)
    BY DEF ReadsOf, ReadOn
  <2>2. r = s
    BY <1>5, <2>1, UniqueIds
  <2> QED BY <2>1, <2>2
<1>7. /\ reading'.mode = "whole" /\ reading'.id = id /\ reading'.limit = limit
      /\ reading'.end = s.end /\ reading'.reply = reply
      /\ reading'.got = reading.got \o Kept(reply)
  BY <1>1, <1>6 DEF ReadOn, WholeRead
<1>8. text \in Seq(A) /\ Sentinel \in A /\ code.code = text
  BY <1>5 DEF Sentinel
<1> HIDE DEF text, A
<1>9. ASSUME LinesUpTo(text, limit - Len(Marker)), LineCount(text) <= s.end - s.start + 1
      PROVE  IF reply.truncated
             THEN \E f \in LineEnds(text) :
                     /\ f < Len(text) /\ reading'.got = SubSeq(text, 1, f)
                     /\ reply.returnedEnd = s.start + LineCount(SubSeq(text, 1, f)) - 1
             ELSE reading'.got = text
  <2>1. PICK e \in LineEnds(text) :
            /\ e < Len(text) /\ reading.got = SubSeq(text, 1, e)
            /\ reading.reply.returnedEnd = s.start + LineCount(SubSeq(text, 1, e)) - 1
    BY <1>6, <1>9 DEF WholeRead, ReadOn
  <2> DEFINE k == LineCount(SubSeq(text, 1, e))
             n == LineCount(text)
             lines == KeptLines(text)
             rest == SubSeq(text, e + 1, Len(text))
  <2>2. k \in 1 .. n /\ FlattenSeq(SubSeq(lines, k + 1, n)) = rest
    BY <1>8, BehindEnd
  <2>3. n \in Nat /\ Len(lines) = n
    BY <1>8, KeptTyped, SomeLine
  <2> HIDE DEF k, n, lines, rest
  <2>4. next = s.start + k
    BY <1>5, <2>1, <2>2, <2>3 DEF next, k
  <2> DEFINE from == Max({next, code.start})
             to == Min({reading.end, code.end})
  <2>5. from = s.start + k /\ to = s.end
    <3>1. from \in {next, code.start} /\ from >= next /\ from >= code.start
      BY <1>4, <1>5, MaxOfTwo
    <3>2. to \in {reading.end, code.end}
      BY <1>5, MinOfTwo
    <3>3. reading.end = s.end /\ code.end = s.end
      BY <1>5, <1>6 DEF WholeRead
    <3> HIDE DEF from, to
    <3>4. to = s.end
      BY <3>2, <3>3
    <3> QED BY <1>5, <2>2, <2>3, <2>4, <3>1, <3>4
  <2>6. RangedAs(ranged, code, from, to)
    BY <1>4, RangeTaken
  <2> HIDE DEF from, to
  <2>7. Slice(lines, from - code.start, to - code.start + 1) = SubSeq(lines, k + 1, n)
    <3> DEFINE b == to - code.start + 1
    <3>1. from - code.start = k /\ b = s.end - s.start + 1 /\ b \in Int
      BY <1>5, <2>2, <2>3, <2>5
    <3>2. n <= b
      BY <1>9, <3>1 DEF n
    <3> HIDE DEF b
    <3>3. (IF b < Len(lines) THEN b ELSE Len(lines)) = n
      BY <2>3, <3>1, <3>2
    <3>4. Slice(lines, from - code.start, b) = SubSeq(lines, k + 1, n)
      BY <3>1, <3>3 DEF Slice
    <3> QED BY <3>4 DEF b
  <2>8. ranged.code = rest /\ ranged.start = s.start + k
    BY <1>8, <2>2, <2>5, <2>6, <2>7 DEF RangedAs, lines
  <2>9. e \in 0 .. Len(text)
    BY <1>8 DEF LineEnds
  <2>10. RepliesFrom(text, s.start, e, reply)
    <3>1. ranged.code = SubSeq(text, e + 1, Len(text))
          /\ ranged.start = s.start + LineCount(SubSeq(text, 1, e))
      BY <2>8 DEF k, rest
    <3>2. s.start \in Int /\ limit \in CharLimits
      BY <1>5
    <3> HIDE DEF limit
    <3>3. RepliesFrom(text, s.start, e, TruncateText(ranged, limit))
      BY <1>8, <1>9, <2>9, <3>1, <3>2, CutReads
    <3> QED BY <1>3, <3>3
  <2>11. CASE reply.truncated
    <3>1. PICK f \in LineEnds(text) :
              /\ e < f /\ f < Len(text)
              /\ Kept(reply) = SubSeq(text, e + 1, f)
              /\ reply.returnedEnd = s.start + LineCount(SubSeq(text, 1, f)) - 1
      BY <2>10, <2>11 DEF RepliesFrom
    <3>2. f \in 1 .. Len(text)
      BY DEF LineEnds
    <3>3. SubSeq(text, 1, e) \o SubSeq(text, e + 1, f) = SubSeq(text, 1, f)
      BY <1>8, <2>9, <3>1, <3>2
    <3>4. reading'.got = SubSeq(text, 1, f)
      BY <1>7, <2>1, <3>1, <3>3
    <3> QED BY <2>11, <3>1, <3>4
  <2>12. CASE ~reply.truncated
    <3>1. Kept(reply) = SubSeq(text, e + 1, Len(text))
      BY <2>10, <2>12 DEF RepliesFrom
    <3>2. SubSeq(text, 1, e) \o SubSeq(text, e + 1, Len(text)) = text
      <4>1. 1 \in 1 .. Len(text) + 1 /\ e \in 1 - 1 .. Len(text) /\ Len(text) \in e .. Len(text)
        BY <1>8, <2>9
      <4>2. SubSeq(text, 1, e) \o SubSeq(text, e + 1, Len(text)) = SubSeq(text, 1, Len(text))
        BY <1>8, <4>1, ConcatAdjacentSubSeq
      <4>3. SubSeq(text, 1, Len(text)) = text
        BY <1>8, SubSeqFull
      <4> QED BY <4>2, <4>3
    <3> QED BY <1>7, <2>1, <2>12, <3>1, <3>2
  <2> QED BY <2>11, <2>12
<1>10. WholeRead(s, text, reading')
  BY <1>7, <1>9 DEF WholeRead
<1> QED BY <1>5, <1>7, <1>10 DEF ReadsOf, text

----------------------------------------------------------------------------
(* What has been answered.                                                 *)

AnswersWithin(rows, reply) ==
    \A c \in WithBelow(reply.codes, Cardinality(rows.symbols)) :
        \E s \in rows.symbols :
            s.id = c.id /\ Honoured(c.code, FullCode(rows, c.id), reply.how.maxLines)

LEMMA AskAnswers ==
    ASSUME RowsInv, NEW name, NEW chosen, NEW paths, NEW how \in Renderings,
           how.detail = "body", Ask("lookup", name, chosen, paths, how)
    PROVE  AnswersWithin(db, answer')
<1> DEFINE scope == SessionScope(paths)
           codes == Lookup(db, name, chosen, scope, how).selected
           G == Nodes(how.maxLines)
           depth == Cardinality(db.symbols)
<1>1. answer'.codes = codes /\ answer'.how = how
  BY DEF Ask
<1>2. how.maxLines \in Nat
  BY LineLimitsAssumption DEF Renderings
<1>3. codes \in SUBSET G
  BY SelectedNodes
<1> HIDE DEF codes, scope
<1>4. \A c \in G : ToSet(c.children) \subseteq G
  BY <1>2, NodesClosed
<1>5. depth \in Nat
  BY FS_CardinalityType DEF RowsInv
<1>6. ASSUME NEW c \in G
      PROVE  \E s \in db.symbols :
                s.id = c.id /\ Honoured(c.code, FullCode(db, c.id), how.maxLines)
  <2>1. PICK s \in db.symbols : CodedAs(c, db, s, how.maxLines)
    BY <1>2, NodesClosed
  <2> QED BY <2>1 DEF CodedAs
<1> HIDE DEF G, depth
<1>7. WithBelow(codes, depth) \subseteq G
  BY <1>3, <1>4, <1>5, BelowStays
<1> QED BY <1>1, <1>6, <1>7 DEF AnswersWithin, depth

----------------------------------------------------------------------------
(* The inductive invariant.                                                *)

\* A symbol is being read only when no lookup is being looked at.
ReadingInv ==
    \/ reading = Closed
    \/ /\ found = {}
       /\ DOMAIN reading = {"mode", "id", "limit", "end", "reply", "got"}
       /\ reading.mode \in {"whole", "range"}
       /\ reading.limit \in CharLimits
       /\ reading.end \in Int /\ reading.reply.returnedEnd \in Int

\* Nothing is asked before everything is indexed; what is read or answered is of
\* the rows of the index.
SeenInv ==
    /\ todo # {} => found = {} /\ reading = Closed /\ answer = NoAnswer
    /\ reading # Closed => ReadsOf(db, reading)
    /\ answer # NoAnswer /\ answer.operation = "lookup" /\ answer.how.detail = "body" =>
          AnswersWithin(db, answer)

RetrievalInv ==
    /\ backend \in Backends
    /\ files \cap refused = {} /\ (files \cup refused) \cap todo = {}
    /\ RowsInv
    /\ found \subseteq Ids
    /\ ReadingInv
    /\ SeenInv

LEMMA InitHolds == Init => RetrievalInv
<1> SUFFICES ASSUME Init
             PROVE  RetrievalInv
  OBVIOUS
<1>1. RowsInv
  <2>1. \E repository \in Repositories : files \cup refused \cup todo \subseteq repository
    BY DEF Init
  <2>2. IsFiniteSet(db.symbols) /\ IsFiniteSet(db.chunks)
    BY FS_EmptySet DEF Init, NoRows
  <2> QED BY <2>1, <2>2 DEF Init, NoRows, RowsInv
<1> QED BY <1>1 DEF Init, RetrievalInv, ReadingInv, SeenInv

\* What a lookup shows is in the index.
LEMMA ShownIsIndexed ==
    ASSUME NEW names, NEW shown \in LookupResponse(
               {Lookup(db, n, Nil, SessionScope({}), Whole) : n \in names})
    PROVE  shown.id \in Ids
<1>1. PICK n \in names : shown \in Entries(Lookup(db, n, Nil, SessionScope({}), Whole))
  BY DEF LookupResponse
<1> DEFINE scope == SessionScope({})
           matches == FindSymbols(db, n, scope)
           result == Lookup(db, n, Nil, scope, Whole)
<1>2. result.matches = matches
  BY DEF Lookup, LookupIn, LookupAmong
<1>3. \A s \in result.selected : \E id : s \in Reconstruct(db, id, scope, Whole)
  BY DEF Lookup, LookupIn, LookupAmong
<1>4. matches \subseteq db.symbols
  BY DEF FindSymbols, Deduplicate, Matching, FirstNonEmpty
<1>5. PICK s \in result.selected \cup result.matches : shown.id = s.id
  BY <1>1 DEF Entries
<1> HIDE DEF result, matches, scope
<1>6. CASE s \in result.matches
  BY <1>2, <1>4, <1>5, <1>6 DEF Ids
<1>7. CASE s \in result.selected
  <2>1. PICK id : s \in Reconstruct(db, id, scope, Whole)
    BY <1>3, <1>7
  <2>2. PICK row \in db.symbols : \E signature, limited, children :
            s = SymbolCode(row, signature, limited, children)
    BY <2>1, ReconstructedRow
  <2>3. s.id = row.id
    BY <2>2 DEF SymbolCode
  <2> QED BY <1>5, <2>3 DEF Ids
<1> QED BY <1>5, <1>6, <1>7

\* Actions that leave the rows alone.
LEMMA RowsUnchanged ==
    ASSUME RowsInv, UNCHANGED <<longPath, todo, files, refused, db>>
    PROVE  RowsInv' /\ Ids' = Ids
<1>1. longPath' = longPath /\ todo' = todo /\ files' = files /\ refused' = refused /\ db' = db
  OBVIOUS
<1>2. \A branch : TagToString(branch)' = TagToString(branch)
  BY <1>1 DEF TagToString
<1>3. (db.symbols = UNION {SymbolRows(e.file, Chunked[e.file]) : e \in files})'
  BY <1>1 DEF RowsInv
<1>4. (db.chunks = UNION {ChunkRows(e.file, Chunked[e.file]) : e \in files})'
  BY <1>1 DEF RowsInv
<1>5. (db.tags = UNION {{<<TagToString(e.branch), c.id>> : c \in Chunked[e.file].chunks} :
                           e \in files})'
  BY <1>1, <1>2 DEF RowsInv
<1>6. (\E repository \in Repositories : files \cup refused \cup todo \subseteq repository)'
  BY <1>1 DEF RowsInv
<1>7. /\ (\A e \in files : ~InsertRaises(Chunked[e.file]))'
      /\ IsFiniteSet(db.symbols)' /\ IsFiniteSet(db.chunks)'
  BY <1>1 DEF RowsInv
<1>8. Ids' = Ids
  BY <1>1 DEF Ids
<1> QED BY <1>3, <1>4, <1>5, <1>6, <1>7, <1>8 DEF RowsInv

\* Reading on returns an answer behind the one before, from the symbol's lines.
LEMMA ReadOnAdvances ==
    ASSUME RetrievalInv, ReadOn
    PROVE  /\ ReadingInv'
           /\ reading'.reply.returnedEnd > reading.reply.returnedEnd
<1> DEFINE scope == SessionScope({})
           first == reading.reply.returnedEnd + 1
<1>1. /\ reading.mode = "whole" /\ reading # Closed
      /\ reading.limit \in CharLimits /\ found = {}
      /\ reading.end \in Int /\ reading.reply.returnedEnd \in Int
      /\ DOMAIN reading = {"mode", "id", "limit", "end", "reply", "got"}
  BY DEF ReadOn, RetrievalInv, ReadingInv, Closed
<1>2. PICK reply \in GetSymbolRange(db, reading.id, first, reading.end, scope, reading.limit) :
          reading' = [reading EXCEPT !.reply = reply, !.got = @ \o Kept(reply)]
  BY DEF ReadOn
<1>3. PICK code \in Reconstruct(db, reading.id, scope, Whole) :
          \E ranged \in RangeOf(code, first, reading.end) :
              reply = TruncateText(ranged, reading.limit)
  BY <1>2 DEF GetSymbolRange
<1>4. PICK ranged \in RangeOf(code, first, reading.end) :
          reply = TruncateText(ranged, reading.limit)
  BY <1>3
<1> HIDE DEF scope
<1>5. /\ ranged.start \in Int /\ ranged.end \in Int
      /\ first <= ranged.start /\ ranged.start <= ranged.end
  BY <1>1, <1>3, <1>4, RangeInside DEF RetrievalInv
<1>6. reply.returnedEnd \in Int /\ reply.returnedEnd >= ranged.start
  BY <1>1, <1>4, <1>5, CutEnds
<1>7. /\ reading'.reply = reply /\ reading'.mode = reading.mode
      /\ reading'.limit = reading.limit /\ reading'.end = reading.end
      /\ DOMAIN reading' = DOMAIN reading
  BY <1>1, <1>2
<1>8. found' = {}
  BY <1>1 DEF ReadOn
<1>9. ReadingInv'
  BY <1>1, <1>6, <1>7, <1>8 DEF ReadingInv
<1> QED BY <1>1, <1>5, <1>6, <1>7, <1>9

\* The answer to a symbol ends inside it.
LEMMA OpenReads ==
    ASSUME RetrievalInv, NEW id, NEW limit \in CharLimits, Open(id, limit)
    PROVE  ReadingInv'
<1> DEFINE scope == SessionScope({})
<1>1. PICK reply \in GetSymbol(db, id, scope, limit) :
          reading' = [mode |-> "whole", id |-> id, limit |-> limit, end |-> reply.end,
                      reply |-> reply, got |-> Kept(reply)]
  BY DEF Open
<1>2. PICK code \in Reconstruct(db, id, scope, Whole) : reply = TruncateText(code, limit)
  BY <1>1 DEF GetSymbol
<1>3. PICK row \in db.symbols : \E signature, limited, children :
          code = SymbolCode(row, signature, limited, children)
  BY <1>2, ReconstructedRow
<1>4. code.start \in Int /\ code.end \in Int
  BY <1>3, RowLines DEF SymbolCode, TypedRow, RetrievalInv
<1>5. reply.returnedEnd \in Int
  BY <1>2, <1>4, CutEnds
<1>6. reply.end = code.end
  BY <1>2 DEF TruncateText, CutReply, Reply
<1> QED BY <1>1, <1>4, <1>5, <1>6 DEF Open, ReadingInv

LEMMA RangeReads ==
    ASSUME RetrievalInv, NEW id, NEW limit \in CharLimits,
           NEW first \in LinesOf(id), NEW last \in LinesOf(id),
           AskRange(id, first, last, limit)
    PROVE  ReadingInv'
<1> DEFINE scope == SessionScope({})
<1>1. PICK reply \in GetSymbolRange(db, id, first, last, scope, limit) :
          reading' = [mode |-> "range", id |-> id, limit |-> limit, end |-> last,
                      reply |-> reply, got |-> Kept(reply)]
  BY DEF AskRange
<1>2. first \in Int /\ last \in Int
  BY DEF LinesOf
<1>3. PICK code \in Reconstruct(db, id, scope, Whole) :
          \E ranged \in RangeOf(code, first, last) : reply = TruncateText(ranged, limit)
  BY <1>1 DEF GetSymbolRange
<1>4. PICK ranged \in RangeOf(code, first, last) : reply = TruncateText(ranged, limit)
  BY <1>3
<1> HIDE DEF scope
<1>5. ranged.start \in Int /\ ranged.end \in Int
  BY <1>2, <1>3, <1>4, RangeInside DEF RetrievalInv
<1>6. reply.returnedEnd \in Int
  BY <1>4, <1>5, CutEnds
<1> QED BY <1>1, <1>2, <1>6 DEF AskRange, ReadingInv

LEMMA StepHolds == RetrievalInv /\ [Next]_vars => RetrievalInv'
<1> SUFFICES ASSUME RetrievalInv, [Next]_vars
             PROVE  RetrievalInv'
  OBVIOUS
<1>1. ASSUME NEW entry \in todo, IndexFile(entry)
      PROVE  RetrievalInv'
  <2>1. entry \notin files
    BY DEF RetrievalInv
  <2>2. RowsInv' /\ Ids \subseteq Ids'
    BY <1>1, <2>1, IndexFileKeepsRows DEF RetrievalInv
  <2>3. files' \cap refused' = {} /\ (files' \cup refused') \cap todo' = {}
    BY <1>1 DEF RetrievalInv, IndexFile
  <2>4. ReadingInv'
    BY <1>1 DEF RetrievalInv, IndexFile, ReadingInv
  <2>5. SeenInv'
    <3>1. found = {} /\ reading = Closed /\ answer = NoAnswer
      BY DEF RetrievalInv, SeenInv
    <3> QED BY <1>1, <3>1 DEF IndexFile, SeenInv
  <2> QED BY <1>1, <2>2, <2>3, <2>4, <2>5 DEF RetrievalInv, IndexFile
<1> DEFINE quiet == UNCHANGED <<backend, longPath, todo, files, refused, db>>
<1>2. ASSUME quiet, found' \subseteq Ids, ReadingInv', SeenInv'
      PROVE  RetrievalInv'
  BY <1>2, RowsUnchanged DEF RetrievalInv
<1>3. ASSUME NEW n \in Queries, NEW m \in Queries, LookUp({n, m})
      PROVE  RetrievalInv'
  <2>1. found' \subseteq Ids
    BY <1>3, ShownIsIndexed DEF LookUp
  <2>2. quiet /\ reading = Closed /\ reading' = reading
    BY <1>3 DEF LookUp, Resting
  <2>3. todo = {} /\ answer' = NoAnswer
    BY <1>3 DEF LookUp, Resting
  <2>4. SeenInv'
    BY <2>2, <2>3 DEF SeenInv
  <2> QED BY <1>2, <2>1, <2>2, <2>4 DEF ReadingInv
<1>4. ASSUME NEW id \in found, NEW limit \in CharLimits, Open(id, limit)
      PROVE  RetrievalInv'
  <2>1. quiet /\ found' = {} /\ answer' = answer
    BY <1>4 DEF Open
  <2>2. todo = {}
    BY DEF RetrievalInv, SeenInv
  <2>3. ReadsOf(db, reading')
    BY <1>4, OpenReadsWhole DEF RetrievalInv
  <2>4. SeenInv'
    BY <2>1, <2>2, <2>3 DEF RetrievalInv, SeenInv
  <2> QED BY <1>2, <1>4, <2>1, <2>4, OpenReads
<1>5. ASSUME ReadOn
      PROVE  RetrievalInv'
  <2>1. quiet /\ found' = found /\ answer' = answer
    BY <1>5 DEF ReadOn
  <2>2. reading # Closed
    BY <1>5 DEF ReadOn, Closed
  <2>3. todo = {} /\ ReadsOf(db, reading)
    BY <2>2 DEF RetrievalInv, SeenInv
  <2>4. ReadsOf(db, reading')
    BY <1>5, <2>2, <2>3, ReadOnReadsWhole DEF RetrievalInv, ReadingInv
  <2>5. SeenInv'
    BY <2>1, <2>3, <2>4 DEF RetrievalInv, SeenInv
  <2> QED BY <1>2, <1>5, <2>1, <2>5, ReadOnAdvances DEF RetrievalInv
<1>6. ASSUME Finish
      PROVE  RetrievalInv'
  <2>1. quiet /\ found' = {} /\ reading' = Closed /\ answer' = NoAnswer
    BY <1>6 DEF Finish
  <2>2. SeenInv'
    BY <2>1 DEF SeenInv
  <2> QED BY <1>2, <2>1, <2>2 DEF ReadingInv
<1>7. ASSUME NEW id \in found, NEW limit \in CharLimits,
             NEW first \in LinesOf(id), NEW last \in LinesOf(id),
             AskRange(id, first, last, limit)
      PROVE  RetrievalInv'
  <2>1. quiet /\ found' = {} /\ answer' = answer
    BY <1>7 DEF AskRange
  <2>2. todo = {}
    BY DEF RetrievalInv, SeenInv
  <2>3. ReadsOf(db, reading')
    BY <1>7, RangeReadsLines DEF RetrievalInv
  <2>4. SeenInv'
    BY <2>1, <2>2, <2>3 DEF RetrievalInv, SeenInv
  <2> QED BY <1>2, <1>7, <2>1, <2>4, RangeReads
<1>8. ASSUME NEW operation \in Operations, NEW n, NEW chosen, NEW how \in Renderings, NEW paths,
             Ask(operation, n, chosen, paths, how)
      PROVE  RetrievalInv'
  <2>1. quiet /\ found' = found /\ reading' = reading
    BY <1>8 DEF Ask
  <2>2. ReadingInv'
    BY <2>1 DEF RetrievalInv, ReadingInv
  <2>3. todo = {} /\ reading = Closed /\ answer'.how = how /\ answer'.operation = operation
    BY <1>8 DEF Ask, Resting
  <2>4. answer'.operation = "lookup" /\ answer'.how.detail = "body" => AnswersWithin(db, answer')
    BY <1>8, <2>3, AskAnswers DEF RetrievalInv
  <2>5. SeenInv'
    BY <2>1, <2>3, <2>4 DEF SeenInv
  <2> QED BY <1>2, <2>1, <2>2, <2>5 DEF RetrievalInv
<1>9. ASSUME UNCHANGED vars
      PROVE  RetrievalInv'
  <2>1. quiet /\ found' = found /\ reading' = reading /\ answer' = answer
    BY <1>9 DEF vars
  <2>2. ReadingInv'
    BY <2>1 DEF RetrievalInv, ReadingInv
  <2>3. SeenInv'
    BY <2>1 DEF RetrievalInv, SeenInv
  <2> QED BY <1>2, <2>1, <2>2, <2>3 DEF RetrievalInv
<1> HIDE DEF quiet
<1> QED BY <1>1, <1>3, <1>4, <1>5, <1>6, <1>7, <1>8, <1>9 DEF Next

\* The rows of the index are those of the files that were inserted, what is shown
\* is among them, and what is read or answered is of their code.
THEOREM InvariantHolds == Spec => []RetrievalInv
<1>1. Init => RetrievalInv
  BY InitHolds
<1>2. RetrievalInv /\ [Next]_vars => RetrievalInv'
  BY StepHolds
<1> QED BY <1>1, <1>2, PTL DEF Spec
----------------------------------------------------------------------------
(* Theorems.                                                               *)

\* Symbols, chunks and tags of the index belong together, whatever the order in
\* which files are indexed and whichever of them raise (chunk_codebase_index.py).
THEOREM RetrievalTypeCorrect == Spec => []TypeOK
<1>1. RetrievalInv => TypeOK
  <2> SUFFICES ASSUME RetrievalInv
               PROVE  TypeOK
    OBVIOUS
  <2>1. RowsInv
    BY DEF RetrievalInv
  <2>2. \A s \in db.symbols : s.parent = Nil \/ s.parent \in Ids
    BY <2>1, ParentsPresent
  <2>3. \A c \in db.chunks : c.symbol \in Ids
    BY <2>1, ChunksOwned
  <2>4. \A t \in db.tags : \E e \in files, c \in db.chunks :
           c.key = e.file.key /\ t = <<TagToString(e.branch), c.id>>
    BY <2>1, TagsOwned
  <2>5. reading.mode \in {"closed", "whole", "range"}
    BY DEF RetrievalInv, ReadingInv, Closed
  <2> QED BY <2>1, <2>2, <2>3, <2>4, <2>5, UniqueIds DEF RetrievalInv, TypeOK
<1> QED BY <1>1, InvariantHolds, PTL

\* A client that reads on from where a truncated answer says it ended never gets
\* the same lines again, for every source, cut into whatever pieces, and every
\* limit that leaves room in front of the marker (handlers.py:123-161).
THEOREM ReadingAlwaysAdvances == Spec => ReadingAdvances
<1> DEFINE Advance == reading # Closed /\ reading'.mode = "whole" /\ reading' # reading =>
                         reading'.reply.returnedEnd > reading.reply.returnedEnd
<1>1. RetrievalInv /\ [Next]_vars => [Advance]_vars
  <2> SUFFICES ASSUME RetrievalInv, Next, reading # Closed, reading'.mode = "whole",
                      reading' # reading
               PROVE  reading'.reply.returnedEnd > reading.reply.returnedEnd
    OBVIOUS
  <2>1. found = {}
    BY DEF RetrievalInv, ReadingInv
  <2>2. ReadOn
    BY <2>1 DEF Next, IndexFile, LookUp, Ask, Resting, Finish, Closed
  <2> QED BY <2>2, ReadOnAdvances
<1> QED BY <1>1, InvariantHolds, PTL DEF Spec, ReadingAdvances

\* What a lookup of the session sees is what its branch has.
LEMMA ScopeIsBranch ==
    ASSUME RowsInv, ~longPath, NEW row \in db.symbols
    PROVE  InScope(db, row, SessionScope({})) <=> OnBranch(row)
<1> DEFINE Tagged(c) == <<ScopeTag(Session), c.id>> \in db.tags
<1>1. InScope(db, row, SessionScope({})) <=>
         \E c \in db.chunks : c.key = row.key /\ c.path = row.path /\ Tagged(c)
  BY DEF InScope, PathInScope, TagInScope, SessionScope, Scope
<1>2. \A branch : TagToString(branch) = <<"plain", branch>>
  BY DEF TagToString
<1>3. ASSUME NEW c \in db.chunks, c.key = row.key, c.path = row.path, Tagged(c)
      PROVE  OnBranch(row)
  <2>1. PICK e \in files, d \in db.chunks :
            /\ d.key = e.file.key /\ d.path = e.file.path
            /\ <<ScopeTag(Session), c.id>> = <<TagToString(e.branch), d.id>>
    BY <1>3, TagsOwned
  <2>2. e.branch = Session /\ d.id = c.id
    BY <1>2, <2>1 DEF ScopeTag
  <2>3. d = c
    BY <2>2, UniqueIds
  <2> QED BY <1>3, <2>1, <2>2, <2>3 DEF OnBranch
<1>4. ASSUME OnBranch(row)
      PROVE  \E c \in db.chunks : c.key = row.key /\ c.path = row.path /\ Tagged(c)
  <2>1. PICK e \in files : /\ e.file.key = row.key /\ e.file.path = row.path
                           /\ e.branch = Session
                           /\ \E c \in db.chunks : c.key = row.key /\ c.path = row.path
    BY <1>4 DEF OnBranch
  <2>2. PICK c \in db.chunks : c.key = row.key /\ c.path = row.path
    BY <2>1
  <2>3. PICK f \in files : c \in ChunkRows(f.file, Chunked[f.file])
    BY DEF RowsInv
  <2>4. /\ c.key = f.file.key
        /\ \E chunk \in Chunked[f.file].chunks : c.id = chunk.id
    BY <2>3, IndexedEntries, ChunkOfRow
  <2>5. f = e
    BY <2>1, <2>2, <2>4, IndexedEntries
  <2>6. \E chunk \in Chunked[e.file].chunks : c.id = chunk.id
    BY <2>4, <2>5
  <2>7. <<TagToString(e.branch), c.id>> \in db.tags
    BY <2>6 DEF RowsInv
  <2> QED BY <1>2, <2>1, <2>2, <2>7 DEF ScopeTag
<1> HIDE DEF Tagged
<1> QED BY <1>1, <1>3, <1>4

\* A hashed tag is no tag of a scope.
LEMMA LongPathFindsNothing ==
    ASSUME RowsInv, longPath, NEW row \in db.symbols
    PROVE  ~InScope(db, row, SessionScope({}))
<1> SUFFICES ASSUME NEW c \in db.chunks, <<ScopeTag(Session), c.id>> \in db.tags
             PROVE  FALSE
  BY DEF InScope, TagInScope, SessionScope, Scope
<1>1. PICK e \in files, d \in db.chunks :
          <<ScopeTag(Session), c.id>> = <<TagToString(e.branch), d.id>>
  BY TagsOwned
<1> QED BY <1>1 DEF ScopeTag, TagToString

LEMMA FoundInScope ==
    ASSUME NEW name, NEW scope, NEW m \in FindSymbols(db, name, scope)
    PROVE  m \in db.symbols /\ InScope(db, m, scope)
BY DEF FindSymbols, Deduplicate, Matching, FirstNonEmpty

\* A row in scope is found by its name, or the first row with the same key.
LEMMA FoundByName ==
    ASSUME RowsInv, NEW scope, NEW s \in db.symbols, InScope(db, s, scope)
    PROVE  \E m \in FindSymbols(db, s.name, scope) : DedupeKey(db, m) = DedupeKey(db, s)
<1> DEFINE visible == {r \in db.symbols : InScope(db, r, scope)}
           matching == Matching(visible, s.name)
           alike == {r \in matching : DedupeKey(db, r) = DedupeKey(db, s)}
<1>1. s \in matching /\ matching \subseteq db.symbols
  BY DEF Matching, FirstNonEmpty
<1>2. s.name # EmptyQuery
  <2>1. PICK e \in files : s \in SymbolRows(e.file, Chunked[e.file])
    BY DEF RowsInv
  <2> QED BY <2>1, IndexedEntries, SymbolOfRow
<1>3. FindSymbols(db, s.name, scope) = Deduplicate(db, matching)
  BY <1>2 DEF FindSymbols
<1> HIDE DEF matching
<1>4. IsFiniteSet(alike) /\ s \in alike
  <2>1. IsFiniteSet(db.symbols)
    BY DEF RowsInv
  <2> QED BY <1>1, <2>1, FS_Subset
<1>5. \A r \in alike : TypedRow(r)
  BY <1>1, RowLines
<1> HIDE DEF alike
<1>6. PICK m \in alike : \A r \in alike : ~Before(r, m)
  BY <1>4, <1>5, SomeFirst
<1>7. m \in Deduplicate(db, matching) /\ DedupeKey(db, m) = DedupeKey(db, s)
  BY <1>6 DEF alike, Deduplicate
<1> QED BY <1>3, <1>7

\* A branch has one version of a path.
LEMMA OneVersion ==
    ASSUME RowsInv, NEW r, NEW s, OnBranch(r), OnBranch(s), r.path = s.path
    PROVE  r.key = s.key
<1>1. PICK e \in files : e.file.key = r.key /\ e.file.path = r.path /\ e.branch = Session
  BY DEF OnBranch
<1>2. PICK f \in files : f.file.key = s.key /\ f.file.path = s.path /\ f.branch = Session
  BY DEF OnBranch
<1> QED BY <1>1, <1>2, IndexedEntries

\* A lookup finds the symbols of the session's branch, every one of them by its
\* name, and no symbol of another branch (retrieval_pipeline.py:75-150, 379-398).
THEOREM LookupsFindTheBranch == Spec => []FindsThisBranch
<1>1. RetrievalInv => FindsThisBranch
  <2> SUFFICES ASSUME RowsInv
               PROVE  FindsThisBranch
    BY DEF RetrievalInv
  <2> DEFINE scope == SessionScope({})
  <2>1. CASE longPath
    <3>1. \A n : FindSymbols(db, n, scope) = {}
      BY <2>1, FoundInScope, LongPathFindsNothing
    <3> QED BY <2>1, <3>1 DEF FindsThisBranch
  <2>2. CASE ~longPath
    <3>1. \A n : \A m \in FindSymbols(db, n, scope) : m \in db.symbols /\ OnBranch(m)
      BY <2>2, FoundInScope, ScopeIsBranch
    <3>2. ASSUME NEW s \in db.symbols, OnBranch(s)
          PROVE  \E m \in FindSymbols(db, s.name, scope) :
                    DedupeKey(db, m) = DedupeKey(db, s) /\ m.key = s.key
      <4>1. InScope(db, s, scope)
        BY <2>2, <3>2, ScopeIsBranch
      <4> HIDE DEF scope
      <4>2. PICK m \in FindSymbols(db, s.name, scope) : DedupeKey(db, m) = DedupeKey(db, s)
        BY <4>1, FoundByName
      <4>3. OnBranch(m) /\ m.path = s.path
        BY <3>1, <4>2 DEF DedupeKey
      <4> QED BY <3>2, <4>2, <4>3, OneVersion
    <3>3. ASSUME NEW s \in db.symbols, NEW m \in FindSymbols(db, s.name, scope),
                 DedupeKey(db, m) = DedupeKey(db, s), m.key = s.key
          PROVE  OnBranch(s)
      <4>1. OnBranch(m) /\ m.path = s.path
        BY <3>1, <3>3 DEF DedupeKey
      <4> QED BY <3>3, <4>1 DEF OnBranch
    <3> QED BY <2>2, <3>1, <3>2, <3>3 DEF FindsThisBranch
  <2> QED BY <2>1, <2>2
<1> QED BY <1>1, InvariantHolds, PTL

\* Reading on puts a symbol together again, whatever the repository, the pieces
\* its code is in and the limits: when no line is longer than an answer, and the
\* code has no more lines than the symbol, a client that follows the answers has
\* in the end exactly the code.  A range that is not truncated has its lines
\* (handlers.py:123-161, 418-434).
THEOREM ReadingGivesTheCode == Spec => []ReadsAreWhole
<1>1. RetrievalInv => ReadsAreWhole
  <2> SUFFICES ASSUME RetrievalInv, reading # Closed, ~reading.reply.truncated
               PROVE  LET s == RowOf(reading.id)
                          code == CodeOf(s)
                          first == reading.reply.start - s.start + 1
                          last == reading.reply.end - s.start + 1
                      IN  /\ /\ reading.mode = "whole"
                             /\ LinesFit(code, reading.limit - Len(Marker))
                             /\ LineCount(code) <= s.end - s.start + 1
                             => reading.got = code
                          /\ reading.mode = "range" /\ last <= LineCount(code)
                             => reading.got = FlattenSeq(SubSeq(KeptLines(code), first, last))
    BY DEF ReadsAreWhole
  <2>1. RowsInv /\ ReadsOf(db, reading)
    BY DEF RetrievalInv, SeenInv
  <2>2. PICK s \in db.symbols :
            /\ s.id = reading.id
            /\ reading.mode = "whole" => WholeRead(s, FullCode(db, s.id), reading)
            /\ reading.mode = "range" => RangeRead(s, FullCode(db, s.id), reading)
    BY <2>1 DEF ReadsOf
  <2>3. RowOf(reading.id) = s /\ CodeOf(s) = FullCode(db, s.id)
    BY <2>1, <2>2, RowIs, CodeIs
  <2> DEFINE text == FullCode(db, s.id)
             size == reading.limit - Len(Marker)
  <2>4. LinesFit(text, size) = LinesUpTo(text, size)
    BY DEF LinesFit, LinesUpTo
  <2> HIDE DEF text, size
  <2>5. ASSUME reading.mode = "whole", LinesFit(text, size), LineCount(text) <= s.end - s.start + 1
        PROVE  reading.got = text
    BY <2>2, <2>4, <2>5 DEF WholeRead, text, size
  <2>6. ASSUME reading.mode = "range", reading.reply.end - s.start + 1 <= LineCount(text)
        PROVE  reading.got = FlattenSeq(SubSeq(KeptLines(text), reading.reply.start - s.start + 1,
                                               reading.reply.end - s.start + 1))
    BY <2>2, <2>6 DEF RangeRead, text
  <2> QED BY <2>3, <2>5, <2>6 DEF text, size
<1> QED BY <1>1, InvariantHolds, PTL

\* Every symbol in an answer of lookup_symbol, at any depth, shows at most max_lines
\* lines of its code and then the note, or all of its code when that has no more
\* lines - for every tree of symbols and every limit
\* (retrieval_pipeline.py:537-563, api.py:271-272).
THEOREM AnswersHonourTheLimit == Spec => []LimitHonoured
<1>1. RetrievalInv => LimitHonoured
  <2> SUFFICES ASSUME RetrievalInv, answer # NoAnswer, answer.operation = "lookup",
                      answer.how.detail = "body",
                      NEW c \in WithBelow(answer.codes, Cardinality(db.symbols))
               PROVE  Honoured(c.code, CodeOf(RowOf(c.id)), answer.how.maxLines)
    BY DEF LimitHonoured, AnswerHonoured
  <2>1. RowsInv /\ AnswersWithin(db, answer)
    BY DEF RetrievalInv, SeenInv
  <2>2. PICK s \in db.symbols :
            s.id = c.id /\ Honoured(c.code, FullCode(db, c.id), answer.how.maxLines)
    BY <2>1 DEF AnswersWithin
  <2>3. CodeOf(RowOf(c.id)) = FullCode(db, c.id)
    BY <2>1, <2>2, RowIs, CodeIs
  <2> QED BY <2>2, <2>3
<1> QED BY <1>1, InvariantHolds, PTL
==============================================================================
