--------------------------- MODULE ChunkerProofs -----------------------------
(***************************************************************************)
(* Theorems about what the chunker makes of a file, for every tree.        *)
(***************************************************************************)
EXTENDS RetrievedSource, RetrievalProofs

----------------------------------------------------------------------------
(* Folds over sequences.                                                   *)

LEMMA RangeMax ==
    ASSUME NEW k \in Nat, k >= 1
    PROVE  Max(1 .. k) = k /\ (1 .. k) \ {k} = 1 .. k - 1 /\ 1 .. k # {}
<1>1. 1 .. k # {} /\ \A i \in 1 .. k : i \in Nat /\ i <= k
  OBVIOUS
<1>2. k \in 1 .. k /\ \A y \in 1 .. k : k >= y
  OBVIOUS
<1>3. Max(1 .. k) \in 1 .. k /\ \A y \in 1 .. k : Max(1 .. k) >= y
  BY <1>2 DEF Max
<1>4. Max(1 .. k) >= k /\ Max(1 .. k) <= k
  BY <1>2, <1>3
<1> QED BY <1>3, <1>4

\* A fold over the numbers of a set is a function of the set.
FoldsBy(h, n, base, step) ==
    \A s \in SUBSET (1 .. n) :
        h[s] = IF s = {} THEN base ELSE step[<<Max(s), h[s \ {Max(s)}]>>]

LEMMA FoldExists ==
    ASSUME NEW n \in Nat, NEW V, NEW base \in V, NEW step \in [(1 .. n) \X V -> V]
    PROVE  \E h \in [SUBSET (1 .. n) -> V] : FoldsBy(h, n, base, step)
<1> DEFINE Step(s) == [p \in (1 .. n) \X V |-> IF p[1] \in s THEN step[p] ELSE p[2]]
           Skips(f, s) ==
              /\ f[0] = base
              /\ \A k \in 0 .. n - 1 : f[k + 1] = IF k + 1 \in s THEN step[<<k + 1, f[k]>>] ELSE f[k]
<1>1. ASSUME NEW s \in SUBSET (1 .. n)
      PROVE  \E f \in [0 .. n -> V] : Skips(f, s)
  <2>1. Step(s) \in [(1 .. n) \X V -> V]
    OBVIOUS
  <2> HIDE DEF Step
  <2>2. PICK f \in [0 .. n -> V] : StepsBy(f, n, base, Step(s))
    BY <2>1, StepsExist
  <2>3. ASSUME NEW k \in 0 .. n - 1
        PROVE  f[k + 1] = IF k + 1 \in s THEN step[<<k + 1, f[k]>>] ELSE f[k]
    <3>1. k + 1 \in 1 .. n /\ (k + 1) - 1 = k /\ <<k + 1, f[k]>> \in (1 .. n) \X V
      OBVIOUS
    <3>2. f[k + 1] = Step(s)[<<k + 1, f[k]>>]
      BY <2>2, <3>1 DEF StepsBy
    <3> QED BY <3>1, <3>2 DEF Step
  <2> QED BY <2>2, <2>3 DEF StepsBy
<1> DEFINE F == [s \in SUBSET (1 .. n) |-> CHOOSE f \in [0 .. n -> V] : Skips(f, s)]
           h == [s \in SUBSET (1 .. n) |-> F[s][n]]
<1>10. \A s \in SUBSET (1 .. n) : F[s] \in [0 .. n -> V] /\ Skips(F[s], s)
  <2> HIDE DEF Skips
  <2> QED BY <1>1
<1> HIDE DEF F
<1>11. ASSUME NEW s \in SUBSET (1 .. n), NEW k \in 0 .. n - 1
       PROVE  F[s][k + 1] = IF k + 1 \in s THEN step[<<k + 1, F[s][k]>>] ELSE F[s][k]
  BY <1>10
<1>12. \A s \in SUBSET (1 .. n) : F[s][0] = base
  BY <1>10
<1> HIDE DEF Step, Skips
<1>2. h \in [SUBSET (1 .. n) -> V]
  BY <1>10
<1>3. ASSUME NEW s \in SUBSET (1 .. n)
      PROVE  h[s] = IF s = {} THEN base ELSE step[<<Max(s), h[s \ {Max(s)}]>>]
  <2> DEFINE f == F[s]
  <2>10. /\ f[0] = base
         /\ \A k \in 0 .. n - 1 : f[k + 1] = IF k + 1 \in s THEN step[<<k + 1, f[k]>>] ELSE f[k]
    BY <1>11, <1>12
  <2> HIDE DEF f
  <2>11. h[s] = f[n]
    BY DEF f
  <2> HIDE DEF h
  <2>1. CASE s = {}
    <3> DEFINE P == {k \in 0 .. n : f[k] = base}
    <3>1. 0 \in P
      BY <2>10
    <3>2. ASSUME NEW k \in 0 .. n - 1, k \in P PROVE k + 1 \in P
      BY <2>10, <2>1, <3>2
    <3> HIDE DEF P
    <3>3. n \in P
      BY <3>1, <3>2, UpTo0
    <3> QED BY <2>1, <2>11, <3>3 DEF P
  <2>2. CASE s # {}
    <3> DEFINE m == Max(s)
               r == s \ {m}
    <3>1. m \in s /\ \A i \in s : i <= m
      <4>1. \A i \in s : i \in Nat /\ i <= n
        OBVIOUS
      <4>2. Max(s) \in s
        BY <2>2, <4>1, MaxOfBounded
      <4>3. \E x \in s : \A y \in s : x >= y
        <5> DEFINE gaps == {n - i : i \in s}
        <5>1. gaps \subseteq Nat /\ gaps # {}
          <6>1. \A i \in s : n - i \in Nat
            OBVIOUS
          <6> QED BY <2>2, <6>1
        <5> HIDE DEF gaps
        <5>2. PICK g \in gaps : \A k \in gaps : g <= k
          BY <5>1, LeastOf
        <5>3. PICK x \in s : g = n - x
          BY DEF gaps
        <5>4. \A y \in s : n - y \in gaps
          BY DEF gaps
        <5>5. \A y \in s : n - x <= n - y
          BY <5>2, <5>3, <5>4
        <5> QED BY <4>1, <5>5
      <4>4. \A y \in s : Max(s) >= y
        BY <4>3 DEF Max
      <4> QED BY <4>1, <4>2, <4>4
    <3> HIDE DEF m
    <3>2. r \in SUBSET (1 .. n) /\ m \in 1 .. n /\ \A k \in 1 .. n : k >= m => k \notin r
      BY <3>1
    <3>3. \A k \in 1 .. n : k # m => (k \in s <=> k \in r)
      OBVIOUS
    <3> HIDE DEF r
    <3> DEFINE g == F[r]
    <3>31. /\ g[0] = base
           /\ \A k \in 0 .. n - 1 : g[k + 1] = IF k + 1 \in r THEN step[<<k + 1, g[k]>>] ELSE g[k]
      BY <1>11, <1>12, <3>2
    <3>32. h[r] = g[n]
      BY <3>2 DEF h
    <3> HIDE DEF g
    <3>4. f[m - 1] = g[m - 1]
      <4> DEFINE P == {k \in 0 .. n : k < m => f[k] = g[k]}
      <4>1. 0 \in P
        BY <2>10, <3>2, <3>31
      <4>2. ASSUME NEW k \in 0 .. n - 1, k \in P PROVE k + 1 \in P
        <5>1. k + 1 < m => (k + 1 \in s <=> k + 1 \in r)
          BY <3>3
        <5>2. f[k + 1] = (IF k + 1 \in s THEN step[<<k + 1, f[k]>>] ELSE f[k])
          BY <2>10
        <5>3. g[k + 1] = (IF k + 1 \in r THEN step[<<k + 1, g[k]>>] ELSE g[k])
          BY <3>31
        <5>4. m \in Nat /\ k \in 0 .. n /\ k + 1 \in 0 .. n
          BY <3>2
        <5>5. k < m => f[k] = g[k]
          BY <4>2
        <5>6. k + 1 < m => f[k + 1] = g[k + 1]
          BY <5>1, <5>2, <5>3, <5>4, <5>5
        <5> QED BY <5>4, <5>6
      <4> HIDE DEF P
      <4>3. m - 1 \in P
        BY <3>2, <4>1, <4>2, UpTo0
      <4> QED BY <3>2, <4>3 DEF P
    <3>5. f[n] = f[m]
      <4> DEFINE P == {k \in 0 .. n : k >= m => f[k] = f[m]}
      <4>1. 0 \in P
        BY <3>2
      <4>2. ASSUME NEW k \in 0 .. n - 1, k \in P PROVE k + 1 \in P
        <5>1. k + 1 > m => k + 1 \notin s
          BY <3>1
        <5>2. f[k + 1] = (IF k + 1 \in s THEN step[<<k + 1, f[k]>>] ELSE f[k])
          BY <2>10
        <5>3. g[k + 1] = (IF k + 1 \in r THEN step[<<k + 1, g[k]>>] ELSE g[k])
          BY <3>31
        <5>4. m \in Nat /\ k \in 0 .. n /\ k + 1 \in 0 .. n
          BY <3>2
        <5>5. k >= m => f[k] = f[m]
          BY <4>2
        <5>6. k + 1 >= m => f[k + 1] = f[m]
          <6>1. CASE k + 1 = m
            BY <6>1
          <6>2. CASE k + 1 # m
            BY <5>1, <5>2, <5>4, <5>5, <6>2
          <6> QED BY <6>1, <6>2
        <5> QED BY <5>4, <5>6
      <4> HIDE DEF P
      <4>3. n \in P
        BY <4>1, <4>2, UpTo0
      <4> QED BY <3>2, <4>3 DEF P
    <3>6. g[n] = g[m - 1]
      <4> DEFINE P == {k \in 0 .. n : k >= m - 1 => g[k] = g[m - 1]}
      <4>1. 0 \in P
        BY <3>2
      <4>2. ASSUME NEW k \in 0 .. n - 1, k \in P PROVE k + 1 \in P
        <5>1. k + 1 >= m => k + 1 \notin r
          BY <3>2
        <5>2. f[k + 1] = (IF k + 1 \in s THEN step[<<k + 1, f[k]>>] ELSE f[k])
          BY <2>10
        <5>3. g[k + 1] = (IF k + 1 \in r THEN step[<<k + 1, g[k]>>] ELSE g[k])
          BY <3>31
        <5>4. m \in Nat /\ k \in 0 .. n /\ k + 1 \in 0 .. n
          BY <3>2
        <5>5. k >= m - 1 => g[k] = g[m - 1]
          BY <4>2
        <5>6. k + 1 >= m - 1 => g[k + 1] = g[m - 1]
          <6>1. CASE k + 1 = m - 1
            BY <6>1
          <6>2. CASE k + 1 # m - 1
            BY <5>1, <5>3, <5>4, <5>5, <6>2
          <6> QED BY <6>1, <6>2
        <5> QED BY <5>4, <5>6
      <4> HIDE DEF P
      <4>3. n \in P
        BY <4>1, <4>2, UpTo0
      <4> QED BY <3>2, <4>3 DEF P
    <3>7. f[m] = step[<<m, f[m - 1]>>]
      <4>1. m - 1 \in 0 .. n - 1 /\ (m - 1) + 1 = m
        BY <3>2
      <4> QED BY <2>10, <3>1, <4>1
    <3>9. h[s] = step[<<m, h[r]>>]
      BY <3>4, <3>5, <3>6, <3>7, <2>11, <3>32
    <3> QED BY <2>2, <3>9 DEF r, m
  <2> QED BY <2>1, <2>2
<1> HIDE DEF h
<1> QED BY <1>2, <1>3 DEF FoldsBy

\* What such a function has for the first k numbers.
Climbs(h, n, V, base, step) ==
    /\ h[{}] = base
    /\ \A k \in 1 .. n : h[1 .. k - 1] \in V => h[1 .. k] = step[<<k, h[1 .. k - 1]>>]

Climbed(f, h, n, base, step) == StepsBy(f, n, base, step) /\ h[1 .. n] = f[n]

LEMMA FoldValues ==
    ASSUME NEW n \in Nat, NEW V, NEW base \in V, NEW step \in [(1 .. n) \X V -> V],
           NEW h, Climbs(h, n, V, base, step)
    PROVE  \E f \in [0 .. n -> V] : Climbed(f, h, n, base, step)
<1> DEFINE f == [k \in 0 .. n |-> h[1 .. k]]
           P == {k \in 0 .. n : h[1 .. k] \in V}
<1>1. h[1 .. 0] = base
  <2>1. 1 .. 0 = {}
    OBVIOUS
  <2> QED BY <2>1 DEF Climbs
<1>3. 0 \in P
  BY <1>1
<1>4. ASSUME NEW k \in 0 .. n - 1, k \in P
      PROVE  k + 1 \in P
  <2>1. k + 1 \in 1 .. n /\ (k + 1) - 1 = k
    OBVIOUS
  <2>2. <<k + 1, h[1 .. k]>> \in (1 .. n) \X V
    BY <1>4, <2>1
  <2>3. h[1 .. k + 1] = step[<<k + 1, h[1 .. k]>>]
    BY <2>1, <2>2 DEF Climbs
  <2> QED BY <2>1, <2>2, <2>3
<1> HIDE DEF P
<1>5. \A k \in 0 .. n : k \in P
  BY <1>3, <1>4, UpTo0
<1>6. f \in [0 .. n -> V]
  BY <1>5 DEF P
<1>7. ASSUME NEW k \in 1 .. n
      PROVE  f[k] = step[<<k, f[k - 1]>>]
  <2>1. k \in 0 .. n /\ k - 1 \in 0 .. n
    OBVIOUS
  <2>2. h[1 .. k - 1] \in V
    BY <1>5, <2>1 DEF P
  <2> QED BY <2>1, <2>2 DEF Climbs
<1>8. f[0] = base /\ f[n] = h[1 .. n]
  BY <1>1
<1> HIDE DEF f
<1>9. StepsBy(f, n, base, step)
  BY <1>7, <1>8 DEF StepsBy
<1>10. Climbed(f, h, n, base, step)
  BY <1>8, <1>9 DEF Climbed
<1> QED BY <1>6, <1>10
LEMMA SeqOfFunction ==
    ASSUME NEW S, NEW n \in Nat, NEW s \in [1 .. n -> S]
    PROVE  s \in Seq(S) /\ Len(s) = n
<1>1. s \in Seq(S)
  BY SeqDef
<1> QED BY <1>1, LenProperties

LEMMA MaxIsOne ==
    ASSUME NEW n \in Nat, NEW s \in SUBSET (1 .. n), s # {}
    PROVE  Max(s) \in 1 .. n /\ s \ {Max(s)} \in SUBSET (1 .. n)
<1>1. \A i \in s : i \in Nat /\ i <= n
  OBVIOUS
<1> QED BY <1>1, MaxOfBounded

----------------------------------------------------------------------------
(* Texts.                                                                  *)

\* The fold of Lines.
LinesStep(acc, c) ==
    IF c = NL THEN Append(acc, << >>) ELSE [acc EXCEPT ![Len(acc)] = Append(@, c)]
LinesIter(iter, text) ==
    iter = [s \in SUBSET DOMAIN text |->
              IF s = {} THEN << << >> >> ELSE LinesStep(iter[s \ {Max(s)}], text[Max(s)])]

LEMMA LinesStepTyped ==
    ASSUME NEW A, NEW acc \in Seq(Seq(A)) \ {<< >>}, NEW c \in A
    PROVE  LinesStep(acc, c) \in Seq(Seq(A)) \ {<< >>}
<1> DEFINE n == Len(acc)
           next == LinesStep(acc, c)
<1>1. n \in Nat /\ n >= 1 /\ acc \in [1 .. n -> Seq(A)]
  BY EmptySeq
<1>2. CASE c = NL
  <2>1. next = Append(acc, << >>) /\ << >> \in Seq(A)
    BY <1>2 DEF LinesStep
  <2>2. next \in Seq(Seq(A)) /\ Len(next) = n + 1
    BY <1>1, <2>1
  <2> HIDE DEF next, n
  <2> QED BY <1>1, <2>2 DEF next
<1>3. CASE c # NL
  <2>1. next = [acc EXCEPT ![n] = Append(@, c)]
    BY <1>3 DEF LinesStep
  <2>2. n \in 1 .. n /\ Append(acc[n], c) \in Seq(A)
    BY <1>1
  <2> HIDE DEF next
  <2>3. next \in [1 .. n -> Seq(A)]
    BY <1>1, <2>1, <2>2
  <2> HIDE DEF n
  <2>4. next \in Seq(Seq(A)) /\ Len(next) = n
    BY <1>1, <2>3, SeqOfFunction
  <2> QED BY <1>1, <2>4 DEF next
<1> QED BY <1>2, <1>3

LEMMA LinesFolded ==
    ASSUME NEW A, NEW text \in Seq(A)
    PROVE  \E f \in [0 .. Len(text) -> Seq(Seq(A)) \ {<< >>}] :
              /\ f[0] = << << >> >>
              /\ \A k \in 1 .. Len(text) : f[k] = LinesStep(f[k - 1], text[k])
              /\ Lines(text) = f[Len(text)]
<1> DEFINE V == Seq(Seq(A)) \ {<< >>}
           seq == text
           n == Len(seq)
           base == << << >> >>
           iter == CHOOSE iter : LinesIter(iter, text)
           step == [p \in (1 .. n) \X V |-> LinesStep(p[2], seq[p[1]])]
<1>1. n \in Nat /\ DOMAIN seq = 1 .. n
  OBVIOUS
<1>2. base \in V
  OBVIOUS
<1>3. step \in [(1 .. n) \X V -> V]
  <2>1. \A p \in (1 .. n) \X V : p[2] \in V /\ seq[p[1]] \in A
    OBVIOUS
  <2>2. \A acc \in V, c \in A : LinesStep(acc, c) \in V
    BY LinesStepTyped
  <2> HIDE DEF V, seq, n
  <2> QED BY <2>1, <2>2
<1>4. \E h : LinesIter(h, text)
  <2> HIDE DEF V, n, step, seq, base
  <2>1. PICK h \in [SUBSET (1 .. n) -> V] : FoldsBy(h, n, base, step)
    BY <1>1, <1>2, <1>3, FoldExists
  <2>2. ASSUME NEW s \in SUBSET (1 .. n)
        PROVE  h[s] = IF s = {} THEN base ELSE LinesStep(h[s \ {Max(s)}], seq[Max(s)])
    <3>1. CASE s = {}
      BY <2>1, <3>1 DEF FoldsBy
    <3>2. CASE s # {}
      <4>1. <<Max(s), h[s \ {Max(s)}]>> \in (1 .. n) \X V
        BY <1>1, <3>2, MaxIsOne
      <4>2. step[<<Max(s), h[s \ {Max(s)}]>>] = LinesStep(h[s \ {Max(s)}], seq[Max(s)])
        BY <4>1 DEF step
      <4> QED BY <2>1, <3>2, <4>2 DEF FoldsBy
    <3> QED BY <3>1, <3>2
  <2>3. DOMAIN h = SUBSET (1 .. n)
    OBVIOUS
  <2>4. h = [s \in SUBSET DOMAIN seq |-> IF s = {} THEN base ELSE LinesStep(h[s \ {Max(s)}], seq[Max(s)])]
    BY <1>1, <2>2, <2>3
  <2> QED BY <2>4 DEF LinesIter, seq, base
<1>5. LinesIter(iter, text)
  BY <1>4
<1> HIDE DEF iter
<1>6. iter = [s \in SUBSET (1 .. n) |-> IF s = {} THEN base ELSE LinesStep(iter[s \ {Max(s)}], seq[Max(s)])]
  BY <1>1, <1>5 DEF LinesIter
<1> HIDE DEF V, n, seq, base
<1>7. iter[{}] = base
  BY <1>6
<1>8. ASSUME NEW k \in 1 .. n
      PROVE  iter[1 .. k] = LinesStep(iter[1 .. k - 1], seq[k])
  <2>1. 1 .. k \in SUBSET (1 .. n) /\ k \in Nat /\ k >= 1
    BY <1>1
  <2>2. Max(1 .. k) = k /\ (1 .. k) \ {k} = 1 .. k - 1 /\ 1 .. k # {}
    BY <2>1, RangeMax
  <2> QED BY <1>6, <2>1, <2>2
<1>9. \A k \in 1 .. n : iter[1 .. k - 1] \in V => iter[1 .. k] = step[<<k, iter[1 .. k - 1]>>]
  BY <1>8
<1>10. \A p \in (1 .. n) \X V : step[p] = LinesStep(p[2], seq[p[1]])
  OBVIOUS
<1>11. Lines(text) = iter[1 .. n]
  BY <1>1 DEF Lines, FoldLeft, MapThenFoldSet, LinesIter, LinesStep, iter, n, seq, base
<1> HIDE DEF step
<1>12. Climbs(iter, n, V, base, step)
  <2> HIDE DEF step
  <2> QED BY <1>7, <1>9 DEF Climbs
<1>13. PICK f \in [0 .. n -> V] : Climbed(f, iter, n, base, step)
  BY <1>1, <1>2, <1>3, <1>12, FoldValues
<1>14. ASSUME NEW k \in 1 .. n
       PROVE  f[k] = LinesStep(f[k - 1], seq[k])
  <2>1. k - 1 \in 0 .. n
    BY <1>1
  <2>2. <<k, f[k - 1]>> \in (1 .. n) \X V
    BY <2>1
  <2>3. f[k] = step[<<k, f[k - 1]>>]
    BY <1>13 DEF Climbed, StepsBy
  <2> QED BY <1>10, <2>2, <2>3
<1> QED BY <1>11, <1>13, <1>14 DEF n, seq, V, base, Climbed, StepsBy
\* The fold of JoinLines.
JoinStep(text, i, lines) == IF i = 1 THEN lines[1] ELSE text \o <<NL>> \o lines[i]
Numbers(lines) == [i \in DOMAIN lines |-> i]
JoinIter(iter, lines) ==
    iter = [s \in SUBSET DOMAIN Numbers(lines) |->
              IF s = {} THEN << >> ELSE JoinStep(iter[s \ {Max(s)}], Numbers(lines)[Max(s)], lines)]

LEMMA NumbersLen ==
    ASSUME NEW S, NEW lines \in Seq(S)
    PROVE  Len(Numbers(lines)) = Len(lines) /\ \A i \in 1 .. Len(lines) : Numbers(lines)[i] = i
<1>1. lines \in [1 .. Len(lines) -> S] /\ Len(lines) \in Nat
  OBVIOUS
<1>2. Numbers(lines) \in [1 .. Len(lines) -> Nat]
  BY <1>1 DEF Numbers
<1> QED BY <1>1, <1>2, SeqOfFunction DEF Numbers

LEMMA JoinFolded ==
    ASSUME NEW A, NL \in A, NEW lines \in Seq(Seq(A))
    PROVE  \E f \in [0 .. Len(Numbers(lines)) -> Seq(A)] :
              /\ f[0] = << >>
              /\ \A k \in 1 .. Len(Numbers(lines)) : f[k] = JoinStep(f[k - 1], Numbers(lines)[k], lines)
              /\ JoinLines(lines) = f[Len(Numbers(lines))]
<1> DEFINE V == Seq(A)
           seq == Numbers(lines)
           n == Len(seq)
           base == << >>
           iter == CHOOSE iter : JoinIter(iter, lines)
           step == [p \in (1 .. n) \X V |-> JoinStep(p[2], seq[p[1]], lines)]
<1>1. n \in Nat /\ DOMAIN seq = 1 .. n
    <2>1. lines \in [1 .. Len(lines) -> Seq(A)] /\ Len(lines) \in Nat
    OBVIOUS
  <2>2. seq \in [1 .. Len(lines) -> Nat]
    BY <2>1 DEF Numbers
  <2> QED BY <2>1, <2>2, SeqOfFunction
<1>2. base \in V
  OBVIOUS
<1>3. step \in [(1 .. n) \X V -> V]
  <2>1. \A p \in (1 .. n) \X V : p[2] \in V /\ p[1] \in 1 .. n /\ seq[p[1]] = p[1] /\ lines[p[1]] \in V
    <3>1. n = Len(lines) /\ \A i \in 1 .. n : seq[i] = i
      BY <1>1, NumbersLen
    <3> HIDE DEF n, seq
    <3> QED BY <3>1
  <2>2. \A p \in (1 .. n) \X V : JoinStep(p[2], seq[p[1]], lines) \in V
    <3> HIDE DEF n, seq
    <3>1. \A x \in V, y \in V : x \o <<NL>> \o y \in V
      OBVIOUS
    <3>2. n \in Nat
      BY <1>1
    <3>3. \A i \in 1 .. n : i >= 1
      BY <3>2
    <3> HIDE DEF V
    <3> TAKE p \in (1 .. n) \X V
    <3>4. p[2] \in V /\ p[1] \in 1 .. n /\ seq[p[1]] = p[1] /\ lines[p[1]] \in V
      BY <2>1
    <3>5. JoinStep(p[2], seq[p[1]], lines) = IF p[1] = 1 THEN lines[p[1]] ELSE p[2] \o <<NL>> \o lines[p[1]]
      BY <3>4 DEF JoinStep
    <3> QED BY <3>1, <3>4, <3>5
  <2> HIDE DEF V, seq, n
  <2> QED BY <2>2
<1>4. \E h : JoinIter(h, lines)
  <2> HIDE DEF V, n, step, seq, base
  <2>1. PICK h \in [SUBSET (1 .. n) -> V] : FoldsBy(h, n, base, step)
    BY <1>1, <1>2, <1>3, FoldExists
  <2>2. ASSUME NEW s \in SUBSET (1 .. n)
        PROVE  h[s] = IF s = {} THEN base ELSE JoinStep(h[s \ {Max(s)}], seq[Max(s)], lines)
    <3>1. CASE s = {}
      BY <2>1, <3>1 DEF FoldsBy
    <3>2. CASE s # {}
      <4>1. <<Max(s), h[s \ {Max(s)}]>> \in (1 .. n) \X V
        BY <1>1, <3>2, MaxIsOne
      <4>2. step[<<Max(s), h[s \ {Max(s)}]>>] = JoinStep(h[s \ {Max(s)}], seq[Max(s)], lines)
        BY <4>1 DEF step
      <4> QED BY <2>1, <3>2, <4>2 DEF FoldsBy
    <3> QED BY <3>1, <3>2
  <2>3. DOMAIN h = SUBSET (1 .. n)
    OBVIOUS
  <2>4. h = [s \in SUBSET DOMAIN seq |-> IF s = {} THEN base ELSE JoinStep(h[s \ {Max(s)}], seq[Max(s)], lines)]
    BY <1>1, <2>2, <2>3
  <2> QED BY <2>4 DEF JoinIter, seq, base
<1>5. JoinIter(iter, lines)
  BY <1>4
<1> HIDE DEF iter
<1>6. iter = [s \in SUBSET (1 .. n) |-> IF s = {} THEN base ELSE JoinStep(iter[s \ {Max(s)}], seq[Max(s)], lines)]
  BY <1>1, <1>5 DEF JoinIter
<1> HIDE DEF V, n, seq, base
<1>7. iter[{}] = base
  BY <1>6
<1>8. ASSUME NEW k \in 1 .. n
      PROVE  iter[1 .. k] = JoinStep(iter[1 .. k - 1], seq[k], lines)
  <2>1. 1 .. k \in SUBSET (1 .. n) /\ k \in Nat /\ k >= 1
    BY <1>1
  <2>2. Max(1 .. k) = k /\ (1 .. k) \ {k} = 1 .. k - 1 /\ 1 .. k # {}
    BY <2>1, RangeMax
  <2> QED BY <1>6, <2>1, <2>2
<1>9. \A k \in 1 .. n : iter[1 .. k - 1] \in V => iter[1 .. k] = step[<<k, iter[1 .. k - 1]>>]
  BY <1>8
<1>10. \A p \in (1 .. n) \X V : step[p] = JoinStep(p[2], seq[p[1]], lines)
  OBVIOUS
<1>11. JoinLines(lines) = iter[1 .. n]
  BY <1>1 DEF JoinLines, FoldLeft, MapThenFoldSet, JoinIter, JoinStep, Numbers, iter, n, seq, base
<1> HIDE DEF step
<1>12. Climbs(iter, n, V, base, step)
  <2> HIDE DEF step
  <2> QED BY <1>7, <1>9 DEF Climbs
<1>13. PICK f \in [0 .. n -> V] : Climbed(f, iter, n, base, step)
  BY <1>1, <1>2, <1>3, <1>12, FoldValues
<1>14. ASSUME NEW k \in 1 .. n
       PROVE  f[k] = JoinStep(f[k - 1], seq[k], lines)
  <2>1. k - 1 \in 0 .. n
    BY <1>1
  <2>2. <<k, f[k - 1]>> \in (1 .. n) \X V
    BY <2>1
  <2>3. f[k] = step[<<k, f[k - 1]>>]
    BY <1>13 DEF Climbed, StepsBy
  <2> QED BY <1>10, <2>2, <2>3
<1> QED BY <1>11, <1>13, <1>14 DEF n, seq, V, base, Climbed, StepsBy

LEMMA JoinTyped ==
    ASSUME NEW A, NL \in A, NEW lines \in Seq(Seq(A))
    PROVE  JoinLines(lines) \in Seq(A)
<1> DEFINE n == Len(Numbers(lines))
<1>1. n \in Nat
  BY NumbersLen
<1>2. PICK f \in [0 .. n -> Seq(A)] : JoinLines(lines) = f[n]
  BY JoinFolded
<1> HIDE DEF n
<1> QED BY <1>1, <1>2

LEMMA LinesTyped ==
    ASSUME NEW A, NEW text \in Seq(A)
    PROVE  Lines(text) \in Seq(Seq(A)) \ {<< >>}
<1> DEFINE n == Len(text)
<1>1. n \in Nat
  OBVIOUS
<1>2. PICK f \in [0 .. n -> Seq(Seq(A)) \ {<< >>}] : Lines(text) = f[n]
  BY LinesFolded
<1> HIDE DEF n
<1> QED BY <1>1, <1>2

\* How many newlines a text has, and how many lines.
LEMMA NextBreak ==
    ASSUME NEW text, NEW k \in Nat
    PROVE  /\ Breaks(text, k) \in Nat /\ Breaks(text, 0) = 0
           /\ Breaks(text, k + 1) = Breaks(text, k) + (IF text[k + 1] = NL THEN 1 ELSE 0)
<1> DEFINE N(i) == {j \in 1 .. i : text[j] = NL}
<1>1. IsFiniteSet(N(k))
  <2>1. N(k) \in SUBSET (1 .. k) /\ IsFiniteSet(1 .. k)
    BY FS_Interval
  <2> QED BY <2>1, FS_Subset
<1>2. Cardinality(N(k)) \in Nat
  BY <1>1, FS_CardinalityType
<1>3. N(0) = {}
  OBVIOUS
<1>4. N(k + 1) = IF text[k + 1] = NL THEN N(k) \cup {k + 1} ELSE N(k)
  <2>1. 1 .. k + 1 = (1 .. k) \cup {k + 1}
    OBVIOUS
  <2> QED BY <2>1
<1>5. k + 1 \notin N(k)
  OBVIOUS
<1>6. /\ Breaks(text, k) = Cardinality(N(k)) /\ Breaks(text, 0) = Cardinality(N(0))
      /\ Breaks(text, k + 1) = Cardinality(N(k + 1))
  BY DEF Breaks
<1> HIDE DEF N
<1>7. Cardinality(N(k) \cup {k + 1}) = Cardinality(N(k)) + 1
  BY <1>1, <1>5, FS_AddElement
<1>8. Cardinality(N(0)) = 0
  BY <1>3, FS_EmptySet
<1> QED BY <1>2, <1>4, <1>6, <1>7, <1>8

\* A text has a line more than newlines.
LEMMA LinesBreaks ==
    ASSUME NEW A, NEW text \in Seq(A)
    PROVE  Len(Lines(text)) = Breaks(text, Len(text)) + 1
<1> DEFINE n == Len(text)
           V == Seq(Seq(A)) \ {<< >>}
<1>1. n \in Nat
  OBVIOUS
<1>2. PICK f \in [0 .. n -> V] :
         /\ f[0] = << << >> >>
         /\ \A k \in 1 .. n : f[k] = LinesStep(f[k - 1], text[k])
         /\ Lines(text) = f[n]
  BY LinesFolded
<1> DEFINE P == {k \in 0 .. n : Len(f[k]) = Breaks(text, k) + 1}
<1>3. 0 \in P
  <2>1. Len(<< << >> >>) = 1 /\ Breaks(text, 0) = 0
    BY NextBreak
  <2>2. Len(f[0]) = Breaks(text, 0) + 1
    BY <1>2, <2>1
  <2>3. 0 \in 0 .. n
    BY <1>1
  <2> HIDE DEF n
  <2> QED BY <2>2, <2>3
<1>4. ASSUME NEW k \in 0 .. n - 1, k \in P
      PROVE  k + 1 \in P
  <2> DEFINE acc == f[k]
             c == text[k + 1]
  <2>1. k \in Nat /\ k \in 0 .. n /\ k + 1 \in 0 .. n /\ k + 1 \in 1 .. n /\ (k + 1) - 1 = k
    BY <1>1
  <2>2. acc \in V /\ f[k + 1] = LinesStep(acc, c)
    BY <1>2, <2>1
  <2> HIDE DEF n
  <2>3. Len(acc) = Breaks(text, k) + 1
    BY <1>4
  <2> HIDE DEF acc, P
  <2>4. CASE c = NL
    <3>1. f[k + 1] = Append(acc, << >>)
      BY <2>2, <2>4 DEF LinesStep
    <3>2. Len(Append(acc, << >>)) = Len(acc) + 1
      BY <2>2
    <3>3. Breaks(text, k + 1) = Breaks(text, k) + 1 /\ Breaks(text, k) \in Nat
      BY <2>1, <2>4, NextBreak
    <3>4. Len(f[k + 1]) = Breaks(text, k + 1) + 1
      BY <2>3, <3>1, <3>2, <3>3
    <3> QED BY <2>1, <3>4 DEF P
  <2>5. CASE c # NL
    <3> DEFINE m == Len(acc)
               next == [acc EXCEPT ![m] = Append(@, c)]
    <3>1. f[k + 1] = next
      BY <2>2, <2>5 DEF LinesStep
    <3>2. m \in Nat /\ acc \in [1 .. m -> Seq(A)]
      BY <2>2
    <3> HIDE DEF m
    <3>3. c \in A
      BY <2>1 DEF n
    <3>9. m \in 1 .. m => Append(acc[m], c) \in Seq(A)
      BY <3>2, <3>3
    <3>4. next \in [1 .. m -> Seq(A)]
      BY <3>2, <3>9
    <3> HIDE DEF next, c
    <3>5. Len(next) = m
      BY <3>2, <3>4, SeqOfFunction
    <3>6. Breaks(text, k + 1) = Breaks(text, k) /\ Breaks(text, k) \in Nat
      <4>1. text[k + 1] # NL /\ k \in Nat
        BY <2>1, <2>5 DEF c
      <4>2. /\ Breaks(text, k) \in Nat
            /\ Breaks(text, k + 1) = Breaks(text, k) + (IF text[k + 1] = NL THEN 1 ELSE 0)
        BY <4>1, NextBreak
      <4> QED BY <4>1, <4>2
    <3>7. Len(f[k + 1]) = Breaks(text, k + 1) + 1
      BY <2>3, <3>1, <3>5, <3>6 DEF m
    <3> QED BY <2>1, <3>7 DEF P
  <2> QED BY <2>4, <2>5
<1> HIDE DEF P
<1>5. n \in P
  <2>1. \A k \in 0 .. n : k \in P
    BY <1>1, <1>3, <1>4, UpTo0
  <2> QED BY <1>1, <2>1
<1> QED BY <1>2, <1>5 DEF P

\* What splitlines() sees as the break of a line is a newline or one of the others.
LEMMA AllBreaks ==
    ASSUME NEW A, NEW text \in Seq(A)
    PROVE  LET B == {j \in 1 .. Len(text) : text[j] \in LineBreaks}
           IN  /\ IsFiniteSet(B)
               /\ Cardinality(B) = Breaks(text, Len(text)) + OtherBreaks(text)
<1> DEFINE n == Len(text)
           B == {j \in 1 .. n : text[j] \in LineBreaks}
           N == {j \in 1 .. n : text[j] = NL}
           F == {j \in 1 .. n : text[j] = FF}
<1>1. IsFiniteSet(1 .. n)
  BY FS_Interval
<1>2. DOMAIN text = 1 .. n
  OBVIOUS
<1>3. Breaks(text, n) = Cardinality(N) /\ OtherBreaks(text) = Cardinality(F)
  BY <1>2 DEF Breaks, OtherBreaks
<1>4. B = N \cup F /\ N \cap F = {}
  <2>1. NL # FF
    BY DEF NL, FF
  <2>2. \A c : c \in LineBreaks <=> c = NL \/ c = FF
    BY DEF LineBreaks
  <2> QED BY <2>1, <2>2
<1>5. B \in SUBSET (1 .. n) /\ N \in SUBSET (1 .. n) /\ F \in SUBSET (1 .. n)
  OBVIOUS
<1> HIDE DEF n, B, N, F
<1>6. IsFiniteSet(B) /\ IsFiniteSet(N) /\ IsFiniteSet(F)
  BY <1>1, <1>5, FS_Subset
<1>7. Cardinality(N) \in Nat /\ Cardinality(F) \in Nat
  BY <1>6, FS_CardinalityType
<1>8. Cardinality(N \cup F) = Cardinality(N) + Cardinality(F) - Cardinality({})
  BY <1>4, <1>6, FS_Union
<1>9. Cardinality(B) = Cardinality(N) + Cardinality(F)
  BY <1>4, <1>7, <1>8, FS_EmptySet
<1> QED BY <1>3, <1>6, <1>9 DEF B, n

\* The lines of a text that ends on a character, and of one that a newline ends.
LEMMA CountBreaks ==
    ASSUME NEW A, NEW text \in Seq(A), text # << >>, Last(text) \notin LineBreaks
    PROVE  LineCount(text) = Breaks(text, Len(text)) + OtherBreaks(text) + 1
<1> DEFINE n == Len(text)
           B == {j \in 1 .. n : text[j] \in LineBreaks}
<1>1. n \in Nat /\ n >= 1 /\ text[n] \notin LineBreaks
  BY EmptySeq DEF Last
<1>2. LineEnds(text) = B \cup {n} /\ n \notin B
  BY <1>1 DEF LineEnds
<1>3. IsFiniteSet(B) /\ Cardinality(B) = Breaks(text, n) + OtherBreaks(text)
  BY AllBreaks
<1> HIDE DEF n, B
<1>4. Cardinality(B \cup {n}) = Cardinality(B) + 1
  BY <1>2, <1>3, FS_AddElement
<1> QED BY <1>2, <1>3, <1>4 DEF LineCount, n

LEMMA CountEnded ==
    ASSUME NEW A, NL \in A, NEW text \in Seq(A)
    PROVE  LineCount(Append(text, NL))
             = Breaks(text, Len(text)) + OtherBreaks(Append(text, NL)) + 1
<1> DEFINE n == Len(text)
           z == Append(text, NL)
           B == {j \in 1 .. n : text[j] \in LineBreaks}
<1>1. n \in Nat /\ Len(z) = n + 1 /\ z[n + 1] = NL /\ \A i \in 1 .. n : z[i] = text[i]
  OBVIOUS
<1>2. DOMAIN z = 1 .. n + 1 /\ DOMAIN text = 1 .. n
  OBVIOUS
<1>3. IsFiniteSet(B) /\ Cardinality(B) = Breaks(text, n) + OtherBreaks(text)
  BY AllBreaks
<1> HIDE DEF n, z
<1>4. 1 .. n + 1 = (1 .. n) \cup {n + 1} /\ n + 1 \notin 1 .. n
  BY <1>1
<1>5. LineEnds(z) = B \cup {n + 1} /\ n + 1 \notin B
  <2>1. LineEnds(z) = {i \in 1 .. n + 1 : z[i] \in LineBreaks \/ i = n + 1}
    BY <1>1 DEF LineEnds
  <2> QED BY <1>1, <1>4, <2>1
<1>6. OtherBreaks(z) = OtherBreaks(text)
  <2>1. NL # FF
    BY DEF NL, FF
  <2>2. {i \in 1 .. n + 1 : z[i] = FF} = {i \in 1 .. n : text[i] = FF}
    BY <1>1, <1>4, <2>1
  <2> QED BY <1>2, <2>2 DEF OtherBreaks
<1> HIDE DEF B
<1>7. Cardinality(B \cup {n + 1}) = Cardinality(B) + 1
  BY <1>3, <1>5, FS_AddElement
<1> QED BY <1>3, <1>5, <1>6, <1>7 DEF LineCount, n, z

\* How many other breaks a text has is a number.
LEMMA OtherBreaksNat ==
    ASSUME NEW A, NEW text \in Seq(A)
    PROVE  OtherBreaks(text) \in Nat
<1> DEFINE F == {j \in DOMAIN text : text[j] = FF}
<1>1. F \in SUBSET (1 .. Len(text)) /\ IsFiniteSet(1 .. Len(text))
  BY FS_Interval
<1> HIDE DEF F
<1>2. Cardinality(F) \in Nat
  BY <1>1, FS_Subset, FS_CardinalityType
<1> QED BY <1>2 DEF OtherBreaks, F

\* The fold of PackedLines.
PackStep(acc, line, max) ==
    IF acc.current # << >> /\ acc.tokens + Tokens(line) + 1 > max
    THEN [pieces |-> Append(acc.pieces, JoinLines(acc.current)),
          current |-> <<line>>, tokens |-> Tokens(line)]
    ELSE [pieces |-> acc.pieces, current |-> Append(acc.current, line),
          tokens |-> acc.tokens + Tokens(line)
                        + (IF acc.current # << >> THEN 1 ELSE 0)]
PackBase == [pieces |-> << >>, current |-> << >>, tokens |-> 0]
Packing(A) == [pieces : Seq(Seq(A)), current : Seq(Seq(A)), tokens : Int]
PackIter(iter, text, max) ==
    iter = [s \in SUBSET DOMAIN Lines(text) |->
              IF s = {} THEN PackBase ELSE PackStep(iter[s \ {Max(s)}], Lines(text)[Max(s)], max)]

LEMMA PackStepTyped ==
    ASSUME NEW A, NL \in A, NEW acc \in Packing(A), NEW line \in Seq(A), NEW max \in Int
    PROVE  PackStep(acc, line, max) \in Packing(A)
<1>1. /\ acc.pieces \in Seq(Seq(A)) /\ acc.current \in Seq(Seq(A)) /\ acc.tokens \in Int
      /\ Tokens(line) \in Int
  BY DEF Packing, Tokens
<1>2. JoinLines(acc.current) \in Seq(A)
  BY <1>1, JoinTyped
<1>3. CASE acc.current # << >> /\ acc.tokens + Tokens(line) + 1 > max
  <2> DEFINE next == [pieces |-> Append(acc.pieces, JoinLines(acc.current)),
                      current |-> <<line>>, tokens |-> Tokens(line)]
  <2>1. next \in Packing(A)
    BY <1>1, <1>2 DEF Packing
  <2> QED BY <1>3, <2>1 DEF PackStep
<1>4. CASE ~(acc.current # << >> /\ acc.tokens + Tokens(line) + 1 > max)
  <2> DEFINE next == [pieces |-> acc.pieces, current |-> Append(acc.current, line),
                      tokens |-> acc.tokens + Tokens(line)
                                    + (IF acc.current # << >> THEN 1 ELSE 0)]
  <2>1. next \in Packing(A)
    BY <1>1 DEF Packing
  <2> QED BY <1>4, <2>1 DEF PackStep
<1> QED BY <1>3, <1>4

LEMMA PackFolded ==
    ASSUME NEW A, NL \in A, NEW text \in Seq(A), NEW max \in Int
    PROVE  \E f \in [0 .. Len(Lines(text)) -> Packing(A)] :
              /\ f[0] = PackBase
              /\ \A k \in 1 .. Len(Lines(text)) : f[k] = PackStep(f[k - 1], Lines(text)[k], max)
              /\ PackedLines(text, max) = f[Len(Lines(text))]
<1> DEFINE V == Packing(A)
           seq == Lines(text)
           n == Len(seq)
           base == PackBase
           iter == CHOOSE iter : PackIter(iter, text, max)
           step == [p \in (1 .. n) \X V |-> PackStep(p[2], seq[p[1]], max)]
<1>1. n \in Nat /\ DOMAIN seq = 1 .. n
  BY LinesTyped
<1>2. base \in V
  BY DEF PackBase, Packing
<1>3. step \in [(1 .. n) \X V -> V]
  <2>0. seq \in Seq(Seq(A))
    BY LinesTyped
  <2> HIDE DEF seq
  <2>1. \A p \in (1 .. n) \X V : p[2] \in V /\ seq[p[1]] \in Seq(A)
    BY <2>0
  <2>2. \A acc \in V, line \in Seq(A) : PackStep(acc, line, max) \in V
    BY PackStepTyped
  <2> HIDE DEF V, n
  <2> QED BY <2>1, <2>2
<1>4. \E h : PackIter(h, text, max)
  <2> HIDE DEF V, n, step, seq, base
  <2>1. PICK h \in [SUBSET (1 .. n) -> V] : FoldsBy(h, n, base, step)
    BY <1>1, <1>2, <1>3, FoldExists
  <2>2. ASSUME NEW s \in SUBSET (1 .. n)
        PROVE  h[s] = IF s = {} THEN base ELSE PackStep(h[s \ {Max(s)}], seq[Max(s)], max)
    <3>1. CASE s = {}
      BY <2>1, <3>1 DEF FoldsBy
    <3>2. CASE s # {}
      <4>1. <<Max(s), h[s \ {Max(s)}]>> \in (1 .. n) \X V
        BY <1>1, <3>2, MaxIsOne
      <4>2. step[<<Max(s), h[s \ {Max(s)}]>>] = PackStep(h[s \ {Max(s)}], seq[Max(s)], max)
        BY <4>1 DEF step
      <4> QED BY <2>1, <3>2, <4>2 DEF FoldsBy
    <3> QED BY <3>1, <3>2
  <2>3. DOMAIN h = SUBSET (1 .. n)
    OBVIOUS
  <2>4. h = [s \in SUBSET DOMAIN seq |-> IF s = {} THEN base ELSE PackStep(h[s \ {Max(s)}], seq[Max(s)], max)]
    BY <1>1, <2>2, <2>3
  <2> QED BY <2>4 DEF PackIter, seq, base
<1>5. PackIter(iter, text, max)
  BY <1>4
<1> HIDE DEF iter
<1>6. iter = [s \in SUBSET (1 .. n) |-> IF s = {} THEN base ELSE PackStep(iter[s \ {Max(s)}], seq[Max(s)], max)]
  BY <1>1, <1>5 DEF PackIter
<1> HIDE DEF V, n, seq, base
<1>7. iter[{}] = base
  BY <1>6
<1>8. ASSUME NEW k \in 1 .. n
      PROVE  iter[1 .. k] = PackStep(iter[1 .. k - 1], seq[k], max)
  <2>1. 1 .. k \in SUBSET (1 .. n) /\ k \in Nat /\ k >= 1
    BY <1>1
  <2>2. Max(1 .. k) = k /\ (1 .. k) \ {k} = 1 .. k - 1 /\ 1 .. k # {}
    BY <2>1, RangeMax
  <2> QED BY <1>6, <2>1, <2>2
<1>9. \A k \in 1 .. n : iter[1 .. k - 1] \in V => iter[1 .. k] = step[<<k, iter[1 .. k - 1]>>]
  BY <1>8
<1>10. \A p \in (1 .. n) \X V : step[p] = PackStep(p[2], seq[p[1]], max)
  OBVIOUS
<1>11. PackedLines(text, max) = iter[1 .. n]
  BY <1>1 DEF PackedLines, FoldLeft, MapThenFoldSet, PackIter, PackStep, PackBase, iter, n, seq, base
<1> HIDE DEF step
<1>12. Climbs(iter, n, V, base, step)
  <2> HIDE DEF step
  <2> QED BY <1>7, <1>9 DEF Climbs
<1>13. PICK f \in [0 .. n -> V] : Climbed(f, iter, n, base, step)
  BY <1>1, <1>2, <1>3, <1>12, FoldValues
<1>14. ASSUME NEW k \in 1 .. n
       PROVE  f[k] = PackStep(f[k - 1], seq[k], max)
  <2>1. k - 1 \in 0 .. n
    BY <1>1
  <2>2. <<k, f[k - 1]>> \in (1 .. n) \X V
    BY <2>1
  <2>3. f[k] = step[<<k, f[k - 1]>>]
    BY <1>13 DEF Climbed, StepsBy
  <2> QED BY <1>10, <2>2, <2>3
<1> QED BY <1>11, <1>13, <1>14 DEF n, seq, V, base, Climbed, StepsBy

----------------------------------------------------------------------------
(* Texts in pieces.                                                        *)

LEMMA FlattenNonEmpty ==
    ASSUME NEW S, NEW s \in Seq(Seq(S)), s # << >>, s[1] # << >>
    PROVE  FlattenSeq(s) # << >>
<1> DEFINE x == SubSeq(s, 1, 1)
           y == SubSeq(s, 2, Len(s))
<1>1. Len(s) \in Nat /\ 1 \in 0 .. Len(s) /\ s[1] \in Seq(S) /\ 1 + 1 = 2
  OBVIOUS
<1>2. FlattenSeq(s) = FlattenSeq(x) \o FlattenSeq(y)
  BY <1>1, FlattenSplit
<1>3. x = Append(<< >>, s[1]) /\ << >> \in Seq(Seq(S)) /\ y \in Seq(Seq(S))
  <2>1. x \in Seq(Seq(S)) /\ Len(x) = 1 /\ x[1] = s[1] /\ y \in Seq(Seq(S))
    BY <1>1, SubSeqProperties
  <2>2. Append(<< >>, s[1]) = <<s[1]>>
    BY <1>1
  <2> HIDE DEF x
  <2>3. x = <<s[1]>>
    BY <1>1, <2>1
  <2> QED BY <2>1, <2>2, <2>3
<1>4. FlattenSeq(x) = << >> \o s[1]
  BY <1>1, <1>3, FlattenAppend, FlattenEmpty
<1>5. FlattenSeq(x) = s[1]
  BY <1>1, <1>4
<1>6. FlattenSeq(y) \in Seq(S)
  BY <1>3, FlattenTyped
<1> HIDE DEF x, y
<1>7. \A a \in Seq(S), b \in Seq(S) : a # << >> => a \o b # << >>
  OBVIOUS
<1> QED BY <1>1, <1>2, <1>5, <1>6, <1>7

LEMMA DivBounds ==
    ASSUME NEW a \in Nat, NEW b \in Nat, b >= 1
    PROVE  a \div b \in Nat /\ (a >= b => a \div b >= 1)
OBVIOUS

\* Texts of up to max characters.
Short(A, max) == {text \in Seq(A) : Len(text) <= max}

LEMMA ShortTexts ==
    ASSUME NEW A, NEW max, NEW texts \in Seq(Short(A, max))
    PROVE  texts \in Seq(Seq(A))
<1>1. Short(A, max) \subseteq Seq(A)
  BY DEF Short
<1> QED BY <1>1

LEMMA Multiples ==
    ASSUME NEW i \in Nat, NEW max \in Nat
    PROVE  i * max \in Nat /\ (i + 1) * max = i * max + max
OBVIOUS

LEMMA CharSplitTyped ==
    ASSUME NEW A, NEW text \in Seq(A), NEW max \in Nat \ {0}, Len(text) > max
    PROVE  CharSplit(text, max) \in Seq(Short(A, max)) \ {<< >>}
<1> DEFINE n == Len(text)
           pieces == (n + max - 1) \div max
           Stop(i) == IF i * max < n THEN i * max ELSE n
           split == [i \in 1 .. pieces |-> SubSeq(text, (i - 1) * max + 1, Stop(i))]
<1>1. n \in Nat /\ n + max - 1 \in Nat /\ n + max - 1 >= max /\ max >= 1
  OBVIOUS
<1>2. pieces \in Nat /\ pieces >= 1
  <2> DEFINE m == n + max - 1
  <2>1. m \in Nat /\ m >= max /\ max >= 1 /\ max \in Nat
    BY <1>1
  <2> HIDE DEF m
  <2>2. m \div max \in Nat /\ m \div max >= 1
    BY <2>1, DivBounds
  <2> QED BY <2>2 DEF m
<1> HIDE DEF pieces
<1>3. ASSUME NEW i \in 1 .. pieces
      PROVE  SubSeq(text, (i - 1) * max + 1, Stop(i)) \in Short(A, max)
  <2> DEFINE k == i - 1
             low == k * max
             to == Stop(i)
  <2>1. k \in Nat /\ i = k + 1
    BY <1>2
  <2>2. low \in Nat /\ i * max = low + max
    BY <2>1, Multiples
  <2>3. to \in Int /\ to <= n /\ to <= low + max
    BY <1>1, <2>2
  <2> HIDE DEF low, to, k
  <2>4. SubSeq(text, low + 1, to) \in Short(A, max)
    <3>1. low + 1 \in Int /\ low + 1 >= 1 /\ max \in Nat
      BY <2>2
    <3>2. SubSeq(text, low + 1, to) \in Seq(A)
      BY <1>1, <2>3, <3>1
    <3>3. Len(SubSeq(text, low + 1, to)) = IF low + 1 <= to THEN to - low ELSE 0
      BY <1>1, <2>2, <2>3, <3>1
    <3>4. Len(SubSeq(text, low + 1, to)) <= max
      BY <2>2, <2>3, <3>1, <3>3
    <3> QED BY <3>2, <3>4 DEF Short
  <2> QED BY <2>4 DEF low, to, k
<1>4. split \in [1 .. pieces -> Short(A, max)]
  BY <1>3
<1> HIDE DEF Stop
<1>5. split \in Seq(Short(A, max)) /\ Len(split) = pieces
  <2> HIDE DEF split
  <2> QED BY <1>2, <1>4, SeqOfFunction
<1>6. CharSplit(text, max) = split
  BY DEF CharSplit, split, Stop, pieces
<1> HIDE DEF split
<1> QED BY <1>2, <1>5, <1>6

LEMMA PackLinesTyped ==
    ASSUME NEW A, NL \in A, NEW text \in Seq(A), NEW max \in Int
    PROVE  PackLines(text, max) \in Seq(Seq(A)) \ {<< >>}
<1> DEFINE n == Len(Lines(text))
           packed == PackedLines(text, max)
<1>1. n \in Nat
  BY LinesTyped
<1>2. PICK f \in [0 .. n -> Packing(A)] : packed = f[n]
  BY PackFolded
<1>3. packed \in Packing(A)
  <2> HIDE DEF n, packed
  <2> QED BY <1>1, <1>2
<1>4. packed.pieces \in Seq(Seq(A)) /\ packed.current \in Seq(Seq(A))
  BY <1>3 DEF Packing
<1>5. JoinLines(packed.current) \in Seq(A)
  BY <1>4, JoinTyped
<1>6. PackLines(text, max) = Append(packed.pieces, JoinLines(packed.current))
  BY DEF PackLines, WithLastPiece
<1> HIDE DEF packed
<1>7. \A p \in Seq(Seq(A)), x \in Seq(A) : Append(p, x) \in Seq(Seq(A)) /\ Append(p, x) # << >>
  <2> TAKE p \in Seq(Seq(A)), x \in Seq(A)
  <2>1. Append(p, x) \in Seq(Seq(A)) /\ Len(Append(p, x)) = Len(p) + 1 /\ Len(p) \in Nat
    OBVIOUS
  <2>2. Len(Append(p, x)) # 0
    BY <2>1
  <2> QED BY <2>1, <2>2, EmptySeq
<1> QED BY <1>4, <1>5, <1>6, <1>7

\* However it is split, a text is in pieces that fit, one at least.
LEMMA SplitTyped ==
    ASSUME NEW A, NL \in A, NEW text \in Seq(A), NEW max \in Nat \ {0}
    PROVE  /\ SplitOversized(text, max) \in Seq(Short(A, max)) \ {<< >>}
           /\ SplitOversized(text, max) \in Seq(Seq(A))
<1> DEFINE T == Short(A, max)
<1> SUFFICES SplitOversized(text, max) \in Seq(T) \ {<< >>}
  BY ShortTexts
<1>00. \A x \in Seq(A) : Tokens(x) <= max => x \in T
  BY DEF Short, Tokens
<1> HIDE DEF T
<1>0. \A x \in T : <<x>> \in Seq(T) /\ <<x>> # << >>
  OBVIOUS
<1>1. CASE Tokens(text) <= max
  <2>1. text \in T
    BY <1>00, <1>1
  <2> QED BY <1>0, <1>1, <2>1 DEF SplitOversized
<1>2. CASE ~(Tokens(text) <= max)
  <2> DEFINE lines == PackLines(text, max)
             n == Len(lines)
             parts == [i \in DOMAIN lines |->
                         IF Tokens(lines[i]) <= max THEN <<lines[i]>> ELSE CharSplit(lines[i], max)]
  <2>1. lines \in Seq(Seq(A)) \ {<< >>}
    <3>1. max \in Int
      OBVIOUS
    <3> HIDE DEF parts, n
    <3> QED BY <3>1, PackLinesTyped
  <2>2. SplitOversized(text, max) = FlattenSeq(parts)
    BY <1>2 DEF SplitOversized, Concat, Each
  <2> HIDE DEF lines
  <2>3. n \in Nat /\ n >= 1 /\ DOMAIN lines = 1 .. n
    BY <2>1
  <2>4. ASSUME NEW i \in 1 .. n
        PROVE  parts[i] \in Seq(T) \ {<< >>}
    <3>1. lines[i] \in Seq(A) /\ Len(lines[i]) \in Nat
      BY <2>1, <2>3
    <3>2. CASE Tokens(lines[i]) <= max
      <4>1. parts[i] = <<lines[i]>>
        BY <2>3, <3>2
      <4> HIDE DEF parts
      <4>2. lines[i] \in T
        BY <1>00, <3>1, <3>2
      <4> QED BY <1>0, <4>1, <4>2
    <3>3. CASE ~(Tokens(lines[i]) <= max)
      <4>1. parts[i] = CharSplit(lines[i], max)
        BY <2>3, <3>3
      <4>2. Len(lines[i]) > max
        BY <3>1, <3>3 DEF Tokens
      <4> QED BY <3>1, <4>1, <4>2, CharSplitTyped DEF T
    <3> QED BY <3>2, <3>3
  <2>5. DOMAIN parts = 1 .. n
    BY <2>3
  <2>6. parts \in [1 .. n -> Seq(T)]
    <3>1. parts = [i \in 1 .. n |-> parts[i]]
      BY <2>5
    <3> HIDE DEF parts
    <3> QED BY <2>4, <3>1
  <2> HIDE DEF parts
  <2>7. parts \in Seq(Seq(T)) /\ Len(parts) = n
    BY <2>3, <2>6, SeqOfFunction
  <2>8. FlattenSeq(parts) \in Seq(T)
    BY <2>7, FlattenTyped
  <2>9. parts # << >> /\ 1 \in 1 .. n
    BY <2>3, <2>7
  <2>10. FlattenSeq(parts) # << >>
    BY <2>4, <2>7, <2>9, FlattenNonEmpty
  <2> QED BY <2>2, <2>8, <2>10
<1> QED BY <1>1, <1>2

----------------------------------------------------------------------------
(* Trees.                                                                  *)

Atom == Int \X Int

LEMMA AtomsAre == NL \in Atom /\ Dots \in Atom /\ Sentinel \in Atom
BY DEF Atom, NL, Dots, Sentinel

LEMMA NodeTyped ==
    ASSUME NEW t, IsTree(t), NEW p \in DOMAIN t
    PROVE  /\ p \in Seq(Nat) /\ t[p].kids \in Nat /\ t[p].name \in Int
           /\ Text(t, p) \in Seq(Atom) /\ Text(t, p) = t[p].text
           /\ Children(t, p) \in Seq(DOMAIN t) /\ Len(Children(t, p)) = t[p].kids
           /\ \A k \in 1 .. t[p].kids : Children(t, p)[k] = Append(p, k) /\ Append(p, k) \in DOMAIN t
<1>1. t[p] \in [kind : STRING, name : Int, text : Seq(Atom), kids : Nat] /\ p \in Seq(Nat)
  BY DEF IsTree, Atom
<1>2. \A k \in 1 .. t[p].kids : Append(p, k) \in DOMAIN t
  BY DEF IsTree
<1> DEFINE n == t[p].kids
           children == Children(t, p)
<1>3. n \in Nat
  BY <1>1
<1>4. children \in [1 .. n -> DOMAIN t]
  BY <1>2 DEF Children
<1>5. \A k \in 1 .. n : children[k] = Append(p, k)
  BY DEF Children
<1> HIDE DEF n, children
<1>6. children \in Seq(DOMAIN t) /\ Len(children) = n
  BY <1>3, <1>4, SeqOfFunction
<1> QED BY <1>1, <1>2, <1>5, <1>6 DEF n, children, Text

LEMMA TextOfTyped ==
    ASSUME NEW t, IsTree(t), NEW places \in Seq(DOMAIN t)
    PROVE  TextOf(t, places) \in Seq(Atom)
<1> DEFINE n == Len(places)
           texts == [i \in DOMAIN places |-> t[places[i]].text]
<1>1. n \in Nat /\ DOMAIN places = 1 .. n /\ \A i \in 1 .. n : places[i] \in DOMAIN t
  OBVIOUS
<1>2. \A i \in 1 .. n : t[places[i]].text \in Seq(Atom)
  <2> HIDE DEF n
  <2> QED BY <1>1, NodeTyped
<1>3. texts \in [1 .. n -> Seq(Atom)]
  BY <1>1, <1>2
<1>4. TextOf(t, places) = FlattenSeq(texts)
  BY DEF TextOf, Concat, Each
<1> HIDE DEF texts, n
<1>5. texts \in Seq(Seq(Atom))
  BY <1>1, <1>3, SeqOfFunction
<1> QED BY <1>4, <1>5, FlattenTyped

LEMMA MinIsOne ==
    ASSUME NEW S, S \subseteq Nat, S # {}
    PROVE  Min(S) \in S
<1>1. PICK m \in S : \A k \in S : m <= k
  BY LeastOf
<1> QED BY <1>1 DEF Min

LEMMA BodyTyped ==
    ASSUME NEW t, IsTree(t), NEW p \in DOMAIN t
    PROVE  /\ BodyIndex(t, p) \in 0 .. t[p].kids
           /\ HasBody(t, p) =>
                 /\ BodyIndex(t, p) \in 1 .. t[p].kids
                 /\ Body(t, p) = Append(p, BodyIndex(t, p)) /\ Body(t, p) \in DOMAIN t
                 /\ Len(Body(t, p)) = Len(p) + 1
                 /\ t[Body(t, p)].kind \in BodyKinds
                 /\ BeforeBody(t, p) \in Seq(Atom) /\ AfterBody(t, p) \in Seq(Atom)
<1> DEFINE n == t[p].kids
           children == Children(t, p)
           blocks == {i \in 1 .. Len(children) : t[children[i]].kind \in BodyKinds}
           i == BodyIndex(t, p)
<1>1. /\ p \in Seq(Nat) /\ n \in Nat
      /\ children \in Seq(DOMAIN t) /\ Len(children) = n
      /\ \A k \in 1 .. n : children[k] = Append(p, k) /\ Append(p, k) \in DOMAIN t
  BY NodeTyped
<1>2. i = IF blocks # {} THEN Min(blocks) ELSE 0
  BY DEF BodyIndex, FirstChild, SelectInSeq
<1>3. blocks \subseteq 1 .. n /\ blocks \subseteq Nat
  BY <1>1
<1> HIDE DEF n
<1>4. i \in 0 .. n /\ (i > 0 => i \in blocks)
  <2> HIDE DEF blocks, i, children, n
  <2>1. CASE blocks = {}
    BY <1>1, <1>2, <2>1
  <2>2. CASE blocks # {}
    <3>1. Min(blocks) \in blocks
      BY <1>3, <2>2, MinIsOne
    <3>2. Min(blocks) \in 1 .. n
      BY <1>3, <3>1
    <3>3. Min(blocks) \in 0 .. n
      BY <3>2
    <3> QED BY <1>2, <2>2, <3>1, <3>3
  <2> QED BY <2>1, <2>2
<1>5. ASSUME HasBody(t, p)
      PROVE  /\ i \in 1 .. n
             /\ Body(t, p) = Append(p, i) /\ Body(t, p) \in DOMAIN t
             /\ Len(Body(t, p)) = Len(p) + 1
             /\ t[Body(t, p)].kind \in BodyKinds
             /\ BeforeBody(t, p) \in Seq(Atom) /\ AfterBody(t, p) \in Seq(Atom)
  <2>1. i \in 1 .. n /\ i \in blocks
    BY <1>1, <1>4, <1>5 DEF HasBody
  <2>2. Body(t, p) = Append(p, i) /\ Append(p, i) = children[i] /\ Append(p, i) \in DOMAIN t
    BY <1>1, <2>1 DEF Body
  <2>3. t[Body(t, p)].kind \in BodyKinds
    BY <2>1, <2>2
  <2>4. Len(Append(p, i)) = Len(p) + 1
    BY <1>1
  <2> HIDE DEF children, i
  <2>5. SubSeq(children, 1, i - 1) \in Seq(DOMAIN t) /\ SubSeq(children, i + 1, n) \in Seq(DOMAIN t)
    <3>1. /\ i \in Int /\ 1 \in Int /\ i - 1 \in Int /\ i + 1 \in Int /\ n \in Int
          /\ \A k \in 1 .. i - 1 : k \in 1 .. n
          /\ \A k \in i + 1 .. n : k \in 1 .. n
      BY <1>1, <2>1
    <3>2. \A k \in 1 .. n : children[k] \in DOMAIN t
      BY <1>1
    <3> QED BY <3>1, <3>2, SubSeqProperties
  <2>6. BeforeBody(t, p) \in Seq(Atom) /\ AfterBody(t, p) \in Seq(Atom)
    BY <2>5, TextOfTyped DEF BeforeBody, AfterBody, children, i, n
  <2> QED BY <2>1, <2>2, <2>3, <2>4, <2>6
<1> HIDE DEF i
<1> QED BY <1>4, <1>5 DEF i, n

----------------------------------------------------------------------------
(* The overview of a class.                                                *)

\* The fold of UnitsOver.
UnitStep(acc, child, t, inner) ==
    IF ~HasBody(t, child) \/ t[child].kind \notin Declarations
    THEN [acc EXCEPT !.run = @ \o Text(t, child)]
    ELSE IF t[child].kind \in FunctionKinds
    THEN [units |-> Append(Flush(acc), Append(BeforeBody(t, child), Dots)),
          run |-> AfterBody(t, child)]
    ELSE [units |-> Append(Flush(acc), BeforeBody(t, child))
                       \o inner[Body(t, child)] \o NonEmpty(AfterBody(t, child)),
          run |-> << >>]
UnitBase == [units |-> << >>, run |-> << >>]
Collecting == [units : Seq(Seq(Atom)), run : Seq(Atom)]
UnitIter(iter, t, block, inner) ==
    iter = [s \in SUBSET DOMAIN Children(t, block) |->
              IF s = {} THEN UnitBase ELSE UnitStep(iter[s \ {Max(s)}], Children(t, block)[Max(s)], t, inner)]

LEMMA NonEmptyTyped ==
    ASSUME NEW A, NEW text \in Seq(A)
    PROVE  NonEmpty(text) \in Seq(Seq(A))
BY DEF NonEmpty

LEMMA FlushTyped ==
    ASSUME NEW acc \in Collecting
    PROVE  Flush(acc) \in Seq(Seq(Atom))
<1>1. acc.units \in Seq(Seq(Atom)) /\ acc.run \in Seq(Atom)
  BY DEF Collecting
<1>2. NonEmpty(acc.run) \in Seq(Seq(Atom))
  BY <1>1, NonEmptyTyped
<1> QED BY <1>1, <1>2 DEF Flush

\* Is what the step needs of the bodies in a child there?
InnerTyped(t, child, inner) ==
    HasBody(t, child) /\ t[child].kind \in Declarations => inner[Body(t, child)] \in Seq(Seq(Atom))

LEMMA UnitStepTyped ==
    ASSUME NEW t, IsTree(t), NEW child \in DOMAIN t, NEW inner, InnerTyped(t, child, inner),
           NEW acc \in Collecting
    PROVE  UnitStep(acc, child, t, inner) \in Collecting
<1>1. acc.units \in Seq(Seq(Atom)) /\ acc.run \in Seq(Atom) /\ acc = [units |-> acc.units, run |-> acc.run]
  BY DEF Collecting
<1>2. Flush(acc) \in Seq(Seq(Atom))
  BY FlushTyped
<1>3. Text(t, child) \in Seq(Atom)
  BY NodeTyped
<1>4. CASE ~HasBody(t, child) \/ t[child].kind \notin Declarations
  <2>1. UnitStep(acc, child, t, inner) = [acc EXCEPT !.run = @ \o Text(t, child)]
    BY <1>4 DEF UnitStep
  <2>2. UnitStep(acc, child, t, inner) = [units |-> acc.units, run |-> acc.run \o Text(t, child)]
    BY <1>1, <2>1
  <2>3. acc.run \o Text(t, child) \in Seq(Atom)
    BY <1>1, <1>3
  <2> QED BY <1>1, <2>2, <2>3 DEF Collecting
<1>5. CASE HasBody(t, child) /\ t[child].kind \in Declarations
  <2> DEFINE before == BeforeBody(t, child)
             after == AfterBody(t, child)
             below == inner[Body(t, child)]
  <2>1. before \in Seq(Atom) /\ after \in Seq(Atom) /\ NonEmpty(after) \in Seq(Seq(Atom))
    BY <1>5, BodyTyped, NonEmptyTyped
  <2>2. below \in Seq(Seq(Atom))
    BY <1>5 DEF InnerTyped
  <2>3. UnitStep(acc, child, t, inner) =
            IF t[child].kind \in FunctionKinds
            THEN [units |-> Append(Flush(acc), Append(before, Dots)), run |-> after]
            ELSE [units |-> Append(Flush(acc), before) \o below \o NonEmpty(after), run |-> << >>]
    BY <1>5 DEF UnitStep
  <2> HIDE DEF before, after, below
  <2>4. Append(before, Dots) \in Seq(Atom)
    BY <2>1, AtomsAre
  <2>5. Append(Flush(acc), Append(before, Dots)) \in Seq(Seq(Atom))
    BY <1>2, <2>4
  <2>6. Append(Flush(acc), before) \o below \o NonEmpty(after) \in Seq(Seq(Atom))
    BY <1>2, <2>1, <2>2
  <2>7. << >> \in Seq(Atom)
    OBVIOUS
  <2> QED BY <2>1, <2>3, <2>5, <2>6, <2>7 DEF Collecting
<1> QED BY <1>4, <1>5

LEMMA UnitsFolded ==
    ASSUME NEW t, IsTree(t), NEW block \in DOMAIN t, NEW inner,
           \A k \in 1 .. t[block].kids : InnerTyped(t, Append(block, k), inner)
    PROVE  \E f \in [0 .. Len(Children(t, block)) -> Collecting] :
              /\ f[0] = UnitBase
              /\ \A k \in 1 .. Len(Children(t, block)) : f[k] = UnitStep(f[k - 1], Children(t, block)[k], t, inner)
              /\ UnitsOver(t, block, inner) = Flush(f[Len(Children(t, block))])
<1> DEFINE V == Collecting
           seq == Children(t, block)
           n == Len(seq)
           base == UnitBase
           iter == CHOOSE iter : UnitIter(iter, t, block, inner)
           step == [p \in (1 .. n) \X V |-> UnitStep(p[2], seq[p[1]], t, inner)]
<1>1. n \in Nat /\ DOMAIN seq = 1 .. n
  <2>1. seq \in Seq(DOMAIN t)
    BY NodeTyped
  <2> HIDE DEF seq
  <2> QED BY <2>1
<1>2. base \in V
  BY DEF UnitBase, Collecting
<1>3. step \in [(1 .. n) \X V -> V]
  <2>1. \A p \in (1 .. n) \X V : /\ p[2] \in V /\ seq[p[1]] \in DOMAIN t
                                  /\ InnerTyped(t, seq[p[1]], inner)
    <3>1. /\ seq \in Seq(DOMAIN t) /\ n = t[block].kids
          /\ \A k \in 1 .. n : seq[k] = Append(block, k) /\ Append(block, k) \in DOMAIN t
      BY NodeTyped
    <3> HIDE DEF seq, n
    <3> QED BY <3>1
  <2>2. \A acc \in V, child \in DOMAIN t :
           InnerTyped(t, child, inner) => UnitStep(acc, child, t, inner) \in V
    BY UnitStepTyped
  <2> HIDE DEF V, n, seq
  <2> QED BY <2>1, <2>2
<1>4. \E h : UnitIter(h, t, block, inner)
  <2> HIDE DEF V, n, step, seq, base
  <2>1. PICK h \in [SUBSET (1 .. n) -> V] : FoldsBy(h, n, base, step)
    BY <1>1, <1>2, <1>3, FoldExists
  <2>2. ASSUME NEW s \in SUBSET (1 .. n)
        PROVE  h[s] = IF s = {} THEN base ELSE UnitStep(h[s \ {Max(s)}], seq[Max(s)], t, inner)
    <3>1. CASE s = {}
      BY <2>1, <3>1 DEF FoldsBy
    <3>2. CASE s # {}
      <4>1. <<Max(s), h[s \ {Max(s)}]>> \in (1 .. n) \X V
        BY <1>1, <3>2, MaxIsOne
      <4>2. step[<<Max(s), h[s \ {Max(s)}]>>] = UnitStep(h[s \ {Max(s)}], seq[Max(s)], t, inner)
        BY <4>1 DEF step
      <4> QED BY <2>1, <3>2, <4>2 DEF FoldsBy
    <3> QED BY <3>1, <3>2
  <2>3. DOMAIN h = SUBSET (1 .. n)
    OBVIOUS
  <2>4. h = [s \in SUBSET DOMAIN seq |-> IF s = {} THEN base ELSE UnitStep(h[s \ {Max(s)}], seq[Max(s)], t, inner)]
    BY <1>1, <2>2, <2>3
  <2> QED BY <2>4 DEF UnitIter, seq, base
<1>5. UnitIter(iter, t, block, inner)
  BY <1>4
<1> HIDE DEF iter
<1>6. iter = [s \in SUBSET (1 .. n) |-> IF s = {} THEN base ELSE UnitStep(iter[s \ {Max(s)}], seq[Max(s)], t, inner)]
  BY <1>1, <1>5 DEF UnitIter
<1> HIDE DEF V, n, seq, base
<1>7. iter[{}] = base
  BY <1>6
<1>8. ASSUME NEW k \in 1 .. n
      PROVE  iter[1 .. k] = UnitStep(iter[1 .. k - 1], seq[k], t, inner)
  <2>1. 1 .. k \in SUBSET (1 .. n) /\ k \in Nat /\ k >= 1
    BY <1>1
  <2>2. Max(1 .. k) = k /\ (1 .. k) \ {k} = 1 .. k - 1 /\ 1 .. k # {}
    BY <2>1, RangeMax
  <2> QED BY <1>6, <2>1, <2>2
<1>9. \A k \in 1 .. n : iter[1 .. k - 1] \in V => iter[1 .. k] = step[<<k, iter[1 .. k - 1]>>]
  BY <1>8
<1>10. \A p \in (1 .. n) \X V : step[p] = UnitStep(p[2], seq[p[1]], t, inner)
  OBVIOUS
<1>11. UnitsOver(t, block, inner) = Flush(iter[1 .. n])
  BY <1>1 DEF UnitsOver, FoldLeft, MapThenFoldSet, UnitIter, UnitStep, UnitBase, iter, n, seq, base
<1> HIDE DEF step
<1>12. Climbs(iter, n, V, base, step)
  <2> HIDE DEF step
  <2> QED BY <1>7, <1>9 DEF Climbs
<1>13. PICK f \in [0 .. n -> V] : Climbed(f, iter, n, base, step)
  BY <1>1, <1>2, <1>3, <1>12, FoldValues
<1>14. ASSUME NEW k \in 1 .. n
       PROVE  f[k] = UnitStep(f[k - 1], seq[k], t, inner)
  <2>1. k - 1 \in 0 .. n
    BY <1>1
  <2>2. <<k, f[k - 1]>> \in (1 .. n) \X V
    BY <2>1
  <2>3. f[k] = step[<<k, f[k - 1]>>]
    BY <1>13 DEF Climbed, StepsBy
  <2> QED BY <1>10, <2>2, <2>3
<1> QED BY <1>11, <1>13, <1>14 DEF n, seq, V, base, Climbed, StepsBy

LEMMA UnitsTyped ==
    ASSUME NEW t, IsTree(t), NEW block \in DOMAIN t, NEW inner,
           \A k \in 1 .. t[block].kids : InnerTyped(t, Append(block, k), inner)
    PROVE  UnitsOver(t, block, inner) \in Seq(Seq(Atom))
<1> DEFINE n == Len(Children(t, block))
<1>1. n \in Nat
  BY NodeTyped
<1>2. PICK f \in [0 .. n -> Collecting] : UnitsOver(t, block, inner) = Flush(f[n])
  BY UnitsFolded
<1> HIDE DEF n
<1>3. f[n] \in Collecting
  BY <1>1
<1> QED BY <1>2, <1>3, FlushTyped

\* The units depend on those of the bodies in the block alone.
Alike(t, child, inner, other) ==
    HasBody(t, child) => inner[Body(t, child)] = other[Body(t, child)]

LEMMA UnitsAgree ==
    ASSUME NEW t, IsTree(t), NEW block \in DOMAIN t, NEW inner, NEW other,
           \A k \in 1 .. t[block].kids : InnerTyped(t, Append(block, k), inner),
           \A k \in 1 .. t[block].kids : InnerTyped(t, Append(block, k), other),
           \A k \in 1 .. t[block].kids : Alike(t, Append(block, k), inner, other)
    PROVE  UnitsOver(t, block, inner) = UnitsOver(t, block, other)
<1> DEFINE children == Children(t, block)
           n == Len(children)
<1>1. n \in Nat /\ n = t[block].kids /\ \A k \in 1 .. n : children[k] = Append(block, k)
  BY NodeTyped
<1>2. PICK f \in [0 .. n -> Collecting] :
          /\ f[0] = UnitBase
          /\ \A k \in 1 .. n : f[k] = UnitStep(f[k - 1], children[k], t, inner)
          /\ UnitsOver(t, block, inner) = Flush(f[n])
  BY UnitsFolded
<1>3. PICK g \in [0 .. n -> Collecting] :
          /\ g[0] = UnitBase
          /\ \A k \in 1 .. n : g[k] = UnitStep(g[k - 1], children[k], t, other)
          /\ UnitsOver(t, block, other) = Flush(g[n])
  BY UnitsFolded
<1> HIDE DEF n, children
<1> DEFINE P == {k \in 0 .. n : f[k] = g[k]}
<1>4. 0 \in P
  BY <1>1, <1>2, <1>3
<1>5. ASSUME NEW k \in 0 .. n - 1, k \in P
      PROVE  k + 1 \in P
  <2> DEFINE child == children[k + 1]
  <2>1. k + 1 \in 1 .. n /\ (k + 1) - 1 = k /\ f[k] = g[k]
    BY <1>1, <1>5
  <2>2. f[k + 1] = UnitStep(f[k], child, t, inner) /\ g[k + 1] = UnitStep(f[k], child, t, other)
    BY <1>2, <1>3, <2>1
  <2>3. Alike(t, child, inner, other)
    BY <1>1, <2>1
  <2> HIDE DEF child
  <2>4. UnitStep(f[k], child, t, inner) = UnitStep(f[k], child, t, other)
    BY <2>3 DEF UnitStep, Alike
  <2> QED BY <2>1, <2>2, <2>4
<1> HIDE DEF P
<1>6. n \in P
  <2>1. n \in Nat
    BY <1>1
  <2>2. \A k \in 0 .. n : k \in P
    BY <2>1, <1>4, <1>5, UpTo0
  <2> QED BY <2>1, <2>2
<1> QED BY <1>2, <1>3, <1>6 DEF P

LEMMA SomeDepth ==
    ASSUME NEW S, IsFiniteSet(S), S \subseteq Seq(Nat)
    PROVE  \E depth \in Nat : \A p \in S : Len(p) <= depth
<1>1. PICK s \in Seq(S) : \A p \in S : \E i \in 1 .. Len(s) : s[i] = p
  BY DEF IsFiniteSet
<1> DEFINE n == Len(s)
           step == [p \in (1 .. n) \X Nat |-> IF Len(s[p[1]]) > p[2] THEN Len(s[p[1]]) ELSE p[2]]
<1>2. n \in Nat /\ \A i \in 1 .. n : s[i] \in S /\ Len(s[i]) \in Nat
  OBVIOUS
<1>3. step \in [(1 .. n) \X Nat -> Nat]
  <2> HIDE DEF n
  <2> QED BY <1>2
<1> HIDE DEF n
<1>4. \A p \in (1 .. n) \X Nat : step[p] >= p[2] /\ step[p] >= Len(s[p[1]])
  BY <1>2
<1> HIDE DEF step
<1>5. PICK f \in [0 .. n -> Nat] : StepsBy(f, n, 0, step)
  BY <1>2, <1>3, StepsExist
<1> DEFINE P == {k \in 0 .. n : \A i \in 1 .. k : Len(s[i]) <= f[k]}
<1>6. 0 \in P
  BY <1>2
<1>7. ASSUME NEW k \in 0 .. n - 1, k \in P
      PROVE  k + 1 \in P
  <2>1. k + 1 \in 1 .. n /\ (k + 1) - 1 = k /\ k + 1 \in 0 .. n /\ k \in 0 .. n
    BY <1>2
  <2>2. <<k + 1, f[k]>> \in (1 .. n) \X Nat /\ f[k + 1] = step[<<k + 1, f[k]>>]
    BY <1>5, <2>1 DEF StepsBy
  <2>3. f[k + 1] >= f[k] /\ f[k + 1] >= Len(s[k + 1])
    BY <1>4, <2>2
  <2>4. f[k] \in Nat /\ f[k + 1] \in Nat
    BY <2>1
  <2>5. ASSUME NEW i \in 1 .. k + 1
        PROVE  Len(s[i]) <= f[k + 1]
    <3>1. i \in 1 .. n /\ (i \in 1 .. k \/ i = k + 1)
      BY <1>2, <2>1
    <3>2. Len(s[i]) \in Nat
      BY <1>2, <3>1
    <3>3. i \in 1 .. k => Len(s[i]) <= f[k]
      BY <1>7
    <3>4. CASE i \in 1 .. k
      <4> DEFINE u == Len(s[i])
                 v == f[k]
                 w == f[k + 1]
      <4>1. u \in Nat /\ v \in Nat /\ w \in Nat /\ u <= v /\ w >= v
        BY <2>3, <2>4, <3>2, <3>3, <3>4
      <4> HIDE DEF u, v, w
      <4>2. u <= w
        BY <4>1
      <4> QED BY <4>2 DEF u, w
    <3>5. CASE i = k + 1
      BY <2>3, <2>4, <3>2, <3>5
    <3> QED BY <3>1, <3>4, <3>5
  <2> QED BY <2>1, <2>5
<1> HIDE DEF P
<1>8. n \in P
  <2>1. n \in Nat
    BY <1>2
  <2>2. \A k \in 0 .. n : k \in P
    BY <2>1, <1>6, <1>7, UpTo0
  <2> QED BY <2>1, <2>2
<1>9. f[n] \in Nat /\ \A i \in 1 .. n : Len(s[i]) <= f[n]
  BY <1>2, <1>8 DEF P
<1> QED BY <1>1, <1>9 DEF n

\* Is everything deeper than p in Q?
DeeperIn(t, p, Q) == \A q \in DOMAIN t : Len(q) > Len(p) => q \in Q

\* From the leaves of a tree to its root.
LEMMA ByDepth ==
    ASSUME NEW t, IsTree(t), NEW Q \in SUBSET DOMAIN t,
           \A p \in DOMAIN t : DeeperIn(t, p, Q) => p \in Q
    PROVE  Q = DOMAIN t
<1>1. PICK depth \in Nat : \A p \in DOMAIN t : Len(p) <= depth
  BY SomeDepth DEF IsTree
<1>2. \A p \in DOMAIN t : Len(p) \in Nat
  BY NodeTyped
<1> DEFINE m == depth + 1
           P == {k \in 0 .. m : \A p \in DOMAIN t : Len(p) > depth - k => p \in Q}
<1>3. 0 \in P
  BY <1>1, <1>2
<1>4. ASSUME NEW k \in 0 .. m - 1, k \in P
      PROVE  k + 1 \in P
  <2>1. ASSUME NEW p \in DOMAIN t, Len(p) > depth - (k + 1)
        PROVE  p \in Q
    <3>1. ASSUME NEW q \in DOMAIN t, Len(q) > Len(p)
          PROVE  q \in Q
      <4>1. Len(q) > depth - k
        <5> DEFINE lq == Len(q)
                   lp == Len(p)
        <5>1. lq \in Nat /\ lp \in Nat /\ lq > lp /\ lp > depth - (k + 1)
          BY <1>2, <2>1, <3>1
        <5> HIDE DEF lq, lp
        <5>2. lq > depth - k
          BY <5>1
        <5> QED BY <5>2 DEF lq
      <4> QED BY <1>4, <4>1
    <3> QED BY <3>1 DEF DeeperIn
  <2>2. k + 1 \in 0 .. m
    OBVIOUS
  <2> QED BY <2>1, <2>2
<1>5. m \in Nat /\ m \in 0 .. m
  OBVIOUS
<1> HIDE DEF P
<1>6. m \in P
  <2> HIDE DEF m
  <2> QED BY <1>3, <1>4, <1>5, UpTo0
<1>7. \A p \in DOMAIN t : Len(p) > depth - m
  BY <1>2
<1> QED BY <1>6, <1>7 DEF P

\* Do u and v have the same deeper than p?
AgreeBelow(t, p, u, v) == \A q \in DOMAIN t : Len(q) > Len(p) => u[q] = v[q]

\* A step that looks only at what is deeper has a fixed point.
LEMMA FixedPoint ==
    ASSUME NEW t, IsTree(t), NEW V, NEW v0 \in V, NEW step \in [[DOMAIN t -> V] -> [DOMAIN t -> V]],
           \A u, v \in [DOMAIN t -> V] : \A p \in DOMAIN t :
              AgreeBelow(t, p, u, v) => step[u][p] = step[v][p]
    PROVE  \E u \in [DOMAIN t -> V] : u = step[u]
<1> DEFINE W == [DOMAIN t -> V]
           base == [p \in DOMAIN t |-> v0]
<1>1. PICK depth \in Nat : \A p \in DOMAIN t : Len(p) <= depth
  BY SomeDepth DEF IsTree
<1>2. \A p \in DOMAIN t : Len(p) \in Nat
  BY NodeTyped
<1>3. base \in W
  OBVIOUS
<1> DEFINE n == depth + 2
           again == [p \in (1 .. n) \X W |-> step[p[2]]]
<1>4. n \in Nat
  OBVIOUS
<1> HIDE DEF W, base, n
<1>5. again \in [(1 .. n) \X W -> W]
  <2>1. \A u \in W : step[u] \in W
    BY DEF W
  <2> QED BY <2>1
<1> HIDE DEF again
<1>6. PICK g \in [0 .. n -> W] : StepsBy(g, n, base, again)
  BY <1>3, <1>4, <1>5, StepsExist
<1>7. ASSUME NEW k \in 1 .. n
      PROVE  g[k - 1] \in W /\ g[k] \in W /\ g[k] = step[g[k - 1]]
  <2>1. k - 1 \in 0 .. n /\ k \in 0 .. n
    BY <1>4
  <2>2. <<k, g[k - 1]>> \in (1 .. n) \X W /\ g[k] = again[<<k, g[k - 1]>>]
    BY <1>6, <2>1 DEF StepsBy
  <2> QED BY <2>1, <2>2 DEF again
<1> DEFINE m == depth + 1
           P == {k \in 0 .. m : \A p \in DOMAIN t : Len(p) > depth - k => g[k + 1][p] = g[k][p]}
<1>8. 0 \in P
  BY <1>1, <1>2
<1>9. ASSUME NEW k \in 0 .. m - 1, k \in P
      PROVE  k + 1 \in P
  <2>1. k + 1 \in 1 .. n /\ k + 2 \in 1 .. n /\ (k + 1) - 1 = k /\ (k + 2) - 1 = k + 1 /\ (k + 1) + 1 = k + 2
    BY DEF n
  <2>2. /\ g[k] \in W /\ g[k + 1] \in W
        /\ g[k + 1] = step[g[k]] /\ g[k + 2] = step[g[k + 1]]
    BY <1>7, <2>1
  <2>3. ASSUME NEW p \in DOMAIN t, Len(p) > depth - (k + 1)
        PROVE  g[k + 2][p] = g[k + 1][p]
    <3>1. ASSUME NEW q \in DOMAIN t, Len(q) > Len(p)
          PROVE  g[k + 1][q] = g[k][q]
      <4>1. Len(q) > depth - k
        <5> DEFINE lq == Len(q)
                   lp == Len(p)
        <5>1. lq \in Nat /\ lp \in Nat /\ lq > lp /\ lp > depth - (k + 1)
          BY <1>2, <2>3, <3>1
        <5> HIDE DEF lq, lp
        <5>2. lq > depth - k
          BY <5>1
        <5> QED BY <5>2 DEF lq
      <4> QED BY <1>9, <4>1
    <3>2. AgreeBelow(t, p, g[k + 1], g[k])
      BY <3>1 DEF AgreeBelow
    <3> QED BY <2>2, <3>2 DEF W
  <2>4. k + 1 \in 0 .. m
    OBVIOUS
  <2> QED BY <2>1, <2>3, <2>4
<1>10. m \in Nat /\ m \in 0 .. m
  OBVIOUS
<1> HIDE DEF P
<1>11. m \in P
  <2> HIDE DEF m
  <2> QED BY <1>8, <1>9, <1>10, UpTo0
<1>12. n \in 1 .. n /\ n - 1 = m /\ m + 1 = n
  BY DEF n
<1>13. g[m] \in W /\ g[n] \in W /\ g[n] = step[g[m]]
  BY <1>7, <1>12
<1>14. \A p \in DOMAIN t : g[n][p] = g[m][p]
  <2>1. \A p \in DOMAIN t : Len(p) > depth - m
    BY <1>2
  <2> HIDE DEF m
  <2> QED BY <1>11, <1>12, <2>1 DEF P
<1> HIDE DEF m
<1>15. g[n] = g[m]
  BY <1>13, <1>14 DEF W
<1> QED BY <1>13, <1>15 DEF W

\* The body of a child of a block is deeper than the block.
LEMMA BodyBelow ==
    ASSUME NEW t, IsTree(t), NEW b \in DOMAIN t, NEW k \in 1 .. t[b].kids,
           HasBody(t, Append(b, k))
    PROVE  Body(t, Append(b, k)) \in DOMAIN t /\ Len(Body(t, Append(b, k))) > Len(b)
<1> DEFINE child == Append(b, k)
           body == Body(t, child)
<1>1. b \in Seq(Nat) /\ t[b].kids \in Nat /\ child \in DOMAIN t
  BY NodeTyped
<1>2. Len(child) = Len(b) + 1 /\ Len(b) \in Nat
  BY <1>1
<1> HIDE DEF child
<1>3. body \in DOMAIN t /\ Len(body) = Len(child) + 1
  BY <1>1, BodyTyped DEF child
<1> HIDE DEF body
<1>4. Len(body) > Len(b)
  BY <1>2, <1>3
<1> QED BY <1>3, <1>4 DEF body, child

IsUnits(u, t) == u = [b \in DOMAIN t |-> UnitsOver(t, b, u)]

LEMMA UnitsExist ==
    ASSUME NEW t, IsTree(t)
    PROVE  \E u : IsUnits(u, t)
<1> DEFINE V == Seq(Seq(Atom))
           W == [DOMAIN t -> V]
           next(u) == [b \in DOMAIN t |-> UnitsOver(t, b, u)]
           step == [u \in W |-> next(u)]
<1>1. ASSUME NEW u \in W, NEW b \in DOMAIN t, NEW k \in 1 .. t[b].kids
      PROVE  InnerTyped(t, Append(b, k), u)
  BY BodyBelow DEF InnerTyped
<1>2. step \in [W -> W]
  <2>1. ASSUME NEW u \in W
        PROVE  next(u) \in W
    <3>1. \A b \in DOMAIN t : UnitsOver(t, b, u) \in V
      BY <1>1, UnitsTyped
    <3> QED BY <3>1
  <2> HIDE DEF W, next
  <2> QED BY <2>1
<1>3. ASSUME NEW u \in W, NEW v \in W, NEW b \in DOMAIN t, AgreeBelow(t, b, u, v)
      PROVE  step[u][b] = step[v][b]
  <2>1. \A k \in 1 .. t[b].kids : Alike(t, Append(b, k), u, v)
    BY <1>3, BodyBelow DEF Alike, AgreeBelow
  <2>2. UnitsOver(t, b, u) = UnitsOver(t, b, v)
    BY <1>1, <2>1, UnitsAgree
  <2> QED BY <2>2
<1>4. << >> \in V
  OBVIOUS
<1> HIDE DEF step, next, V
<1>5. \E u \in W : u = step[u]
  BY <1>2, <1>3, <1>4, FixedPoint
<1>6. PICK u \in W : u = step[u]
  BY <1>5
<1>7. u = next(u)
  BY <1>6 DEF step
<1> QED BY <1>7 DEF next, IsUnits

\* The units of a body are texts.
LEMMA CollectTyped ==
    ASSUME NEW t, IsTree(t), NEW block \in DOMAIN t
    PROVE  CollectUnits(t, block) \in Seq(Seq(Atom))
<1> DEFINE Units == CHOOSE u : IsUnits(u, t)
           Q == {b \in DOMAIN t : Units[b] \in Seq(Seq(Atom))}
<1>1. IsUnits(Units, t)
  BY UnitsExist
<1>2. CollectUnits(t, block) = Units[block]
  BY DEF CollectUnits, IsUnits
<1> HIDE DEF Units
<1>3. ASSUME NEW b \in DOMAIN t, DeeperIn(t, b, Q)
      PROVE  b \in Q
  <2>1. \A k \in 1 .. t[b].kids : InnerTyped(t, Append(b, k), Units)
    BY <1>3, BodyBelow DEF InnerTyped, DeeperIn
  <2>2. UnitsOver(t, b, Units) \in Seq(Seq(Atom))
    BY <2>1, UnitsTyped
  <2> QED BY <1>1, <2>2 DEF IsUnits
<1> HIDE DEF Q
<1>4. Q \in SUBSET DOMAIN t
  BY DEF Q
<1>5. Q = DOMAIN t
  BY <1>3, <1>4, ByDepth
<1> QED BY <1>2, <1>5 DEF Q

\* Is anything collected?
Some(acc) == acc.units # << >> \/ acc.run # << >>

LEMMA JoinNonEmpty ==
    ASSUME NEW S, NEW x \in Seq(S), NEW y \in Seq(S), x # << >> \/ y # << >>
    PROVE  x \o y # << >>
<1>1. Len(x) \in Nat /\ Len(y) \in Nat /\ Len(x \o y) = Len(x) + Len(y)
  OBVIOUS
<1>2. Len(x) # 0 \/ Len(y) # 0
  BY EmptySeq
<1>3. Len(x \o y) # 0
  BY <1>1, <1>2
<1> QED BY <1>3

LEMMA UnitStepSome ==
    ASSUME NEW t, IsTree(t), NEW child \in DOMAIN t, NEW inner, InnerTyped(t, child, inner),
           NEW acc \in Collecting, Some(acc) \/ Text(t, child) # << >>
    PROVE  Some(UnitStep(acc, child, t, inner))
<1> DEFINE next == UnitStep(acc, child, t, inner)
           flushed == Flush(acc)
<1>1. acc.units \in Seq(Seq(Atom)) /\ acc.run \in Seq(Atom) /\ Text(t, child) \in Seq(Atom)
  BY NodeTyped DEF Collecting
<1>2. flushed \in Seq(Seq(Atom))
  BY FlushTyped
<1>3. \A x \in Seq(Seq(Atom)), e \in Seq(Atom) :
         Append(x, e) \in Seq(Seq(Atom)) /\ Append(x, e) # << >>
  <2> TAKE x \in Seq(Seq(Atom)), e \in Seq(Atom)
  <2>1. Append(x, e) \in Seq(Seq(Atom)) /\ Len(Append(x, e)) = Len(x) + 1 /\ Len(x) \in Nat
    OBVIOUS
  <2>2. Len(Append(x, e)) # 0
    BY <2>1
  <2> QED BY <2>1, <2>2, EmptySeq
<1> HIDE DEF flushed
<1>4. CASE ~HasBody(t, child) \/ t[child].kind \notin Declarations
  <2>1. PICK a \in Seq(Seq(Atom)), b \in Seq(Atom) : acc = [units |-> a, run |-> b]
    BY DEF Collecting
  <2>2. acc.units = a /\ acc.run = b
    BY <2>1
  <2>3. \A c : [acc EXCEPT !.run = c] = [units |-> a, run |-> c]
    BY <2>1
  <2>4. next = [units |-> a, run |-> b \o Text(t, child)]
    BY <1>4, <2>2, <2>3 DEF UnitStep
  <2> HIDE DEF next
  <2>5. next.units = acc.units /\ next.run = acc.run \o Text(t, child)
    BY <2>2, <2>4
  <2>6. acc.units # << >> \/ acc.run # << >> \/ Text(t, child) # << >>
    BY DEF Some
  <2>7. acc.run # << >> \/ Text(t, child) # << >> => next.run # << >>
    BY <1>1, <2>5, JoinNonEmpty
  <2> QED BY <2>5, <2>6, <2>7 DEF Some, next
<1>5. CASE HasBody(t, child) /\ t[child].kind \in FunctionKinds
  <2>1. t[child].kind \in Declarations
    BY <1>5 DEF Declarations
  <2>2. next.units = Append(flushed, Append(BeforeBody(t, child), Dots))
    BY <1>5, <2>1 DEF UnitStep, flushed
  <2>3. Append(BeforeBody(t, child), Dots) \in Seq(Atom)
    BY <1>5, AtomsAre, BodyTyped
  <2> HIDE DEF next
  <2>4. next.units # << >>
    BY <1>2, <1>3, <2>2, <2>3
  <2> QED BY <2>4 DEF Some, next
<1>6. CASE HasBody(t, child) /\ t[child].kind \in Declarations /\ t[child].kind \notin FunctionKinds
  <2> DEFINE h == BeforeBody(t, child)
             x == Append(flushed, h)
             y == inner[Body(t, child)]
             z == NonEmpty(AfterBody(t, child))
  <2>1. next.units = x \o y \o z
    BY <1>6 DEF UnitStep, flushed
  <2>2. h \in Seq(Atom) /\ AfterBody(t, child) \in Seq(Atom)
    BY <1>6, BodyTyped
  <2>3. y \in Seq(Seq(Atom))
    BY <1>6 DEF InnerTyped
  <2>4. z \in Seq(Seq(Atom))
    BY <2>2, NonEmptyTyped
  <2>5. x \in Seq(Seq(Atom)) /\ x # << >>
    BY <1>2, <1>3, <2>2
  <2> HIDE DEF next, x, y, z
  <2>6. x \o y \in Seq(Seq(Atom)) /\ x \o y # << >>
    BY <2>3, <2>5, JoinNonEmpty
  <2>7. (x \o y) \o z # << >>
    BY <2>4, <2>6, JoinNonEmpty
  <2> QED BY <2>1, <2>7 DEF Some, next
<1> QED BY <1>4, <1>5, <1>6 DEF next

\* A body with a child that has a text has a unit.
LEMMA UnitsSome ==
    ASSUME NEW t, IsTree(t), NEW block \in DOMAIN t, NEW inner,
           \A k \in 1 .. t[block].kids : InnerTyped(t, Append(block, k), inner),
           NEW j \in 1 .. t[block].kids, Text(t, Append(block, j)) # << >>
    PROVE  UnitsOver(t, block, inner) # << >>
<1> DEFINE children == Children(t, block)
           n == Len(children)
<1>1. /\ n = t[block].kids /\ n \in Nat
      /\ \A k \in 1 .. n : children[k] = Append(block, k) /\ Append(block, k) \in DOMAIN t
  BY NodeTyped
<1>2. PICK f \in [0 .. n -> Collecting] :
         /\ \A k \in 1 .. n : f[k] = UnitStep(f[k - 1], children[k], t, inner)
         /\ UnitsOver(t, block, inner) = Flush(f[n])
  BY UnitsFolded
<1> HIDE DEF n, children
<1> DEFINE P == {k \in 0 .. n : k >= j => Some(f[k])}
<1>3. 0 \in P
  BY <1>1
<1>4. ASSUME NEW k \in 0 .. n - 1, k \in P
      PROVE  k + 1 \in P
  <2> DEFINE child == Append(block, k + 1)
  <2>1. k + 1 \in 1 .. n /\ k \in 0 .. n /\ (k + 1) - 1 = k /\ k + 1 \in 0 .. n
    BY <1>1
  <2>2. child \in DOMAIN t /\ InnerTyped(t, child, inner) /\ f[k] \in Collecting
    BY <1>1, <2>1
  <2>3. f[k + 1] = UnitStep(f[k], child, t, inner)
    BY <1>1, <1>2, <2>1
  <2>4. ASSUME k + 1 >= j
        PROVE  Some(f[k]) \/ Text(t, child) # << >>
    <3>1. CASE k + 1 = j
      BY <3>1
    <3>2. CASE k + 1 # j
      <4>1. k >= j
        BY <1>1, <2>1, <2>4, <3>2
      <4> QED BY <1>4, <4>1
    <3> QED BY <3>1, <3>2
  <2> HIDE DEF child
  <2>5. k + 1 >= j => Some(f[k + 1])
    BY <2>2, <2>3, <2>4, UnitStepSome
  <2> QED BY <2>1, <2>5
<1> HIDE DEF P
<1>5. n \in 0 .. n /\ n >= j
  BY <1>1
<1>6. Some(f[n])
  <2>1. n \in P
    BY <1>1, <1>3, <1>4, <1>5, UpTo0
  <2> QED BY <1>5, <2>1 DEF P
<1> DEFINE acc == f[n]
<1>7. acc \in Collecting
  BY <1>5
<1> HIDE DEF acc
<1>8. Flush(acc) # << >>
  <2>1. acc.units \in Seq(Seq(Atom)) /\ acc.run \in Seq(Atom)
    BY <1>7 DEF Collecting
  <2>2. NonEmpty(acc.run) \in Seq(Seq(Atom))
    BY <2>1, NonEmptyTyped
  <2>3. acc.run # << >> => NonEmpty(acc.run) # << >>
    BY DEF NonEmpty
  <2>4. acc.units # << >> \/ NonEmpty(acc.run) # << >>
    BY <1>6, <2>3 DEF Some, acc
  <2> QED BY <2>1, <2>2, <2>4, JoinNonEmpty DEF Flush
<1> QED BY <1>2, <1>8 DEF acc

LEMMA FlattenOfEmpty ==
    ASSUME NEW s, NEW n \in Nat, DOMAIN s = 1 .. n, s = [i \in 1 .. n |-> << >>]
    PROVE  FlattenSeq(s) = << >>
<1>1. s \in [1 .. n -> Seq({})]
  OBVIOUS
<1>2. s \in Seq(Seq({}))
  BY <1>1, SeqOfFunction
<1>3. FlattenSeq(s) \in Seq({})
  BY <1>2, FlattenTyped
<1>4. \A x \in Seq({}) : x = << >>
  <2> TAKE x \in Seq({})
  <2>1. Len(x) \in Nat /\ \A i \in 1 .. Len(x) : x[i] \in {}
    OBVIOUS
  <2>2. Len(x) = 0
    <3>1. Len(x) >= 1 => 1 \in 1 .. Len(x)
      BY <2>1
    <3> QED BY <2>1, <3>1
  <2> QED BY <2>2, EmptySeq
<1> QED BY <1>3, <1>4

\* The overview of a body with a text has a unit.
LEMMA CollectSome ==
    ASSUME NEW t, IsTree(t), NEW block \in DOMAIN t,
           Text(t, block) = TextOf(t, Children(t, block)), Text(t, block) # << >>
    PROVE  CollectUnits(t, block) # << >>
<1> DEFINE Units == CHOOSE u : IsUnits(u, t)
<1>1. IsUnits(Units, t)
  BY UnitsExist
<1>2. \A b \in DOMAIN t : CollectUnits(t, b) = Units[b]
  BY DEF CollectUnits, IsUnits
<1> HIDE DEF Units
<1>3. \A b \in DOMAIN t : Units[b] = UnitsOver(t, b, Units)
  BY <1>1 DEF IsUnits
<1>4. \A b \in DOMAIN t : Units[b] \in Seq(Seq(Atom))
  BY <1>2, CollectTyped
<1>5. ASSUME NEW k \in 1 .. t[block].kids
      PROVE  InnerTyped(t, Append(block, k), Units)
  <2>1. Append(block, k) \in DOMAIN t
    BY NodeTyped
  <2>2. HasBody(t, Append(block, k)) => Body(t, Append(block, k)) \in DOMAIN t
    BY <2>1, BodyTyped
  <2> QED BY <1>4, <2>2 DEF InnerTyped
<1>6. PICK j \in 1 .. t[block].kids : Text(t, Append(block, j)) # << >>
  <2>1. SUFFICES ASSUME \A j \in 1 .. t[block].kids : Text(t, Append(block, j)) = << >>
                 PROVE  FALSE
    OBVIOUS
  <2> DEFINE children == Children(t, block)
             n == t[block].kids
             texts == [i \in DOMAIN children |-> t[children[i]].text]
  <2>2. n \in Nat /\ DOMAIN children = 1 .. n /\ \A i \in 1 .. n : children[i] = Append(block, i)
    BY NodeTyped DEF Children
  <2>3. TextOf(t, children) = FlattenSeq(texts)
    BY DEF TextOf, Concat, Each
  <2> HIDE DEF children, n
  <2>4. \A i \in 1 .. n : t[children[i]].text = << >>
    BY <2>1, <2>2 DEF Text, n
  <2>5. texts = [i \in 1 .. n |-> << >>]
    BY <2>2, <2>4
  <2>6. DOMAIN texts = 1 .. n
    BY <2>2
  <2> HIDE DEF texts
  <2>7. FlattenSeq(texts) = << >>
    BY <2>2, <2>5, <2>6, FlattenOfEmpty
  <2> QED BY <2>3, <2>7 DEF children
<1>7. UnitsOver(t, block, Units) # << >>
  BY <1>5, <1>6, UnitsSome
<1> QED BY <1>2, <1>3, <1>7

\* The fold of PackUnits.
FlushedBehind(acc, header) ==
    IF acc.current = << >> THEN acc.pieces ELSE Append(acc.pieces, header \o acc.current)
BehindStep(acc, unit, header, budget) ==
    IF Tokens(unit) > budget
    THEN [pieces |-> FlushedBehind(acc, header)
                        \o Each(SplitOversized(unit, budget), LAMBDA sub : header \o sub),
          current |-> << >>]
    ELSE IF Tokens(acc.current) + Tokens(unit) > budget
    THEN [pieces |-> FlushedBehind(acc, header), current |-> unit]
    ELSE [acc EXCEPT !.current = @ \o unit]
BehindBase == [pieces |-> << >>, current |-> << >>]
PackedBehind == [pieces : Seq(Seq(Atom)), current : Seq(Atom)]
AllBehind(acc, header) ==
    IF FlushedBehind(acc, header) = << >> THEN <<header>> ELSE FlushedBehind(acc, header)
BehindIter(iter, header, units, budget) ==
    iter = [s \in SUBSET DOMAIN units |->
              IF s = {} THEN BehindBase ELSE BehindStep(iter[s \ {Max(s)}], units[Max(s)], header, budget)]

LEMMA BehindTyped ==
    ASSUME NEW acc \in PackedBehind, NEW header \in Seq(Atom)
    PROVE  FlushedBehind(acc, header) \in Seq(Seq(Atom))
<1>1. acc.pieces \in Seq(Seq(Atom)) /\ acc.current \in Seq(Atom)
  BY DEF PackedBehind
<1>2. header \o acc.current \in Seq(Atom)
  BY <1>1
<1> QED BY <1>1, <1>2 DEF FlushedBehind

LEMMA HeadersTyped ==
    ASSUME NEW A, NEW header \in Seq(A), NEW texts \in Seq(Seq(A))
    PROVE  Each(texts, LAMBDA sub : header \o sub) \in Seq(Seq(A))
<1> DEFINE n == Len(texts)
           each == [i \in DOMAIN texts |-> header \o texts[i]]
<1>1. n \in Nat /\ DOMAIN texts = 1 .. n /\ \A i \in 1 .. n : texts[i] \in Seq(A)
  OBVIOUS
<1>2. each \in [1 .. n -> Seq(A)]
  BY <1>1
<1>3. Each(texts, LAMBDA sub : header \o sub) = each
  BY DEF Each
<1> HIDE DEF each, n
<1> QED BY <1>1, <1>2, <1>3, SeqOfFunction

LEMMA BehindStepTyped ==
    ASSUME NEW acc \in PackedBehind, NEW unit \in Seq(Atom), NEW header \in Seq(Atom),
           NEW budget \in Nat \ {0}
    PROVE  BehindStep(acc, unit, header, budget) \in PackedBehind
<1> DEFINE flushed == FlushedBehind(acc, header)
           split == Each(SplitOversized(unit, budget), LAMBDA sub : header \o sub)
<1>1. /\ acc.pieces \in Seq(Seq(Atom)) /\ acc.current \in Seq(Atom)
      /\ acc = [pieces |-> acc.pieces, current |-> acc.current]
  BY DEF PackedBehind
<1>2. flushed \in Seq(Seq(Atom))
  BY BehindTyped
<1>3. split \in Seq(Seq(Atom))
  <2>1. SplitOversized(unit, budget) \in Seq(Seq(Atom))
    BY AtomsAre, SplitTyped
  <2> HIDE DEF split
  <2> QED BY <2>1, HeadersTyped DEF split
<1>4. BehindStep(acc, unit, header, budget) =
          IF Tokens(unit) > budget THEN [pieces |-> flushed \o split, current |-> << >>]
          ELSE IF Tokens(acc.current) + Tokens(unit) > budget
          THEN [pieces |-> flushed, current |-> unit]
          ELSE [acc EXCEPT !.current = @ \o unit]
  BY DEF BehindStep
<1> HIDE DEF flushed, split
<1>5. [pieces |-> flushed \o split, current |-> << >>] \in PackedBehind
  BY <1>2, <1>3 DEF PackedBehind
<1>6. [pieces |-> flushed, current |-> unit] \in PackedBehind
  BY <1>2 DEF PackedBehind
<1>7. [acc EXCEPT !.current = @ \o unit] \in PackedBehind
  <2>1. [acc EXCEPT !.current = @ \o unit] = [pieces |-> acc.pieces, current |-> acc.current \o unit]
    <3>1. PICK a \in Seq(Seq(Atom)), b \in Seq(Atom) : acc = [pieces |-> a, current |-> b]
      BY DEF PackedBehind
    <3>2. acc.pieces = a /\ acc.current = b
      BY <3>1
    <3>3. \A c : [acc EXCEPT !.current = c] = [pieces |-> a, current |-> c]
      BY <3>1
    <3> QED BY <3>2, <3>3
  <2>2. acc.current \o unit \in Seq(Atom)
    BY <1>1
  <2> QED BY <1>1, <2>1, <2>2 DEF PackedBehind
<1> QED BY <1>4, <1>5, <1>6, <1>7

LEMMA BehindFolded ==
    ASSUME NEW header \in Seq(Atom), NEW units \in Seq(Seq(Atom)), NEW budget \in Nat \ {0}
    PROVE  \E f \in [0 .. Len(units) -> PackedBehind] :
              /\ f[0] = BehindBase
              /\ \A k \in 1 .. Len(units) : f[k] = BehindStep(f[k - 1], units[k], header, budget)
              /\ PackUnits(header, units, budget) = AllBehind(f[Len(units)], header)
<1> DEFINE V == PackedBehind
           seq == units
           n == Len(seq)
           base == BehindBase
           iter == CHOOSE iter : BehindIter(iter, header, units, budget)
           step == [p \in (1 .. n) \X V |-> BehindStep(p[2], seq[p[1]], header, budget)]
<1>1. n \in Nat /\ DOMAIN seq = 1 .. n
  OBVIOUS
<1>2. base \in V
  BY DEF BehindBase, PackedBehind
<1>3. step \in [(1 .. n) \X V -> V]
  <2>1. \A p \in (1 .. n) \X V : p[2] \in V /\ seq[p[1]] \in Seq(Atom)
    <3> HIDE DEF V
    <3> QED OBVIOUS
  <2>2. \A acc \in V, unit \in Seq(Atom) : BehindStep(acc, unit, header, budget) \in V
    BY BehindStepTyped
  <2> HIDE DEF V, n, seq
  <2> QED BY <2>1, <2>2
<1>4. \E h : BehindIter(h, header, units, budget)
  <2> HIDE DEF V, n, step, seq, base
  <2>1. PICK h \in [SUBSET (1 .. n) -> V] : FoldsBy(h, n, base, step)
    BY <1>1, <1>2, <1>3, FoldExists
  <2>2. ASSUME NEW s \in SUBSET (1 .. n)
        PROVE  h[s] = IF s = {} THEN base ELSE BehindStep(h[s \ {Max(s)}], seq[Max(s)], header, budget)
    <3>1. CASE s = {}
      BY <2>1, <3>1 DEF FoldsBy
    <3>2. CASE s # {}
      <4>1. <<Max(s), h[s \ {Max(s)}]>> \in (1 .. n) \X V
        BY <1>1, <3>2, MaxIsOne
      <4>2. step[<<Max(s), h[s \ {Max(s)}]>>] = BehindStep(h[s \ {Max(s)}], seq[Max(s)], header, budget)
        BY <4>1 DEF step
      <4> QED BY <2>1, <3>2, <4>2 DEF FoldsBy
    <3> QED BY <3>1, <3>2
  <2>3. DOMAIN h = SUBSET (1 .. n)
    OBVIOUS
  <2>4. h = [s \in SUBSET DOMAIN seq |-> IF s = {} THEN base ELSE BehindStep(h[s \ {Max(s)}], seq[Max(s)], header, budget)]
    BY <1>1, <2>2, <2>3
  <2> QED BY <2>4 DEF BehindIter, seq, base
<1>5. BehindIter(iter, header, units, budget)
  BY <1>4
<1> HIDE DEF iter
<1>6. iter = [s \in SUBSET (1 .. n) |-> IF s = {} THEN base ELSE BehindStep(iter[s \ {Max(s)}], seq[Max(s)], header, budget)]
  BY <1>1, <1>5 DEF BehindIter
<1> HIDE DEF V, n, seq, base
<1>7. iter[{}] = base
  BY <1>6
<1>8. ASSUME NEW k \in 1 .. n
      PROVE  iter[1 .. k] = BehindStep(iter[1 .. k - 1], seq[k], header, budget)
  <2>1. 1 .. k \in SUBSET (1 .. n) /\ k \in Nat /\ k >= 1
    BY <1>1
  <2>2. Max(1 .. k) = k /\ (1 .. k) \ {k} = 1 .. k - 1 /\ 1 .. k # {}
    BY <2>1, RangeMax
  <2> QED BY <1>6, <2>1, <2>2
<1>9. \A k \in 1 .. n : iter[1 .. k - 1] \in V => iter[1 .. k] = step[<<k, iter[1 .. k - 1]>>]
  BY <1>8
<1>10. \A p \in (1 .. n) \X V : step[p] = BehindStep(p[2], seq[p[1]], header, budget)
  OBVIOUS
<1>11. PackUnits(header, units, budget) = AllBehind(iter[1 .. n], header)
  BY <1>1 DEF PackUnits, FoldLeft, MapThenFoldSet, BehindIter, BehindStep, BehindBase, FlushedBehind, AllBehind, Each, iter, n, seq, base
<1> HIDE DEF step
<1>12. Climbs(iter, n, V, base, step)
  <2> HIDE DEF step
  <2> QED BY <1>7, <1>9 DEF Climbs
<1>13. PICK f \in [0 .. n -> V] : Climbed(f, iter, n, base, step)
  BY <1>1, <1>2, <1>3, <1>12, FoldValues
<1>14. ASSUME NEW k \in 1 .. n
       PROVE  f[k] = BehindStep(f[k - 1], seq[k], header, budget)
  <2>1. k - 1 \in 0 .. n
    BY <1>1
  <2>2. <<k, f[k - 1]>> \in (1 .. n) \X V
    BY <2>1
  <2>3. f[k] = step[<<k, f[k - 1]>>]
    BY <1>13 DEF Climbed, StepsBy
  <2> QED BY <1>10, <2>2, <2>3
<1> QED BY <1>11, <1>13, <1>14 DEF n, seq, V, base, Climbed, StepsBy

LEMMA PackUnitsTyped ==
    ASSUME NEW header \in Seq(Atom), NEW units \in Seq(Seq(Atom)), NEW budget \in Nat \ {0}
    PROVE  PackUnits(header, units, budget) \in Seq(Seq(Atom)) \ {<< >>}
<1> DEFINE n == Len(units)
<1>1. n \in Nat
  OBVIOUS
<1>2. PICK f \in [0 .. n -> PackedBehind] : PackUnits(header, units, budget) = AllBehind(f[n], header)
  BY BehindFolded
<1> HIDE DEF n
<1>3. FlushedBehind(f[n], header) \in Seq(Seq(Atom))
  BY <1>1, BehindTyped
<1>4. <<header>> \in Seq(Seq(Atom)) \ {<< >>}
  OBVIOUS
<1> QED BY <1>2, <1>3, <1>4 DEF AllBehind

\* Behind the header, a piece has no more than the budget.
HeldBy(acc, header, budget) ==
    acc.pieces \in Seq(Short(Atom, Len(header) + budget)) /\ Len(acc.current) <= budget

LEMMA HeaderFits ==
    ASSUME NEW header \in Seq(Atom), NEW budget \in Nat, NEW text \in Seq(Atom), Len(text) <= budget
    PROVE  header \o text \in Short(Atom, Len(header) + budget)
<1>1. header \o text \in Seq(Atom) /\ Len(header \o text) = Len(header) + Len(text)
  OBVIOUS
<1>2. Len(header) \in Nat /\ Len(text) \in Nat
  OBVIOUS
<1>3. Len(header) + Len(text) <= Len(header) + budget
  BY <1>2
<1> QED BY <1>1, <1>3 DEF Short

LEMMA FlushedFits ==
    ASSUME NEW acc \in PackedBehind, NEW header \in Seq(Atom), NEW budget \in Nat \ {0},
           HeldBy(acc, header, budget)
    PROVE  FlushedBehind(acc, header) \in Seq(Short(Atom, Len(header) + budget))
<1> DEFINE T == Short(Atom, Len(header) + budget)
<1>1. acc.pieces \in Seq(T) /\ Len(acc.current) <= budget /\ acc.current \in Seq(Atom)
  BY DEF HeldBy, PackedBehind
<1>2. header \o acc.current \in T
  BY <1>1, HeaderFits
<1> HIDE DEF T
<1>3. Append(acc.pieces, header \o acc.current) \in Seq(T)
  BY <1>1, <1>2
<1> QED BY <1>1, <1>3 DEF FlushedBehind, T

LEMMA BehindStepFits ==
    ASSUME NEW acc \in PackedBehind, NEW unit \in Seq(Atom), NEW header \in Seq(Atom),
           NEW budget \in Nat \ {0}, HeldBy(acc, header, budget)
    PROVE  HeldBy(BehindStep(acc, unit, header, budget), header, budget)
<1> DEFINE T == Short(Atom, Len(header) + budget)
           flushed == FlushedBehind(acc, header)
           subs == SplitOversized(unit, budget)
           split == Each(subs, LAMBDA sub : header \o sub)
           next == BehindStep(acc, unit, header, budget)
<1>1. acc.pieces \in Seq(T) /\ Len(acc.current) <= budget /\ acc.current \in Seq(Atom)
  BY DEF HeldBy, PackedBehind
<1>2. flushed \in Seq(T)
  BY FlushedFits
<1>3. split \in Seq(T)
  <2> DEFINE n == Len(subs)
             each == [i \in DOMAIN subs |-> header \o subs[i]]
  <2>1. subs \in Seq(Short(Atom, budget))
    BY AtomsAre, SplitTyped
  <2>2. split = each
    BY DEF Each
  <2> HIDE DEF subs, T
  <2>3. n \in Nat /\ DOMAIN subs = 1 .. n /\ \A i \in 1 .. n : subs[i] \in Short(Atom, budget)
    BY <2>1
  <2>4. \A i \in 1 .. n : header \o subs[i] \in T
    <3> TAKE i \in 1 .. n
    <3>1. subs[i] \in Short(Atom, budget)
      BY <2>3
    <3>2. subs[i] \in Seq(Atom) /\ Len(subs[i]) <= budget
      BY <3>1 DEF Short
    <3> QED BY <3>2, HeaderFits DEF T
  <2>5. each \in [1 .. n -> T]
    BY <2>3, <2>4
  <2> HIDE DEF each, n, split
  <2> QED BY <2>2, <2>3, <2>5, SeqOfFunction
<1>4. next =
          IF Tokens(unit) > budget THEN [pieces |-> flushed \o split, current |-> << >>]
          ELSE IF Tokens(acc.current) + Tokens(unit) > budget
          THEN [pieces |-> flushed, current |-> unit]
          ELSE [acc EXCEPT !.current = @ \o unit]
  BY DEF BehindStep
<1>5. Len(acc.current) \in Nat /\ Len(unit) \in Nat
  BY <1>1
<1> HIDE DEF T, flushed, split, next
<1>6. SUFFICES next.pieces \in Seq(T) /\ Len(next.current) <= budget
  BY DEF HeldBy, T, next
<1>7. CASE Tokens(unit) > budget
  <2>1. next.pieces = flushed \o split /\ next.current = << >>
    BY <1>4, <1>7
  <2>2. flushed \o split \in Seq(T)
    BY <1>2, <1>3
  <2>3. Len(next.current) = 0
    BY <2>1
  <2> QED BY <2>1, <2>2, <2>3
<1>8. CASE ~(Tokens(unit) > budget) /\ Tokens(acc.current) + Tokens(unit) > budget
  <2>1. next.pieces = flushed /\ next.current = unit
    BY <1>4, <1>8
  <2> QED BY <1>2, <1>5, <1>8, <2>1 DEF Tokens
<1>9. CASE ~(Tokens(unit) > budget) /\ ~(Tokens(acc.current) + Tokens(unit) > budget)
  <2>1. PICK a \in Seq(Seq(Atom)), b \in Seq(Atom) : acc = [pieces |-> a, current |-> b]
    BY DEF PackedBehind
  <2>2. acc.pieces = a /\ acc.current = b
    BY <2>1
  <2>3. \A c : [acc EXCEPT !.current = c] = [pieces |-> a, current |-> c]
    BY <2>1
  <2>4. next = [pieces |-> a, current |-> b \o unit]
    BY <1>4, <1>9, <2>2, <2>3
  <2>5. next.pieces = acc.pieces /\ next.current = acc.current \o unit
    BY <2>2, <2>4
  <2>6. Len(acc.current \o unit) = Len(acc.current) + Len(unit)
    BY <1>1
  <2>7. Len(acc.current) + Len(unit) <= budget
    BY <1>5, <1>9 DEF Tokens
  <2> QED BY <1>1, <2>5, <2>6, <2>7
<1> QED BY <1>7, <1>8, <1>9

\* Every piece of an overview fits where the header leaves room.
LEMMA PackUnitsFit ==
    ASSUME NEW header \in Seq(Atom), NEW units \in Seq(Seq(Atom)), NEW budget \in Nat \ {0}
    PROVE  PackUnits(header, units, budget) \in Seq(Short(Atom, Len(header) + budget))
<1> DEFINE n == Len(units)
           T == Short(Atom, Len(header) + budget)
<1>1. n \in Nat /\ \A k \in 1 .. n : units[k] \in Seq(Atom)
  OBVIOUS
<1>2. PICK f \in [0 .. n -> PackedBehind] :
         /\ f[0] = BehindBase
         /\ \A k \in 1 .. n : f[k] = BehindStep(f[k - 1], units[k], header, budget)
         /\ PackUnits(header, units, budget) = AllBehind(f[n], header)
  BY BehindFolded
<1> HIDE DEF n
<1> DEFINE P == {k \in 0 .. n : HeldBy(f[k], header, budget)}
<1>3. 0 \in P
  <2>1. f[0].pieces = << >> /\ f[0].current = << >>
    BY <1>2 DEF BehindBase
  <2>2. << >> \in Seq(T) /\ Len(<< >>) = 0
    OBVIOUS
  <2>3. f[0].pieces \in Seq(T) /\ Len(f[0].current) <= budget
    BY <2>1, <2>2
  <2> QED BY <1>1, <2>3 DEF HeldBy
<1>4. ASSUME NEW k \in 0 .. n - 1, k \in P
      PROVE  k + 1 \in P
  <2>1. k + 1 \in 1 .. n /\ k \in 0 .. n /\ (k + 1) - 1 = k /\ k + 1 \in 0 .. n
    BY <1>1
  <2>2. f[k] \in PackedBehind /\ units[k + 1] \in Seq(Atom) /\ HeldBy(f[k], header, budget)
    BY <1>1, <1>4, <2>1
  <2>3. f[k + 1] = BehindStep(f[k], units[k + 1], header, budget)
    BY <1>2, <2>1
  <2>4. HeldBy(f[k + 1], header, budget)
    BY <2>2, <2>3, BehindStepFits
  <2> QED BY <2>1, <2>4
<1> HIDE DEF P
<1>40. n \in 0 .. n
  BY <1>1
<1>5. n \in P /\ n \in 0 .. n
  BY <1>1, <1>3, <1>4, <1>40, UpTo0
<1>6. FlushedBehind(f[n], header) \in Seq(T)
  BY <1>5, FlushedFits DEF P
<1>7. <<header>> \in Seq(T)
  <2>1. << >> \in Seq(Atom) /\ Len(<< >>) <= budget /\ header \o << >> = header
    OBVIOUS
  <2>2. header \in T
    BY <2>1, HeaderFits
  <2> HIDE DEF T
  <2> QED BY <2>2
<1> QED BY <1>2, <1>6, <1>7 DEF AllBehind

LEMMA BudgetTyped ==
    ASSUME NEW header \in Seq(Atom)
    PROVE  Budget(header) \in Nat \ {0}
<1>1. Len(header) \in Nat /\ MaxTokens \in Nat /\ MaxTokens # 0
  BY MaxTokensAssumption
<1> QED BY <1>1 DEF Budget, Tokens

\* A class has a piece, large or not.
LEMMA CollapseTyped ==
    ASSUME NEW t, IsTree(t), NEW p \in DOMAIN t
    PROVE  CollapseChildren(t, p) \in Seq(Seq(Atom)) \ {<< >>}
<1>1. \A x \in Seq(Atom) : <<x>> \in Seq(Seq(Atom)) \ {<< >>}
  OBVIOUS
<1>2. CASE ~HasBody(t, p)
  <2>1. Text(t, p) \in Seq(Atom)
    BY NodeTyped
  <2> QED BY <1>1, <1>2, <2>1 DEF CollapseChildren
<1>3. CASE HasBody(t, p)
  <2> DEFINE header == BeforeBody(t, p)
             units == CollectUnits(t, Body(t, p))
             tail == AfterBody(t, p)
  <2>1. header \in Seq(Atom) /\ tail \in Seq(Atom) /\ Body(t, p) \in DOMAIN t
    BY <1>3, BodyTyped
  <2>2. units \in Seq(Seq(Atom))
    BY <2>1, CollectTyped
  <2>3. CollapseChildren(t, p) = IF units = << >> THEN <<header \o tail>>
                                 ELSE PackUnits(header, units, Budget(header))
    BY <1>3 DEF CollapseChildren, Collapse
  <2> HIDE DEF header, units, tail
  <2>4. header \o tail \in Seq(Atom)
    BY <2>1
  <2>5. <<header \o tail>> \in Seq(Seq(Atom)) \ {<< >>}
    BY <1>1, <2>4
  <2>6. PackUnits(header, units, Budget(header)) \in Seq(Seq(Atom)) \ {<< >>}
    BY <2>1, <2>2, BudgetTyped, PackUnitsTyped
  <2> QED BY <2>3, <2>5, <2>6
<1> QED BY <1>2, <1>3

----------------------------------------------------------------------------
(* The pieces of a function.                                               *)

LEMMA AscendingSorted ==
    ASSUME NEW n \in Nat, NEW S \in SUBSET (1 .. n)
    PROVE  /\ IsFiniteSet(S) /\ Cardinality(S) \in Nat
           /\ Ascending(S) \in Seq(S) /\ Len(Ascending(S)) = Cardinality(S)
           /\ \A x \in S : \E k \in 1 .. Cardinality(S) : Ascending(S)[k] = x
           /\ \A i, j \in 1 .. Cardinality(S) : i < j => Ascending(S)[i] < Ascending(S)[j]
<1> DEFINE less == {p \in S \X S : p[1] < p[2]}
           o == Ascending(S)
           m == Cardinality(S)
<1>1. IsFiniteSet(S) /\ m \in Nat
  <2>1. IsFiniteSet(1 .. n)
    BY FS_Interval
  <2>2. IsFiniteSet(S)
    BY <2>1, FS_Subset
  <2> QED BY <2>2, FS_CardinalityType
<1>2. \A x, y \in S : <<x, y>> \in less <=> x < y
  OBVIOUS
<1>3. \A x \in S : x \in Nat
  OBVIOUS
<1> HIDE DEF less
<1>4. Sorting(less, S)
  BY <1>2, <1>3 DEF Sorting
<1>5. SortedBy(o, S, less)
  BY <1>1, <1>4, InOrderSorts DEF Ascending, less
<1>6. /\ o \in [1 .. m -> S]
      /\ \A x \in S : \E k \in 1 .. m : o[k] = x
      /\ \A i, j \in 1 .. m : i < j => <<o[i], o[j]>> \in less
  BY <1>5 DEF SortedBy
<1> HIDE DEF o, m
<1>7. o \in Seq(S) /\ Len(o) = m
  BY <1>1, <1>6, SeqOfFunction
<1>8. \A i, j \in 1 .. m : i < j => o[i] < o[j]
  BY <1>2, <1>6
<1> QED BY <1>1, <1>6, <1>7, <1>8 DEF o, m

\* The fold of GroupStatements.
GroupStep(acc, i, t, body, budget) ==
    LET cost == Tokens(Text(t, Append(body, i)))
    IN  IF acc.groups = << >> \/ acc.running + cost + 1 > budget
        THEN [groups |-> NextGroup(acc.groups, i), running |-> cost]
        ELSE [groups |-> [acc.groups EXCEPT ![Len(acc.groups)][2] = i],
              running |-> acc.running + cost + 1]
GroupBase == [groups |-> << >>, running |-> 0]
Grouping(I) == [groups : Seq(I \X I), running : Int]
GroupIter(iter, t, body, budget) ==
    iter = [s \in SUBSET DOMAIN Ascending(Statements(t, body)) |->
              IF s = {} THEN GroupBase ELSE GroupStep(iter[s \ {Max(s)}], Ascending(Statements(t, body))[Max(s)], t, body, budget)]

LEMMA StatementsTyped ==
    ASSUME NEW t, IsTree(t), NEW body \in DOMAIN t
    PROVE  /\ Statements(t, body) \in SUBSET (1 .. t[body].kids) /\ t[body].kids \in Nat
           /\ Ascending(Statements(t, body)) \in Seq(Statements(t, body))
           /\ Statements(t, body) # {} => Ascending(Statements(t, body)) # << >>
<1> DEFINE S == Statements(t, body)
           o == Ascending(S)
<1>1. S \in SUBSET (1 .. t[body].kids) /\ t[body].kids \in Nat
  BY NodeTyped DEF Statements
<1> HIDE DEF S
<1>2. o \in Seq(S) /\ \A x \in S : \E k \in 1 .. Len(o) : TRUE
  BY <1>1, AscendingSorted
<1> HIDE DEF o
<1>3. S # {} => o # << >>
  BY <1>2, EmptySeq
<1> QED BY <1>1, <1>2, <1>3 DEF S, o

LEMMA GroupStepTyped ==
    ASSUME NEW t, IsTree(t), NEW body \in DOMAIN t, NEW budget \in Int,
           NEW i \in Statements(t, body), NEW acc \in Grouping(Statements(t, body))
    PROVE  /\ GroupStep(acc, i, t, body, budget) \in Grouping(Statements(t, body))
           /\ GroupStep(acc, i, t, body, budget).groups # << >>
<1> DEFINE S == Statements(t, body)
           groups == acc.groups
           n == Len(groups)
           cost == Tokens(Text(t, Append(body, i)))
           next == GroupStep(acc, i, t, body, budget)
<1>1. groups \in Seq(S \X S) /\ acc.running \in Int /\ n \in Nat
  BY DEF Grouping
<1>2. Append(body, i) \in DOMAIN t
  BY NodeTyped, StatementsTyped
<1>3. cost \in Int
  BY <1>2, NodeTyped DEF Tokens
<1>4. next = IF groups = << >> \/ acc.running + cost + 1 > budget
             THEN [groups |-> Append(groups, <<i, i>>), running |-> cost]
             ELSE [groups |-> [groups EXCEPT ![n][2] = i], running |-> acc.running + cost + 1]
  BY DEF GroupStep, NextGroup
<1>5. i \in S
  OBVIOUS
<1> HIDE DEF groups, n, cost, next, S
<1>6. CASE groups = << >> \/ acc.running + cost + 1 > budget
  <2>1. next = [groups |-> Append(groups, <<i, i>>), running |-> cost]
    BY <1>4, <1>6
  <2>2. <<i, i>> \in S \X S
    BY <1>5
  <2>3. Append(groups, <<i, i>>) \in Seq(S \X S) /\ Len(Append(groups, <<i, i>>)) = n + 1
    BY <1>1, <2>2 DEF n
  <2>4. Append(groups, <<i, i>>) # << >>
    BY <1>1, <2>3, EmptySeq
  <2> QED BY <1>3, <2>1, <2>3, <2>4 DEF Grouping, S, next
<1>7. CASE groups # << >> /\ ~(acc.running + cost + 1 > budget)
  <2> DEFINE longer == [groups EXCEPT ![n][2] = i]
  <2>1. next = [groups |-> longer, running |-> acc.running + cost + 1]
    BY <1>4, <1>7
  <2>2. n >= 1 /\ groups \in [1 .. n -> S \X S]
    BY <1>1, <1>7, EmptySeq DEF n
  <2>3. [groups[n] EXCEPT ![2] = i] \in S \X S
    BY <1>1, <1>5, <2>2
  <2>4. longer \in [1 .. n -> S \X S]
    BY <2>2, <2>3
  <2> HIDE DEF longer
  <2>5. longer \in Seq(S \X S) /\ Len(longer) = n
    BY <1>1, <2>4, SeqOfFunction
  <2>6. longer # << >>
    BY <2>2, <2>5, EmptySeq
  <2>7. acc.running + cost + 1 \in Int
    BY <1>1, <1>3
  <2> QED BY <2>1, <2>5, <2>6, <2>7 DEF Grouping, S, next
<1> QED BY <1>6, <1>7

LEMMA GroupsFolded ==
    ASSUME NEW t, IsTree(t), NEW body \in DOMAIN t, NEW budget \in Int
    PROVE  \E f \in [0 .. Len(Ascending(Statements(t, body))) -> Grouping(Statements(t, body))] :
              /\ f[0] = GroupBase
              /\ \A k \in 1 .. Len(Ascending(Statements(t, body))) : f[k] = GroupStep(f[k - 1], Ascending(Statements(t, body))[k], t, body, budget)
              /\ GroupStatements(t, body, budget) = f[Len(Ascending(Statements(t, body)))].groups
<1> DEFINE V == Grouping(Statements(t, body))
           seq == Ascending(Statements(t, body))
           n == Len(seq)
           base == GroupBase
           iter == CHOOSE iter : GroupIter(iter, t, body, budget)
           step == [p \in (1 .. n) \X V |-> GroupStep(p[2], seq[p[1]], t, body, budget)]
<1>1. n \in Nat /\ DOMAIN seq = 1 .. n
  BY StatementsTyped
<1>2. base \in V
  BY DEF GroupBase, Grouping
<1>3. step \in [(1 .. n) \X V -> V]
  <2>1. \A p \in (1 .. n) \X V : p[2] \in V /\ seq[p[1]] \in Statements(t, body)
    <3>1. seq \in Seq(Statements(t, body))
      BY StatementsTyped
    <3> HIDE DEF V, seq
    <3> QED BY <3>1
  <2>2. \A acc \in V, i \in Statements(t, body) : GroupStep(acc, i, t, body, budget) \in V
    BY GroupStepTyped
  <2> HIDE DEF V, n, seq
  <2> QED BY <2>1, <2>2
<1>4. \E h : GroupIter(h, t, body, budget)
  <2> HIDE DEF V, n, step, seq, base
  <2>1. PICK h \in [SUBSET (1 .. n) -> V] : FoldsBy(h, n, base, step)
    BY <1>1, <1>2, <1>3, FoldExists
  <2>2. ASSUME NEW s \in SUBSET (1 .. n)
        PROVE  h[s] = IF s = {} THEN base ELSE GroupStep(h[s \ {Max(s)}], seq[Max(s)], t, body, budget)
    <3>1. CASE s = {}
      BY <2>1, <3>1 DEF FoldsBy
    <3>2. CASE s # {}
      <4>1. <<Max(s), h[s \ {Max(s)}]>> \in (1 .. n) \X V
        BY <1>1, <3>2, MaxIsOne
      <4>2. step[<<Max(s), h[s \ {Max(s)}]>>] = GroupStep(h[s \ {Max(s)}], seq[Max(s)], t, body, budget)
        BY <4>1 DEF step
      <4> QED BY <2>1, <3>2, <4>2 DEF FoldsBy
    <3> QED BY <3>1, <3>2
  <2>3. DOMAIN h = SUBSET (1 .. n)
    OBVIOUS
  <2>4. h = [s \in SUBSET DOMAIN seq |-> IF s = {} THEN base ELSE GroupStep(h[s \ {Max(s)}], seq[Max(s)], t, body, budget)]
    BY <1>1, <2>2, <2>3
  <2> QED BY <2>4 DEF GroupIter, seq, base
<1>5. GroupIter(iter, t, body, budget)
  BY <1>4
<1> HIDE DEF iter
<1>6. iter = [s \in SUBSET (1 .. n) |-> IF s = {} THEN base ELSE GroupStep(iter[s \ {Max(s)}], seq[Max(s)], t, body, budget)]
  BY <1>1, <1>5 DEF GroupIter
<1> HIDE DEF V, n, seq, base
<1>7. iter[{}] = base
  BY <1>6
<1>8. ASSUME NEW k \in 1 .. n
      PROVE  iter[1 .. k] = GroupStep(iter[1 .. k - 1], seq[k], t, body, budget)
  <2>1. 1 .. k \in SUBSET (1 .. n) /\ k \in Nat /\ k >= 1
    BY <1>1
  <2>2. Max(1 .. k) = k /\ (1 .. k) \ {k} = 1 .. k - 1 /\ 1 .. k # {}
    BY <2>1, RangeMax
  <2> QED BY <1>6, <2>1, <2>2
<1>9. \A k \in 1 .. n : iter[1 .. k - 1] \in V => iter[1 .. k] = step[<<k, iter[1 .. k - 1]>>]
  BY <1>8
<1>10. \A p \in (1 .. n) \X V : step[p] = GroupStep(p[2], seq[p[1]], t, body, budget)
  OBVIOUS
<1>11. GroupStatements(t, body, budget) = iter[1 .. n].groups
  BY <1>1 DEF GroupStatements, FoldLeft, MapThenFoldSet, GroupIter, GroupStep, GroupBase, iter, n, seq, base
<1> HIDE DEF step
<1>12. Climbs(iter, n, V, base, step)
  <2> HIDE DEF step
  <2> QED BY <1>7, <1>9 DEF Climbs
<1>13. PICK f \in [0 .. n -> V] : Climbed(f, iter, n, base, step)
  BY <1>1, <1>2, <1>3, <1>12, FoldValues
<1>14. ASSUME NEW k \in 1 .. n
       PROVE  f[k] = GroupStep(f[k - 1], seq[k], t, body, budget)
  <2>1. k - 1 \in 0 .. n
    BY <1>1
  <2>2. <<k, f[k - 1]>> \in (1 .. n) \X V
    BY <2>1
  <2>3. f[k] = step[<<k, f[k - 1]>>]
    BY <1>13 DEF Climbed, StepsBy
  <2> QED BY <1>10, <2>2, <2>3
<1> QED BY <1>11, <1>13, <1>14 DEF n, seq, V, base, Climbed, StepsBy

LEMMA GroupsTyped ==
    ASSUME NEW t, IsTree(t), NEW body \in DOMAIN t, NEW budget \in Int, Statements(t, body) # {}
    PROVE  GroupStatements(t, body, budget) \in Seq(Statements(t, body) \X Statements(t, body)) \ {<< >>}
<1> DEFINE S == Statements(t, body)
           o == Ascending(S)
           n == Len(o)
<1>1. o \in Seq(S) /\ o # << >>
  BY StatementsTyped
<1>2. PICK f \in [0 .. n -> Grouping(S)] :
          /\ \A k \in 1 .. n : f[k] = GroupStep(f[k - 1], o[k], t, body, budget)
          /\ GroupStatements(t, body, budget) = f[n].groups
  BY GroupsFolded
<1> HIDE DEF o
<1>3. n \in Nat /\ n \in 1 .. n /\ n - 1 \in 0 .. n /\ o[n] \in S
  BY <1>1, EmptySeq
<1> HIDE DEF n, S
<1>4. f[n] \in Grouping(S) /\ f[n - 1] \in Grouping(S) /\ f[n] = GroupStep(f[n - 1], o[n], t, body, budget)
  BY <1>2, <1>3
<1>5. f[n].groups # << >>
  BY <1>3, <1>4, GroupStepTyped DEF S
<1>6. f[n].groups \in Seq(S \X S)
  BY <1>4 DEF Grouping
<1> QED BY <1>2, <1>5, <1>6 DEF S

Piece == {x \in [text : Seq(Atom), start : Int, end : Int] : x.start <= x.end + 1}
PieceIn(T) == {x \in Piece : x.text \in T}

LEMMA PiecesTyped ==
    ASSUME NEW T \in SUBSET Seq(Atom), NEW texts \in Seq(T),
           NEW start \in Int, NEW end \in Int, start <= end + 1
    PROVE  /\ Pieces(texts, start, end) \in Seq(PieceIn(T)) /\ Pieces(texts, start, end) \in Seq(Piece)
           /\ texts # << >> => Pieces(texts, start, end) # << >>
           /\ Len(Pieces(texts, start, end)) = Len(texts)
           /\ \A i \in 1 .. Len(texts) : Pieces(texts, start, end)[i].text = texts[i]
<1> DEFINE n == Len(texts)
           pieces == Pieces(texts, start, end)
<1>1. n \in Nat /\ DOMAIN texts = 1 .. n /\ \A i \in 1 .. n : texts[i] \in T
  OBVIOUS
<1>2. pieces = [i \in 1 .. n |-> [text |-> texts[i], start |-> start, end |-> end]]
  BY <1>1 DEF Pieces, Each
<1> HIDE DEF pieces, n
<1>3. \A x \in T : [text |-> x, start |-> start, end |-> end] \in PieceIn(T)
  BY DEF Piece, PieceIn
<1>4. pieces \in [1 .. n -> PieceIn(T)]
  BY <1>1, <1>2, <1>3
<1>5. pieces \in Seq(PieceIn(T)) /\ Len(pieces) = n
  BY <1>1, <1>4, SeqOfFunction
<1>6. PieceIn(T) \subseteq Piece
  BY DEF PieceIn
<1>7. pieces \in Seq(Piece)
  BY <1>5, <1>6
<1>8. texts # << >> => pieces # << >>
  BY <1>5, EmptySeq DEF n
<1>9. \A i \in 1 .. n : pieces[i].text = texts[i]
  BY <1>2
<1> QED BY <1>5, <1>7, <1>8, <1>9 DEF pieces, n

LEMMA LineTyped ==
    ASSUME NEW t, IsTree(t), NEW p \in DOMAIN t, Text(t, p) # << >>
    PROVE  StartLine(t, p) \in Int /\ EndLine(t, p) \in Int
<1>1. Text(t, p) \in Seq(Atom)
  BY NodeTyped
<1>2. Head(Text(t, p)) \in Atom /\ Last(Text(t, p)) \in Atom
  BY <1>1, EmptySeq DEF Last
<1> QED BY <1>2 DEF StartLine, EndLine, Atom

LEMMA EmitTyped ==
    ASSUME NEW t, IsTree(t), NEW body \in DOMAIN t, Statements(t, body) # {},
           NEW header \in Seq(Atom), NEW start \in Int,
           \A i \in Statements(t, body) :
              /\ Text(t, Append(body, i)) # << >>
              /\ start <= EndLine(t, Append(body, i)) + 1
    PROVE  /\ EmitBodyChunks(t, header, body, start)
                 \in Seq(PieceIn(Short(Atom, MaxTokens))) \ {<< >>}
           /\ EmitBodyChunks(t, header, body, start) \in Seq(Piece)
<1> DEFINE T == Short(Atom, MaxTokens)
           P == PieceIn(T)
           S == Statements(t, body)
           groups == GroupStatements(t, body, Budget(header))
           n == Len(groups)
           Span(g) == TextOf(t, SubSeq(Children(t, body), g[1], g[2]))
           Emit(g) == Pieces(SplitOversized(header \o <<NL>> \o Span(g), MaxTokens),
                             start, EndLine(t, Append(body, g[2])))
           parts == [i \in DOMAIN groups |-> Emit(groups[i])]
<1>1. groups \in Seq(S \X S) \ {<< >>}
  <2>1. Budget(header) \in Int
    BY BudgetTyped
  <2> QED BY <2>1, GroupsTyped
<1>2. EmitBodyChunks(t, header, body, start) = FlattenSeq(parts)
  BY DEF EmitBodyChunks, Concat, Each
<1>3. ASSUME NEW g \in S \X S
      PROVE  Emit(g) \in Seq(P) \ {<< >>}
  <2> DEFINE children == Children(t, body)
             m == t[body].kids
  <2>1. /\ children \in Seq(DOMAIN t) /\ Len(children) = m /\ m \in Nat
        /\ \A k \in 1 .. m : Append(body, k) \in DOMAIN t
    BY NodeTyped
  <2>2. S \in SUBSET (1 .. m)
    BY StatementsTyped
  <2> HIDE DEF S
  <2>3. g[1] \in S /\ g[2] \in S
    OBVIOUS
  <2>4. SubSeq(children, g[1], g[2]) \in Seq(DOMAIN t)
    <3>1. g[1] \in 1 .. m /\ g[2] \in 1 .. m
      BY <2>2, <2>3
    <3> HIDE DEF children, m
    <3>2. g[1] \in Int /\ g[2] \in Int /\ \A k \in g[1] .. g[2] : k \in 1 .. m
      BY <2>1, <3>1
    <3>3. \A k \in 1 .. m : children[k] \in DOMAIN t
      BY <2>1
    <3> QED BY <3>2, <3>3, SubSeqProperties
  <2>5. Span(g) \in Seq(Atom)
    BY <2>4, TextOfTyped
  <2> HIDE DEF Span
  <2>6. header \o <<NL>> \o Span(g) \in Seq(Atom)
    BY <2>5, AtomsAre
  <2>7. SplitOversized(header \o <<NL>> \o Span(g), MaxTokens) \in Seq(T) \ {<< >>}
    BY <2>6, AtomsAre, SplitTyped, MaxTokensAssumption
  <2>8. Append(body, g[2]) \in DOMAIN t /\ Text(t, Append(body, g[2])) # << >>
    BY <2>1, <2>2, <2>3 DEF S
  <2>9. EndLine(t, Append(body, g[2])) \in Int
    BY <2>8, LineTyped
  <2>10. start <= EndLine(t, Append(body, g[2])) + 1
    BY <2>3 DEF S
  <2>11. T \in SUBSET Seq(Atom)
    BY DEF Short
  <2> HIDE DEF T
  <2> QED BY <2>7, <2>9, <2>10, <2>11, PiecesTyped
<1> HIDE DEF Emit, groups, P, T
<1>4. n \in Nat /\ n >= 1 /\ DOMAIN groups = 1 .. n /\ \A i \in 1 .. n : groups[i] \in S \X S
  <2> HIDE DEF S
  <2> QED BY <1>1, EmptySeq
<1> HIDE DEF S
<1>5. \A i \in 1 .. n : parts[i] \in Seq(P) \ {<< >>}
  BY <1>3, <1>4
<1>6. parts \in [1 .. n -> Seq(P)]
  BY <1>3, <1>4
<1> HIDE DEF parts, n
<1>7. parts \in Seq(Seq(P)) /\ Len(parts) = n
  BY <1>4, <1>6, SeqOfFunction
<1>8. parts # << >> /\ parts[1] # << >>
  <2>1. 1 \in 1 .. n
    BY <1>4
  <2> QED BY <1>4, <1>5, <1>7, <2>1, EmptySeq
<1>9. P \subseteq Piece
  BY DEF P, PieceIn
<1>10. FlattenSeq(parts) \in Seq(P) \ {<< >>}
  BY <1>7, <1>8, FlattenTyped, FlattenNonEmpty
<1>11. FlattenSeq(parts) \in Seq(Piece)
  BY <1>9, <1>10
<1> QED BY <1>2, <1>10, <1>11 DEF P, T

LEMMA FrontLast ==
    ASSUME NEW S, NEW s \in Seq(S), s # << >>
    PROVE  /\ Front(s) \in Seq(S) /\ Len(Front(s)) = Len(s) - 1 /\ Last(s) \in S
           /\ Append(Front(s), Last(s)) = s
           /\ \A i \in 1 .. Len(s) - 1 : Front(s)[i] = s[i]
<1> DEFINE n == Len(s)
           front == SubSeq(s, 1, n - 1)
           whole == Append(front, s[n])
<1>1. n \in Nat /\ n >= 1 /\ \A i \in 1 .. n : s[i] \in S
  BY EmptySeq
<1>2. front \in Seq(S) /\ Len(front) = n - 1 /\ \A i \in 1 .. n - 1 : front[i] = s[i]
  <2>1. 1 \in Int /\ n - 1 \in Int /\ (\A i \in 1 .. n - 1 : s[i] \in S)
    BY <1>1
  <2>2. (IF 1 <= n - 1 THEN n - 1 - 1 + 1 ELSE 0) = n - 1 /\ n - 1 - 1 + 1 = n - 1
    <3> HIDE DEF n
    <3> QED BY <1>1
  <2>3. /\ front \in Seq(S) /\ Len(front) = IF 1 <= n - 1 THEN n - 1 - 1 + 1 ELSE 0
        /\ \A i \in 1 .. n - 1 - 1 + 1 : front[i] = s[1 + i - 1]
    BY <2>1, SubSeqProperties
  <2> HIDE DEF front, n
  <2> QED BY <2>2, <2>3
<1> HIDE DEF front
<1>3. s[n] \in S /\ n \in 1 .. n
  BY <1>1
<1>4. whole \in Seq(S) /\ Len(whole) = n /\ \A i \in 1 .. n : whole[i] = s[i]
  <2>1. /\ whole \in Seq(S) /\ Len(whole) = n - 1 + 1 /\ whole[n - 1 + 1] = s[n]
        /\ \A i \in 1 .. n - 1 : whole[i] = front[i]
    BY <1>2, <1>3, AppendProperties
  <2> HIDE DEF whole, n
  <2> QED BY <1>1, <1>2, <2>1
<1> HIDE DEF whole
<1>5. whole = s
  BY <1>4, SeqEqual
<1>6. Front(s) = front /\ Last(s) = s[n]
  BY DEF Front, Last, front
<1> QED BY <1>2, <1>3, <1>5, <1>6 DEF whole

LEMMA FrontOfAppend ==
    ASSUME NEW S, NEW s \in Seq(S), NEW x \in S
    PROVE  Append(s, x) # << >> /\ Front(Append(s, x)) = s
<1> DEFINE a == Append(s, x)
           n == Len(s)
<1>1. a \in Seq(S) /\ Len(a) = n + 1 /\ n \in Nat /\ \A i \in 1 .. n : a[i] = s[i]
  BY AppendProperties
<1> HIDE DEF a
<1>2. a # << >>
  BY <1>1, EmptySeq
<1> DEFINE f == Front(a)
<1>3. /\ f \in Seq(S) /\ Len(f) = Len(a) - 1
      /\ \A i \in 1 .. Len(a) - 1 : f[i] = a[i]
  BY <1>1, <1>2, FrontLast
<1> HIDE DEF f
<1>4. Len(f) = n /\ \A i \in 1 .. n : f[i] = s[i]
  <2>1. Len(a) - 1 = n
    BY <1>1
  <2> QED BY <1>1, <1>3, <2>1
<1>5. f = s
  BY <1>3, <1>4, SeqEqual
<1> QED BY <1>2, <1>5 DEF a, f

LEMMA HasBodyBy ==
    ASSUME NEW t, IsTree(t), NEW p \in DOMAIN t, NEW k \in 1 .. t[p].kids,
           t[Append(p, k)].kind \in BodyKinds
    PROVE  HasBody(t, p)
<1> DEFINE children == Children(t, p)
           blocks == {i \in 1 .. Len(children) : t[children[i]].kind \in BodyKinds}
<1>1. /\ children \in Seq(DOMAIN t) /\ Len(children) = t[p].kids /\ t[p].kids \in Nat
      /\ \A i \in 1 .. t[p].kids : children[i] = Append(p, i)
  BY NodeTyped
<1>2. BodyIndex(t, p) = IF blocks # {} THEN Min(blocks) ELSE 0
  BY DEF BodyIndex, FirstChild, SelectInSeq
<1>3. k \in blocks /\ blocks \subseteq Nat
  <2> HIDE DEF children
  <2>1. k \in 1 .. Len(children) /\ children[k] = Append(p, k)
    BY <1>1
  <2>2. t[children[k]].kind \in BodyKinds
    BY <2>1
  <2>3. k \in blocks
    BY <2>1, <2>2
  <2>4. \A i \in blocks : i \in Nat
    BY <1>1
  <2> QED BY <2>3, <2>4
<1>4. Min(blocks) \in blocks
  <2> HIDE DEF blocks
  <2> QED BY <1>3, MinIsOne
<1>5. Min(blocks) > 0
  BY <1>4
<1> QED BY <1>2, <1>3, <1>5 DEF HasBody

LEMMA FunctionHeaderTyped ==
    ASSUME NEW t, IsTree(t), NEW p \in DOMAIN t, HasBody(t, p)
    PROVE  BuildFunctionHeader(t, p) \in Seq(Atom)
<1> DEFINE f == Front(p)
           c == Front(f)
           inClass == /\ Len(p) >= 2 /\ t[f].kind \in BodyKinds
                      /\ t[c].kind \in ClassKinds
<1>1. BeforeBody(t, p) \in Seq(Atom)
  BY BodyTyped
<1>2. BuildFunctionHeader(t, p) = IF inClass THEN BeforeBody(t, c) \o <<Dots, NL, NL>> \o BeforeBody(t, p)
                                  ELSE BeforeBody(t, p)
  BY DEF BuildFunctionHeader
<1>3. CASE inClass
  <2>1. p \in Seq(Nat) /\ p # << >>
    BY <1>3, NodeTyped
  <2>2. f \in DOMAIN t /\ Len(f) = Len(p) - 1 /\ f \in Seq(Nat)
    BY <2>1, FrontLast DEF IsTree
  <2>3. f # << >>
    BY <1>3, <2>1, <2>2
  <2> HIDE DEF f
  <2>4. c \in DOMAIN t /\ Last(f) \in 1 .. t[c].kids /\ Append(c, Last(f)) = f
    BY <2>2, <2>3, FrontLast DEF IsTree
  <2> HIDE DEF c
  <2>5. HasBody(t, c)
    BY <1>3, <2>4, HasBodyBy
  <2>6. BeforeBody(t, c) \in Seq(Atom)
    BY <2>4, <2>5, BodyTyped
  <2>7. <<Dots, NL, NL>> \in Seq(Atom)
    BY AtomsAre
  <2>8. \A x, y, z \in Seq(Atom) : x \o y \o z \in Seq(Atom)
    OBVIOUS
  <2> QED BY <1>1, <1>2, <1>3, <2>6, <2>7, <2>8
<1> QED BY <1>1, <1>2, <1>3

\* A declaration has a piece, whatever its size and its kind.
LEMMA DeclaredIs ==
    ASSUME NEW t, IsParsed(t), NEW p \in DOMAIN t, t[p].kind \in Declarations
    PROVE  p # << >> /\ t[p].kind \notin Unnamed
<1>1. p # << >>
  BY DEF IsParsed
<1>2. t[p].kind \notin Unnamed
  BY DEF Declarations, ClassKinds, FunctionKinds, Unnamed
<1> QED BY <1>1, <1>2

\* A named node ends where it begins or behind, and has the lines in between.
LEMMA NamedLines ==
    ASSUME NEW t, IsTree(t), IsParsed(t),
           NEW p \in DOMAIN t, p # << >>, t[p].kind \notin Unnamed
    PROVE  /\ Text(t, p) # << >>
           /\ StartLine(t, p) \in Int /\ EndLine(t, p) \in Int
           /\ StartLine(t, Front(p)) <= StartLine(t, p)
           /\ StartLine(t, p) <= EndLine(t, p)
           /\ LineCount(Text(t, p)) = EndLine(t, p) - StartLine(t, p) + 1 + OtherBreaks(Text(t, p))
<1> DEFINE text == Text(t, p)
           n == Len(text)
<1>1. HasLines(t, p)
  BY DEF IsParsed
<1>2. text \in Seq(Atom)
  BY NodeTyped
<1>3. text # << >> /\ Last(text) \notin LineBreaks
  BY <1>1 DEF HasLines
<1>4. \A i \in DOMAIN text :
         text[i] \notin LineBreaks => text[i][1] = StartLine(t, p) + Breaks(text, i)
  BY <1>1 DEF HasLines
<1>5. EndLine(t, p) = Last(text)[1] /\ StartLine(t, p) = Head(text)[1]
  BY DEF EndLine, StartLine
<1> HIDE DEF text
<1>6. n \in Nat /\ n \in DOMAIN text /\ 1 \in DOMAIN text /\ Last(text) = text[n] /\ Head(text) = text[1]
  BY <1>2, <1>3, EmptySeq DEF Last
<1>7. LineCount(text) = Breaks(text, n) + OtherBreaks(text) + 1 /\ OtherBreaks(text) \in Nat
  BY <1>2, <1>3, CountBreaks, OtherBreaksNat
<1>8. EndLine(t, p) = StartLine(t, p) + Breaks(text, n)
  BY <1>3, <1>4, <1>5, <1>6
<1>9. StartLine(t, p) \in Int /\ Breaks(text, n) \in Nat
  <2>1. text[1] \in Atom
    BY <1>2, <1>6
  <2>2. Head(text)[1] \in Int
    BY <1>6, <2>1 DEF Atom
  <2> QED BY <1>5, <1>6, <2>2, NextBreak
<1>10. text # << >> /\ StartLine(t, Front(p)) <= StartLine(t, p)
  BY <1>1 DEF HasLines, text
<1> QED BY <1>7, <1>8, <1>9, <1>10 DEF text

\* A statement of a declaration ends behind where the declaration begins.
LEMMA StatementLines ==
    ASSUME NEW t, IsTree(t), IsParsed(t), NEW p \in DOMAIN t, t[p].kind \in Declarations,
           HasBody(t, p), NEW i \in Statements(t, Body(t, p))
    PROVE  /\ Text(t, Append(Body(t, p), i)) # << >>
           /\ StartLine(t, p) <= EndLine(t, Append(Body(t, p), i)) + 1
<1> DEFINE b == Body(t, p)
           q == Append(b, i)
<1>1. /\ b \in DOMAIN t /\ b = Append(p, BodyIndex(t, p)) /\ t[b].kind \in BodyKinds
      /\ BodyIndex(t, p) \in 1 .. t[p].kids
  BY BodyTyped
<1>2. p \in Seq(Nat) /\ t[p].kids \in Nat /\ b \in Seq(Nat) /\ t[b].kids \in Nat
  BY <1>1, NodeTyped
<1>3. i \in 1 .. t[b].kids /\ t[q].kind \notin Unnamed
  BY DEF Statements
<1>4. q \in DOMAIN t
  BY <1>1, <1>3, NodeTyped
<1> HIDE DEF b
<1>5. \A s \in Seq(Nat), k \in Nat : Append(s, k) # << >> /\ Front(Append(s, k)) = s
  BY FrontOfAppend
<1>6. b # << >> /\ Front(b) = p
  BY <1>1, <1>2, <1>5
<1>7. q # << >> /\ Front(q) = b
  BY <1>2, <1>3, <1>5
<1>8. t[b].kind \notin Unnamed
  BY <1>1 DEF BodyKinds, Unnamed
<1> HIDE DEF q
<1>9. StartLine(t, b) \in Int /\ StartLine(t, p) <= StartLine(t, b)
  BY <1>1, <1>6, <1>8, NamedLines
<1>10. /\ Text(t, q) # << >>
       /\ StartLine(t, q) \in Int /\ EndLine(t, q) \in Int
       /\ StartLine(t, b) <= StartLine(t, q) /\ StartLine(t, q) <= EndLine(t, q)
  BY <1>3, <1>4, <1>7, NamedLines
<1>11. StartLine(t, p) \in Int
  BY DeclaredIs, NamedLines
<1> HIDE DEF Statements
<1>12. StartLine(t, p) <= EndLine(t, q) + 1
  BY <1>9, <1>10, <1>11
<1> QED BY <1>10, <1>12 DEF q, b

LEMMA DeclarationTyped ==
    ASSUME NEW t, IsTree(t), IsParsed(t), NEW p \in DOMAIN t, t[p].kind \in Declarations
    PROVE  /\ DeclarationPieces(t, p) \in Seq(Piece) \ {<< >>}
           /\ p # << >> /\ Text(t, p) # << >> /\ SymbolName(t, p) \in Int /\ SymbolName(t, p) # EmptyQuery
<1>1. p # << >> /\ Text(t, p) # << >>
  BY DeclaredIs, NamedLines
<1>2. StartLine(t, p) \in Int /\ EndLine(t, p) \in Int /\ StartLine(t, p) <= EndLine(t, p) + 1
  BY DeclaredIs, NamedLines
<1>3. Text(t, p) \in Seq(Atom)
  BY NodeTyped
<1>4. <<Text(t, p)>> \in Seq(Seq(Atom)) /\ <<Text(t, p)>> # << >>
  BY <1>3
<1> DEFINE T == Seq(Atom)
<1>40. T \in SUBSET Seq(Atom)
  OBVIOUS
<1> HIDE DEF T
<1>41. \A x : x \in Seq(Seq(Atom)) => x \in Seq(T)
  BY DEF T
<1>5. CollapseChildren(t, p) \in Seq(Seq(Atom)) \ {<< >>}
  BY CollapseTyped
<1>6. SplitLargeFunction(t, p) \in Seq(Piece) \ {<< >>}
  <2>1. CASE ~HasBody(t, p) \/ Statements(t, Body(t, p)) = {}
    <3>1. SplitLargeFunction(t, p) = Pieces(<<Text(t, p)>>, StartLine(t, p), EndLine(t, p))
      BY <2>1 DEF SplitLargeFunction
    <3> QED BY <1>2, <1>4, <1>40, <1>41, <3>1, PiecesTyped
  <2>2. CASE HasBody(t, p) /\ Statements(t, Body(t, p)) # {}
    <3>1. SplitLargeFunction(t, p)
            = EmitBodyChunks(t, BuildFunctionHeader(t, p), Body(t, p), StartLine(t, p))
      BY <2>2 DEF SplitLargeFunction
    <3>2. Body(t, p) \in DOMAIN t
      BY <2>2, BodyTyped
    <3>3. \A i \in Statements(t, Body(t, p)) :
             /\ Text(t, Append(Body(t, p), i)) # << >>
             /\ StartLine(t, p) <= EndLine(t, Append(Body(t, p), i)) + 1
      BY <2>2, StatementLines
    <3>4. BuildFunctionHeader(t, p) \in Seq(Atom)
      BY <2>2, FunctionHeaderTyped
    <3> QED BY <1>2, <2>2, <3>1, <3>2, <3>3, <3>4, EmitTyped
  <2> QED BY <2>1, <2>2
<1>7. DeclarationPieces(t, p) \in Seq(Piece) \ {<< >>}
  <2> DEFINE texts == IF Tokens(Text(t, p)) <= MaxTokens THEN <<Text(t, p)>> ELSE CollapseChildren(t, p)
  <2>1. texts \in Seq(Seq(Atom)) /\ texts # << >>
    BY <1>4, <1>5
  <2>2. DeclarationPieces(t, p) = IF Tokens(Text(t, p)) <= MaxTokens \/ t[p].kind \in ClassKinds
                                  THEN Pieces(texts, StartLine(t, p), EndLine(t, p))
                                  ELSE SplitLargeFunction(t, p)
    BY DEF DeclarationPieces
  <2> HIDE DEF texts
  <2>3. Pieces(texts, StartLine(t, p), EndLine(t, p)) \in Seq(Piece) \ {<< >>}
    BY <1>2, <1>40, <1>41, <2>1, PiecesTyped
  <2> QED BY <1>6, <2>2, <2>3
<1>8. SymbolName(t, p) \in Int
  <2>1. t[p].name \in Int
    BY NodeTyped
  <2>2. Front(p) \in DOMAIN t
    BY <1>1 DEF IsTree
  <2>3. t[Front(p)].name \in Int
    BY <2>2, NodeTyped
  <2> QED BY <2>1, <2>3 DEF SymbolName
<1> QED BY <1>1, <1>7, <1>8 DEF IsParsed

\* Can a declaration be cut so that its pieces fit?
Splittable(t, p) ==
    \/ Tokens(Text(t, p)) <= MaxTokens
    \/ /\ HasBody(t, p)
       /\ \/ t[p].kind \in FunctionKinds /\ Statements(t, Body(t, p)) # {}
          \/ t[p].kind \in ClassKinds /\ Tokens(BeforeBody(t, p)) < MaxTokens

\* Then they all do.
LEMMA SplittableFits ==
    ASSUME NEW t, IsTree(t), IsParsed(t), NEW p \in DOMAIN t, t[p].kind \in Declarations,
           Splittable(t, p)
    PROVE  DeclarationPieces(t, p) \in Seq(PieceIn(Short(Atom, MaxTokens))) \ {<< >>}
<1> DEFINE T == Short(Atom, MaxTokens)
           text == Text(t, p)
           start == StartLine(t, p)
           end == EndLine(t, p)
<1>1. p # << >> /\ start \in Int /\ end \in Int /\ start <= end + 1
  BY DeclaredIs, NamedLines
<1>2. text \in Seq(Atom)
  BY NodeTyped
<1>3. T \in SUBSET Seq(Atom)
  BY DEF Short
<1> HIDE DEF T, text, start, end
<1>4. ASSUME NEW texts \in Seq(T), texts # << >>
      PROVE  Pieces(texts, start, end) \in Seq(PieceIn(T)) \ {<< >>}
  BY <1>1, <1>3, <1>4, PiecesTyped
<1>5. DeclarationPieces(t, p) =
         IF Tokens(text) <= MaxTokens \/ t[p].kind \in ClassKinds
         THEN Pieces(IF Tokens(text) <= MaxTokens THEN <<text>> ELSE CollapseChildren(t, p), start, end)
         ELSE SplitLargeFunction(t, p)
  BY DEF DeclarationPieces, text, start, end
<1>6. CASE Tokens(text) <= MaxTokens
  <2>1. text \in T
    BY <1>2, <1>6 DEF T, Short, Tokens
  <2>2. <<text>> \in Seq(T) /\ <<text>> # << >>
    BY <2>1
  <2>3. DeclarationPieces(t, p) = Pieces(<<text>>, start, end)
    BY <1>5, <1>6
  <2> QED BY <1>4, <2>2, <2>3 DEF T
<1>7. CASE ~(Tokens(text) <= MaxTokens) /\ t[p].kind \in FunctionKinds
  <2>1. t[p].kind \notin ClassKinds
    BY <1>7 DEF FunctionKinds, ClassKinds
  <2>2. HasBody(t, p) /\ Statements(t, Body(t, p)) # {}
    BY <1>7, <2>1 DEF Splittable, text
  <2>3. DeclarationPieces(t, p) = EmitBodyChunks(t, BuildFunctionHeader(t, p), Body(t, p), start)
    BY <1>5, <1>7, <2>1, <2>2 DEF SplitLargeFunction, start
  <2>4. Body(t, p) \in DOMAIN t /\ BuildFunctionHeader(t, p) \in Seq(Atom)
    BY <2>2, BodyTyped, FunctionHeaderTyped
  <2>5. \A i \in Statements(t, Body(t, p)) :
           /\ Text(t, Append(Body(t, p), i)) # << >>
           /\ start <= EndLine(t, Append(Body(t, p), i)) + 1
    BY <2>2, StatementLines DEF start
  <2> QED BY <1>1, <2>2, <2>3, <2>4, <2>5, EmitTyped
<1>8. CASE ~(Tokens(text) <= MaxTokens) /\ t[p].kind \in ClassKinds
  <2> DEFINE header == BeforeBody(t, p)
             b == Body(t, p)
             units == CollectUnits(t, b)
             budget == Budget(header)
             pieces == PackUnits(header, units, budget)
  <2>1. HasBody(t, p) /\ Tokens(header) < MaxTokens
    <3>1. t[p].kind \notin FunctionKinds
      BY <1>8 DEF FunctionKinds, ClassKinds
    <3> QED BY <1>8, <3>1 DEF Splittable, text
  <2>2. /\ b \in DOMAIN t /\ t[b].kind \in BodyKinds /\ header \in Seq(Atom)
        /\ b = Append(p, BodyIndex(t, p)) /\ BodyIndex(t, p) \in 1 .. t[p].kids
    BY <2>1, BodyTyped
  <2>3. p \in Seq(Nat) /\ BodyIndex(t, p) \in Nat
    BY <2>2, NodeTyped
  <2>4. b # << >> /\ t[b].kind \notin Unnamed
    <3>1. Append(p, BodyIndex(t, p)) # << >>
      BY <2>3, FrontOfAppend
    <3> QED BY <2>2, <3>1 DEF BodyKinds, Unnamed
  <2> HIDE DEF b
  <2>5. Text(t, b) # << >>
    BY <2>2, <2>4, NamedLines
  <2>6. Text(t, b) = TextOf(t, Children(t, b))
    BY <2>2 DEF IsParsed, IsJoined
  <2>7. units # << >> /\ units \in Seq(Seq(Atom))
    BY <2>2, <2>5, <2>6, CollectSome, CollectTyped
  <2>8. budget \in Nat \ {0}
    BY <2>2, BudgetTyped
  <2>9. CollapseChildren(t, p) = pieces
    BY <2>1, <2>7 DEF CollapseChildren, Collapse, b
  <2> HIDE DEF header, units
  <2>10. budget = MaxTokens - Len(header)
    BY <2>1 DEF Budget, Tokens
  <2> HIDE DEF budget
  <2>11. pieces \in Seq(Short(Atom, Len(header) + budget)) /\ pieces # << >>
    BY <2>2, <2>7, <2>8, PackUnitsFit, PackUnitsTyped
  <2>12. Len(header) + budget = MaxTokens
    <3>1. Len(header) \in Nat /\ MaxTokens \in Nat
      BY <2>2, MaxTokensAssumption
    <3> QED BY <2>10, <3>1
  <2>13. pieces \in Seq(T)
    BY <2>11, <2>12 DEF T
  <2>14. DeclarationPieces(t, p) = Pieces(pieces, start, end)
    BY <1>5, <1>8, <2>9
  <2> HIDE DEF pieces
  <2> QED BY <1>4, <2>11, <2>13, <2>14 DEF T
<1>9. t[p].kind \in FunctionKinds \/ t[p].kind \in ClassKinds
  BY DEF Declarations
<1> QED BY <1>6, <1>7, <1>8, <1>9

----------------------------------------------------------------------------
(* The walk.                                                               *)

LEMMA PrefixIs ==
    ASSUME NEW S, NEW p \in Seq(S), NEW k \in 0 .. Len(p)
    PROVE  /\ SubSeq(p, 1, k) \in Seq(S) /\ Len(SubSeq(p, 1, k)) = k
           /\ \A i \in 1 .. k : SubSeq(p, 1, k)[i] = p[i]
<1>1. Len(p) \in Nat /\ k \in Nat /\ \A i \in 1 .. k : p[i] \in S
  OBVIOUS
<1> DEFINE q == SubSeq(p, 1, k)
<1>2. /\ q \in Seq(S) /\ Len(q) = IF 1 <= k THEN k - 1 + 1 ELSE 0
      /\ \A i \in 1 .. k - 1 + 1 : q[i] = p[1 + i - 1]
  BY <1>1, SubSeqProperties
<1>3. (IF 1 <= k THEN k - 1 + 1 ELSE 0) = k /\ k - 1 + 1 = k /\ \A i \in 1 .. k : 1 + i - 1 = i
  BY <1>1
<1> HIDE DEF q
<1> QED BY <1>2, <1>3 DEF q

\* A prefix of a prefix.
LEMMA PrefixOfPrefix ==
    ASSUME NEW S, NEW p \in Seq(S), NEW k \in 0 .. Len(p), NEW i \in 0 .. k
    PROVE  SubSeq(SubSeq(p, 1, k), 1, i) = SubSeq(p, 1, i)
<1> DEFINE q == SubSeq(p, 1, k)
           r == SubSeq(q, 1, i)
           s == SubSeq(p, 1, i)
<1>1. Len(p) \in Nat /\ k \in Nat /\ i \in Nat /\ i \in 0 .. Len(p)
  OBVIOUS
<1>2. q \in Seq(S) /\ Len(q) = k /\ \A j \in 1 .. k : q[j] = p[j]
  BY PrefixIs
<1> HIDE DEF q
<1>3. r \in Seq(S) /\ Len(r) = i /\ \A j \in 1 .. i : r[j] = q[j]
  BY <1>2, PrefixIs
<1>4. s \in Seq(S) /\ Len(s) = i /\ \A j \in 1 .. i : s[j] = p[j]
  BY <1>1, PrefixIs
<1> HIDE DEF r, s
<1>5. \A j \in 1 .. i : r[j] = s[j]
  BY <1>1, <1>2, <1>3, <1>4
<1>6. r = s
  BY <1>3, <1>4, <1>5, SeqEqual
<1> QED BY <1>6 DEF r, s, q

LEMMA PrefixPlace ==
    ASSUME NEW t, IsTree(t), NEW p \in DOMAIN t, NEW k \in 0 .. Len(p)
    PROVE  SubSeq(p, 1, k) \in DOMAIN t
<1> DEFINE n == Len(p)
           P == {i \in 0 .. n : SubSeq(p, 1, n - i) \in DOMAIN t}
<1>1. p \in Seq(Nat) /\ n \in Nat
  BY NodeTyped
<1>2. 0 \in P
  <2>1. n - 0 = n /\ n \in 0 .. n /\ 0 \in 0 .. n
    BY <1>1
  <2> DEFINE q == SubSeq(p, 1, n)
  <2>2. q \in Seq(Nat) /\ Len(q) = n /\ \A i \in 1 .. n : q[i] = p[i]
    BY <1>1, <2>1, PrefixIs
  <2> HIDE DEF q
  <2>3. q = p
    BY <1>1, <2>2, SeqEqual
  <2> QED BY <2>1, <2>3 DEF q
<1>3. ASSUME NEW i \in 0 .. n - 1, i \in P
      PROVE  i + 1 \in P
  <2> DEFINE m == n - i
             q == SubSeq(p, 1, m)
  <2>1. m \in 0 .. n /\ m >= 1 /\ m - 1 \in 0 .. m /\ n - (i + 1) = m - 1 /\ i + 1 \in 0 .. n
    BY <1>1
  <2>2. q \in DOMAIN t
    BY <1>3
  <2> HIDE DEF m
  <2>3. q \in Seq(Nat) /\ Len(q) = m
    BY <1>1, <2>1, PrefixIs
  <2>4. q # << >>
    BY <2>1, <2>3
  <2>5. Front(q) \in DOMAIN t
    BY <2>2, <2>4 DEF IsTree
  <2>6. Front(q) = SubSeq(q, 1, m - 1)
    BY <2>3 DEF Front
  <2>7. SubSeq(q, 1, m - 1) = SubSeq(p, 1, m - 1)
    BY <1>1, <2>1, PrefixOfPrefix
  <2> HIDE DEF q
  <2> QED BY <2>1, <2>5, <2>6, <2>7
<1> HIDE DEF P
<1>4. n - k \in 0 .. n /\ n - (n - k) = k
  BY <1>1
<1>5. \A i \in 0 .. n : i \in P
  BY <1>1, <1>2, <1>3, UpTo0
<1> QED BY <1>4, <1>5 DEF P

\* The declaration around a place is walked before it.
LEMMA OwnerWalked ==
    ASSUME NEW t, IsTree(t), NEW p \in Walked(t), Above(t, p) # {}
    PROVE  LET q == SubSeq(p, 1, Max(Above(t, p)))
           IN  q \in Walked(t) /\ q # p /\ LexLess(q, p)
<1> DEFINE m == Max(Above(t, p))
           q == SubSeq(p, 1, m)
<1>1. p \in DOMAIN t /\ p \in Seq(Nat) /\ Len(p) \in Nat
  BY NodeTyped DEF Walked
<1>2. \A i \in Above(t, p) : i \in 0 .. Len(p) - 1 /\ i \in Nat /\ i <= Len(p)
  BY <1>1 DEF Above
<1>3. m \in Above(t, p)
  BY <1>1, <1>2, MaxOfBounded
<1>4. m \in 0 .. Len(p) - 1 /\ m \in 0 .. Len(p) /\ m \in Nat /\ t[q].kind \in Declarations
  BY <1>1, <1>2, <1>3 DEF Above
<1> HIDE DEF m
<1>5. q \in DOMAIN t
  BY <1>1, <1>4, PrefixPlace
<1>6. q \in Seq(Nat) /\ Len(q) = m /\ \A i \in 1 .. m : q[i] = p[i]
  BY <1>1, <1>4, PrefixIs
<1>7. ASSUME NEW i \in 0 .. m - 1
      PROVE  /\ SubSeq(q, 1, i) = SubSeq(p, 1, i) /\ q[i + 1] = p[i + 1]
             /\ i \in 0 .. Len(p) - 1
  <2>1. i \in 0 .. m /\ i + 1 \in 1 .. m /\ i \in 0 .. Len(p) - 1
    BY <1>1, <1>4
  <2>2. SubSeq(q, 1, i) = SubSeq(p, 1, i)
    BY <1>1, <1>4, <2>1, PrefixOfPrefix
  <2> HIDE DEF q
  <2> QED BY <1>6, <2>1, <2>2
<1> HIDE DEF q
<1>8. ASSUME NEW i \in Above(t, q)
      PROVE  q[i + 1] = BodyIndex(t, SubSeq(q, 1, i))
  <2>1. i \in 0 .. m - 1 /\ t[SubSeq(q, 1, i)].kind \in Declarations
    BY <1>6 DEF Above
  <2>2. SubSeq(q, 1, i) = SubSeq(p, 1, i) /\ q[i + 1] = p[i + 1] /\ i \in 0 .. Len(p) - 1
    BY <1>7, <2>1
  <2>3. i \in Above(t, p)
    BY <2>1, <2>2 DEF Above
  <2>4. p[i + 1] = BodyIndex(t, SubSeq(p, 1, i))
    BY <2>3 DEF Walked
  <2> QED BY <2>2, <2>4
<1>9. q \in Walked(t)
  BY <1>4, <1>5, <1>8 DEF Walked, q
<1>10. q # p
  BY <1>1, <1>4, <1>6
<1>11. LexLess(q, p)
  <2> DEFINE i == m + 1
  <2>1. i \in 1 .. Len(p) /\ i > Len(q) /\ i - 1 = m
    BY <1>1, <1>4, <1>6
  <2>2. \A j \in 1 .. i - 1 : j <= Len(q) /\ q[j] = p[j]
    BY <1>4, <1>6, <2>1
  <2> HIDE DEF i
  <2> QED BY <2>1, <2>2 DEF LexLess
<1> QED BY <1>9, <1>10, <1>11 DEF q, m

LEMMA WalkOrdered ==
    ASSUME NEW t, IsTree(t)
    PROVE  LET W == Walked(t)
               o == InWalkOrder(W)
           IN  /\ IsFiniteSet(W) /\ Cardinality(W) \in Nat
               /\ o \in Seq(W) /\ Len(o) = Cardinality(W)
               /\ \A p \in W : \E k \in 1 .. Cardinality(W) : o[k] = p
               /\ \A i, j \in 1 .. Cardinality(W) : i < j => LexLess(o[i], o[j])
<1> DEFINE W == Walked(t)
           o == InWalkOrder(W)
           m == Cardinality(W)
           less == {pq \in W \X W : LexLess(pq[1], pq[2])}
<1>1. IsFiniteSet(W) /\ m \in Nat
  <2>1. W \subseteq DOMAIN t /\ IsFiniteSet(DOMAIN t)
    BY DEF Walked, IsTree
  <2>2. IsFiniteSet(W)
    BY <2>1, FS_Subset
  <2> QED BY <2>2, FS_CardinalityType
<1>2. \A p \in W : p \in Seq(Int)
  <2>1. \A p \in DOMAIN t : p \in Seq(Nat)
    BY NodeTyped
  <2>2. \A p \in Seq(Nat) : p \in Seq(Int)
    OBVIOUS
  <2> QED BY <2>1, <2>2 DEF Walked
<1> HIDE DEF W
<1>3. \A p, q \in W : <<p, q>> \in less <=> LexLess(p, q)
  OBVIOUS
<1>4. o = InOrder(W, less)
  BY DEF InWalkOrder
<1> HIDE DEF less
<1>5. Sorting(less, W)
  <2>1. \A p \in W : ~LexLess(p, p)
    BY <1>2, LexIrreflexive
  <2>2. \A p, q, r \in W : LexLess(p, q) /\ LexLess(q, r) => LexLess(p, r)
    BY <1>2, LexTransitive
  <2>3. \A p, q \in W : p = q \/ LexLess(p, q) \/ LexLess(q, p)
    BY <1>2, LexTotal
  <2> QED BY <1>3, <2>1, <2>2, <2>3 DEF Sorting
<1>6. SortedBy(o, W, less)
  BY <1>1, <1>4, <1>5, InOrderSorts
<1>7. /\ o \in [1 .. m -> W]
      /\ \A x \in W : \E k \in 1 .. m : o[k] = x
      /\ \A i, j \in 1 .. m : i < j => <<o[i], o[j]>> \in less
  BY <1>6 DEF SortedBy
<1> HIDE DEF o, m
<1>8. o \in Seq(W) /\ Len(o) = m
  BY <1>1, <1>7, SeqOfFunction
<1>9. \A i, j \in 1 .. m : i < j => LexLess(o[i], o[j])
  BY <1>3, <1>7
<1> QED BY <1>1, <1>7, <1>8, <1>9 DEF o, m, W

\* The chunks of a symbol: one for each piece.
Chonk(symbol, pieces, i) ==
    [id |-> <<symbol.id, i>>, symbol |-> symbol.id, piece |-> i - 1,
     count |-> Len(pieces),
     prev |-> IF i > 1 THEN <<symbol.id, i - 1>> ELSE Nil,
     next |-> IF i < Len(pieces) THEN <<symbol.id, i + 1>> ELSE Nil,
     content |-> pieces[i].text, start |-> pieces[i].start, end |-> pieces[i].end,
     signature |-> symbol.signature]

LEMMA ChonksAre ==
    ASSUME NEW symbol, NEW pieces
    PROVE  MakeChonks(symbol, pieces) = {Chonk(symbol, pieces, i) : i \in DOMAIN pieces}
BY DEF MakeChonks, Chonk

LEMMA ChonksOf ==
    ASSUME NEW symbol, NEW pieces \in Seq(Piece) \ {<< >>}
    PROVE  \E c \in MakeChonks(symbol, pieces) : c.symbol = symbol.id
<1>1. 1 \in DOMAIN pieces
  <2>1. Len(pieces) \in Nat \ {0} /\ DOMAIN pieces = 1 .. Len(pieces)
    BY EmptySeq
  <2> QED BY <2>1
<1>2. Chonk(symbol, pieces, 1).symbol = symbol.id
  BY DEF Chonk
<1> QED BY <1>1, <1>2, ChonksAre

\* The symbols of a code file: its own and, in the order of the walk, those of
\* the declarations.
SymbolAt(file, o, i) == IF i = 1 THEN FileSymbol(file) ELSE DeclaredSymbol(file, o[i - 1])

LEMMA CodeSymbols ==
    ASSUME NEW file, IsFile(file)
    PROVE  LET symbols == CodeChunker(file).symbols
               o == InWalkOrder(Walked(file.tree))
               m == Cardinality(Walked(file.tree))
           IN  /\ DOMAIN symbols = 1 .. m + 1 /\ m \in Nat
               /\ \A i \in 1 .. m + 1 : symbols[i] = SymbolAt(file, o, i)
               /\ \A i \in 2 .. m + 1 : o[i - 1] \in Walked(file.tree)
               /\ symbols \in Seq({FileSymbol(file)} \cup {DeclaredSymbol(file, p) : p \in Walked(file.tree)})
               /\ Len(symbols) = m + 1
<1> DEFINE W == Walked(file.tree)
           o == InWalkOrder(W)
           m == Cardinality(W)
           first == FileSymbol(file)
           rest == [i \in DOMAIN o |-> DeclaredSymbol(file, o[i])]
           S == {first} \cup {DeclaredSymbol(file, p) : p \in W}
           symbols == CodeChunker(file).symbols
<1>1. m \in Nat /\ o \in Seq(W) /\ Len(o) = m
  <2>1. IsTree(file.tree)
    BY DEF IsFile
  <2> QED BY <2>1, WalkOrdered
<1>2. symbols = <<first>> \o rest
  BY DEF CodeChunker, Result, WalkSymbols, Each
<1> HIDE DEF m, o, symbols
<1>3. DOMAIN o = 1 .. m /\ \A i \in 1 .. m : o[i] \in W
  <2> HIDE DEF W
  <2> QED BY <1>1
<1>4. rest \in [1 .. m -> S] /\ \A i \in 1 .. m : rest[i] = DeclaredSymbol(file, o[i])
  <2> HIDE DEF W
  <2> QED BY <1>3
<1>5. first \in S
  OBVIOUS
<1> HIDE DEF rest, S, first
<1>6. rest \in Seq(S) /\ Len(rest) = m
  BY <1>1, <1>4, SeqOfFunction
<1>7. <<first>> \in Seq(S) /\ Len(<<first>>) = 1 /\ <<first>>[1] = first
  BY <1>5
<1>8. /\ symbols \in Seq(S) /\ Len(symbols) = 1 + m
      /\ \A i \in 1 .. 1 + m : symbols[i] = IF i <= 1 THEN <<first>>[i] ELSE rest[i - 1]
  BY <1>2, <1>6, <1>7, ConcatProperties
<1>9. DOMAIN symbols = 1 .. m + 1 /\ Len(symbols) = m + 1
  BY <1>1, <1>8
<1>10. ASSUME NEW i \in 1 .. m + 1
       PROVE  symbols[i] = SymbolAt(file, o, i)
  <2>1. CASE i = 1
    <3>1. symbols[1] = first
      BY <1>1, <1>7, <1>8, <2>1
    <3> QED BY <2>1, <3>1 DEF SymbolAt, first
  <2>2. CASE i # 1
    <3>1. i - 1 \in 1 .. m /\ ~(i <= 1) /\ i \in 1 .. 1 + m
      BY <1>1, <2>2
    <3>2. symbols[i] = rest[i - 1]
      BY <1>8, <3>1
    <3>3. rest[i - 1] = DeclaredSymbol(file, o[i - 1])
      BY <1>4, <3>1
    <3> QED BY <2>2, <3>2, <3>3 DEF SymbolAt
  <2> QED BY <2>1, <2>2
<1>11. ASSUME NEW i \in 2 .. m + 1
       PROVE  o[i - 1] \in W
  <2>1. i - 1 \in 1 .. m
    BY <1>1
  <2> QED BY <1>3, <2>1
<1> QED BY <1>1, <1>8, <1>9, <1>10, <1>11 DEF m, o, symbols, S, first

----------------------------------------------------------------------------
(* What insert_symbols asks for.                                           *)

\* The parent of every symbol is inserted before it.
ParentFirst(symbols, i) ==
    symbols[i].parent # Nil => \E j \in 1 .. i - 1 : symbols[j].id = symbols[i].parent

LEMMA CodeParents ==
    ASSUME NEW file, IsFile(file), file.form = "code"
    PROVE  \A i \in DOMAIN CodeChunker(file).symbols : ParentFirst(CodeChunker(file).symbols, i)
<1> DEFINE symbols == CodeChunker(file).symbols
           t == file.tree
           W == Walked(t)
           o == InWalkOrder(W)
           m == Cardinality(W)
<1>1. /\ DOMAIN symbols = 1 .. m + 1 /\ m \in Nat
      /\ \A i \in 1 .. m + 1 : symbols[i] = SymbolAt(file, o, i)
      /\ \A i \in 2 .. m + 1 : o[i - 1] \in W
  BY CodeSymbols
<1>2. IsTree(t)
  BY DEF IsFile
<1>3. /\ \A p \in W : \E k \in 1 .. m : o[k] = p
      /\ \A i, j \in 1 .. m : i < j => LexLess(o[i], o[j])
  BY <1>2, WalkOrdered
<1>4. \A p \in W : p \in Seq(Int)
  <2>1. \A p \in DOMAIN t : p \in Seq(Nat)
    BY <1>2, NodeTyped
  <2>2. \A p \in Seq(Nat) : p \in Seq(Int)
    OBVIOUS
  <2> QED BY <2>1, <2>2 DEF Walked
<1> HIDE DEF symbols, W, o, m
<1>5. symbols[1].id = FileId(file) /\ symbols[1].parent = Nil
  <2>1. symbols[1] = FileSymbol(file)
    <3>1. 1 \in 1 .. m + 1
      BY <1>1
    <3> QED BY <1>1, <3>1 DEF SymbolAt
  <2> QED BY <2>1 DEF FileSymbol, Symbol
<1>6. ASSUME NEW i \in 1 .. m + 1, symbols[i].parent # Nil
      PROVE  \E j \in 1 .. i - 1 : symbols[j].id = symbols[i].parent
  <2> DEFINE p == o[i - 1]
  <2>1. i # 1 /\ i \in 2 .. m + 1 /\ i - 1 \in 1 .. m /\ 1 \in 1 .. i - 1
    BY <1>1, <1>5, <1>6
  <2>2. p \in W /\ symbols[i] = DeclaredSymbol(file, p)
    BY <1>1, <2>1 DEF SymbolAt
  <2> HIDE DEF p
  <2>3. symbols[i].parent = Owner(file, p)
    BY <2>2 DEF DeclaredSymbol, Symbol
  <2>4. CASE Above(t, p) = {}
    <3>1. symbols[i].parent = FileId(file)
      BY <2>3, <2>4 DEF Owner
    <3> QED BY <1>5, <2>1, <3>1
  <2>5. CASE Above(t, p) # {}
    <3> DEFINE q == SubSeq(p, 1, Max(Above(t, p)))
    <3>1. q \in W /\ q # p /\ LexLess(q, p)
      BY <1>2, <2>2, <2>5, OwnerWalked DEF W
    <3>2. symbols[i].parent = SymbolId(file, q)
      BY <2>3, <2>5 DEF Owner
    <3> HIDE DEF q
    <3>3. PICK k \in 1 .. m : o[k] = q
      BY <1>3, <3>1
    <3>4. k < i - 1
      <4>1. k # i - 1
        BY <3>1, <3>3 DEF p
      <4>2. ASSUME i - 1 < k
            PROVE  FALSE
        <5>1. LexLess(p, q)
          BY <1>3, <2>1, <3>3, <4>2 DEF p
        <5>2. LexLess(q, q)
          BY <1>4, <2>2, <3>1, <5>1, LexTransitive
        <5> QED BY <1>4, <3>1, <5>2, LexIrreflexive
      <4> QED BY <2>1, <4>1, <4>2
    <3>5. k + 1 \in 1 .. i - 1 /\ k + 1 \in 1 .. m + 1 /\ k + 1 # 1 /\ (k + 1) - 1 = k
      BY <1>1, <2>1, <3>4
    <3>6. symbols[k + 1] = DeclaredSymbol(file, q)
      BY <1>1, <3>3, <3>5 DEF SymbolAt
    <3>7. symbols[k + 1].id = SymbolId(file, q)
      BY <3>6 DEF DeclaredSymbol, Symbol
    <3> QED BY <3>2, <3>5, <3>7
  <2> QED BY <2>4, <2>5
<1> QED BY <1>1, <1>6 DEF ParentFirst, symbols

\* A symbol that is not that of the file is that of a declaration.
LEMMA DeclaredAt ==
    ASSUME NEW file, IsFile(file),
           NEW i \in DOMAIN CodeChunker(file).symbols, CodeChunker(file).symbols[i].type # "file"
    PROVE  \E p \in Walked(file.tree) : CodeChunker(file).symbols[i] = DeclaredSymbol(file, p)
<1> DEFINE symbols == CodeChunker(file).symbols
           W == Walked(file.tree)
           o == InWalkOrder(W)
           m == Cardinality(W)
           p == o[i - 1]
<1>1. /\ DOMAIN symbols = 1 .. m + 1 /\ m \in Nat
      /\ \A k \in 1 .. m + 1 : symbols[k] = SymbolAt(file, o, k)
      /\ \A k \in 2 .. m + 1 : o[k - 1] \in W
  BY CodeSymbols
<1> HIDE DEF m, o
<1>2. i # 1
  <2>1. FileSymbol(file).type = "file"
    BY DEF FileSymbol, Symbol
  <2>2. i \in 1 .. m + 1
    BY <1>1
  <2> QED BY <1>1, <2>1, <2>2 DEF SymbolAt
<1>3. p \in W /\ symbols[i] = DeclaredSymbol(file, p)
  <2>1. i \in 2 .. m + 1 /\ i \in 1 .. m + 1
    BY <1>1, <1>2
  <2> HIDE DEF symbols
  <2>2. symbols[i] = SymbolAt(file, o, i)
    BY <1>1, <2>1
  <2> QED BY <1>1, <1>2, <2>1, <2>2 DEF SymbolAt
<1> QED BY <1>3

LEMMA WalkedIs ==
    ASSUME NEW file, IsFile(file), file.form = "code", NEW p \in Walked(file.tree)
    PROVE  /\ IsTree(file.tree) /\ IsParsed(file.tree) /\ p \in DOMAIN file.tree
           /\ file.tree[p].kind \in Declarations
BY DEF Walked, IsFile

\* Every class and every function has a chunk, a dropped one included.
LEMMA CodeOwners ==
    ASSUME NEW file, IsFile(file), file.form = "code",
           NEW i \in DOMAIN CodeChunker(file).symbols, CodeChunker(file).symbols[i].type # "file"
    PROVE  CodeChunker(file).symbols[i].id \in {c.symbol : c \in CodeChunker(file).chunks}
<1> DEFINE symbols == CodeChunker(file).symbols
           chunks == CodeChunker(file).chunks
           t == file.tree
           W == Walked(t)
<1>3. PICK p \in W : symbols[i] = DeclaredSymbol(file, p)
  BY DeclaredAt
<1> HIDE DEF symbols
<1>4. p \in DOMAIN t /\ t[p].kind \in Declarations /\ IsTree(t) /\ IsParsed(t)
  BY <1>3, WalkedIs
<1>5. DeclarationPieces(t, p) \in Seq(Piece) \ {<< >>}
  BY <1>4, DeclarationTyped
<1>6. PICK c \in MakeChonks(DeclaredSymbol(file, p), DeclarationPieces(t, p)) :
          c.symbol = DeclaredSymbol(file, p).id
  BY <1>5, ChonksOf
<1>7. chunks = UNION {MakeChonks(DeclaredSymbol(file, q), DeclarationPieces(t, q)) : q \in W}
  BY DEF CodeChunker, Result, WalkChunks
<1> HIDE DEF chunks
<1>8. c \in chunks
  BY <1>3, <1>6, <1>7
<1>9. symbols[i].id \in {d.symbol : d \in chunks}
  BY <1>3, <1>6, <1>8
<1> QED BY <1>9 DEF symbols, chunks

----------------------------------------------------------------------------
(* Text.                                                                   *)

\* The fold of BasicChunker.
TextAdded(acc, line) == [acc EXCEPT !.text = @ \o line \o <<NL>>,
                                    !.tokens = @ + Tokens(line) + 1]
TextRoom(acc, line) ==
    IF acc.tokens + Tokens(line) + Reserve > MaxTokens THEN NextChunk(acc) ELSE acc
TextCounted(acc) == [acc EXCEPT !.curr = @ + 1]
TakeStep(acc, line) ==
    TextCounted(IF LineKept(line) THEN TextAdded(TextRoom(acc, line), line) ELSE TextRoom(acc, line))
TakeBase == [chunks |-> << >>, text |-> << >>, tokens |-> 0, start |-> 0, curr |-> 0]
Taking ==
    {acc \in [chunks : Seq(Piece), text : Seq(Atom), tokens : Int, start : Int, curr : Int] :
        acc.start <= acc.curr}
TakeIter(iter, text) ==
    iter = [s \in SUBSET DOMAIN Lines(text) |->
              IF s = {} THEN TakeBase ELSE TakeStep(iter[s \ {Max(s)}], Lines(text)[Max(s)])]

TakenAs(acc, c, x, k, s, u) ==
    acc = [chunks |-> c, text |-> x, tokens |-> k, start |-> s, curr |-> u]

LEMMA TakingIs ==
    ASSUME NEW acc \in Taking
    PROVE  \E c \in Seq(Piece), x \in Seq(Atom), k \in Int, s \in Int, u \in Int :
              s <= u /\ TakenAs(acc, c, x, k, s, u)
<1>1. /\ acc.chunks \in Seq(Piece) /\ acc.text \in Seq(Atom) /\ acc.tokens \in Int
      /\ acc.start \in Int /\ acc.curr \in Int /\ acc.start <= acc.curr
      /\ acc = [chunks |-> acc.chunks, text |-> acc.text, tokens |-> acc.tokens,
                start |-> acc.start, curr |-> acc.curr]
  BY DEF Taking
<1>2. TakenAs(acc, acc.chunks, acc.text, acc.tokens, acc.start, acc.curr)
  BY <1>1 DEF TakenAs
<1> QED BY <1>1, <1>2

LEMMA TakingHas ==
    ASSUME NEW acc, NEW c \in Seq(Piece), NEW x \in Seq(Atom), NEW k \in Int,
           NEW s \in Int, NEW u \in Int, s <= u, TakenAs(acc, c, x, k, s, u)
    PROVE  acc \in Taking
BY DEF Taking, TakenAs

LEMMA TakenBut ==
    ASSUME NEW acc, NEW c, NEW x, NEW k, NEW s, NEW u, TakenAs(acc, c, x, k, s, u)
    PROVE  /\ \A d : TakenAs([acc EXCEPT !.chunks = d], d, x, k, s, u)
           /\ \A d : TakenAs([acc EXCEPT !.text = d], c, d, k, s, u)
           /\ \A d : TakenAs([acc EXCEPT !.tokens = d], c, x, d, s, u)
           /\ \A d : TakenAs([acc EXCEPT !.start = d], c, x, k, d, u)
           /\ \A d : TakenAs([acc EXCEPT !.curr = d], c, x, k, s, d)
<1>1. acc = [chunks |-> c, text |-> x, tokens |-> k, start |-> s, curr |-> u]
  BY DEF TakenAs
<1>2. ASSUME NEW d
      PROVE  [acc EXCEPT !.chunks = d] = [chunks |-> d, text |-> x, tokens |-> k, start |-> s, curr |-> u]
  BY <1>1
<1>3. ASSUME NEW d
      PROVE  [acc EXCEPT !.text = d] = [chunks |-> c, text |-> d, tokens |-> k, start |-> s, curr |-> u]
  BY <1>1
<1>4. ASSUME NEW d
      PROVE  [acc EXCEPT !.tokens = d] = [chunks |-> c, text |-> x, tokens |-> d, start |-> s, curr |-> u]
  BY <1>1
<1>5. ASSUME NEW d
      PROVE  [acc EXCEPT !.start = d] = [chunks |-> c, text |-> x, tokens |-> k, start |-> d, curr |-> u]
  BY <1>1
<1>6. ASSUME NEW d
      PROVE  [acc EXCEPT !.curr = d] = [chunks |-> c, text |-> x, tokens |-> k, start |-> s, curr |-> d]
  BY <1>1
<1> QED BY <1>2, <1>3, <1>4, <1>5, <1>6 DEF TakenAs

LEMMA NextChunkTyped ==
    ASSUME NEW acc \in Taking
    PROVE  NextChunk(acc) \in Taking
<1>1. PICK c \in Seq(Piece), x \in Seq(Atom), k \in Int, s \in Int, u \in Int :
         s <= u /\ TakenAs(acc, c, x, k, s, u)
  BY TakingIs
<1> DEFINE piece == [text |-> x, start |-> s, end |-> u - 1]
<1>2. acc.chunks = c /\ acc.text = x /\ acc.start = s /\ acc.curr = u
  BY <1>1 DEF TakenAs
<1> DEFINE longer == Append(c, piece)
           a == [acc EXCEPT !.chunks = longer]
           b == [a EXCEPT !.text = << >>]
           d == [b EXCEPT !.tokens = 0]
           next == [d EXCEPT !.start = u]
<1>3. next = [acc EXCEPT !.chunks = longer, !.text = << >>, !.tokens = 0, !.start = u]
  OBVIOUS
<1>4. NextChunk(acc) = next
  BY <1>2, <1>3 DEF NextChunk
<1>5. piece \in Piece
  BY <1>1 DEF Piece
<1> HIDE DEF piece
<1>6. longer \in Seq(Piece)
  BY <1>5
<1> HIDE DEF longer
<1>7. TakenAs(a, longer, x, k, s, u)
  BY <1>1, TakenBut
<1> HIDE DEF a
<1>8. TakenAs(b, longer, << >>, k, s, u)
  BY <1>7, TakenBut
<1> HIDE DEF b
<1>9. TakenAs(d, longer, << >>, 0, s, u)
  BY <1>8, TakenBut
<1> HIDE DEF d
<1>10. TakenAs(next, longer, << >>, 0, u, u)
  BY <1>9, TakenBut
<1> HIDE DEF next
<1>11. << >> \in Seq(Atom) /\ 0 \in Int /\ u <= u
  OBVIOUS
<1>12. next \in Taking
  BY <1>6, <1>10, <1>11, TakingHas
<1> QED BY <1>4, <1>12

LEMMA TakeStepTyped ==
    ASSUME NEW acc \in Taking, NEW line \in Seq(Atom)
    PROVE  TakeStep(acc, line) \in Taking
<1> DEFINE room == TextRoom(acc, line)
           added == IF LineKept(line) THEN TextAdded(room, line) ELSE room
<1>1. room \in Taking
  BY NextChunkTyped DEF TextRoom
<1> HIDE DEF room
<1>2. added \in Taking
  <2>1. PICK c \in Seq(Piece), x \in Seq(Atom), k \in Int, s \in Int, u \in Int :
           s <= u /\ TakenAs(room, c, x, k, s, u)
    BY <1>1, TakingIs
  <2>2. room.text = x /\ room.tokens = k
    BY <2>1 DEF TakenAs
  <2> DEFINE longer == x \o line \o <<NL>>
             more == k + Tokens(line) + 1
             a == [room EXCEPT !.text = longer]
             next == [a EXCEPT !.tokens = more]
  <2>3. next = [room EXCEPT !.text = longer, !.tokens = more]
    OBVIOUS
  <2>4. TextAdded(room, line) = next
    BY <2>2, <2>3 DEF TextAdded
  <2>5. longer \in Seq(Atom) /\ more \in Int
    BY AtomsAre DEF Tokens
  <2> HIDE DEF longer, more
  <2>6. TakenAs(a, c, longer, k, s, u)
    BY <2>1, TakenBut
  <2> HIDE DEF a
  <2>7. TakenAs(next, c, longer, more, s, u)
    BY <2>6, TakenBut
  <2> HIDE DEF next
  <2>8. next \in Taking
    BY <2>1, <2>5, <2>7, TakingHas
  <2> QED BY <1>1, <2>4, <2>8
<1> HIDE DEF added
<1>3. TextCounted(added) \in Taking
  <2>1. PICK c \in Seq(Piece), x \in Seq(Atom), k \in Int, s \in Int, u \in Int :
           s <= u /\ TakenAs(added, c, x, k, s, u)
    BY <1>2, TakingIs
  <2>2. added.curr = u
    BY <2>1 DEF TakenAs
  <2>3. TakenAs(TextCounted(added), c, x, k, s, u + 1)
    BY <2>1, <2>2, TakenBut DEF TextCounted
  <2>4. s <= u + 1 /\ u + 1 \in Int
    BY <2>1
  <2> QED BY <2>3, <2>4, TakingHas
<1> QED BY <1>3 DEF TakeStep, added, room

LEMMA TextFolded ==
    ASSUME NEW text \in Seq(Atom)
    PROVE  \E f \in [0 .. Len(Lines(text)) -> Taking] :
              /\ f[0] = TakeBase
              /\ \A k \in 1 .. Len(Lines(text)) : f[k] = TakeStep(f[k - 1], Lines(text)[k])
              /\ BasicChunker(text) = NextChunk(f[Len(Lines(text))]).chunks
<1> DEFINE V == Taking
           seq == Lines(text)
           n == Len(seq)
           base == TakeBase
           iter == CHOOSE iter : TakeIter(iter, text)
           step == [p \in (1 .. n) \X V |-> TakeStep(p[2], seq[p[1]])]
<1>1. n \in Nat /\ DOMAIN seq = 1 .. n
  BY LinesTyped
<1>2. base \in V
  BY DEF TakeBase, Taking
<1>3. step \in [(1 .. n) \X V -> V]
  <2>1. \A p \in (1 .. n) \X V : p[2] \in V /\ seq[p[1]] \in Seq(Atom)
    <3>1. seq \in Seq(Seq(Atom))
      BY LinesTyped
    <3> HIDE DEF V, seq
    <3> QED BY <3>1
  <2>2. \A acc \in V, line \in Seq(Atom) : TakeStep(acc, line) \in V
    BY TakeStepTyped
  <2> HIDE DEF V, n, seq
  <2> QED BY <2>1, <2>2
<1>4. \E h : TakeIter(h, text)
  <2> HIDE DEF V, n, step, seq, base
  <2>1. PICK h \in [SUBSET (1 .. n) -> V] : FoldsBy(h, n, base, step)
    BY <1>1, <1>2, <1>3, FoldExists
  <2>2. ASSUME NEW s \in SUBSET (1 .. n)
        PROVE  h[s] = IF s = {} THEN base ELSE TakeStep(h[s \ {Max(s)}], seq[Max(s)])
    <3>1. CASE s = {}
      BY <2>1, <3>1 DEF FoldsBy
    <3>2. CASE s # {}
      <4>1. <<Max(s), h[s \ {Max(s)}]>> \in (1 .. n) \X V
        BY <1>1, <3>2, MaxIsOne
      <4>2. step[<<Max(s), h[s \ {Max(s)}]>>] = TakeStep(h[s \ {Max(s)}], seq[Max(s)])
        BY <4>1 DEF step
      <4> QED BY <2>1, <3>2, <4>2 DEF FoldsBy
    <3> QED BY <3>1, <3>2
  <2>3. DOMAIN h = SUBSET (1 .. n)
    OBVIOUS
  <2>4. h = [s \in SUBSET DOMAIN seq |-> IF s = {} THEN base ELSE TakeStep(h[s \ {Max(s)}], seq[Max(s)])]
    BY <1>1, <2>2, <2>3
  <2> QED BY <2>4 DEF TakeIter, seq, base
<1>5. TakeIter(iter, text)
  BY <1>4
<1> HIDE DEF iter
<1>6. iter = [s \in SUBSET (1 .. n) |-> IF s = {} THEN base ELSE TakeStep(iter[s \ {Max(s)}], seq[Max(s)])]
  BY <1>1, <1>5 DEF TakeIter
<1> HIDE DEF V, n, seq, base
<1>7. iter[{}] = base
  BY <1>6
<1>8. ASSUME NEW k \in 1 .. n
      PROVE  iter[1 .. k] = TakeStep(iter[1 .. k - 1], seq[k])
  <2>1. 1 .. k \in SUBSET (1 .. n) /\ k \in Nat /\ k >= 1
    BY <1>1
  <2>2. Max(1 .. k) = k /\ (1 .. k) \ {k} = 1 .. k - 1 /\ 1 .. k # {}
    BY <2>1, RangeMax
  <2> QED BY <1>6, <2>1, <2>2
<1>9. \A k \in 1 .. n : iter[1 .. k - 1] \in V => iter[1 .. k] = step[<<k, iter[1 .. k - 1]>>]
  BY <1>8
<1>10. \A p \in (1 .. n) \X V : step[p] = TakeStep(p[2], seq[p[1]])
  OBVIOUS
<1>11. BasicChunker(text) = NextChunk(iter[1 .. n]).chunks
  BY <1>1 DEF BasicChunker, FoldLeft, MapThenFoldSet, TakeIter, TakeStep, TextAdded, TextRoom, TextCounted, TakeBase, iter, n, seq, base
<1> HIDE DEF step
<1>12. Climbs(iter, n, V, base, step)
  <2> HIDE DEF step
  <2> QED BY <1>7, <1>9 DEF Climbs
<1>13. PICK f \in [0 .. n -> V] : Climbed(f, iter, n, base, step)
  BY <1>1, <1>2, <1>3, <1>12, FoldValues
<1>14. ASSUME NEW k \in 1 .. n
       PROVE  f[k] = TakeStep(f[k - 1], seq[k])
  <2>1. k - 1 \in 0 .. n
    BY <1>1
  <2>2. <<k, f[k - 1]>> \in (1 .. n) \X V
    BY <2>1
  <2>3. f[k] = step[<<k, f[k - 1]>>]
    BY <1>13 DEF Climbed, StepsBy
  <2> QED BY <1>10, <2>2, <2>3
<1> QED BY <1>11, <1>13, <1>14 DEF n, seq, V, base, Climbed, StepsBy

\* The chunks of a text end where they begin or behind.
LEMMA TextTyped ==
    ASSUME NEW text \in Seq(Atom)
    PROVE  BasicChunker(text) \in Seq(Piece)
<1> DEFINE n == Len(Lines(text))
<1>1. n \in Nat
  BY LinesTyped
<1>2. PICK f \in [0 .. n -> Taking] : BasicChunker(text) = NextChunk(f[n]).chunks
  BY TextFolded
<1> HIDE DEF n
<1>3. NextChunk(f[n]) \in Taking
  BY <1>1, NextChunkTyped
<1> QED BY <1>2, <1>3 DEF Taking

----------------------------------------------------------------------------
(* What is left of a text.                                                 *)

\* The texts of the chunks, and what is kept of the first lines.
TextsOf(chunks) == [i \in DOMAIN chunks |-> chunks[i].text]
KeptLine(line) == IF LineKept(line) THEN Append(line, NL) ELSE << >>
KeptOf(lines, k) == [i \in 1 .. k |-> KeptLine(lines[i])]

LEMMA TextsAppend ==
    ASSUME NEW chunks \in Seq(Piece), NEW x \in Piece
    PROVE  /\ TextsOf(chunks) \in Seq(Seq(Atom))
           /\ TextsOf(Append(chunks, x)) = Append(TextsOf(chunks), x.text)
<1> DEFINE n == Len(chunks)
           a == TextsOf(chunks)
           z == Append(chunks, x)
           b == TextsOf(z)
<1>1. n \in Nat /\ chunks \in [1 .. n -> Piece]
  OBVIOUS
<1>2. z \in Seq(Piece) /\ Len(z) = n + 1 /\ z[n + 1] = x /\ \A i \in 1 .. n : z[i] = chunks[i]
  OBVIOUS
<1>3. \A y \in Piece : y.text \in Seq(Atom)
  BY DEF Piece
<1>4. x.text \in Seq(Atom)
  BY <1>3
<1> HIDE DEF n, z
<1>5. a \in [1 .. n -> Seq(Atom)] /\ \A i \in 1 .. n : a[i] = chunks[i].text
  BY <1>1, <1>3 DEF TextsOf
<1>6. DOMAIN z = 1 .. n + 1 /\ \A i \in 1 .. n + 1 : z[i] \in Piece
  BY <1>2
<1>7. b \in [1 .. n + 1 -> Seq(Atom)] /\ \A i \in 1 .. n + 1 : b[i] = z[i].text
  BY <1>3, <1>6 DEF TextsOf
<1> HIDE DEF a, b
<1>8. a \in Seq(Seq(Atom)) /\ Len(a) = n
  BY <1>1, <1>5, SeqOfFunction
<1>9. b \in Seq(Seq(Atom)) /\ Len(b) = n + 1
  <2>1. n + 1 \in Nat
    BY <1>1
  <2> QED BY <1>7, <2>1, SeqOfFunction
<1> DEFINE d == Append(a, x.text)
<1>10. d \in Seq(Seq(Atom)) /\ Len(d) = n + 1
       /\ \A i \in 1 .. n + 1 : d[i] = IF i = n + 1 THEN x.text ELSE a[i]
  BY <1>1, <1>4, <1>8
<1> HIDE DEF d
<1>11. \A i \in 1 .. n + 1 : b[i] = d[i]
  <2> TAKE i \in 1 .. n + 1
  <2>1. CASE i = n + 1
    BY <1>2, <1>7, <1>10, <2>1
  <2>2. CASE i # n + 1
    <3>1. i \in 1 .. n
      BY <1>1, <2>2
    <3> QED BY <1>2, <1>5, <1>7, <1>10, <2>2, <3>1
  <2> QED BY <2>1, <2>2
<1>12. b = d
  BY <1>9, <1>10, <1>11, SeqEqual
<1> QED BY <1>8, <1>12 DEF a, b, d, z

LEMMA KeptLineTyped ==
    ASSUME NEW line \in Seq(Atom)
    PROVE  KeptLine(line) \in Seq(Atom)
BY AtomsAre DEF KeptLine

LEMMA KeptAppend ==
    ASSUME NEW lines \in Seq(Seq(Atom)), NEW k \in 0 .. Len(lines) - 1
    PROVE  /\ FlattenSeq(KeptOf(lines, k)) \in Seq(Atom)
           /\ FlattenSeq(KeptOf(lines, k + 1)) = FlattenSeq(KeptOf(lines, k)) \o KeptLine(lines[k + 1])
<1> DEFINE a == KeptOf(lines, k)
           b == KeptOf(lines, k + 1)
           x == KeptLine(lines[k + 1])
           d == Append(a, x)
<1>1. k \in Nat /\ k + 1 \in Nat /\ \A i \in 1 .. k + 1 : i \in 1 .. Len(lines)
  OBVIOUS
<1>2. \A i \in 1 .. k + 1 : lines[i] \in Seq(Atom)
  BY <1>1
<1>3. \A i \in 1 .. k + 1 : KeptLine(lines[i]) \in Seq(Atom)
  BY <1>2, KeptLineTyped
<1>4. k + 1 \in 1 .. k + 1 /\ \A i \in 1 .. k : i \in 1 .. k + 1
  BY <1>1
<1>5. x \in Seq(Atom)
  BY <1>3, <1>4
<1>6. a \in [1 .. k -> Seq(Atom)] /\ b \in [1 .. k + 1 -> Seq(Atom)]
  BY <1>3, <1>4 DEF KeptOf
<1>7. /\ \A i \in 1 .. k : b[i] = a[i]
      /\ b[k + 1] = x
  BY <1>4 DEF KeptOf
<1> HIDE DEF a, b, x
<1>8. a \in Seq(Seq(Atom)) /\ Len(a) = k /\ b \in Seq(Seq(Atom)) /\ Len(b) = k + 1
  BY <1>1, <1>6, SeqOfFunction
<1>9. d \in Seq(Seq(Atom)) /\ Len(d) = k + 1
       /\ \A i \in 1 .. k + 1 : d[i] = IF i = k + 1 THEN x ELSE a[i]
  BY <1>1, <1>5, <1>8
<1> HIDE DEF d
<1>10. \A i \in 1 .. k + 1 : b[i] = d[i]
  <2> TAKE i \in 1 .. k + 1
  <2>1. i = k + 1 \/ i \in 1 .. k
    BY <1>1
  <2>2. i \in 1 .. k => i # k + 1
    BY <1>1
  <2> QED BY <1>7, <1>9, <2>1, <2>2
<1>11. b = d
  BY <1>8, <1>9, <1>10, SeqEqual
<1>12. FlattenSeq(Append(a, x)) = FlattenSeq(a) \o x /\ FlattenSeq(a) \in Seq(Atom)
  BY <1>5, <1>8, FlattenAppend, FlattenTyped
<1> QED BY <1>11, <1>12 DEF a, b, d, x

\* What has been read of a text is in the chunks and in what is packed, which fit.
Holds(acc, text) ==
    /\ FlattenSeq(TextsOf(acc.chunks)) \o acc.text = text
    /\ acc.tokens = Len(acc.text) /\ acc.tokens <= MaxTokens
    /\ \A i \in DOMAIN acc.chunks : Tokens(acc.chunks[i].text) <= MaxTokens

LEMMA NextChunkIs ==
    ASSUME NEW acc \in Taking
    PROVE  \E x \in Piece : /\ x.text = acc.text
                            /\ NextChunk(acc).chunks = Append(acc.chunks, x)
                            /\ NextChunk(acc).text = << >> /\ NextChunk(acc).tokens = 0
<1>1. /\ acc.chunks \in Seq(Piece) /\ acc.text \in Seq(Atom) /\ acc.tokens \in Int
      /\ acc.start \in Int /\ acc.curr \in Int /\ acc.start <= acc.curr
  BY DEF Taking
<1>2. DOMAIN acc = {"chunks", "text", "tokens", "start", "curr"}
  BY DEF Taking
<1> DEFINE x == [text |-> acc.text, start |-> acc.start, end |-> acc.curr - 1]
<1>3. x \in Piece /\ x.text = acc.text
  BY <1>1 DEF Piece
<1>4. /\ NextChunk(acc).chunks = Append(acc.chunks, x)
      /\ NextChunk(acc).text = << >> /\ NextChunk(acc).tokens = 0
  BY <1>2 DEF NextChunk
<1> QED BY <1>3, <1>4

LEMMA NextChunkHolds ==
    ASSUME NEW acc \in Taking, NEW text, Holds(acc, text)
    PROVE  Holds(NextChunk(acc), text)
<1> DEFINE next == NextChunk(acc)
<1>1. PICK x \in Piece : /\ x.text = acc.text /\ next.chunks = Append(acc.chunks, x)
                         /\ next.text = << >> /\ next.tokens = 0
  BY NextChunkIs
<1> HIDE DEF next
<1>2. acc.chunks \in Seq(Piece) /\ acc.text \in Seq(Atom)
  BY DEF Taking
<1>3. /\ TextsOf(acc.chunks) \in Seq(Seq(Atom))
      /\ TextsOf(next.chunks) = Append(TextsOf(acc.chunks), acc.text)
  BY <1>1, <1>2, TextsAppend
<1>4. FlattenSeq(TextsOf(next.chunks)) = FlattenSeq(TextsOf(acc.chunks)) \o acc.text
  BY <1>2, <1>3, FlattenAppend
<1>5. FlattenSeq(TextsOf(acc.chunks)) \in Seq(Atom)
  BY <1>3, FlattenTyped
<1>6. FlattenSeq(TextsOf(next.chunks)) \o next.text = text
  <2> DEFINE u == FlattenSeq(TextsOf(acc.chunks)) \o acc.text
  <2>1. u \in Seq(Atom)
    BY <1>2, <1>5
  <2>2. u = text
    BY DEF Holds
  <2> HIDE DEF u
  <2>3. u \o << >> = u
    BY <2>1, ConcatEmptySeq
  <2> QED BY <1>1, <1>4, <2>2, <2>3 DEF u
<1>7. next.tokens = Len(next.text) /\ next.tokens <= MaxTokens
  BY <1>1, MaxTokensAssumption
<1>8. \A i \in DOMAIN next.chunks : Tokens(next.chunks[i].text) <= MaxTokens
  <2> TAKE i \in DOMAIN next.chunks
  <2> DEFINE n == Len(acc.chunks)
  <2>1. n \in Nat /\ i \in 1 .. n + 1
    BY <1>1, <1>2
  <2>2. i \in 1 .. n \/ i = n + 1
    BY <2>1
  <2>3. i \in 1 .. n => next.chunks[i] = acc.chunks[i] /\ i \in DOMAIN acc.chunks
    BY <1>1, <1>2
  <2>4. i = n + 1 => next.chunks[i] = x
    BY <1>1, <1>2
  <2>5. Tokens(x.text) <= MaxTokens
    BY <1>1 DEF Holds, Tokens
  <2> HIDE DEF n
  <2> QED BY <2>2, <2>3, <2>4, <2>5 DEF Holds
<1> QED BY <1>6, <1>7, <1>8 DEF Holds, next

LEMMA TakeStepIs ==
    ASSUME NEW acc \in Taking, NEW line \in Seq(Atom)
    PROVE  LET room == TextRoom(acc, line)
               next == TakeStep(acc, line)
           IN  /\ room \in Taking /\ next.chunks = room.chunks
               /\ next.text = room.text \o KeptLine(line)
               /\ next.tokens = room.tokens + Len(KeptLine(line))
<1> DEFINE room == TextRoom(acc, line)
<1>1. room \in Taking
  BY NextChunkTyped DEF TextRoom
<1>2. TakeStep(acc, line) =
         TextCounted(IF LineKept(line) THEN TextAdded(room, line) ELSE room)
  BY DEF TakeStep
<1> HIDE DEF room
<1>3. /\ DOMAIN room = {"chunks", "text", "tokens", "start", "curr"}
      /\ room.text \in Seq(Atom) /\ room.tokens \in Int
  BY <1>1 DEF Taking
<1>4. CASE LineKept(line)
  <2> DEFINE added == TextAdded(room, line)
  <2>1. /\ DOMAIN added = DOMAIN room
        /\ added.chunks = room.chunks /\ added.text = room.text \o line \o <<NL>>
        /\ added.tokens = room.tokens + Tokens(line) + 1
    BY <1>3 DEF TextAdded
  <2> HIDE DEF added
  <2>2. /\ TextCounted(added).chunks = added.chunks /\ TextCounted(added).text = added.text
        /\ TextCounted(added).tokens = added.tokens
    BY <1>3, <2>1 DEF TextCounted
  <2>3. KeptLine(line) = Append(line, NL)
    BY <1>4 DEF KeptLine
  <2>4. Len(Append(line, NL)) = Len(line) + 1 /\ Len(line) \in Nat
    OBVIOUS
  <2>5. room.text \o line \o <<NL>> = room.text \o Append(line, NL)
    <3> DEFINE a == room.text
    <3>1. a \in Seq(Atom) /\ NL \in Atom
      BY <1>3, AtomsAre
    <3> HIDE DEF a
    <3>2. a \o line \o <<NL>> = a \o Append(line, NL)
      <4> DEFINE u == a \o line \o <<NL>>
                 v == a \o Append(line, NL)
                 n == Len(a)
                 m == Len(line)
      <4>1. n \in Nat /\ m \in Nat
        BY <3>1
      <4>2. /\ u \in Seq(Atom) /\ Len(u) = n + m + 1
            /\ \A i \in 1 .. n + m + 1 :
                  u[i] = IF i <= n THEN a[i] ELSE IF i <= n + m THEN line[i - n] ELSE NL
        BY <3>1
      <4>3. /\ v \in Seq(Atom) /\ Len(v) = n + m + 1
            /\ \A i \in 1 .. n + m + 1 :
                  v[i] = IF i <= n THEN a[i] ELSE IF i <= n + m THEN line[i - n] ELSE NL
        BY <3>1
      <4> HIDE DEF u, v, n, m
      <4>4. \A i \in 1 .. n + m + 1 : u[i] = v[i]
        BY <4>2, <4>3
      <4>5. u = v
        BY <4>2, <4>3, <4>4, SeqEqual
      <4> QED BY <4>5 DEF u, v
    <3> QED BY <3>2 DEF a
  <2>6. room.tokens + Tokens(line) + 1 = room.tokens + (Len(line) + 1)
    BY <1>3, <2>4 DEF Tokens
  <2> QED BY <1>1, <1>2, <1>4, <2>1, <2>2, <2>3, <2>4, <2>5, <2>6 DEF added, room
<1>5. CASE ~LineKept(line)
  <2>1. /\ TextCounted(room).chunks = room.chunks /\ TextCounted(room).text = room.text
        /\ TextCounted(room).tokens = room.tokens
    BY <1>3 DEF TextCounted
  <2>2. KeptLine(line) = << >> /\ Len(<< >>) = 0
    BY <1>5 DEF KeptLine
  <2>3. room.text \o << >> = room.text /\ room.tokens + 0 = room.tokens
    BY <1>3, ConcatEmptySeq
  <2> QED BY <1>1, <1>2, <1>5, <2>1, <2>2, <2>3 DEF room
<1> QED BY <1>4, <1>5

LEMMA TakeStepHolds ==
    ASSUME NEW acc \in Taking, NEW line \in Seq(Atom), NEW text, Holds(acc, text)
    PROVE  Holds(TakeStep(acc, line), text \o KeptLine(line))
<1> DEFINE room == TextRoom(acc, line)
           next == TakeStep(acc, line)
           kept == KeptLine(line)
<1>1. /\ room \in Taking /\ next.chunks = room.chunks
      /\ next.text = room.text \o kept /\ next.tokens = room.tokens + Len(kept)
  BY TakeStepIs
<1>2. Holds(room, text)
  BY NextChunkHolds DEF TextRoom
<1>3. kept \in Seq(Atom)
  BY KeptLineTyped
<1>4. Len(line) \in Nat /\ MaxTokens \in Nat /\ MaxTokens >= 1
  BY MaxTokensAssumption
<1>5. LineKept(line) => room.tokens + Len(line) + 1 <= MaxTokens
  <2>1. acc.tokens \in Int
    BY DEF Taking
  <2>2. NextChunk(acc).tokens = 0
    BY NextChunkIs
  <2>3. room = IF acc.tokens + Len(line) + Reserve > MaxTokens THEN NextChunk(acc) ELSE acc
    BY DEF TextRoom, Tokens
  <2> HIDE DEF room
  <2>4. CASE acc.tokens + Len(line) + Reserve > MaxTokens
    BY <1>4, <2>2, <2>3, <2>4 DEF LineKept, Tokens
  <2>5. CASE ~(acc.tokens + Len(line) + Reserve > MaxTokens)
    BY <1>4, <2>1, <2>3, <2>5 DEF Reserve
  <2> QED BY <2>4, <2>5
<1>6. Len(kept) = IF LineKept(line) THEN Len(line) + 1 ELSE 0
  <2>1. Len(Append(line, NL)) = Len(line) + 1 /\ Len(<< >>) = 0
    OBVIOUS
  <2> QED BY <2>1 DEF KeptLine
<1> HIDE DEF room, next, kept
<1>7. /\ room.chunks \in Seq(Piece) /\ room.text \in Seq(Atom) /\ room.tokens \in Int
  BY <1>1 DEF Taking
<1>8. next.tokens <= MaxTokens
  <2>1. room.tokens <= MaxTokens
    BY <1>2 DEF Holds
  <2> QED BY <1>1, <1>4, <1>5, <1>6, <1>7, <2>1
<1>9. next.tokens = Len(next.text)
  <2>1. Len(room.text \o kept) = Len(room.text) + Len(kept)
    BY <1>3, <1>7
  <2> QED BY <1>1, <1>2, <2>1 DEF Holds
<1>10. FlattenSeq(TextsOf(next.chunks)) \o next.text = text \o kept
  <2> DEFINE f == FlattenSeq(TextsOf(room.chunks))
  <2>1. f \in Seq(Atom)
    <3>1. TextsOf(room.chunks) \in Seq(Seq(Atom))
      <4>1. \A x \in Piece : TextsOf(room.chunks) \in Seq(Seq(Atom))
        BY <1>7, TextsAppend
      <4>2. Piece # {}
        <5>1. [text |-> << >>, start |-> 0, end |-> 0] \in Piece
          BY DEF Piece
        <5> QED BY <5>1
      <4> QED BY <4>1, <4>2
    <3> QED BY <3>1, FlattenTyped
  <2>2. f \o room.text = text
    BY <1>2 DEF Holds
  <2> HIDE DEF f
  <2>3. (f \o room.text) \o kept = f \o (room.text \o kept)
    <3>1. \A a, b, c \in Seq(Atom) : (a \o b) \o c = a \o (b \o c)
      BY ConcatAssociative
    <3> QED BY <1>3, <1>7, <2>1, <3>1
  <2> QED BY <1>1, <2>2, <2>3 DEF f
<1> QED BY <1>1, <1>2, <1>8, <1>9, <1>10 DEF Holds, next, kept

\* Every line that is kept is in one chunk, in order, and every chunk fits.
LEMMA BasicWhole ==
    ASSUME NEW text \in Seq(Atom)
    PROVE  LET chunks == BasicChunker(text)
           IN  /\ FlattenSeq(TextsOf(chunks)) = FlattenSeq(KeptOf(Lines(text), Len(Lines(text))))
               /\ \A i \in DOMAIN chunks : Tokens(chunks[i].text) <= MaxTokens
<1> DEFINE lines == Lines(text)
           n == Len(lines)
           chunks == BasicChunker(text)
<1>1. n \in Nat /\ lines \in Seq(Seq(Atom))
  BY LinesTyped
<1>2. PICK f \in [0 .. n -> Taking] :
         /\ f[0] = TakeBase
         /\ \A k \in 1 .. n : f[k] = TakeStep(f[k - 1], lines[k])
         /\ chunks = NextChunk(f[n]).chunks
  BY TextFolded
<1> HIDE DEF lines, chunks
<1> DEFINE P == {k \in 0 .. n : Holds(f[k], FlattenSeq(KeptOf(lines, k)))}
<1>3. 0 \in P
  <2>1. KeptOf(lines, 0) = << >>
    BY DEF KeptOf
  <2>2. TextsOf(<< >>) = << >>
    BY DEF TextsOf
  <2>3. FlattenSeq(<< >>) = << >> /\ << >> \o << >> = << >>
    BY FlattenEmpty
  <2>4. Holds(TakeBase, << >>)
    BY <2>2, <2>3, MaxTokensAssumption DEF Holds, TakeBase
  <2>5. Holds(f[0], FlattenSeq(KeptOf(lines, 0)))
    BY <1>2, <2>1, <2>3, <2>4
  <2>6. 0 \in 0 .. n
    BY <1>1
  <2> QED BY <2>5, <2>6
<1>4. ASSUME NEW k \in 0 .. n - 1, k \in P
      PROVE  k + 1 \in P
  <2>1. k \in 0 .. n /\ k + 1 \in 0 .. n /\ k + 1 \in 1 .. n /\ (k + 1) - 1 = k
    BY <1>1
  <2>2. f[k] \in Taking /\ f[k + 1] = TakeStep(f[k], lines[k + 1])
    BY <1>2, <2>1
  <2>3. lines[k + 1] \in Seq(Atom)
    BY <1>1, <2>1
  <2>4. Holds(f[k], FlattenSeq(KeptOf(lines, k)))
    BY <1>4
  <2>5. Holds(f[k + 1], FlattenSeq(KeptOf(lines, k)) \o KeptLine(lines[k + 1]))
    BY <2>2, <2>3, <2>4, TakeStepHolds
  <2>6. FlattenSeq(KeptOf(lines, k + 1)) = FlattenSeq(KeptOf(lines, k)) \o KeptLine(lines[k + 1])
    BY <1>1, KeptAppend
  <2> QED BY <2>1, <2>5, <2>6
<1> HIDE DEF P
<1>5. n \in P
  <2>1. n \in 0 .. n
    BY <1>1
  <2> HIDE DEF n
  <2> QED BY <1>1, <1>3, <1>4, <2>1, UpTo0
<1>6. f[n] \in Taking /\ Holds(f[n], FlattenSeq(KeptOf(lines, n)))
  BY <1>1, <1>5 DEF P
<1> DEFINE last == NextChunk(f[n])
<1>7. Holds(last, FlattenSeq(KeptOf(lines, n)))
  BY <1>6, NextChunkHolds
<1>8. last.text = << >> /\ last \in Taking
  BY <1>6, NextChunkIs, NextChunkTyped
<1> HIDE DEF last
<1>9. last.chunks \in Seq(Piece)
  BY <1>8 DEF Taking
<1>10. FlattenSeq(TextsOf(last.chunks)) \o << >> = FlattenSeq(TextsOf(last.chunks))
  <2>1. \A x \in Piece : TextsOf(last.chunks) \in Seq(Seq(Atom))
    BY <1>9, TextsAppend
  <2>2. Piece # {}
    <3>1. [text |-> << >>, start |-> 0, end |-> 0] \in Piece
      BY DEF Piece
    <3> QED BY <3>1
  <2>3. FlattenSeq(TextsOf(last.chunks)) \in Seq(Atom)
    BY <2>1, <2>2, FlattenTyped
  <2> QED BY <2>3, ConcatEmptySeq
<1>11. chunks = last.chunks
  BY <1>2 DEF last
<1>12. FlattenSeq(TextsOf(chunks)) = FlattenSeq(KeptOf(lines, n))
  BY <1>7, <1>8, <1>10, <1>11 DEF Holds
<1>13. \A i \in DOMAIN chunks : Tokens(chunks[i].text) <= MaxTokens
  BY <1>7, <1>11 DEF Holds
<1> QED BY <1>12, <1>13 DEF chunks, lines

----------------------------------------------------------------------------
(* What a file is inserted as.                                             *)

\* insert_symbols takes what the chunker makes of a file.
LEMMA PackedInserts ==
    ASSUME NEW file, IsFile(file)
    PROVE  ~InsertRaises(PackToChunks(file))
<1>1. ASSUME NEW result, NEW symbols, symbols = result.symbols,
             \A i \in DOMAIN symbols : ParentFirst(symbols, i),
             \A i \in DOMAIN symbols :
                symbols[i].type # "file" => symbols[i].id \in {c.symbol : c \in result.chunks}
      PROVE  ~InsertRaises(Document(result))
  <2>1. /\ Document(result).symbols = symbols
        /\ Document(result).owners = {c.symbol : c \in result.chunks}
    BY <1>1 DEF Document
  <2> DEFINE packed == Document(result)
  <2> HIDE DEF packed
  <2>2. packed.symbols = symbols /\ packed.owners = {c.symbol : c \in result.chunks}
    BY <2>1 DEF packed
  <2>3. \A i \in DOMAIN symbols :
           ~(symbols[i].parent # Nil /\ \A j \in 1 .. i - 1 : symbols[j].id # symbols[i].parent)
    BY <1>1 DEF ParentFirst
  <2>4. ~InsertRaises(packed)
    BY <1>1, <2>2, <2>3 DEF InsertRaises
  <2> QED BY <2>4 DEF packed
<1>2. ~InsertRaises(Document(Nothing))
  <2>1. Nothing.symbols = << >> /\ DOMAIN << >> = {}
    BY DEF Nothing, Result
  <2> QED BY <1>1, <2>1
<1>3. ASSUME file.form = "code"
      PROVE  ~InsertRaises(Document(CodeChunker(file)))
  <2> DEFINE result == CodeChunker(file)
             symbols == result.symbols
  <2>1. \A i \in DOMAIN symbols : ParentFirst(symbols, i)
    BY <1>3, CodeParents
  <2>2. \A i \in DOMAIN symbols :
           symbols[i].type # "file" => symbols[i].id \in {c.symbol : c \in result.chunks}
    BY <1>3, CodeOwners
  <2>3. symbols = result.symbols
    OBVIOUS
  <2> HIDE DEF symbols, result
  <2>4. ~InsertRaises(Document(result))
    BY <1>1, <2>1, <2>2, <2>3
  <2> QED BY <2>4 DEF result
<1>4. ~InsertRaises(Document(TextChunks(file)))
  <2> DEFINE result == TextChunks(file)
             symbols == result.symbols
  <2>1. symbols = <<FileSymbol(file)>>
    BY DEF TextChunks, Result
  <2>2. DOMAIN symbols = {1} /\ symbols[1] = FileSymbol(file)
    BY <2>1
  <2>3. FileSymbol(file).type = "file" /\ FileSymbol(file).parent = Nil
    BY DEF FileSymbol, Symbol
  <2>4. symbols = result.symbols
    OBVIOUS
  <2> HIDE DEF symbols, result
  <2>5. \A i \in DOMAIN symbols : ParentFirst(symbols, i)
    BY <2>2, <2>3 DEF ParentFirst
  <2>6. \A i \in DOMAIN symbols : symbols[i].type = "file"
    BY <2>2, <2>3
  <2>7. ~InsertRaises(Document(result))
    BY <1>1, <2>4, <2>5, <2>6
  <2> QED BY <2>7 DEF result
<1> QED BY <1>2, <1>3, <1>4 DEF PackToChunks, ChunkDocument, ChunkDocumentWithoutId

\* The chunks of a text that fit, and the one of the i-th.
Fits(texts) == {i \in DOMAIN texts : Tokens(texts[i].text) <= MaxTokens}
FitsBefore(texts, i) == Cardinality({j \in Fits(texts) : j < i})
TextChonk(symbol, texts, i) ==
    [id |-> <<symbol, FitsBefore(texts, i) + 1>>, symbol |-> symbol, piece |-> FitsBefore(texts, i),
     count |-> 1, prev |-> Nil, next |-> Nil,
     content |-> texts[i].text, start |-> texts[i].start, end |-> texts[i].end,
     signature |-> Strip(Lines(texts[i].text)[1])]

LEMMA TextChonksAre ==
    ASSUME NEW symbol, NEW texts
    PROVE  TextChonks(symbol, texts) = {TextChonk(symbol, texts, i) : i \in Fits(texts)}
BY DEF TextChonks, TextChonk, Fits, FitsBefore

\* Every chunk of a file fits and does not end before it begins.
ChunkFits(c) == Tokens(c.content) <= MaxTokens /\ c.start <= c.end + 1

LEMMA PackedFit ==
    ASSUME NEW file, IsFile(file), NEW c \in PackToChunks(file).chunks
    PROVE  ChunkFits(c)
<1>1. ASSUME NEW result, \A d \in result.chunks : d.start <= d.end + 1,
             NEW d \in Document(result).chunks
      PROVE  ChunkFits(d)
  <2>1. d \in result.chunks /\ Tokens(d.content) <= MaxTokens
    BY DEF Document, Fitting
  <2> QED BY <1>1, <2>1 DEF ChunkFits
<1>2. \A d \in Nothing.chunks : d.start <= d.end + 1
  BY DEF Nothing, Result
<1>3. ASSUME file.form = "code", NEW d \in CodeChunker(file).chunks
      PROVE  d.start <= d.end + 1
  <2>1. CodeChunker(file).chunks = WalkChunks(file)
    BY DEF CodeChunker, Result
  <2>2. PICK p \in Walked(file.tree) :
           d \in MakeChonks(DeclaredSymbol(file, p), DeclarationPieces(file.tree, p))
    BY <1>3, <2>1 DEF WalkChunks
  <2> DEFINE pieces == DeclarationPieces(file.tree, p)
  <2>3. pieces \in Seq(Piece)
    BY <1>3, WalkedIs, DeclarationTyped
  <2> HIDE DEF pieces
  <2>4. PICK i \in DOMAIN pieces : d = Chonk(DeclaredSymbol(file, p), pieces, i)
    BY <2>2, ChonksAre DEF pieces
  <2>5. d.start = pieces[i].start /\ d.end = pieces[i].end
    BY <2>4 DEF Chonk
  <2>6. pieces[i] \in Piece
    BY <2>3
  <2> QED BY <2>5, <2>6 DEF Piece
<1>4. ASSUME NEW d \in TextChunks(file).chunks
      PROVE  d.start <= d.end + 1
  <2> DEFINE texts == BasicChunker(Contents(file))
  <2>1. TextChunks(file).chunks = TextChonks(FileId(file), texts)
    BY DEF TextChunks, Result
  <2>2. Contents(file) \in Seq(Atom)
    BY NodeTyped DEF IsFile, Contents, IsTree
  <2>3. texts \in Seq(Piece)
    BY <2>2, TextTyped
  <2> HIDE DEF texts
  <2>4. PICK i \in Fits(texts) : d = TextChonk(FileId(file), texts, i)
    BY <1>4, <2>1, TextChonksAre
  <2>5. i \in DOMAIN texts /\ d.start = texts[i].start /\ d.end = texts[i].end
    BY <2>4 DEF TextChonk, Fits
  <2>6. texts[i] \in Piece
    BY <2>3, <2>5
  <2> QED BY <2>5, <2>6 DEF Piece
<1>5. \/ PackToChunks(file) = Document(Nothing)
      \/ file.form = "code" /\ PackToChunks(file) = Document(CodeChunker(file))
      \/ PackToChunks(file) = Document(TextChunks(file))
  BY DEF PackToChunks, ChunkDocument, ChunkDocumentWithoutId
<1> QED BY <1>1, <1>2, <1>3, <1>4, <1>5

\* A declaration that can be cut keeps a chunk.
LEMMA SplittableKept ==
    ASSUME NEW file, IsFile(file), file.form = "code", NEW p \in Walked(file.tree),
           Splittable(file.tree, p)
    PROVE  \E c \in Document(CodeChunker(file)).chunks : c.symbol = SymbolId(file, p)
<1> DEFINE symbol == DeclaredSymbol(file, p)
           pieces == DeclarationPieces(file.tree, p)
           c == Chonk(symbol, pieces, 1)
<1>1. pieces \in Seq(PieceIn(Short(Atom, MaxTokens))) \ {<< >>}
  BY WalkedIs, SplittableFits
<1> HIDE DEF pieces
<1>2. 1 \in DOMAIN pieces
  <2>1. Len(pieces) \in Nat \ {0} /\ DOMAIN pieces = 1 .. Len(pieces)
    BY <1>1, EmptySeq
  <2> QED BY <2>1
<1>3. pieces[1] \in PieceIn(Short(Atom, MaxTokens))
  BY <1>1, <1>2
<1>4. Tokens(pieces[1].text) <= MaxTokens
  BY <1>3 DEF PieceIn, Short, Tokens
<1>5. c.content = pieces[1].text /\ c.symbol = symbol.id
  BY DEF Chonk
<1>6. symbol.id = SymbolId(file, p)
  BY DEF DeclaredSymbol, Symbol
<1> HIDE DEF c
<1>7. c \in MakeChonks(symbol, pieces)
  BY <1>2, ChonksAre DEF c
<1>8. c \in CodeChunker(file).chunks
  BY <1>7 DEF CodeChunker, Result, WalkChunks, pieces
<1>9. c \in Document(CodeChunker(file)).chunks
  BY <1>4, <1>5, <1>8 DEF Document, Fitting
<1> QED BY <1>5, <1>6, <1>9

----------------------------------------------------------------------------
(* The rows of the index and the files they are of.                        *)

\* What is indexed is what the chunker makes of the program's files.
LEMMA IndexedFile ==
    ASSUME RowsInv, NEW e \in files
    PROVE  Chunked[e.file] = PackToChunks(e.file) /\ IsFile(e.file)
<1>1. PICK repository \in Repositories : files \subseteq repository
  BY DEF RowsInv
<1>2. e.file \in FilesOf(Repositories)
  BY <1>1 DEF FilesOf
<1> QED BY <1>2, ChunkerAssumption, FilesAssumption DEF PackedFiles

LEMMA FileIs ==
    ASSUME RowsInv, NEW s \in db.symbols, NEW e, NEW i, IndexOf(s, e, i)
    PROVE  FileOf(s) = e.file
<1>1. e \in files /\ s = WithFile(Chunked[e.file].symbols[i], e.file)
  BY DEF IndexOf
<1>2. Chunked[e.file].symbols[i] \in SymbolRecord
  BY PlaceValues
<1>3. s.key = e.file.key /\ s.path = e.file.path
  BY <1>1, <1>2, WithFileOfSymbol
<1> DEFINE f == CHOOSE f \in files : f.file.key = s.key /\ f.file.path = s.path
<1>4. f \in files /\ f.file.key = s.key
  BY <1>1, <1>3
<1> HIDE DEF f
<1>5. f = e
  BY <1>1, <1>3, <1>4, IndexedEntries
<1> QED BY <1>5 DEF FileOf, f

LEMMA TailBehind ==
    ASSUME NEW S, NEW a \in S, NEW p \in Seq(S)
    PROVE  Tail(<<a>> \o p) = p
<1> DEFINE x == <<a>> \o p
           y == Tail(x)
           n == Len(p)
<1>1. n \in Nat /\ x \in Seq(S) /\ Len(x) = n + 1 /\ \A i \in 1 .. n : x[i + 1] = p[i]
  OBVIOUS
<1> HIDE DEF x
<1>2. y \in Seq(S) /\ Len(y) = n /\ \A i \in 1 .. n : y[i] = x[i + 1]
  <2>1. x # << >>
    BY <1>1, EmptySeq
  <2> QED BY <1>1, <2>1
<1> HIDE DEF y
<1>3. y = p
  BY <1>1, <1>2, SeqEqual
<1> QED BY <1>3 DEF x, y

\* A class or function in the index is a declaration of its file.
LEMMA CodeRow ==
    ASSUME RowsInv, NEW s \in db.symbols, IsCode(s)
    PROVE  \E e \in files : \E p \in Walked(e.file.tree) :
              /\ FileOf(s) = e.file /\ PlaceOf(s) = p /\ e.file.form = "code" /\ IsFile(e.file)
              /\ Chunked[e.file] = Document(CodeChunker(e.file))
              /\ s.id = SymbolId(e.file, p) /\ s.type = DeclaredSymbol(e.file, p).type
              /\ s.start = DeclaredSymbol(e.file, p).start /\ s.end = DeclaredSymbol(e.file, p).end
<1>0. PICK e \in files : \E i \in DOMAIN Chunked[e.file].symbols : IndexOf(s, e, i)
  BY HasPlace
<1>1. PICK i \in DOMAIN Chunked[e.file].symbols : IndexOf(s, e, i)
  BY <1>0
<1> DEFINE file == e.file
           symbols == Chunked[file].symbols
<1>2. FileOf(s) = file /\ file.form = "code" /\ s.type # "file"
  BY <1>1, FileIs DEF IsCode
<1>3. Chunked[file] = PackToChunks(file) /\ IsFile(file)
  BY IndexedFile
<1>4. s = WithFile(symbols[i], file) /\ symbols[i] \in SymbolRecord
  BY <1>1, PlaceValues DEF IndexOf
<1>5. PackToChunks(file) = Document(Nothing) \/ PackToChunks(file) = Document(CodeChunker(file))
  BY <1>2 DEF PackToChunks, ChunkDocument, ChunkDocumentWithoutId
<1>6. Document(Nothing).symbols = << >> /\ DOMAIN << >> = {}
  BY DEF Document, Nothing, Result
<1> HIDE DEF file
<1>7. i \in DOMAIN symbols
  BY <1>1 DEF file
<1>8. Chunked[file] = Document(CodeChunker(file))
  BY <1>3, <1>5, <1>6, <1>7
<1>9. symbols = CodeChunker(file).symbols
  BY <1>8 DEF Document
<1> HIDE DEF symbols
<1>10. /\ s.id = symbols[i].id /\ s.type = symbols[i].type
       /\ s.start = symbols[i].start /\ s.end = symbols[i].end
  BY <1>4, WithFileOfSymbol
<1>11. PICK p \in Walked(file.tree) : symbols[i] = DeclaredSymbol(file, p)
  BY <1>2, <1>3, <1>7, <1>9, <1>10, DeclaredAt
<1>12. s.id = SymbolId(file, p)
  BY <1>10, <1>11 DEF DeclaredSymbol, Symbol
<1>13. PlaceOf(s) = p
  <2>1. p \in Seq(Nat) /\ file.key \in Nat
    BY <1>2, <1>3, WalkedIs, NodeTyped DEF IsFile
  <2>2. s.id = <<file.key>> \o p
    BY <1>12 DEF SymbolId, FileId
  <2> QED BY <2>1, <2>2, TailBehind DEF PlaceOf
<1> QED BY <1>2, <1>3, <1>8, <1>10, <1>11, <1>12, <1>13 DEF file

\* The chunks that the chunker made of a symbol are loaded for it.
LEMMA LoadedChunks ==
    ASSUME RowsInv, NEW e \in files, NEW c \in Chunked[e.file].chunks
    PROVE  WithFile(c, e.file) \in LoadChunks(db, c.symbol)
<1>1. c \in ChunkRecord
  BY IndexedEntries DEF WellFormed
<1>2. WithFile(c, e.file) \in db.chunks
  BY DEF RowsInv, ChunkRows
<1> QED BY <1>1, <1>2, WithFileOfChunk DEF LoadChunks

LEMMA RowFits ==
    ASSUME RowsInv, NEW c \in db.chunks
    PROVE  ChunkFits(c)
<1>1. PICK e \in files : c \in ChunkRows(e.file, Chunked[e.file])
  BY DEF RowsInv
<1>2. PICK d \in Chunked[e.file].chunks : c = WithFile(d, e.file)
  BY <1>1 DEF ChunkRows
<1>3. d \in ChunkRecord
  BY <1>2, IndexedEntries DEF WellFormed
<1>4. ChunkFits(d)
  BY <1>2, IndexedFile, PackedFit
<1> QED BY <1>2, <1>3, <1>4, WithFileOfChunk DEF ChunkFits

\* What has no code cannot be cut.
LEMMA NothingLoaded ==
    ASSUME RowsInv, NEW s \in db.symbols, IsCode(s), LoadChunks(db, s.id) = {}
    PROVE  /\ Large(s)
           /\ \/ ~Bodied(s)
              \/ s.type = "method" /\ Statements(TreeOf(s), BodyOf(s)) = {}
              \/ s.type = "class" /\ Tokens(HeaderOf(s)) >= MaxTokens
<1>0. PICK e \in files : \E p \in Walked(e.file.tree) :
         /\ FileOf(s) = e.file /\ PlaceOf(s) = p /\ e.file.form = "code" /\ IsFile(e.file)
         /\ Chunked[e.file] = Document(CodeChunker(e.file))
         /\ s.id = SymbolId(e.file, p) /\ s.type = DeclaredSymbol(e.file, p).type
  BY CodeRow
<1>1. PICK p \in Walked(e.file.tree) :
         /\ FileOf(s) = e.file /\ PlaceOf(s) = p /\ e.file.form = "code" /\ IsFile(e.file)
         /\ Chunked[e.file] = Document(CodeChunker(e.file))
         /\ s.id = SymbolId(e.file, p) /\ s.type = DeclaredSymbol(e.file, p).type
  BY <1>0
<1> DEFINE t == e.file.tree
<1>2. ~Splittable(t, p)
  <2>1. SUFFICES ASSUME Splittable(t, p)
                 PROVE  FALSE
    OBVIOUS
  <2>2. PICK c \in Chunked[e.file].chunks : c.symbol = s.id
    BY <1>1, <2>1, SplittableKept
  <2> QED BY <2>2, LoadedChunks
<1>3. IsTree(t) /\ p \in DOMAIN t /\ t[p].kind \in Declarations
  BY <1>1, WalkedIs
<1>4. TreeOf(s) = t /\ PlaceOf(s) = p
  BY <1>1 DEF TreeOf
<1>5. s.type = IF t[p].kind \in ClassKinds THEN "class" ELSE "method"
  BY <1>1 DEF DeclaredSymbol, Symbol
<1> HIDE DEF t
<1>6. Text(t, p) \in Seq(Atom) /\ MaxTokens \in Nat
  BY <1>3, NodeTyped, MaxTokensAssumption
<1>7. Large(s)
  <2>1. Tokens(Text(t, p)) > MaxTokens
    BY <1>2, <1>6 DEF Splittable, Tokens
  <2> QED BY <1>4, <2>1 DEF Large, SymbolText
<1>8. ASSUME HasBody(t, p)
      PROVE  \/ s.type = "method" /\ Statements(t, Body(t, p)) = {}
             \/ s.type = "class" /\ Tokens(BeforeBody(t, p)) >= MaxTokens
  <2>1. BeforeBody(t, p) \in Seq(Atom)
    BY <1>3, <1>8, BodyTyped
  <2>2. t[p].kind \in ClassKinds => Tokens(BeforeBody(t, p)) >= MaxTokens
    BY <1>2, <1>6, <1>8, <2>1 DEF Splittable, Tokens
  <2>3. t[p].kind \notin ClassKinds => Statements(t, Body(t, p)) = {}
    BY <1>2, <1>3, <1>8 DEF Splittable, Declarations
  <2> QED BY <1>5, <2>2, <2>3
<1> QED BY <1>4, <1>7, <1>8 DEF Bodied, BodyOf, HeaderOf

----------------------------------------------------------------------------
(* The chunks of a text, as they are loaded.                               *)

\* The symbol of a file covers its lines.
LEMMA FileRow ==
    ASSUME RowsInv, NEW s \in db.symbols, s.type = "file"
    PROVE  \E e \in files :
              /\ FileOf(s) = e.file /\ IsFile(e.file) /\ s.id = FileId(e.file)
              /\ s.start = 1 /\ s.end = Len(Lines(Contents(e.file)))
              /\ e.file.form # "code" => Chunked[e.file] = Document(TextChunks(e.file))
<1>1. PICK e \in files : \E i \in DOMAIN Chunked[e.file].symbols : IndexOf(s, e, i)
  BY HasPlace
<1>2. PICK i \in DOMAIN Chunked[e.file].symbols : IndexOf(s, e, i)
  BY <1>1
<1> DEFINE file == e.file
           symbols == Chunked[file].symbols
<1>3. FileOf(s) = file
  BY <1>2, FileIs
<1>4. Chunked[file] = PackToChunks(file) /\ IsFile(file)
  BY IndexedFile
<1>5. s = WithFile(symbols[i], file) /\ symbols[i] \in SymbolRecord
  BY <1>2, PlaceValues DEF IndexOf
<1>6. \/ PackToChunks(file) = Document(Nothing)
      \/ file.form = "code" /\ PackToChunks(file) = Document(CodeChunker(file))
      \/ file.form # "code" /\ PackToChunks(file) = Document(TextChunks(file))
  BY DEF PackToChunks, ChunkDocument, ChunkDocumentWithoutId
<1>7. Document(Nothing).symbols = << >> /\ DOMAIN << >> = {}
  BY DEF Document, Nothing, Result
<1> HIDE DEF file
<1>8. i \in DOMAIN symbols
  BY <1>2 DEF file
<1>9. \/ file.form = "code" /\ Chunked[file] = Document(CodeChunker(file))
      \/ file.form # "code" /\ Chunked[file] = Document(TextChunks(file))
  BY <1>4, <1>6, <1>7, <1>8
<1>10. \A result : Document(result).symbols = result.symbols
  BY DEF Document
<1> HIDE DEF symbols
<1>11. /\ s.id = symbols[i].id /\ s.type = symbols[i].type
       /\ s.start = symbols[i].start /\ s.end = symbols[i].end
  BY <1>5, WithFileOfSymbol
<1>12. symbols[i] = FileSymbol(file)
  <2>1. CASE file.form = "code" /\ Chunked[file] = Document(CodeChunker(file))
    <3> DEFINE o == InWalkOrder(Walked(file.tree))
               m == Cardinality(Walked(file.tree))
    <3>1. symbols = CodeChunker(file).symbols
      BY <1>10, <2>1 DEF symbols
    <3>2. /\ DOMAIN symbols = 1 .. m + 1 /\ m \in Nat
          /\ \A k \in 1 .. m + 1 : symbols[k] = SymbolAt(file, o, k)
      BY <1>4, <3>1, CodeSymbols
    <3> HIDE DEF m, o
    <3>3. symbols[i] = SymbolAt(file, o, i)
      BY <1>8, <3>2
    <3>4. \A p : DeclaredSymbol(file, p).type # "file"
      BY DEF DeclaredSymbol, Symbol
    <3>5. i = 1
      <4> SUFFICES ASSUME i # 1 PROVE FALSE
        OBVIOUS
      <4>1. symbols[i] = DeclaredSymbol(file, o[i - 1])
        BY <3>3 DEF SymbolAt
      <4> QED BY <1>11, <3>4, <4>1
    <3> QED BY <3>3, <3>5 DEF SymbolAt
  <2>2. CASE file.form # "code" /\ Chunked[file] = Document(TextChunks(file))
    <3>1. symbols = <<FileSymbol(file)>>
      BY <1>10, <2>2 DEF symbols, TextChunks, Result
    <3>2. i = 1 /\ <<FileSymbol(file)>>[1] = FileSymbol(file)
      BY <1>8, <3>1
    <3> QED BY <3>1, <3>2
  <2> QED BY <1>9, <2>1, <2>2
<1>13. /\ s.id = FileId(file) /\ s.start = 1 /\ s.end = Len(Lines(Contents(file)))
  BY <1>11, <1>12 DEF FileSymbol, Symbol
<1>14. file.form # "code" => Chunked[file] = Document(TextChunks(file))
  BY <1>9
<1> QED BY <1>3, <1>4, <1>13, <1>14 DEF file

\* The chunks of a symbol are those that the chunker made of it.
LEMMA LoadedAre ==
    ASSUME RowsInv, NEW e \in files, NEW i \in DOMAIN Chunked[e.file].symbols,
           NEW id, id = Chunked[e.file].symbols[i].id
    PROVE  LoadChunks(db, id) = {WithFile(c, e.file) : c \in {d \in Chunked[e.file].chunks : d.symbol = id}}
<1> DEFINE made == {d \in Chunked[e.file].chunks : d.symbol = id}
<1>1. WellFormed(Chunked[e.file])
  BY IndexedEntries
<1>2. Chunked[e.file].symbols[i] \in ToSet(Chunked[e.file].symbols)
  BY DEF ToSet
<1>3. ASSUME NEW c \in made
      PROVE  WithFile(c, e.file) \in LoadChunks(db, id)
  BY LoadedChunks
<1>4. ASSUME NEW x \in LoadChunks(db, id)
      PROVE  \E c \in made : x = WithFile(c, e.file)
  <2>1. x \in db.chunks /\ x.symbol = id
    BY DEF LoadChunks
  <2>2. PICK f \in files : x \in ChunkRows(f.file, Chunked[f.file])
    BY <2>1 DEF RowsInv
  <2>3. PICK c \in Chunked[f.file].chunks : x = WithFile(c, f.file)
    BY <2>2 DEF ChunkRows
  <2>4. WellFormed(Chunked[f.file])
    BY IndexedEntries
  <2>5. c \in ChunkRecord
    BY <2>3, <2>4 DEF WellFormed
  <2>6. c.symbol = id
    BY <2>1, <2>3, <2>5, WithFileOfChunk
  <2>7. PICK r \in ToSet(Chunked[f.file].symbols) : c.symbol = r.id
    BY <2>3, <2>4 DEF WellFormed
  <2>8. ~Apart(Chunked[e.file], Chunked[f.file])
    BY <1>2, <2>6, <2>7 DEF Apart
  <2>9. e = f
    BY <2>8, IndexedEntries
  <2> QED BY <2>3, <2>6, <2>9
<1> HIDE DEF made
<1>5. LoadChunks(db, id) = {WithFile(c, e.file) : c \in made}
  BY <1>3, <1>4
<1> QED BY <1>5 DEF made

\* All chunks of a text fit, so they are numbered as they are cut.
LEMMA TextNumbers ==
    ASSUME NEW text \in Seq(Atom), NEW i \in DOMAIN BasicChunker(text)
    PROVE  /\ Fits(BasicChunker(text)) = DOMAIN BasicChunker(text)
           /\ FitsBefore(BasicChunker(text), i) = i - 1
<1> DEFINE texts == BasicChunker(text)
           n == Len(texts)
<1>1. texts \in Seq(Piece) /\ \A k \in DOMAIN texts : Tokens(texts[k].text) <= MaxTokens
  BY TextTyped, BasicWhole
<1>2. i \in DOMAIN texts
  OBVIOUS
<1> HIDE DEF texts
<1>3. n \in Nat /\ DOMAIN texts = 1 .. n
  BY <1>1
<1>4. Fits(texts) = DOMAIN texts
  BY <1>1 DEF Fits
<1> HIDE DEF n
<1>5. {j \in 1 .. n : j < i} = 1 .. i - 1 /\ i - 1 \in Nat
  BY <1>2, <1>3
<1>6. Cardinality(1 .. i - 1) = i - 1
  <2> DEFINE m == i - 1
  <2>1. m \in Nat
    BY <1>5
  <2> HIDE DEF m
  <2>2. Cardinality(1 .. m) = m
    <3>1. 1 <= m => Cardinality(1 .. m) = m - 1 + 1
      BY <2>1, FS_Interval
    <3>2. m = 0 => 1 .. m = {}
      OBVIOUS
    <3> QED BY <2>1, <3>1, <3>2, FS_EmptySet
  <2> QED BY <2>2 DEF m
<1>7. FitsBefore(texts, i) = i - 1
  BY <1>3, <1>4, <1>5, <1>6 DEF FitsBefore
<1> QED BY <1>4, <1>7 DEF texts

LEMMA TextCode ==
    ASSUME RowsInv, NEW s \in db.symbols, s.type = "file", FileOf(s).form # "code"
    PROVE  LET lines == Lines(Contents(FileOf(s)))
           IN  CodeOf(s) = FlattenSeq(KeptOf(lines, Len(lines)))
<1>1. PICK e \in files :
         /\ FileOf(s) = e.file /\ IsFile(e.file) /\ s.id = FileId(e.file)
         /\ e.file.form # "code" => Chunked[e.file] = Document(TextChunks(e.file))
  BY FileRow
<1> DEFINE file == e.file
           id == FileId(file)
           texts == BasicChunker(Contents(file))
           n == Len(texts)
           rows == LoadChunks(db, id)
           chunks == Chunked[file].chunks
           row == [i \in 1 .. n |-> WithFile(TextChonk(id, texts, i), file)]
<1>2. Contents(file) \in Seq(Atom)
  BY <1>1, NodeTyped DEF IsFile, Contents, IsTree
<1>3. /\ texts \in Seq(Piece) /\ Fits(texts) = DOMAIN texts
      /\ \A i \in DOMAIN texts : FitsBefore(texts, i) = i - 1
  <2>1. texts \in Seq(Piece) /\ \A i \in DOMAIN texts : Tokens(texts[i].text) <= MaxTokens
    BY <1>2, TextTyped, BasicWhole
  <2>2. Fits(texts) = DOMAIN texts
    BY <2>1 DEF Fits
  <2> QED BY <1>2, <2>1, <2>2, TextNumbers
<1>4. \A i \in DOMAIN texts : Tokens(texts[i].text) <= MaxTokens
  BY <1>2, BasicWhole
<1>5. /\ Chunked[file].symbols = <<FileSymbol(file)>>
      /\ chunks = Fitting(TextChonks(id, texts))
  BY <1>1 DEF Document, TextChunks, Result
<1>6. rows = {WithFile(c, file) : c \in {d \in chunks : d.symbol = id}}
  <2>1. FileSymbol(file).id = id
    BY DEF FileSymbol, Symbol
  <2>2. 1 \in DOMAIN Chunked[file].symbols /\ Chunked[file].symbols[1] = FileSymbol(file)
    BY <1>5
  <2> QED BY <2>1, <2>2, LoadedAre
<1>7. WellFormed(Chunked[file])
  BY IndexedEntries
<1> HIDE DEF texts, id
<1>8. n \in Nat /\ DOMAIN texts = 1 .. n
  BY <1>3
<1> HIDE DEF chunks, n
<1>9. chunks = {TextChonk(id, texts, i) : i \in 1 .. n}
  <2>1. TextChonks(id, texts) = {TextChonk(id, texts, i) : i \in 1 .. n}
    BY <1>3, <1>8, TextChonksAre
  <2>2. \A i \in 1 .. n : Tokens(TextChonk(id, texts, i).content) <= MaxTokens
    BY <1>4, <1>8 DEF TextChonk
  <2> QED BY <1>5, <2>1, <2>2 DEF Fitting
<1>10. \A i \in 1 .. n :
          /\ TextChonk(id, texts, i).symbol = id /\ TextChonk(id, texts, i).piece = i - 1
          /\ TextChonk(id, texts, i).prev = Nil
          /\ TextChonk(id, texts, i).content = texts[i].text
  BY <1>3, <1>8 DEF TextChonk
<1>11. \A i \in 1 .. n : TextChonk(id, texts, i) \in ChunkRecord
  BY <1>7, <1>9 DEF WellFormed, chunks
<1>12. \A i \in 1 .. n : row[i].piece = i - 1 /\ row[i].content = texts[i].text /\ row[i].prev = Nil
  <2> TAKE i \in 1 .. n
  <2> DEFINE c == TextChonk(id, texts, i)
  <2>1. c \in ChunkRecord /\ row[i] = WithFile(c, file)
    BY <1>11
  <2>2. c.piece = i - 1 /\ c.prev = Nil /\ c.content = texts[i].text
    BY <1>10
  <2> HIDE DEF c, row
  <2>3. DOMAIN c = {"id", "symbol", "piece", "count", "prev", "next", "content", "start",
                    "end", "signature"}
    BY <2>1 DEF ChunkRecord
  <2>4. WithFile(c, file).prev = c.prev
    BY <2>3 DEF WithFile
  <2> QED BY <2>1, <2>2, <2>4, WithFileOfChunk
<1>13. rows = {row[i] : i \in 1 .. n}
  <2>1. {d \in chunks : d.symbol = id} = chunks
    BY <1>9, <1>10
  <2> HIDE DEF rows
  <2>2. rows = {WithFile(c, file) : c \in chunks}
    BY <1>6, <2>1
  <2>3. \A i \in 1 .. n : row[i] = WithFile(TextChonk(id, texts, i), file)
    OBVIOUS
  <2> HIDE DEF row
  <2> QED BY <1>9, <2>2, <2>3
<1>14. Numbered(rows)
  BY ChunksAreTyped DEF ChunksTyped
<1> HIDE DEF rows
<1>15. row \in [1 .. n -> rows]
  BY <1>13
<1>16. DOMAIN row = 1 .. n
  OBVIOUS
<1> HIDE DEF row
<1>17. InPieceOrder(rows) = row
  BY <1>8, <1>12, <1>13, <1>14, <1>15, NumberedOrder
<1>18. OrderedChunks(rows) = row
  <2>1. {c \in rows : c.prev = Nil} = rows
    BY <1>12, <1>13
  <2>2. Cardinality(rows) \in Nat
    BY <1>14, FS_CardinalityType DEF Numbered
  <2>3. ~(Cardinality(rows) >= 2 /\ Cardinality({c \in rows : c.prev = Nil}) = 1)
    BY <2>1, <2>2
  <2> QED BY <1>17, <2>3 DEF OrderedChunks
<1>19. PieceTexts(db, id) = TextsOf(texts)
  <2>1. PieceTexts(db, id) = [i \in DOMAIN row |-> row[i].content]
    BY <1>18 DEF PieceTexts, Each, rows
  <2> QED BY <1>8, <1>12, <1>16, <2>1 DEF TextsOf
<1>20. CodeOf(s) = FlattenSeq(TextsOf(texts))
  BY <1>1, <1>19, CodeIs DEF FullCode, id
<1> QED BY <1>1, <1>2, <1>20, BasicWhole DEF texts

\* Only code has symbols besides that of the file.
LEMMA CodeOnly ==
    ASSUME RowsInv, NEW s \in db.symbols, s.type # "file"
    PROVE  IsCode(s)
<1>1. PICK e \in files : \E i \in DOMAIN Chunked[e.file].symbols : IndexOf(s, e, i)
  BY HasPlace
<1>2. PICK i \in DOMAIN Chunked[e.file].symbols : IndexOf(s, e, i)
  BY <1>1
<1> DEFINE file == e.file
           symbols == Chunked[file].symbols
<1>3. FileOf(s) = file
  BY <1>2, FileIs
<1>4. Chunked[file] = PackToChunks(file) /\ i \in DOMAIN symbols
  BY <1>2, IndexedFile
<1>5. s = WithFile(symbols[i], file) /\ symbols[i] \in SymbolRecord
  BY <1>2, PlaceValues DEF IndexOf
<1>6. \/ PackToChunks(file) = Document(Nothing)
      \/ file.form = "code"
      \/ PackToChunks(file) = Document(TextChunks(file))
  BY DEF PackToChunks, ChunkDocument, ChunkDocumentWithoutId
<1>7. Document(Nothing).symbols = << >> /\ DOMAIN << >> = {}
  BY DEF Document, Nothing, Result
<1>8. Document(TextChunks(file)).symbols = <<FileSymbol(file)>>
  BY DEF Document, TextChunks, Result
<1>9. DOMAIN <<FileSymbol(file)>> = {1} /\ FileSymbol(file).type = "file"
  BY DEF FileSymbol, Symbol
<1> HIDE DEF file
<1>10. s.type = symbols[i].type
  <2> HIDE DEF symbols
  <2> QED BY <1>5, WithFileOfSymbol
<1>11. file.form = "code"
  <2>1. PackToChunks(file) # Document(Nothing)
    BY <1>4, <1>7
  <2>2. ASSUME PackToChunks(file) = Document(TextChunks(file))
        PROVE  FALSE
    <3>1. symbols = <<FileSymbol(file)>>
      BY <1>4, <1>8, <2>2
    <3>2. i = 1
      BY <1>4, <1>9, <3>1
    <3>3. symbols[i] = FileSymbol(file)
      BY <3>1, <3>2
    <3> QED BY <1>9, <1>10, <3>3
  <2> QED BY <1>6, <2>1, <2>2
<1> QED BY <1>3, <1>11 DEF IsCode

\* What is not in pieces has as many lines as its symbol says, and one more for
\* every other break in it.
LEMMA SourceLines ==
    ASSUME RowsInv, NEW s \in db.symbols, Unsplit(s)
    PROVE  LineCount(SourceOf(s)) = s.end - s.start + 1 + OtherBreaks(SourceOf(s))
<1>1. CASE s.type = "file"
  <2>1. PICK e \in files :
           /\ FileOf(s) = e.file /\ IsFile(e.file)
           /\ s.start = 1 /\ s.end = Len(Lines(Contents(e.file)))
    BY <1>1, FileRow
  <2> DEFINE text == Contents(e.file)
  <2>2. text \in Seq(Atom)
    BY <2>1, NodeTyped DEF IsFile, Contents, IsTree
  <2>3. SourceOf(s) = Append(text, NL)
    BY <1>1, <2>1 DEF SourceOf
  <2>4. s.start = 1 /\ s.end = Len(Lines(text))
    BY <2>1
  <2> HIDE DEF text
  <2>5. LineCount(Append(text, NL)) = Breaks(text, Len(text)) + OtherBreaks(Append(text, NL)) + 1
    BY <2>2, AtomsAre, CountEnded
  <2>6. Len(Lines(text)) = Breaks(text, Len(text)) + 1 /\ Breaks(text, Len(text)) \in Nat
    <3>1. Len(text) \in Nat
      BY <2>2
    <3> QED BY <2>2, <3>1, LinesBreaks, NextBreak
  <2>7. OtherBreaks(Append(text, NL)) \in Nat
    <3>1. Append(text, NL) \in Seq(Atom)
      BY <2>2, AtomsAre
    <3> QED BY <3>1, OtherBreaksNat
  <2> QED BY <2>3, <2>4, <2>5, <2>6, <2>7
<1>2. CASE s.type # "file"
  <2>1. IsCode(s)
    BY <1>2, CodeOnly
  <2>2. PICK e \in files : \E p \in Walked(e.file.tree) :
           /\ FileOf(s) = e.file /\ PlaceOf(s) = p /\ e.file.form = "code" /\ IsFile(e.file)
           /\ s.start = DeclaredSymbol(e.file, p).start /\ s.end = DeclaredSymbol(e.file, p).end
    BY <2>1, CodeRow
  <2>3. PICK p \in Walked(e.file.tree) :
           /\ FileOf(s) = e.file /\ PlaceOf(s) = p /\ e.file.form = "code" /\ IsFile(e.file)
           /\ s.start = DeclaredSymbol(e.file, p).start /\ s.end = DeclaredSymbol(e.file, p).end
    BY <2>2
  <2> DEFINE t == e.file.tree
  <2>4. IsTree(t) /\ IsParsed(t) /\ p \in DOMAIN t /\ t[p].kind \in Declarations
    BY <2>3, WalkedIs
  <2>5. SourceOf(s) = Text(t, p)
    BY <1>2, <2>3 DEF SourceOf, SymbolText, TreeOf
  <2>6. s.start = StartLine(t, p) /\ s.end = EndLine(t, p)
    BY <2>3 DEF DeclaredSymbol, Symbol
  <2> HIDE DEF t
  <2>7. LineCount(Text(t, p)) = EndLine(t, p) - StartLine(t, p) + 1 + OtherBreaks(Text(t, p))
    BY <2>4, DeclaredIs, NamedLines
  <2> QED BY <2>5, <2>6, <2>7
<1> QED BY <1>1, <1>2

----------------------------------------------------------------------------
(* The theorems.                                                           *)

\* The files that are still to index are the program's.
Waiting == \A e \in todo : IsFile(e.file) /\ e.file \in FilesOf(Repositories)

\* Every file that the chunker does not raise on can be indexed: its symbols are
\* inserted parents first, and every class and function has a chunk.
THEOREM EveryFileInserts == Spec => []InsertsAccepted
<1> DEFINE Inv == InsertsAccepted /\ Waiting
<1>1. Init => Inv
  <2> SUFFICES ASSUME Init PROVE Inv
    OBVIOUS
  <2>1. refused = {} /\ todo \in Repositories
    BY DEF Init
  <2>2. \A e \in todo : e.file \in FilesOf(Repositories)
    BY <2>1 DEF FilesOf
  <2> QED BY <2>1, <2>2, FilesAssumption DEF InsertsAccepted, Waiting
<1>2. Inv /\ [Next]_vars => Inv'
  <2> SUFFICES ASSUME Inv, [Next]_vars PROVE Inv'
    OBVIOUS
  <2>1. ASSUME NEW entry \in todo, IndexFile(entry)
        PROVE  Inv'
    <3>1. backend' = backend /\ todo' \subseteq todo
      BY <2>1 DEF IndexFile
    <3>2. Chunked[entry.file] = PackToChunks(entry.file) /\ IsFile(entry.file)
      BY ChunkerAssumption DEF Waiting, PackedFiles
    <3>3. ~InsertRaises(Chunked[entry.file])
      BY <3>2, PackedInserts
    <3>4. entry.file \in Raising => ExpRaises(entry.file)
      BY ChunkerAssumption DEF RaisingFiles
    <3>5. refused' = refused \/ /\ refused' = refused \cup {entry}
                                /\ backend = "exp_chunk" /\ entry.file \in Raising
      BY <2>1, <3>3 DEF IndexFile
    <3> QED BY <3>1, <3>4, <3>5 DEF InsertsAccepted, Waiting
  <2>2. ASSUME UNCHANGED <<backend, todo, refused>>
        PROVE  Inv'
    BY <2>2 DEF InsertsAccepted, Waiting
  <2>3. ASSUME Next, ~\E entry \in todo : IndexFile(entry)
        PROVE  UNCHANGED <<backend, todo, refused>>
    BY <2>3 DEF Next, LookUp, Open, ReadOn, Finish, AskRange, Ask
  <2> QED BY <2>1, <2>2, <2>3 DEF vars
<1>3. Inv => InsertsAccepted
  OBVIOUS
<1> QED BY <1>1, <1>2, <1>3, PTL DEF Spec

\* Whatever the tree, every chunk fits, and a class or function without code is
\* too large and has nowhere to be cut: no body, no statement in it, or a header
\* that fills the chunk.
THEOREM OnlyTheUnsplittableIsDropped == Spec => []OnlyUnsplittableDropped
<1>1. RetrievalInv => OnlyUnsplittableDropped
  <2> SUFFICES ASSUME RowsInv
               PROVE  OnlyUnsplittableDropped
    BY DEF RetrievalInv
  <2>1. \A c \in db.chunks : Tokens(c.content) <= MaxTokens /\ c.start <= c.end + 1
    BY RowFits DEF ChunkFits
  <2>2. \A s \in db.symbols :
           IsCode(s) /\ LoadChunks(db, s.id) = {} =>
              /\ Large(s)
              /\ \/ ~Bodied(s)
                 \/ s.type = "method" /\ Statements(TreeOf(s), BodyOf(s)) = {}
                 \/ s.type = "class" /\ Tokens(HeaderOf(s)) >= MaxTokens
    BY NothingLoaded
  <2> QED BY <2>1, <2>2 DEF OnlyUnsplittableDropped
<1> QED BY <1>1, InvariantHolds, PTL

\* Whatever the files and the token budget, a text is found under its file, but for
\* the lines that are left out, and source that is not in pieces has for
\* splitlines() the lines of its symbol and one for every form feed or other break
\* that is no newline: with ReadingGivesTheCode, the lines a client counts are those
\* of the file when the source has no such break.
THEOREM TextIsFound == Spec => []TextKeepsLines
<1>1. RetrievalInv => TextKeepsLines
  <2> SUFFICES ASSUME RowsInv
               PROVE  TextKeepsLines
    BY DEF RetrievalInv
  <2>1. ASSUME NEW s \in db.symbols, s.type = "file", FileOf(s).form # "code"
        PROVE  CodeOf(s) = Concat(Lines(Contents(FileOf(s))),
                                  LAMBDA line : IF Tokens(line) < MaxTokens
                                                THEN Append(line, NL) ELSE << >>)
    <3> DEFINE lines == Lines(Contents(FileOf(s)))
    <3>1. CodeOf(s) = FlattenSeq(KeptOf(lines, Len(lines)))
      BY <2>1, TextCode
    <3>2. DOMAIN lines = 1 .. Len(lines)
      <4>1. PICK e \in files : FileOf(s) = e.file /\ IsFile(e.file)
        BY <2>1, FileRow
      <4>2. Contents(e.file) \in Seq(Atom)
        BY <4>1, NodeTyped DEF IsFile, Contents, IsTree
      <4>3. lines \in Seq(Seq(Atom))
        BY <4>1, <4>2, LinesTyped
      <4> HIDE DEF lines
      <4> QED BY <4>3
    <3> HIDE DEF lines
    <3>3. KeptOf(lines, Len(lines)) =
             [i \in DOMAIN lines |-> IF Tokens(lines[i]) < MaxTokens
                                     THEN Append(lines[i], NL) ELSE << >>]
      BY <3>2 DEF KeptOf, KeptLine, LineKept
    <3> QED BY <3>1, <3>3 DEF Concat, Each, lines
  <2>2. \A s \in db.symbols :
           Unsplit(s) => LineCount(SourceOf(s)) = s.end - s.start + 1 + OtherBreaks(SourceOf(s))
    BY SourceLines
  <2> QED BY <2>1, <2>2 DEF TextKeepsLines
<1> QED BY <1>1, InvariantHolds, PTL
==============================================================================
