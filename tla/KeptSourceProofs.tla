-------------------------- MODULE KeptSourceProofs ---------------------------
(***************************************************************************)
(* Theorems about what the pieces of a function and the overview of a      *)
(* class keep of the source, for every tree.                               *)
(***************************************************************************)
EXTENDS ChunkerProofs

----------------------------------------------------------------------------
(* What a text keeps of a set of characters, however it is cut.            *)

LEMMA FlattenJoined ==
    ASSUME NEW S, NEW s \in Seq(Seq(S)), NEW r \in Seq(Seq(S))
    PROVE  FlattenSeq(s \o r) = FlattenSeq(s) \o FlattenSeq(r)
<1> DEFINE w == s \o r
<1>1. w \in Seq(Seq(S)) /\ Len(w) = Len(s) + Len(r) /\ Len(s) \in 0 .. Len(w)
  OBVIOUS
<1>2. FlattenSeq(w) = FlattenSeq(SubSeq(w, 1, Len(s))) \o FlattenSeq(SubSeq(w, Len(s) + 1, Len(w)))
  <2> HIDE DEF w
  <2> QED BY <1>1, FlattenSplit
<1>3. SubSeq(w, 1, Len(s)) = s
  OBVIOUS
<1>4. SubSeq(w, Len(s) + 1, Len(w)) = r
  OBVIOUS
<1> QED BY <1>2, <1>3, <1>4

LEMMA JoinedAt ==
    ASSUME NEW S, NEW a \in Seq(S), NEW b \in Seq(S)
    PROVE  /\ a \o b \in Seq(S) /\ Len(a \o b) = Len(a) + Len(b)
           /\ \A i \in 1 .. Len(a) + Len(b) :
                 (a \o b)[i] = IF i <= Len(a) THEN a[i] ELSE b[i - Len(a)]
OBVIOUS

\* A character, when it is in the set.
Only(c, atoms) == IF c \in atoms THEN <<c>> ELSE << >>
Picked(text, atoms) == [i \in DOMAIN text |-> Only(text[i], atoms)]

LEMMA RestrictedIs ==
    ASSUME NEW A, NEW text \in Seq(A), NEW atoms
    PROVE  /\ Restricted(text, atoms) = FlattenSeq(Picked(text, atoms))
           /\ Picked(text, atoms) \in Seq(Seq(A)) /\ Len(Picked(text, atoms)) = Len(text)
           /\ Restricted(text, atoms) \in Seq(A)
<1> DEFINE s == Picked(text, atoms)
<1>1. Restricted(text, atoms) = FlattenSeq(s)
  BY DEF Restricted, Concat, Each, Only, Picked
<1>2. s \in Seq(Seq(A)) /\ Len(s) = Len(text)
  <2>1. DOMAIN text = 1 .. Len(text) /\ Len(text) \in Nat
    OBVIOUS
  <2>2. \A i \in DOMAIN text : Only(text[i], atoms) \in Seq(A)
    BY DEF Only
  <2>3. s \in [1 .. Len(text) -> Seq(A)]
    BY <2>1, <2>2 DEF Picked
  <2> HIDE DEF s
  <2> QED BY <2>1, <2>3, SeqOfFunction
<1> HIDE DEF s
<1>3. FlattenSeq(s) \in Seq(A)
  BY <1>2, FlattenTyped
<1> QED BY <1>1, <1>2, <1>3 DEF s

LEMMA RestrictedJoined ==
    ASSUME NEW A, NEW x \in Seq(A), NEW y \in Seq(A), NEW atoms
    PROVE  Restricted(x \o y, atoms) = Restricted(x, atoms) \o Restricted(y, atoms)
<1> DEFINE px == Picked(x, atoms)
           py == Picked(y, atoms)
           pxy == Picked(x \o y, atoms)
<1>1. x \o y \in Seq(A) /\ Len(x \o y) = Len(x) + Len(y)
      /\ DOMAIN x = 1 .. Len(x) /\ DOMAIN y = 1 .. Len(y) /\ Len(x) \in Nat /\ Len(y) \in Nat
      /\ DOMAIN (x \o y) = 1 .. Len(x) + Len(y)
  OBVIOUS
<1>2. /\ px \in Seq(Seq(A)) /\ Len(px) = Len(x) /\ Restricted(x, atoms) = FlattenSeq(px)
      /\ py \in Seq(Seq(A)) /\ Len(py) = Len(y) /\ Restricted(y, atoms) = FlattenSeq(py)
      /\ pxy \in Seq(Seq(A)) /\ Len(pxy) = Len(x) + Len(y) /\ Restricted(x \o y, atoms) = FlattenSeq(pxy)
  BY <1>1, RestrictedIs
<1>3. \A i \in 1 .. Len(x) + Len(y) :
         pxy[i] = IF i <= Len(x) THEN px[i] ELSE py[i - Len(x)]
  <2> TAKE i \in 1 .. Len(x) + Len(y)
  <2>1. pxy[i] = Only((x \o y)[i], atoms)
    BY <1>1 DEF Picked
  <2>2. i <= Len(x) => (x \o y)[i] = x[i] /\ px[i] = Only(x[i], atoms)
    BY <1>1 DEF Picked
  <2>3. ~(i <= Len(x)) => (x \o y)[i] = y[i - Len(x)] /\ py[i - Len(x)] = Only(y[i - Len(x)], atoms)
    <3>1. ~(i <= Len(x)) => (x \o y)[i] = y[i - Len(x)] /\ i - Len(x) \in DOMAIN y
      BY <1>1
    <3> QED BY <3>1 DEF Picked
  <2> QED BY <2>1, <2>2, <2>3
<1> HIDE DEF px, py, pxy
<1>4. pxy = px \o py
  <2> DEFINE r == px \o py
  <2>1. r \in Seq(Seq(A)) /\ Len(r) = Len(x) + Len(y)
    BY <1>2, JoinedAt
  <2>2. \A i \in 1 .. Len(x) + Len(y) : r[i] = pxy[i]
    <3>1. \A i \in 1 .. Len(px) + Len(py) : r[i] = IF i <= Len(px) THEN px[i] ELSE py[i - Len(px)]
      BY <1>2, JoinedAt
    <3> HIDE DEF r
    <3> QED BY <1>2, <1>3, <3>1
  <2> HIDE DEF r
  <2>3. r = pxy
    BY <1>1, <1>2, <2>1, <2>2
  <2> QED BY <2>3 DEF r
<1>5. \A a, b \in Seq(Seq(A)) : FlattenSeq(a \o b) = FlattenSeq(a) \o FlattenSeq(b)
  BY FlattenJoined
<1> QED BY <1>2, <1>4, <1>5

LEMMA Regrouped == \A A : \A x, y, z \in Seq(A) : x \o (y \o z) = (x \o y) \o z
BY ConcatAssociative

LEMMA RestrictedAll ==
    \A A, atoms : \A x, y \in Seq(A) :
        /\ Restricted(x \o y, atoms) = Restricted(x, atoms) \o Restricted(y, atoms)
        /\ Restricted(x, atoms) \in Seq(A)
<1> TAKE A, atoms
<1> TAKE x, y \in Seq(A)
<1>1. Restricted(x \o y, atoms) = Restricted(x, atoms) \o Restricted(y, atoms)
  BY RestrictedJoined
<1>2. Restricted(x, atoms) \in Seq(A)
  BY RestrictedIs
<1> QED BY <1>1, <1>2

LEMMA RestrictedNone ==
    ASSUME NEW A, NEW text \in Seq(A), NEW atoms, \A c \in ToSet(text) : c \notin atoms
    PROVE  Restricted(text, atoms) = << >>
<1> DEFINE s == Picked(text, atoms)
<1>1. \A i \in DOMAIN text : Only(text[i], atoms) = << >>
  BY DEF Only, ToSet
<1>2. s = [i \in 1 .. Len(text) |-> << >>] /\ DOMAIN s = 1 .. Len(text)
  BY <1>1 DEF Picked
<1>3. Restricted(text, atoms) = FlattenSeq(s)
  BY RestrictedIs
<1> HIDE DEF s
<1> QED BY <1>2, <1>3, FlattenOfEmpty

LEMMA RestrictedEmpty == \A atoms : Restricted(<< >>, atoms) = << >>
<1> TAKE atoms
<1>1. << >> \in Seq(Int) /\ ToSet(<< >>) = {}
  BY DEF ToSet
<1> QED BY <1>1, RestrictedNone

LEMMA RestrictedAppend ==
    ASSUME NEW A, NEW text \in Seq(A), NEW c \in A, NEW atoms
    PROVE  Restricted(Append(text, c), atoms) = Restricted(text, atoms) \o Only(c, atoms)
<1>1. Append(text, c) = text \o <<c>> /\ <<c>> \in Seq(A)
  OBVIOUS
<1>2. Restricted(<<c>>, atoms) = Only(c, atoms)
  <2> DEFINE s == Picked(<<c>>, atoms)
  <2>1. Restricted(<<c>>, atoms) = FlattenSeq(s)
    BY <1>1, RestrictedIs
  <2>2. s = Append(<< >>, Only(c, atoms))
    BY DEF Picked
  <2>3. << >> \in Seq(Seq(A)) /\ Only(c, atoms) \in Seq(A)
    BY DEF Only
  <2> HIDE DEF s
  <2>4. FlattenSeq(s) = FlattenSeq(<< >>) \o Only(c, atoms)
    BY <2>2, <2>3, FlattenAppend
  <2>5. << >> \o Only(c, atoms) = Only(c, atoms)
    BY <2>3
  <2> QED BY <2>1, <2>4, <2>5, FlattenEmpty
<1>3. \A a, b \in Seq(A) : Restricted(a \o b, atoms) = Restricted(a, atoms) \o Restricted(b, atoms)
  BY RestrictedJoined
<1> QED BY <1>1, <1>2, <1>3

\* What texts one behind the other keep.
WholeOf(texts, atoms) == Restricted(FlattenSeq(texts), atoms)

LEMMA WholeJoined ==
    ASSUME NEW A, NEW x \in Seq(Seq(A)), NEW y \in Seq(Seq(A)), NEW atoms
    PROVE  WholeOf(x \o y, atoms) = WholeOf(x, atoms) \o WholeOf(y, atoms)
<1>1. FlattenSeq(x \o y) = FlattenSeq(x) \o FlattenSeq(y)
  BY FlattenJoined
<1>2. FlattenSeq(x) \in Seq(A) /\ FlattenSeq(y) \in Seq(A)
  BY FlattenTyped
<1> QED BY <1>1, <1>2, RestrictedJoined DEF WholeOf

LEMMA WholeTyped ==
    ASSUME NEW A, NEW x \in Seq(Seq(A)), NEW atoms
    PROVE  WholeOf(x, atoms) \in Seq(A)
BY FlattenTyped, RestrictedIs DEF WholeOf

LEMMA WholeAppend ==
    ASSUME NEW A, NEW x \in Seq(Seq(A)), NEW text \in Seq(A), NEW atoms
    PROVE  WholeOf(Append(x, text), atoms) = WholeOf(x, atoms) \o Restricted(text, atoms)
<1>1. FlattenSeq(Append(x, text)) = FlattenSeq(x) \o text
  BY FlattenAppend
<1>2. FlattenSeq(x) \in Seq(A)
  BY FlattenTyped
<1> QED BY <1>1, <1>2, RestrictedJoined DEF WholeOf

LEMMA WholeEmpty == \A atoms : WholeOf(<< >>, atoms) = << >>
BY FlattenEmpty, RestrictedEmpty DEF WholeOf

LEMMA WholeOfOne ==
    ASSUME NEW A, NEW text \in Seq(A), NEW atoms
    PROVE  WholeOf(<<text>>, atoms) = Restricted(text, atoms)
<1>1. <<text>> = Append(<< >>, text) /\ << >> \in Seq(Seq(A))
  OBVIOUS
<1>2. WholeOf(<<text>>, atoms) = WholeOf(<< >>, atoms) \o Restricted(text, atoms)
  BY <1>1, WholeAppend
<1>3. Restricted(text, atoms) \in Seq(A)
  BY RestrictedIs
<1> QED BY <1>2, <1>3, WholeEmpty

LEMMA WholeOfTwo ==
    ASSUME NEW A, NEW x \in Seq(Seq(Seq(A))), NEW y \in Seq(Seq(A)), NEW atoms
    PROVE  WholeOf(FlattenSeq(Append(x, y)), atoms) = WholeOf(FlattenSeq(x), atoms) \o WholeOf(y, atoms)
<1> DEFINE fx == FlattenSeq(x)
<1>1. FlattenSeq(Append(x, y)) = fx \o y
  BY FlattenAppend
<1>2. fx \in Seq(Seq(A))
  BY FlattenTyped
<1> HIDE DEF fx
<1>3. WholeOf(fx \o y, atoms) = WholeOf(fx, atoms) \o WholeOf(y, atoms)
  BY <1>2, WholeJoined
<1> QED BY <1>1, <1>3 DEF fx

\* Texts that are cut each, without losing anything, lose nothing together.
CutAs(g, s, atoms) ==
    Len(g) = Len(s) /\ \A i \in 1 .. Len(s) : WholeOf(g[i], atoms) = Restricted(s[i], atoms)

LEMMA WholeOfCut ==
    ASSUME NEW A, NEW s \in Seq(Seq(A)), NEW g \in Seq(Seq(Seq(A))), NEW atoms, CutAs(g, s, atoms)
    PROVE  /\ WholeOf(FlattenSeq(g), atoms) = WholeOf(s, atoms)
           /\ FlattenSeq(g) \in Seq(Seq(A))
<1> DEFINE n == Len(s)
           P == {k \in 0 .. n : WholeOf(FlattenSeq(SubSeq(g, 1, k)), atoms) = WholeOf(SubSeq(s, 1, k), atoms)}
<1>0. n \in Nat /\ n \in 0 .. n /\ Len(g) = n
        /\ \A i \in 1 .. n : WholeOf(g[i], atoms) = Restricted(s[i], atoms)
  BY DEF CutAs
<1>1. 0 \in P
  <2>1. SubSeq(g, 1, 0) = << >> /\ SubSeq(s, 1, 0) = << >>
    OBVIOUS
  <2>2. 0 \in 0 .. n
    BY <1>0
  <2>3. WholeOf(FlattenSeq(SubSeq(g, 1, 0)), atoms) = WholeOf(SubSeq(s, 1, 0), atoms)
    BY <2>1, FlattenEmpty
  <2> QED BY <2>2, <2>3
<1>2. ASSUME NEW k \in 0 .. n - 1, k \in P
      PROVE  k + 1 \in P
  <2> DEFINE gk == SubSeq(g, 1, k)
             sk == SubSeq(s, 1, k)
  <2>1. /\ SubSeq(g, 1, k + 1) = Append(gk, g[k + 1]) /\ gk \in Seq(Seq(Seq(A)))
        /\ SubSeq(s, 1, k + 1) = Append(sk, s[k + 1]) /\ sk \in Seq(Seq(A))
        /\ k + 1 \in 1 .. n /\ k + 1 \in 0 .. n
        /\ g[k + 1] \in Seq(Seq(A)) /\ s[k + 1] \in Seq(A)
    BY <1>0
  <2>2. WholeOf(FlattenSeq(gk), atoms) = WholeOf(sk, atoms)
    BY <1>2
  <2> HIDE DEF gk, sk
  <2>4. WholeOf(FlattenSeq(Append(gk, g[k + 1])), atoms) = WholeOf(FlattenSeq(gk), atoms) \o WholeOf(g[k + 1], atoms)
    BY <2>1, WholeOfTwo
  <2>5. WholeOf(Append(sk, s[k + 1]), atoms) = WholeOf(sk, atoms) \o Restricted(s[k + 1], atoms)
    BY <2>1, WholeAppend
  <2> QED BY <1>0, <2>1, <2>2, <2>4, <2>5
<1> HIDE DEF P
<1>3. n \in P
  BY <1>0, <1>1, <1>2, UpTo0
<1>4. SubSeq(g, 1, n) = g /\ SubSeq(s, 1, n) = s
  BY <1>0
<1>5. WholeOf(FlattenSeq(g), atoms) = WholeOf(s, atoms)
  BY <1>3, <1>4 DEF P
<1> QED BY <1>5, FlattenTyped

----------------------------------------------------------------------------
(* Splitting loses no character.                                           *)

LEMMA PrefixGrows ==
    ASSUME NEW S, NEW s \in Seq(S), NEW k \in 0 .. Len(s) - 1
    PROVE  /\ SubSeq(s, 1, k + 1) = Append(SubSeq(s, 1, k), s[k + 1])
           /\ SubSeq(s, 1, k) \in Seq(S) /\ s[k + 1] \in S
           /\ SubSeq(s, 1, 0) = << >> /\ SubSeq(s, 1, Len(s)) = s
OBVIOUS

LEMMA Enough ==
    ASSUME NEW n \in Nat, NEW max \in Nat \ {0}
    PROVE  /\ (n + max - 1) \div max \in Nat
           /\ ((n + max - 1) \div max) * max >= n
<1> DEFINE a == n + max - 1
           q == a \div max
<1>1. a \in Nat /\ max \in Nat /\ max >= 1
  OBVIOUS
<1> HIDE DEF a
<1>2. q \in Nat
  BY <1>1, DivBounds
<1>3. a = q * max + (a % max) /\ a % max \in 0 .. max - 1
  BY <1>1
<1>4. q * max \in Nat
  BY <1>1, <1>2, Multiples
<1> DEFINE m == q * max
           r == a % max
<1>5. a = m + r /\ r \in 0 .. max - 1 /\ m \in Nat
  BY <1>3, <1>4
<1> HIDE DEF m, q, r
<1>6. m >= n
  BY <1>1, <1>5 DEF a
<1> QED BY <1>2, <1>6 DEF m, q, a

LEMMA CharWhole ==
    ASSUME NEW A, NEW text \in Seq(A), NEW max \in Nat \ {0}, Len(text) > max
    PROVE  FlattenSeq(CharSplit(text, max)) = text /\ CharSplit(text, max) \in Seq(Seq(A))
<1> DEFINE n == Len(text)
           pieces == (n + max - 1) \div max
           Stop(i) == IF i * max < n THEN i * max ELSE n
           split == CharSplit(text, max)
           P == {k \in 0 .. pieces : FlattenSeq(SubSeq(split, 1, k)) = SubSeq(text, 1, Stop(k))}
<1>1. n \in Nat /\ pieces \in Nat /\ pieces * max >= n
  BY Enough
<1>2. split = [i \in 1 .. pieces |-> SubSeq(text, (i - 1) * max + 1, Stop(i))]
  BY DEF CharSplit
<1>3. split \in Seq(Seq(A))
  BY CharSplitTyped, ShortTexts
<1> HIDE DEF split, pieces
<1>4. Len(split) = pieces
  BY <1>1, <1>2, <1>3
<1>5. 0 \in P
  <2>1. 0 * max = 0 /\ 0 \in 0 .. pieces
    BY <1>1
  <2>2. SubSeq(split, 1, 0) = << >> /\ SubSeq(text, 1, 0) = << >>
    BY <1>3
  <2>3. Stop(0) = 0
    BY <1>1, <2>1
  <2> QED BY <2>1, <2>2, <2>3, FlattenEmpty
<1>6. ASSUME NEW k \in 0 .. pieces - 1, k \in P
      PROVE  k + 1 \in P
  <2> DEFINE low == k * max
             to == Stop(k + 1)
             sk == SubSeq(split, 1, k)
             next == split[k + 1]
  <2>1. k \in Nat /\ k + 1 \in 0 .. pieces /\ k + 1 \in 1 .. pieces /\ (k + 1) - 1 = k
    BY <1>1
  <2>2. low \in Nat /\ (k + 1) * max = low + max
    BY <2>1, Multiples
  <2>3. next = SubSeq(text, low + 1, to)
    BY <1>2, <2>1
  <2>4. SubSeq(split, 1, k + 1) = Append(sk, next) /\ sk \in Seq(Seq(A)) /\ next \in Seq(A)
    BY <1>3, <1>4, PrefixGrows
  <2>5. FlattenSeq(sk) = SubSeq(text, 1, IF low < n THEN low ELSE n)
    BY <1>6
  <2>6. to = IF low + max < n THEN low + max ELSE n
    BY <2>2
  <2> HIDE DEF sk, next, P
  <2>7. FlattenSeq(SubSeq(split, 1, k + 1)) = FlattenSeq(sk) \o next
    BY <2>4, FlattenAppend
  <2> HIDE DEF low, to
  <2>8. SubSeq(text, 1, IF low < n THEN low ELSE n) \o SubSeq(text, low + 1, to) = SubSeq(text, 1, to)
    <3>1. CASE low < n
      <4>1. to \in low .. n /\ low \in 0 .. n
        BY <1>1, <2>2, <2>6, <3>1
      <4>2. SubSeq(text, 1, low) \o SubSeq(text, low + 1, to) = SubSeq(text, 1, to)
        BY <4>1
      <4> QED BY <3>1, <4>2
    <3>2. CASE ~(low < n)
      <4>1. to = n /\ low + 1 > n
        BY <1>1, <2>2, <2>6, <3>2
      <4>2. SubSeq(text, low + 1, to) = << >>
        BY <1>1, <2>2, <4>1
      <4>3. SubSeq(text, 1, n) \o << >> = SubSeq(text, 1, n)
        BY <1>1
      <4> QED BY <3>2, <4>1, <4>2, <4>3
    <3> QED BY <3>1, <3>2
  <2> HIDE DEF n
  <2>9. FlattenSeq(SubSeq(split, 1, k + 1)) = SubSeq(text, 1, to)
    BY <2>3, <2>5, <2>7, <2>8
  <2> QED BY <2>1, <2>9 DEF P, to, n
<1> HIDE DEF P
<1>7. pieces \in P
  <2>1. pieces \in 0 .. pieces
    BY <1>1
  <2> QED BY <1>1, <1>5, <1>6, <2>1, UpTo0
<1>8. FlattenSeq(SubSeq(split, 1, pieces)) = SubSeq(text, 1, Stop(pieces))
  BY <1>7 DEF P
<1>9. Stop(pieces) = n
  <2>1. \A m \in Int : m >= n => (IF m < n THEN m ELSE n) = n
    BY <1>1
  <2>2. pieces * max \in Nat
    BY <1>1, Multiples
  <2> QED BY <1>1, <2>1, <2>2
<1>10. SubSeq(split, 1, pieces) = split /\ SubSeq(text, 1, n) = text
  BY <1>3, <1>4
<1> QED BY <1>3, <1>8, <1>9, <1>10 DEF split

LEMMA LinesStepWhole ==
    ASSUME NEW A, NEW acc \in Seq(Seq(A)) \ {<< >>}, NEW c \in A, NEW atoms, NL \notin atoms
    PROVE  WholeOf(LinesStep(acc, c), atoms) = WholeOf(acc, atoms) \o Only(c, atoms)
<1> DEFINE m == Len(acc)
           init == SubSeq(acc, 1, m - 1)
           last == acc[m]
           longer == Append(last, c)
<1>1. m \in Nat /\ m >= 1 /\ last \in Seq(A) /\ init \in Seq(Seq(A)) /\ acc = Append(init, last)
  BY EmptySeq
<1>2. CASE c = NL
  <2>1. LinesStep(acc, c) = Append(acc, << >>) /\ << >> \in Seq(A)
    BY <1>2 DEF LinesStep
  <2>2. Only(c, atoms) = << >>
    BY <1>2 DEF Only
  <2>3. WholeOf(Append(acc, << >>), atoms) = WholeOf(acc, atoms) \o Restricted(<< >>, atoms)
    BY <2>1, WholeAppend
  <2> QED BY <2>1, <2>2, <2>3, RestrictedEmpty
<1>3. CASE c # NL
  <2>1. longer \in Seq(A)
    BY <1>1
  <2>2. LinesStep(acc, c) = Append(init, longer)
    <3>1. LinesStep(acc, c) = [acc EXCEPT ![m] = longer]
      BY <1>3 DEF LinesStep
    <3> HIDE DEF longer
    <3>2. [acc EXCEPT ![m] = longer] = Append(init, longer)
      BY <1>1, <2>1
    <3> QED BY <3>1, <3>2
  <2> DEFINE w == WholeOf(init, atoms)
             l == Restricted(last, atoms)
             o == Only(c, atoms)
  <2>3. Restricted(longer, atoms) = l \o o
    BY <1>1, RestrictedAppend
  <2> HIDE DEF init, last, longer
  <2>4. WholeOf(Append(init, longer), atoms) = w \o Restricted(longer, atoms)
    BY <1>1, <2>1, WholeAppend
  <2>5. WholeOf(acc, atoms) = w \o l
    BY <1>1, WholeAppend
  <2>6. w \in Seq(A)
    BY <1>1, WholeTyped
  <2>7. l \in Seq(A) /\ o \in Seq(A)
    BY <1>1, RestrictedIs DEF Only
  <2> HIDE DEF w, l, o
  <2>8. w \o (l \o o) = (w \o l) \o o
    <3>1. \A x, y, z \in Seq(A) : x \o (y \o z) = (x \o y) \o z
      BY Regrouped
    <3> QED BY <2>6, <2>7, <3>1
  <2> QED BY <2>2, <2>3, <2>4, <2>5, <2>8 DEF o
<1> QED BY <1>2, <1>3

LEMMA RestrictedGrows ==
    ASSUME NEW A, NEW text \in Seq(A), NEW k \in 0 .. Len(text) - 1, NEW atoms
    PROVE  Restricted(SubSeq(text, 1, k + 1), atoms)
              = Restricted(SubSeq(text, 1, k), atoms) \o Only(text[k + 1], atoms)
<1> DEFINE x == SubSeq(text, 1, k)
           c == text[k + 1]
<1>1. SubSeq(text, 1, k + 1) = Append(x, c) /\ x \in Seq(A) /\ c \in A
  BY PrefixGrows
<1> HIDE DEF x, c
<1>2. Restricted(Append(x, c), atoms) = Restricted(x, atoms) \o Only(c, atoms)
  BY <1>1, RestrictedAppend
<1> QED BY <1>1, <1>2 DEF x, c

LEMMA LinesWhole ==
    ASSUME NEW A, NEW text \in Seq(A), NEW atoms, NL \notin atoms
    PROVE  WholeOf(Lines(text), atoms) = Restricted(text, atoms)
<1> DEFINE n == Len(text)
<1>1. PICK f \in [0 .. n -> Seq(Seq(A)) \ {<< >>}] :
         /\ f[0] = << << >> >>
         /\ \A k \in 1 .. n : f[k] = LinesStep(f[k - 1], text[k])
         /\ Lines(text) = f[n]
  BY LinesFolded
<1> DEFINE P == {k \in 0 .. n : WholeOf(f[k], atoms) = Restricted(SubSeq(text, 1, k), atoms)}
<1>2. n \in Nat /\ n \in 0 .. n /\ 0 \in 0 .. n
  OBVIOUS
<1>3. 0 \in P
  <2>1. SubSeq(text, 1, 0) = << >> /\ << >> \in Seq(A)
    OBVIOUS
  <2>2. WholeOf(<< << >> >>, atoms) = Restricted(<< >>, atoms)
    BY <2>1, WholeOfOne
  <2> QED BY <1>1, <1>2, <2>1, <2>2
<1>4. ASSUME NEW k \in 0 .. n - 1, k \in P
      PROVE  k + 1 \in P
  <2> DEFINE acc == f[k]
             c == text[k + 1]
  <2>1. k \in 0 .. n /\ k + 1 \in 1 .. n /\ k + 1 \in 0 .. n /\ (k + 1) - 1 = k /\ c \in A
    BY <1>2
  <2>2. acc \in Seq(Seq(A)) /\ acc # << >> /\ f[k + 1] = LinesStep(acc, c)
    BY <1>1, <2>1
  <2>3. Restricted(SubSeq(text, 1, k + 1), atoms) = Restricted(SubSeq(text, 1, k), atoms) \o Only(c, atoms)
    BY RestrictedGrows
  <2>4. WholeOf(acc, atoms) = Restricted(SubSeq(text, 1, k), atoms)
    BY <1>4
  <2> HIDE DEF acc, c, P
  <2>6. WholeOf(LinesStep(acc, c), atoms) = WholeOf(acc, atoms) \o Only(c, atoms)
    BY <2>1, <2>2, LinesStepWhole
  <2>7. WholeOf(f[k + 1], atoms) = Restricted(SubSeq(text, 1, k + 1), atoms)
    BY <2>2, <2>3, <2>4, <2>6
  <2> QED BY <2>1, <2>7 DEF P
<1> HIDE DEF P
<1>5. n \in P
  BY <1>2, <1>3, <1>4, UpTo0
<1>6. SubSeq(text, 1, n) = text
  OBVIOUS
<1> QED BY <1>1, <1>5, <1>6 DEF P

LEMMA NewlineLost == \A atoms : NL \notin atoms => Restricted(<<NL>>, atoms) = << >>
<1> TAKE atoms
<1> HAVE NL \notin atoms
<1>1. <<NL>> \in Seq({NL}) /\ ToSet(<<NL>>) = {NL}
  BY DEF ToSet
<1> QED BY <1>1, RestrictedNone

LEMMA JoinWhole ==
    ASSUME NEW A, NL \in A, NEW lines \in Seq(Seq(A)), NEW atoms, NL \notin atoms
    PROVE  Restricted(JoinLines(lines), atoms) = WholeOf(lines, atoms)
<1> DEFINE n == Len(lines)
<1>1. n \in Nat /\ Len(Numbers(lines)) = n /\ \A i \in 1 .. n : Numbers(lines)[i] = i
  BY NumbersLen
<1>2. PICK f \in [0 .. n -> Seq(A)] :
         /\ f[0] = << >>
         /\ \A k \in 1 .. n : f[k] = JoinStep(f[k - 1], k, lines)
         /\ JoinLines(lines) = f[n]
  <2>1. PICK f \in [0 .. Len(Numbers(lines)) -> Seq(A)] :
           /\ f[0] = << >>
           /\ \A k \in 1 .. Len(Numbers(lines)) : f[k] = JoinStep(f[k - 1], Numbers(lines)[k], lines)
           /\ JoinLines(lines) = f[Len(Numbers(lines))]
    BY JoinFolded
  <2> QED BY <1>1, <2>1
<1> DEFINE P == {k \in 0 .. n : Restricted(f[k], atoms) = WholeOf(SubSeq(lines, 1, k), atoms)}
<1>3. n \in 0 .. n /\ 0 \in 0 .. n
  BY <1>1
<1>4. 0 \in P
  <2>1. SubSeq(lines, 1, 0) = << >>
    OBVIOUS
  <2> QED BY <1>2, <1>3, <2>1, RestrictedEmpty, WholeEmpty
<1>5. ASSUME NEW k \in 0 .. n - 1, k \in P
      PROVE  k + 1 \in P
  <2> DEFINE x == f[k]
             y == lines[k + 1]
             sk == SubSeq(lines, 1, k)
  <2>1. k \in 0 .. n /\ k + 1 \in 1 .. n /\ k + 1 \in 0 .. n /\ (k + 1) - 1 = k
    BY <1>1
  <2>2. SubSeq(lines, 1, k + 1) = Append(sk, y) /\ sk \in Seq(Seq(A)) /\ y \in Seq(A)
    BY PrefixGrows
  <2>3. f[k + 1] = JoinStep(x, k + 1, lines) /\ x \in Seq(A)
    BY <1>2, <2>1
  <2>4. Restricted(x, atoms) = WholeOf(sk, atoms)
    BY <1>5
  <2>5. f[k + 1] = IF k = 0 THEN y ELSE x \o <<NL>> \o y
    BY <2>1, <2>3 DEF JoinStep
  <2>6. k = 0 => x = << >>
    BY <1>2
  <2> HIDE DEF x, y, sk, P
  <2>7. Restricted(f[k + 1], atoms) = Restricted(x, atoms) \o Restricted(y, atoms)
    <3>1. \A a, b \in Seq(A) :
             /\ Restricted(a \o b, atoms) = Restricted(a, atoms) \o Restricted(b, atoms)
             /\ Restricted(a, atoms) \in Seq(A)
      BY RestrictedAll
    <3>2. \A a \in Seq(A) : a \o << >> = a /\ << >> \o a = a
      OBVIOUS
    <3>3. CASE k = 0
      <4>1. f[k + 1] = y /\ Restricted(x, atoms) = << >> /\ Restricted(y, atoms) \in Seq(A)
        BY <2>2, <2>5, <2>6, <3>1, <3>3, RestrictedEmpty
      <4> QED BY <3>2, <4>1
    <3>4. CASE k # 0
      <4>1. <<NL>> \in Seq(A) /\ x \o <<NL>> \in Seq(A)
        BY <2>3
      <4>2. Restricted(x \o <<NL>>, atoms) = Restricted(x, atoms) \o << >>
        BY <2>3, <3>1, <4>1, NewlineLost
      <4>3. Restricted(x, atoms) \o << >> = Restricted(x, atoms)
        BY <2>3, <3>1, <3>2
      <4>4. f[k + 1] = (x \o <<NL>>) \o y
        BY <2>5, <3>4
      <4>5. Restricted((x \o <<NL>>) \o y, atoms) = Restricted(x \o <<NL>>, atoms) \o Restricted(y, atoms)
        BY <2>2, <3>1, <4>1
      <4> QED BY <4>2, <4>3, <4>4, <4>5
    <3> QED BY <3>3, <3>4
  <2>8. WholeOf(Append(sk, y), atoms) = WholeOf(sk, atoms) \o Restricted(y, atoms)
    BY <2>2, WholeAppend
  <2> QED BY <2>1, <2>2, <2>4, <2>7, <2>8 DEF P, sk
<1> HIDE DEF P
<1>6. n \in P
  BY <1>1, <1>3, <1>4, <1>5, UpTo0
<1>7. SubSeq(lines, 1, n) = lines
  OBVIOUS
<1> QED BY <1>2, <1>6, <1>7 DEF P

LEMMA JoinedBehind ==
    ASSUME NEW A, NL \in A, NEW p \in Seq(Seq(A)), NEW q \in Seq(Seq(A)), NEW atoms, NL \notin atoms
    PROVE  WholeOf(Append(p, JoinLines(q)), atoms) = WholeOf(p, atoms) \o WholeOf(q, atoms)
<1> DEFINE text == JoinLines(q)
<1>1. text \in Seq(A)
  BY JoinTyped
<1>2. Restricted(text, atoms) = WholeOf(q, atoms)
  BY JoinWhole
<1> HIDE DEF text
<1>3. WholeOf(Append(p, text), atoms) = WholeOf(p, atoms) \o Restricted(text, atoms)
  BY <1>1, WholeAppend
<1> QED BY <1>2, <1>3 DEF text

\* What is packed and what is being packed.
PackedSoFar(acc, atoms) == WholeOf(acc.pieces, atoms) \o WholeOf(acc.current, atoms)

LEMMA PackStepWhole ==
    ASSUME NEW A, NL \in A, NEW acc \in Packing(A), NEW line \in Seq(A), NEW max \in Int,
           NEW atoms, NL \notin atoms
    PROVE  PackedSoFar(PackStep(acc, line, max), atoms) = PackedSoFar(acc, atoms) \o Restricted(line, atoms)
<1> DEFINE p == acc.pieces
           q == acc.current
           wp == WholeOf(p, atoms)
           wq == WholeOf(q, atoms)
           r == Restricted(line, atoms)
           next == PackStep(acc, line, max)
<1>1. p \in Seq(Seq(A)) /\ q \in Seq(Seq(A))
  BY DEF Packing
<1>2. \/ next.pieces = Append(p, JoinLines(q)) /\ next.current = <<line>>
      \/ next.pieces = p /\ next.current = Append(q, line)
  BY DEF PackStep
<1> HIDE DEF p, q, next
<1>3. wp \in Seq(A) /\ wq \in Seq(A) /\ r \in Seq(A)
  BY <1>1, WholeTyped, RestrictedIs
<1>4. \A x, y, z \in Seq(A) : x \o (y \o z) = (x \o y) \o z
  BY Regrouped
<1>5. CASE next.pieces = Append(p, JoinLines(q)) /\ next.current = <<line>>
  <2>1. WholeOf(Append(p, JoinLines(q)), atoms) = wp \o wq
    BY <1>1, JoinedBehind
  <2>3. WholeOf(<<line>>, atoms) = r
    BY WholeOfOne
  <2> HIDE DEF wp, wq, r
  <2> QED BY <1>5, <2>1, <2>3 DEF PackedSoFar, next, p, q, wp, wq, r
<1>6. CASE next.pieces = p /\ next.current = Append(q, line)
  <2>1. WholeOf(Append(q, line), atoms) = wq \o r
    BY <1>1, WholeAppend
  <2> HIDE DEF wp, wq, r
  <2>2. wp \o (wq \o r) = (wp \o wq) \o r
    BY <1>3, <1>4
  <2> QED BY <1>6, <2>1, <2>2 DEF PackedSoFar, next, p, q, wp, wq, r
<1> QED BY <1>2, <1>5, <1>6

LEMMA PackLinesWhole ==
    ASSUME NEW A, NL \in A, NEW text \in Seq(A), NEW max \in Int, NEW atoms, NL \notin atoms
    PROVE  WholeOf(PackLines(text, max), atoms) = Restricted(text, atoms)
<1> DEFINE lines == Lines(text)
           n == Len(lines)
<1>1. lines \in Seq(Seq(A)) /\ n \in Nat
  BY LinesTyped
<1>2. PICK f \in [0 .. n -> Packing(A)] :
         /\ f[0] = PackBase
         /\ \A k \in 1 .. n : f[k] = PackStep(f[k - 1], lines[k], max)
         /\ PackedLines(text, max) = f[n]
  BY PackFolded
<1>3. WholeOf(lines, atoms) = Restricted(text, atoms)
  BY LinesWhole
<1> HIDE DEF lines
<1> DEFINE P == {k \in 0 .. n : PackedSoFar(f[k], atoms) = WholeOf(SubSeq(lines, 1, k), atoms)}
<1>4. n \in 0 .. n /\ 0 \in 0 .. n
  BY <1>1
<1>5. 0 \in P
  <2>1. SubSeq(lines, 1, 0) = << >>
    BY <1>1
  <2>2. PackedSoFar(PackBase, atoms) = << >> \o << >>
    BY WholeEmpty DEF PackedSoFar, PackBase
  <2>3. << >> \o << >> = << >>
    OBVIOUS
  <2> QED BY <1>2, <1>4, <2>1, <2>2, <2>3, WholeEmpty
<1>6. ASSUME NEW k \in 0 .. n - 1, k \in P
      PROVE  k + 1 \in P
  <2> DEFINE acc == f[k]
             line == lines[k + 1]
             sk == SubSeq(lines, 1, k)
  <2>1. k \in 0 .. n /\ k + 1 \in 1 .. n /\ k + 1 \in 0 .. n /\ (k + 1) - 1 = k
    BY <1>1
  <2>2. SubSeq(lines, 1, k + 1) = Append(sk, line) /\ sk \in Seq(Seq(A)) /\ line \in Seq(A)
    BY <1>1, PrefixGrows
  <2>3. f[k + 1] = PackStep(acc, line, max) /\ acc \in Packing(A)
    BY <1>2, <2>1
  <2>4. PackedSoFar(acc, atoms) = WholeOf(sk, atoms)
    BY <1>6
  <2> HIDE DEF acc, line, sk, P
  <2>5. PackedSoFar(PackStep(acc, line, max), atoms) = PackedSoFar(acc, atoms) \o Restricted(line, atoms)
    BY <2>2, <2>3, PackStepWhole
  <2>6. WholeOf(Append(sk, line), atoms) = WholeOf(sk, atoms) \o Restricted(line, atoms)
    BY <2>2, WholeAppend
  <2> QED BY <2>1, <2>2, <2>3, <2>4, <2>5, <2>6 DEF P
<1> HIDE DEF P
<1>7. n \in P
  BY <1>1, <1>4, <1>5, <1>6, UpTo0
<1>8. SubSeq(lines, 1, n) = lines
  BY <1>1
<1> DEFINE packed == f[n]
<1>9. PackedSoFar(packed, atoms) = WholeOf(lines, atoms)
  BY <1>7, <1>8 DEF P
<1>10. packed.pieces \in Seq(Seq(A)) /\ packed.current \in Seq(Seq(A))
  BY <1>2, <1>4 DEF Packing
<1>11. PackLines(text, max) = Append(packed.pieces, JoinLines(packed.current))
  BY <1>2 DEF PackLines, WithLastPiece
<1> HIDE DEF packed
<1> DEFINE p == packed.pieces
           q == packed.current
<1>12. p \in Seq(Seq(A)) /\ q \in Seq(Seq(A))
  BY <1>10
<1> HIDE DEF p, q
<1>13. WholeOf(Append(p, JoinLines(q)), atoms) = WholeOf(p, atoms) \o WholeOf(q, atoms)
  BY <1>12, JoinedBehind
<1> QED BY <1>3, <1>9, <1>11, <1>13 DEF PackedSoFar, p, q

LEMMA SplitWhole ==
    ASSUME NEW A, NL \in A, NEW text \in Seq(A), NEW max \in Nat \ {0}, NEW atoms, NL \notin atoms
    PROVE  WholeOf(SplitOversized(text, max), atoms) = Restricted(text, atoms)
<1>1. CASE Tokens(text) <= max
  BY <1>1, WholeOfOne DEF SplitOversized
<1>2. CASE ~(Tokens(text) <= max)
  <2> DEFINE lines == PackLines(text, max)
             n == Len(lines)
             parts == [i \in DOMAIN lines |->
                         IF Tokens(lines[i]) <= max THEN <<lines[i]>> ELSE CharSplit(lines[i], max)]
  <2>1. lines \in Seq(Seq(A)) /\ WholeOf(lines, atoms) = Restricted(text, atoms)
    <3>1. max \in Int
      OBVIOUS
    <3> HIDE DEF parts, n
    <3> QED BY <3>1, PackLinesTyped, PackLinesWhole
  <2>2. SplitOversized(text, max) = FlattenSeq(parts)
    BY <1>2 DEF SplitOversized, Concat, Each
  <2> HIDE DEF lines
  <2>3. n \in Nat /\ DOMAIN lines = 1 .. n
    BY <2>1
  <2>4. ASSUME NEW i \in 1 .. n
        PROVE  parts[i] \in Seq(Seq(A)) /\ WholeOf(parts[i], atoms) = Restricted(lines[i], atoms)
    <3> DEFINE x == lines[i]
    <3>1. x \in Seq(A) /\ Len(x) \in Nat
      BY <2>1, <2>3
    <3>2. parts[i] = IF Tokens(x) <= max THEN <<x>> ELSE CharSplit(x, max)
      BY <2>3
    <3> HIDE DEF parts, x
    <3>3. CASE Tokens(x) <= max
      <4>1. parts[i] = <<x>> /\ <<x>> \in Seq(Seq(A))
        BY <3>1, <3>2, <3>3
      <4> QED BY <3>1, <4>1, WholeOfOne DEF x
    <3>4. CASE ~(Tokens(x) <= max)
      <4>1. parts[i] = CharSplit(x, max) /\ Len(x) > max
        BY <3>1, <3>2, <3>4 DEF Tokens
      <4>2. FlattenSeq(CharSplit(x, max)) = x /\ CharSplit(x, max) \in Seq(Seq(A))
        BY <3>1, <4>1, CharWhole
      <4> QED BY <4>1, <4>2 DEF WholeOf, x
    <3> QED BY <3>3, <3>4
  <2>5. parts \in [1 .. n -> Seq(Seq(A))]
    <3>1. DOMAIN parts = 1 .. n /\ parts = [i \in 1 .. n |-> parts[i]]
      BY <2>3
    <3> HIDE DEF parts
    <3> QED BY <2>4, <3>1
  <2> HIDE DEF parts
  <2>6. parts \in Seq(Seq(Seq(A))) /\ Len(parts) = n
    BY <2>3, <2>5, SeqOfFunction
  <2>7. CutAs(parts, lines, atoms)
    BY <2>4, <2>6 DEF CutAs
  <2> HIDE DEF n
  <2>8. WholeOf(FlattenSeq(parts), atoms) = WholeOf(lines, atoms)
    BY <2>1, <2>6, <2>7, WholeOfCut
  <2> QED BY <2>1, <2>2, <2>8
<1> QED BY <1>1, <1>2

----------------------------------------------------------------------------
(* Statements behind one another, without what is between them.            *)

LEMMA WholePart ==
    ASSUME NEW A, NEW s \in Seq(Seq(A)), NEW i \in 1 .. Len(s) + 1, NEW j \in i - 1 .. Len(s),
           NEW k \in j .. Len(s), NEW atoms
    PROVE  /\ WholeOf(SubSeq(s, i, k), atoms) = WholeOf(SubSeq(s, i, j), atoms) \o WholeOf(SubSeq(s, j + 1, k), atoms)
           /\ SubSeq(s, i, j) \in Seq(Seq(A))
<1> DEFINE x == SubSeq(s, i, j)
           y == SubSeq(s, j + 1, k)
<1>1. x \o y = SubSeq(s, i, k)
  BY ConcatAdjacentSubSeq
<1>2. x \in Seq(Seq(A)) /\ y \in Seq(Seq(A))
  <2>1. \A m \in i .. j : s[m] \in Seq(A)
    OBVIOUS
  <2>2. \A m \in j + 1 .. k : s[m] \in Seq(A)
    OBVIOUS
  <2>3. i \in Int /\ j \in Int /\ k \in Int /\ j + 1 \in Int
    OBVIOUS
  <2> QED BY <2>1, <2>2, <2>3, SubSeqProperties
<1> HIDE DEF x, y
<1>3. WholeOf(x \o y, atoms) = WholeOf(x, atoms) \o WholeOf(y, atoms)
  BY <1>2, WholeJoined
<1> QED BY <1>1, <1>2, <1>3 DEF x, y

LEMMA WholeOfSilent ==
    ASSUME NEW A, NEW s \in Seq(Seq(A)), NEW atoms,
           \A m \in 1 .. Len(s) : Restricted(s[m], atoms) = << >>
    PROVE  WholeOf(s, atoms) = << >>
<1> DEFINE n == Len(s)
           P == {k \in 0 .. n : WholeOf(SubSeq(s, 1, k), atoms) = << >>}
<1>1. n \in Nat /\ n \in 0 .. n /\ 0 \in 0 .. n
  OBVIOUS
<1>2. 0 \in P
  <2>1. SubSeq(s, 1, 0) = << >>
    OBVIOUS
  <2> QED BY <1>1, <2>1, WholeEmpty
<1>3. ASSUME NEW k \in 0 .. n - 1, k \in P
      PROVE  k + 1 \in P
  <2> DEFINE x == SubSeq(s, 1, k)
             y == s[k + 1]
  <2>1. SubSeq(s, 1, k + 1) = Append(x, y) /\ x \in Seq(Seq(A)) /\ y \in Seq(A)
    BY PrefixGrows
  <2>2. k + 1 \in 0 .. n /\ k + 1 \in 1 .. n
    BY <1>1
  <2>3. WholeOf(x, atoms) = << >> /\ Restricted(y, atoms) = << >>
    BY <1>3, <2>2
  <2> HIDE DEF x, y, P
  <2>4. WholeOf(Append(x, y), atoms) = << >> \o << >>
    BY <2>1, <2>3, WholeAppend
  <2>5. << >> \o << >> = << >>
    OBVIOUS
  <2> QED BY <2>1, <2>2, <2>4, <2>5 DEF P
<1> HIDE DEF P
<1>4. n \in P
  BY <1>1, <1>2, <1>3, UpTo0
<1>5. SubSeq(s, 1, n) = s
  OBVIOUS
<1> QED BY <1>4, <1>5 DEF P

\* Of the texts from j to k nothing is kept.
SilentIn(s, j, k, atoms) == \A m \in j .. k : Restricted(s[m], atoms) = << >>

LEMMA WholeBehind ==
    ASSUME NEW A, NEW s \in Seq(Seq(A)), NEW i \in 1 .. Len(s) + 1, NEW j \in i - 1 .. Len(s),
           NEW k \in j .. Len(s), NEW atoms, SilentIn(s, j + 1, k, atoms)
    PROVE  WholeOf(SubSeq(s, i, k), atoms) = WholeOf(SubSeq(s, i, j), atoms)
<1> DEFINE y == SubSeq(s, j + 1, k)
           n == Len(y)
<1>1. y \in Seq(Seq(A)) /\ n = k - j /\ n \in Nat /\ \A m \in 1 .. n : y[m] = s[j + m]
  <2>1. \A m \in j + 1 .. k : s[m] \in Seq(A)
    OBVIOUS
  <2>2. j \in Int /\ k \in Int /\ j + 1 \in Int /\ (j + 1 <= k \/ k = j)
    OBVIOUS
  <2>3. y \in Seq(Seq(A))
    BY <2>1, <2>2, SubSeqProperties
  <2> QED BY <2>1, <2>2, <2>3
<1> HIDE DEF y
<1>2. \A m \in 1 .. n : Restricted(y[m], atoms) = << >>
  <2> TAKE m \in 1 .. n
  <2>1. j + m \in j + 1 .. k
    BY <1>1
  <2> QED BY <1>1, <2>1 DEF SilentIn
<1>3. WholeOf(y, atoms) = << >>
  BY <1>1, <1>2, WholeOfSilent
<1> DEFINE x == SubSeq(s, i, j)
<1>4. WholeOf(SubSeq(s, i, k), atoms) = WholeOf(x, atoms) \o WholeOf(y, atoms) /\ x \in Seq(Seq(A))
  BY WholePart DEF y
<1> HIDE DEF x
<1>5. WholeOf(x, atoms) \in Seq(A)
  BY <1>4, WholeTyped
<1> QED BY <1>3, <1>4, <1>5 DEF x

LEMMA PartGrows ==
    ASSUME NEW S, NEW s \in Seq(S), NEW c \in 0 .. Len(s) - 1, NEW i \in 1 .. c + 1
    PROVE  /\ SubSeq(s, i, c + 1) = Append(SubSeq(s, i, c), s[c + 1])
           /\ SubSeq(s, i, c) \in Seq(S) /\ s[c + 1] \in S
OBVIOUS

LEMMA WholeUpTo ==
    ASSUME NEW A, NEW s \in Seq(Seq(A)), NEW a \in 0 .. Len(s), NEW c \in a .. Len(s) - 1,
           NEW i \in 1 .. a + 1, NEW atoms, SilentIn(s, a + 1, c, atoms)
    PROVE  WholeOf(SubSeq(s, i, c + 1), atoms) = WholeOf(SubSeq(s, i, a), atoms) \o Restricted(s[c + 1], atoms)
<1> DEFINE x == SubSeq(s, i, c)
           y == s[c + 1]
<1>1. /\ i \in 1 .. Len(s) + 1 /\ a \in i - 1 .. Len(s) /\ c \in a .. Len(s)
      /\ c \in 0 .. Len(s) - 1 /\ i \in 1 .. c + 1
  OBVIOUS
<1>2. WholeOf(x, atoms) = WholeOf(SubSeq(s, i, a), atoms)
  BY <1>1, WholeBehind
<1>3. SubSeq(s, i, c + 1) = Append(x, y) /\ x \in Seq(Seq(A)) /\ y \in Seq(A)
  BY <1>1, PartGrows
<1> HIDE DEF x, y
<1>4. WholeOf(Append(x, y), atoms) = WholeOf(x, atoms) \o Restricted(y, atoms)
  BY <1>3, WholeAppend
<1> QED BY <1>2, <1>3, <1>4 DEF x, y

\* The texts of the children of a node.
ChildTexts(t, p) == [k \in 1 .. t[p].kids |-> Text(t, Append(p, k))]

LEMMA ChildTextsAre ==
    ASSUME NEW t, IsTree(t), NEW p \in DOMAIN t
    PROVE  /\ ChildTexts(t, p) \in Seq(Seq(Atom)) /\ Len(ChildTexts(t, p)) = t[p].kids
           /\ t[p].kids \in Nat
           /\ \A k \in 1 .. t[p].kids : ChildTexts(t, p)[k] = Text(t, Append(p, k))
<1>1. t[p].kids \in Nat /\ \A k \in 1 .. t[p].kids : Append(p, k) \in DOMAIN t
  BY NodeTyped
<1>2. \A k \in 1 .. t[p].kids : Text(t, Append(p, k)) \in Seq(Atom)
  BY <1>1, NodeTyped
<1> DEFINE n == t[p].kids
           s == ChildTexts(t, p)
<1>3. s \in [1 .. n -> Seq(Atom)]
  BY <1>2 DEF ChildTexts
<1>4. \A k \in 1 .. n : s[k] = Text(t, Append(p, k))
  BY DEF ChildTexts
<1> HIDE DEF n, s
<1>5. s \in Seq(Seq(Atom)) /\ Len(s) = n
  BY <1>1, <1>3, SeqOfFunction DEF n
<1> QED BY <1>1, <1>4, <1>5 DEF s, n

LEMMA SpanIs ==
    ASSUME NEW t, IsTree(t), NEW p \in DOMAIN t, NEW i \in 1 .. t[p].kids + 1,
           NEW j \in i - 1 .. t[p].kids
    PROVE  TextOf(t, SubSeq(Children(t, p), i, j)) = FlattenSeq(SubSeq(ChildTexts(t, p), i, j))
<1> DEFINE c == Children(t, p)
           s == ChildTexts(t, p)
           n == t[p].kids
           x == SubSeq(c, i, j)
<1>1. /\ n \in Nat /\ c \in Seq(DOMAIN t) /\ Len(c) = n
      /\ \A k \in 1 .. n : c[k] = Append(p, k) /\ Append(p, k) \in DOMAIN t
  BY NodeTyped
<1>2. /\ s \in Seq(Seq(Atom)) /\ Len(s) = n
      /\ \A k \in 1 .. n : s[k] = t[Append(p, k)].text
  BY ChildTextsAre DEF Text
<1>3. TextOf(t, x) = FlattenSeq([k \in DOMAIN x |-> t[x[k]].text])
  BY DEF TextOf, Concat, Each
<1> HIDE DEF c, s, n
<1>4. i \in 1 .. n + 1 /\ j \in i - 1 .. n
  BY DEF n
<1> DEFINE m == j - i + 1
<1>5. x = [k \in 1 .. m |-> c[i + k - 1]] /\ SubSeq(s, i, j) = [k \in 1 .. m |-> s[i + k - 1]]
  BY <1>1, <1>2, <1>4
<1>6. m \in Nat /\ \A k \in 1 .. m : i + k - 1 \in 1 .. n
  BY <1>1, <1>4
<1>7. \A k \in 1 .. m : t[x[k]].text = s[i + k - 1]
  <2> TAKE k \in 1 .. m
  <2>1. x[k] = c[i + k - 1]
    BY <1>5
  <2> HIDE DEF x, m
  <2> QED BY <1>1, <1>2, <1>6, <2>1
<1>8. DOMAIN x = 1 .. m
  BY <1>5
<1> HIDE DEF x, m
<1>9. [k \in DOMAIN x |-> t[x[k]].text] = SubSeq(s, i, j)
  BY <1>5, <1>7, <1>8
<1> QED BY <1>3, <1>9 DEF x, c, s

LEMMA SeqWithin ==
    ASSUME NEW T, NEW S \in SUBSET T, NEW o \in Seq(S)
    PROVE  /\ o \in Seq(T) /\ Len(o) \in Nat /\ DOMAIN o = 1 .. Len(o)
           /\ \A k \in 1 .. Len(o) : o[k] \in S /\ o[k] \in T
OBVIOUS

\* The texts of the statements of a body, in their order.
StatementTexts(t, b) ==
    [k \in DOMAIN Ascending(Statements(t, b)) |-> Text(t, Append(b, Ascending(Statements(t, b))[k]))]

LEMMA StatementTextsAre ==
    ASSUME NEW t, IsTree(t), NEW b \in DOMAIN t
    PROVE  LET o == Ascending(Statements(t, b))
               st == StatementTexts(t, b)
           IN  /\ o \in Seq(1 .. t[b].kids) /\ st \in Seq(Seq(Atom)) /\ Len(st) = Len(o)
               /\ \A k \in 1 .. Len(o) : st[k] = ChildTexts(t, b)[o[k]]
<1> DEFINE S == Statements(t, b)
           o == Ascending(S)
           st == StatementTexts(t, b)
           n == Len(o)
           kids == t[b].kids
<1>1. S \in SUBSET (1 .. kids) /\ o \in Seq(S)
  BY StatementsTyped
<1>2. /\ ChildTexts(t, b) \in Seq(Seq(Atom)) /\ Len(ChildTexts(t, b)) = kids /\ kids \in Nat
      /\ \A k \in 1 .. kids : ChildTexts(t, b)[k] = Text(t, Append(b, k))
  BY ChildTextsAre
<1>3. st = [k \in DOMAIN o |-> Text(t, Append(b, o[k]))]
  BY DEF StatementTexts
<1> HIDE DEF o, S, kids, st
<1>4. o \in Seq(1 .. kids)
  BY <1>1, SeqWithin
<1>5. n \in Nat /\ DOMAIN o = 1 .. n /\ \A k \in 1 .. n : o[k] \in 1 .. kids
  BY <1>1, SeqWithin
<1>6. \A k \in 1 .. n : st[k] = ChildTexts(t, b)[o[k]] /\ st[k] \in Seq(Atom)
  BY <1>2, <1>3, <1>5
<1> HIDE DEF n
<1>7. st \in [1 .. n -> Seq(Atom)]
  BY <1>3, <1>5, <1>6
<1>8. st \in Seq(Seq(Atom)) /\ Len(st) = n
  BY <1>5, <1>7, SeqOfFunction
<1> QED BY <1>4, <1>6, <1>8 DEF n, o, S, kids, st

\* Of the children of a body only its statements have characters of a set.
StatementsOnly(t, b, atoms) ==
    \A k \in (1 .. t[b].kids) \ Statements(t, b) : Restricted(ChildTexts(t, b)[k], atoms) = << >>

LEMMA Gaps ==
    ASSUME NEW t, IsTree(t), NEW b \in DOMAIN t, NEW atoms, StatementsOnly(t, b, atoms)
    PROVE  LET o == Ascending(Statements(t, b))
               s == ChildTexts(t, b)
           IN  /\ o # << >> => /\ SilentIn(s, 1, o[1] - 1, atoms)
                               /\ SilentIn(s, o[Len(o)] + 1, t[b].kids, atoms)
               /\ \A k \in 1 .. Len(o) - 1 : o[k] < o[k + 1] /\ SilentIn(s, o[k] + 1, o[k + 1] - 1, atoms)
<1> DEFINE S == Statements(t, b)
           o == Ascending(S)
           n == Len(o)
           s == ChildTexts(t, b)
           kids == t[b].kids
<1>1. S \in SUBSET (1 .. kids) /\ kids \in Nat
  BY StatementsTyped
<1> HIDE DEF S, kids
<1>2. /\ o \in Seq(S) /\ n \in Nat
      /\ \A x \in S : \E k \in 1 .. n : o[k] = x
      /\ \A i, j \in 1 .. n : i < j => o[i] < o[j]
  BY <1>1, AscendingSorted
<1> HIDE DEF o, s
<1>3. \A k \in 1 .. n : o[k] \in 1 .. kids
  BY <1>1, <1>2, SeqWithin
<1>4. \A k \in 1 .. kids : k \notin S => Restricted(s[k], atoms) = << >>
  BY DEF StatementsOnly, S, s, kids
<1>5. ASSUME o # << >>
      PROVE  SilentIn(s, 1, o[1] - 1, atoms) /\ SilentIn(s, o[n] + 1, kids, atoms)
  <2>1. n >= 1 /\ 1 \in 1 .. n /\ n \in 1 .. n
    BY <1>2, <1>5, EmptySeq
  <2>2. o[1] \in 1 .. kids /\ o[n] \in 1 .. kids
    BY <1>3, <2>1
  <2>3. ASSUME NEW m \in 1 .. o[1] - 1
        PROVE  Restricted(s[m], atoms) = << >>
    <3>1. m \in 1 .. kids
      BY <1>1, <2>2
    <3>2. m \notin S
      <4> SUFFICES ASSUME m \in S PROVE FALSE
        OBVIOUS
      <4>1. PICK k \in 1 .. n : o[k] = m
        BY <1>2
      <4>2. o[1] <= m
        BY <1>2, <2>1, <2>2, <4>1
      <4> QED BY <2>2, <4>2
    <3> QED BY <1>4, <3>1, <3>2
  <2>4. ASSUME NEW m \in o[n] + 1 .. kids
        PROVE  Restricted(s[m], atoms) = << >>
    <3>1. m \in 1 .. kids
      BY <1>1, <2>2
    <3>2. m \notin S
      <4> SUFFICES ASSUME m \in S PROVE FALSE
        OBVIOUS
      <4>1. PICK k \in 1 .. n : o[k] = m
        BY <1>2
      <4>2. m <= o[n]
        BY <1>2, <2>1, <2>2, <4>1
      <4> QED BY <2>2, <4>2
    <3> QED BY <1>4, <3>1, <3>2
  <2> QED BY <2>3, <2>4 DEF SilentIn
<1>6. ASSUME NEW k \in 1 .. n - 1
      PROVE  o[k] < o[k + 1] /\ SilentIn(s, o[k] + 1, o[k + 1] - 1, atoms)
  <2>1. k \in 1 .. n /\ k + 1 \in 1 .. n /\ k < k + 1
    BY <1>2
  <2>2. o[k] \in 1 .. kids /\ o[k + 1] \in 1 .. kids
    BY <1>3, <2>1
  <2>3. o[k] < o[k + 1]
    BY <1>2, <2>1
  <2>4. ASSUME NEW m \in o[k] + 1 .. o[k + 1] - 1
        PROVE  Restricted(s[m], atoms) = << >>
    <3>1. m \in 1 .. kids
      BY <1>1, <2>2
    <3>2. m \notin S
      <4> SUFFICES ASSUME m \in S PROVE FALSE
        OBVIOUS
      <4>1. PICK j \in 1 .. n : o[j] = m
        BY <1>2
      <4>2. j <= k \/ j >= k + 1
        BY <2>1
      <4>3. m <= o[k] \/ m >= o[k + 1]
        BY <1>2, <2>1, <2>2, <4>1, <4>2
      <4> QED BY <2>2, <4>3
    <3> QED BY <1>4, <3>1, <3>2
  <2> QED BY <2>3, <2>4 DEF SilentIn
<1> QED BY <1>5, <1>6 DEF n, o, s, S, kids

\* The texts of the groups.
Spans(s, groups) == [k \in DOMAIN groups |-> FlattenSeq(SubSeq(s, groups[k][1], groups[k][2]))]

LEMMA SpanTyped ==
    ASSUME NEW s \in Seq(Seq(Atom)), NEW i \in 1 .. Len(s), NEW j \in 1 .. Len(s)
    PROVE  SubSeq(s, i, j) \in Seq(Seq(Atom)) /\ FlattenSeq(SubSeq(s, i, j)) \in Seq(Atom)
<1>1. i \in Int /\ j \in Int /\ \A k \in i .. j : s[k] \in Seq(Atom)
  OBVIOUS
<1>2. SubSeq(s, i, j) \in Seq(Seq(Atom))
  BY <1>1, SubSeqProperties
<1> QED BY <1>2, FlattenTyped

LEMMA SpansTyped ==
    ASSUME NEW s \in Seq(Seq(Atom)), NEW I \in SUBSET (1 .. Len(s)), NEW groups \in Seq(I \X I)
    PROVE  Spans(s, groups) \in Seq(Seq(Atom)) /\ Len(Spans(s, groups)) = Len(groups)
<1> DEFINE n == Len(groups)
           spans == Spans(s, groups)
<1>1. n \in Nat /\ DOMAIN groups = 1 .. n /\ \A k \in 1 .. n : groups[k][1] \in I /\ groups[k][2] \in I
  OBVIOUS
<1>2. \A k \in 1 .. n : groups[k][1] \in 1 .. Len(s) /\ groups[k][2] \in 1 .. Len(s)
  BY <1>1
<1>3. spans = [k \in 1 .. n |-> FlattenSeq(SubSeq(s, groups[k][1], groups[k][2]))]
  BY <1>1 DEF Spans
<1> HIDE DEF n, spans
<1>4. \A k \in 1 .. n : FlattenSeq(SubSeq(s, groups[k][1], groups[k][2])) \in Seq(Atom)
  BY <1>2, SpanTyped
<1>5. spans \in [1 .. n -> Seq(Atom)]
  BY <1>3, <1>4
<1> QED BY <1>1, <1>5, SeqOfFunction DEF n, spans

\* A group more is its texts more.
SpansMore(s, I, groups, atoms) ==
    \A i, j \in I :
        WholeOf(Spans(s, Append(groups, <<i, j>>)), atoms)
           = WholeOf(Spans(s, groups), atoms) \o WholeOf(SubSeq(s, i, j), atoms)

LEMMA SpansAppend ==
    ASSUME NEW s \in Seq(Seq(Atom)), NEW I \in SUBSET (1 .. Len(s)), NEW groups \in Seq(I \X I),
           NEW atoms
    PROVE  SpansMore(s, I, groups, atoms)
<1> SUFFICES ASSUME NEW i \in I, NEW j \in I
             PROVE  WholeOf(Spans(s, Append(groups, <<i, j>>)), atoms)
                       = WholeOf(Spans(s, groups), atoms) \o WholeOf(SubSeq(s, i, j), atoms)
  BY DEF SpansMore
<1> DEFINE n == Len(groups)
           x == Spans(s, groups)
           span == FlattenSeq(SubSeq(s, i, j))
           more == Append(groups, <<i, j>>)
           y == Spans(s, more)
<1>1. n \in Nat /\ DOMAIN groups = 1 .. n
  OBVIOUS
<1>2. /\ more \in Seq(I \X I) /\ Len(more) = n + 1 /\ more[n + 1] = <<i, j>>
      /\ \A k \in 1 .. n : more[k] = groups[k]
  <2>1. <<i, j>> \in I \X I
    OBVIOUS
  <2> QED BY <2>1, AppendProperties
<1> HIDE DEF more
<1>3. x \in Seq(Seq(Atom)) /\ Len(x) = n /\ y \in Seq(Seq(Atom)) /\ Len(y) = n + 1
  BY <1>2, SpansTyped
<1>4. span \in Seq(Atom)
  BY SpanTyped
<1>5. \A k \in 1 .. n : x[k] = FlattenSeq(SubSeq(s, groups[k][1], groups[k][2]))
  BY <1>1 DEF Spans
<1>6. \A k \in 1 .. n + 1 : y[k] = FlattenSeq(SubSeq(s, more[k][1], more[k][2]))
  <2>1. DOMAIN more = 1 .. n + 1
    BY <1>1, <1>2
  <2> QED BY <2>1 DEF Spans
<1>7. y[n + 1] = span
  <2>1. n + 1 \in 1 .. n + 1
    BY <1>1
  <2>2. more[n + 1][1] = i /\ more[n + 1][2] = j
    BY <1>2
  <2> QED BY <1>6, <2>1, <2>2
<1> HIDE DEF x, y, span, n
<1>8. \A k \in 1 .. n : y[k] = x[k]
  <2> TAKE k \in 1 .. n
  <2>1. k \in 1 .. n + 1
    BY <1>1
  <2> QED BY <1>2, <1>5, <1>6, <2>1
<1> DEFINE z == Append(x, span)
<1>9. z \in Seq(Seq(Atom)) /\ Len(z) = n + 1 /\ z[n + 1] = span /\ \A k \in 1 .. n : z[k] = x[k]
  BY <1>3, <1>4, AppendProperties
<1> HIDE DEF z
<1>10. \A k \in 1 .. n + 1 : y[k] = z[k]
  <2> TAKE k \in 1 .. n + 1
  <2>1. k \in 1 .. n \/ k = n + 1
    BY <1>1
  <2> QED BY <1>7, <1>8, <1>9, <2>1
<1>11. y = z
  BY <1>3, <1>9, <1>10, SeqEqual
<1>12. WholeOf(z, atoms) = WholeOf(x, atoms) \o Restricted(span, atoms)
  BY <1>3, <1>4, WholeAppend DEF z
<1> QED BY <1>11, <1>12 DEF x, y, span, WholeOf, more

LEMMA SpanOfOne ==
    ASSUME NEW S, NEW s \in Seq(S), NEW i \in 1 .. Len(s)
    PROVE  SubSeq(s, i, i) = <<s[i]>>
<1> DEFINE x == SubSeq(s, i, i)
           y == <<s[i]>>
<1>1. i \in Int /\ \A k \in i .. i : s[k] \in S
  OBVIOUS
<1>2. x \in Seq(S) /\ Len(x) = IF i <= i THEN i - i + 1 ELSE 0
  BY <1>1, SubSeqProperties
<1>3. x[1] = s[i]
  OBVIOUS
<1>4. y \in Seq(S) /\ Len(y) = 1 /\ y[1] = s[i]
  OBVIOUS
<1>5. Len(x) = 1
  <2> HIDE DEF x
  <2> QED BY <1>1, <1>2
<1> HIDE DEF x, y
<1>6. \A k \in 1 .. 1 : x[k] = y[k]
  BY <1>3, <1>4
<1>7. x = y
  BY <1>2, <1>4, <1>5, <1>6, SeqEqual
<1> QED BY <1>7 DEF x, y

LEMMA RegroupedAtoms == \A x, y, z \in Seq(Atom) : x \o (y \o z) = (x \o y) \o z
BY Regrouped

\* A group of its own.
LEMMA GroupBegins ==
    ASSUME NEW s \in Seq(Seq(Atom)), NEW I \in SUBSET (1 .. Len(s)), NEW groups \in Seq(I \X I),
           NEW i \in I, NEW atoms
    PROVE  WholeOf(Spans(s, Append(groups, <<i, i>>)), atoms)
              = WholeOf(Spans(s, groups), atoms) \o Restricted(s[i], atoms)
<1>1. i \in 1 .. Len(s) /\ s[i] \in Seq(Atom)
  OBVIOUS
<1>2. SubSeq(s, i, i) = <<s[i]>>
  BY <1>1, SpanOfOne
<1>3. WholeOf(<<s[i]>>, atoms) = Restricted(s[i], atoms)
  BY <1>1, WholeOfOne
<1>4. SpansMore(s, I, groups, atoms)
  BY SpansAppend
<1>5. WholeOf(Spans(s, Append(groups, <<i, i>>)), atoms)
         = WholeOf(Spans(s, groups), atoms) \o WholeOf(SubSeq(s, i, i), atoms)
  BY <1>4 DEF SpansMore
<1> QED BY <1>2, <1>3, <1>5

\* The statements up to c + 1 behind those up to a.
LEMMA SpanGrows ==
    ASSUME NEW s \in Seq(Seq(Atom)), NEW g \in 1 .. Len(s), NEW a \in 1 .. Len(s), NEW i \in 1 .. Len(s),
           g <= a, a < i, NEW atoms, SilentIn(s, a + 1, i - 1, atoms)
    PROVE  WholeOf(SubSeq(s, g, i), atoms) = WholeOf(SubSeq(s, g, a), atoms) \o Restricted(s[i], atoms)
<1> DEFINE c == i - 1
<1>1. a \in 0 .. Len(s) /\ c \in a .. Len(s) - 1 /\ g \in 1 .. a + 1
  OBVIOUS
<1>2. c + 1 = i
  OBVIOUS
<1>3. SilentIn(s, a + 1, c, atoms)
  OBVIOUS
<1> HIDE DEF c
<1>4. WholeOf(SubSeq(s, g, c + 1), atoms) = WholeOf(SubSeq(s, g, a), atoms) \o Restricted(s[c + 1], atoms)
  BY <1>1, <1>3, WholeUpTo
<1> QED BY <1>2, <1>4

\* A group with a statement more.
Longer(groups, i) == [groups EXCEPT ![Len(groups)][2] = i]

IsLonger(s, I, groups, g, i, atoms) ==
    /\ Longer(groups, i) \in Seq(I \X I) /\ Len(Longer(groups, i)) = Len(groups)
    /\ Longer(groups, i)[Len(groups)] = <<g, i>>
    /\ \A k \in 1 .. Len(groups) - 1 : Longer(groups, i)[k] = groups[k]
    /\ WholeOf(Spans(s, Longer(groups, i)), atoms) = WholeOf(Spans(s, groups), atoms) \o Restricted(s[i], atoms)

LEMMA GroupGrows ==
    ASSUME NEW s \in Seq(Seq(Atom)), NEW I \in SUBSET (1 .. Len(s)), NEW groups \in Seq(I \X I),
           groups # << >>, NEW g \in I, NEW a \in I, groups[Len(groups)] = <<g, a>>,
           NEW i \in I, g <= a, a < i, NEW atoms, SilentIn(s, a + 1, i - 1, atoms)
    PROVE  IsLonger(s, I, groups, g, i, atoms)
<1> DEFINE n == Len(groups)
           longer == [groups EXCEPT ![n][2] = i]
           init == SubSeq(groups, 1, n - 1)
           P == I \X I
<1>1. n \in Nat /\ n >= 1 /\ DOMAIN groups = 1 .. n /\ n - 1 \in 0 .. n - 1 /\ groups \in [1 .. n -> P]
  BY EmptySeq
<1>2. /\ SubSeq(groups, 1, n - 1 + 1) = Append(init, groups[n - 1 + 1]) /\ init \in Seq(P)
      /\ SubSeq(groups, 1, n) = groups
  BY <1>1, PrefixGrows
<1>3. n - 1 + 1 = n
  BY <1>1
<1>4. groups = Append(init, <<g, a>>)
  BY <1>2, <1>3
<1>5. [groups[n] EXCEPT ![2] = i] = <<g, i>> /\ <<g, i>> \in P /\ <<g, a>> \in P
  OBVIOUS
<1>6. longer = [k \in 1 .. n |-> IF k = n THEN <<g, i>> ELSE groups[k]]
  BY <1>1, <1>5
<1> HIDE DEF longer, init, n
<1>7. longer \in [1 .. n -> P]
  BY <1>1, <1>5, <1>6
<1>8. longer \in Seq(P) /\ Len(longer) = n
  BY <1>1, <1>7, SeqOfFunction
<1>9. longer[n] = <<g, i>> /\ \A k \in 1 .. n - 1 : longer[k] = groups[k]
  <2>1. n \in 1 .. n /\ \A k \in 1 .. n - 1 : k \in 1 .. n /\ k # n
    BY <1>1
  <2> QED BY <1>6, <2>1
<1> DEFINE other == Append(init, <<g, i>>)
           m == Len(init)
<1> HIDE DEF P
<1>10. /\ m \in Nat
       /\ Len(Append(init, <<g, a>>)) = m + 1 /\ \A k \in 1 .. m : Append(init, <<g, a>>)[k] = init[k]
       /\ other \in Seq(P) /\ Len(other) = m + 1 /\ other[m + 1] = <<g, i>>
       /\ \A k \in 1 .. m : other[k] = init[k]
  BY <1>2, <1>5, AppendProperties
<1> HIDE DEF other, m
<1>11. m + 1 = n /\ m = n - 1 /\ \A k \in 1 .. m : groups[k] = init[k]
  BY <1>1, <1>4, <1>10 DEF n
<1>12. \A k \in 1 .. n : longer[k] = other[k]
  <2> TAKE k \in 1 .. n
  <2>1. k = n \/ k \in 1 .. n - 1
    BY <1>1
  <2> QED BY <1>9, <1>10, <1>11, <2>1
<1>13. longer = other
  <2>1. Len(other) = n
    BY <1>10, <1>11
  <2> QED BY <1>8, <1>10, <1>12, <2>1, SeqEqual
<1>14. /\ WholeOf(Spans(s, other), atoms) = WholeOf(Spans(s, init), atoms) \o WholeOf(SubSeq(s, g, i), atoms)
       /\ WholeOf(Spans(s, groups), atoms) = WholeOf(Spans(s, init), atoms) \o WholeOf(SubSeq(s, g, a), atoms)
  <2>1. init \in Seq(I \X I)
    BY <1>2 DEF P
  <2>2. SpansMore(s, I, init, atoms)
    BY <2>1, SpansAppend
  <2> QED BY <1>4, <2>2 DEF other, SpansMore
<1>15. WholeOf(SubSeq(s, g, i), atoms) = WholeOf(SubSeq(s, g, a), atoms) \o Restricted(s[i], atoms)
  <2>1. g \in 1 .. Len(s) /\ a \in 1 .. Len(s) /\ i \in 1 .. Len(s)
    OBVIOUS
  <2> QED BY <2>1, SpanGrows
<1>16. /\ WholeOf(Spans(s, init), atoms) \in Seq(Atom)
       /\ WholeOf(SubSeq(s, g, a), atoms) \in Seq(Atom)
       /\ Restricted(s[i], atoms) \in Seq(Atom)
  <2>1. init \in Seq(I \X I)
    BY <1>2 DEF P
  <2>2. Spans(s, init) \in Seq(Seq(Atom))
    BY <2>1, SpansTyped
  <2>3. g \in 1 .. Len(s) /\ a \in 1 .. Len(s) /\ s[i] \in Seq(Atom)
    OBVIOUS
  <2>4. SubSeq(s, g, a) \in Seq(Seq(Atom))
    BY <2>3, SpanTyped
  <2> QED BY <2>2, <2>3, <2>4, WholeTyped, RestrictedAll
<1> DEFINE u == WholeOf(Spans(s, init), atoms)
           v == WholeOf(SubSeq(s, g, a), atoms)
           w == Restricted(s[i], atoms)
<1>17. u \o (v \o w) = (u \o v) \o w
  <2> HIDE DEF u, v, w
  <2>1. u \in Seq(Atom) /\ v \in Seq(Atom) /\ w \in Seq(Atom)
    BY <1>16 DEF u, v, w
  <2>2. \A x, y, z \in Seq(Atom) : x \o (y \o z) = (x \o y) \o z
    BY RegroupedAtoms
  <2> QED BY <2>1, <2>2
<1>18. WholeOf(Spans(s, longer), atoms) = WholeOf(Spans(s, groups), atoms) \o Restricted(s[i], atoms)
  BY <1>13, <1>14, <1>15, <1>17
<1> QED BY <1>8, <1>9, <1>18 DEF longer, n, P, IsLonger, Longer

\* Groups end with the last statement grouped, and have what the statements have.
GroupedTo(t, b, atoms, groups, k) ==
    /\ k = 0 <=> groups = << >>
    /\ groups # << >> => groups[Len(groups)][2] = Ascending(Statements(t, b))[k]
    /\ \A i \in 1 .. Len(groups) : groups[i][1] <= groups[i][2]
    /\ WholeOf(Spans(ChildTexts(t, b), groups), atoms) = WholeOf(SubSeq(StatementTexts(t, b), 1, k), atoms)

LEMMA WholeGrows ==
    ASSUME NEW s \in Seq(Seq(Atom)), NEW k \in 0 .. Len(s) - 1, NEW atoms
    PROVE  WholeOf(SubSeq(s, 1, k + 1), atoms) = WholeOf(SubSeq(s, 1, k), atoms) \o Restricted(s[k + 1], atoms)
<1> DEFINE x == SubSeq(s, 1, k)
           y == s[k + 1]
<1>1. SubSeq(s, 1, k + 1) = Append(x, y) /\ x \in Seq(Seq(Atom)) /\ y \in Seq(Atom)
  BY PrefixGrows
<1> HIDE DEF x, y
<1>2. WholeOf(Append(x, y), atoms) = WholeOf(x, atoms) \o Restricted(y, atoms)
  BY <1>1, WholeAppend
<1> QED BY <1>1, <1>2 DEF x, y

LEMMA GroupStepWhole ==
    ASSUME NEW t, IsTree(t), NEW b \in DOMAIN t, NEW budget \in Int, NEW atoms, StatementsOnly(t, b, atoms),
           NEW acc \in Grouping(Statements(t, b)), NEW k \in 0 .. Len(Ascending(Statements(t, b))) - 1,
           GroupedTo(t, b, atoms, acc.groups, k)
    PROVE  GroupedTo(t, b, atoms,
                     GroupStep(acc, Ascending(Statements(t, b))[k + 1], t, b, budget).groups, k + 1)
<1> DEFINE S == Statements(t, b)
           o == Ascending(S)
           n == Len(o)
           s == ChildTexts(t, b)
           st == StatementTexts(t, b)
           groups == acc.groups
           i == o[k + 1]
           next == GroupStep(acc, i, t, b, budget).groups
           m == Len(groups)
<1>1. /\ S \in SUBSET (1 .. Len(s)) /\ o \in Seq(S) /\ n \in Nat /\ s \in Seq(Seq(Atom))
      /\ st \in Seq(Seq(Atom)) /\ Len(st) = n /\ \A j \in 1 .. n : st[j] = s[o[j]]
  <2>1. S \in SUBSET (1 .. t[b].kids) /\ o \in Seq(S) /\ Len(s) = t[b].kids /\ s \in Seq(Seq(Atom))
    BY StatementsTyped, ChildTextsAre
  <2>2. st \in Seq(Seq(Atom)) /\ Len(st) = n /\ \A j \in 1 .. n : st[j] = s[o[j]]
    BY StatementTextsAre
  <2> HIDE DEF S, o, s, st
  <2> QED BY <2>1, <2>2
<1>2. o # << >> => \A j \in 1 .. n - 1 : o[j] < o[j + 1] /\ SilentIn(s, o[j] + 1, o[j + 1] - 1, atoms)
  BY Gaps
<1>3. groups \in Seq(S \X S) /\ m \in Nat
  BY DEF Grouping
<1>4. /\ k = 0 <=> groups = << >>
      /\ groups # << >> => groups[m][2] = o[k]
      /\ \A j \in 1 .. m : groups[j][1] <= groups[j][2]
      /\ WholeOf(Spans(s, groups), atoms) = WholeOf(SubSeq(st, 1, k), atoms)
  BY DEF GroupedTo
<1>5. \/ next = Append(groups, <<i, i>>)
      \/ groups # << >> /\ next = [groups EXCEPT ![m][2] = i]
  <2> HIDE DEF groups, i, S
  <2> QED BY DEF GroupStep, NextGroup, next, m, groups
<1>6. k \in 0 .. n - 1 /\ k + 1 \in 1 .. n
  BY <1>1
<1> HIDE DEF next
<1> SUFFICES /\ next # << >> /\ next[Len(next)][2] = i
             /\ \A j \in 1 .. Len(next) : next[j][1] <= next[j][2]
             /\ WholeOf(Spans(s, next), atoms) = WholeOf(Spans(s, groups), atoms) \o Restricted(s[i], atoms)
  <2>1. WholeOf(SubSeq(st, 1, k + 1), atoms) = WholeOf(SubSeq(st, 1, k), atoms) \o Restricted(st[k + 1], atoms)
    <3>1. st \in Seq(Seq(Atom)) /\ k \in 0 .. Len(st) - 1
      BY <1>1, <1>6
    <3> HIDE DEF st
    <3> QED BY <3>1, WholeGrows
  <2>2. st[k + 1] = s[i]
    BY <1>1, <1>6
  <2>3. k + 1 # 0 /\ k \in Nat
    BY <1>6
  <2> HIDE DEF S, groups, st, s, m, n
  <2> QED BY <1>4, <2>1, <2>2, <2>3 DEF GroupedTo, next, st, s, S, groups
<1> HIDE DEF S, o, s, st, groups
<1>7. i \in S
  BY <1>1, <1>6, SeqWithin
<1>8. CASE next = Append(groups, <<i, i>>)
  <2>1. <<i, i>> \in S \X S
    BY <1>7
  <2>2. Len(next) = m + 1 /\ next[m + 1] = <<i, i>> /\ \A j \in 1 .. m : next[j] = groups[j]
    BY <1>3, <1>8, <2>1, AppendProperties
  <2>3. next # << >>
    BY <1>3, <1>8, <2>1, FrontOfAppend
  <2>4. i <= i
    <3>1. i \in Int
      <4>1. S \in SUBSET (1 .. Len(s))
        BY <1>1
      <4> HIDE DEF i, n, m
      <4> QED BY <1>7, <4>1
    <3> HIDE DEF i
    <3> QED BY <3>1
  <2>5. \A j \in 1 .. Len(next) : next[j][1] <= next[j][2]
    <3> HIDE DEF m, i
    <3> TAKE j \in 1 .. Len(next)
    <3>1. j \in 1 .. m \/ j = m + 1
      BY <1>3, <2>2
    <3> QED BY <1>4, <2>2, <2>4, <3>1
  <2>6. WholeOf(Spans(s, next), atoms) = WholeOf(Spans(s, groups), atoms) \o Restricted(s[i], atoms)
    <3> HIDE DEF i, m, n
    <3>1. S \in SUBSET (1 .. Len(s)) /\ s \in Seq(Seq(Atom)) /\ groups \in Seq(S \X S)
      BY <1>1, <1>3
    <3> QED BY <1>7, <1>8, <3>1, GroupBegins
  <2> QED BY <2>2, <2>3, <2>5, <2>6
<1>9. CASE groups # << >> /\ next = [groups EXCEPT ![m][2] = i]
  <2> DEFINE g == groups[m][1]
             a == groups[m][2]
  <2>1. m >= 1 /\ m \in 1 .. m
    BY <1>3, <1>9, EmptySeq
  <2>2. groups[m] = <<g, a>> /\ g \in S /\ a \in S
    BY <1>3, <2>1
  <2>3. a = o[k] /\ g <= a
    BY <1>4, <1>9, <2>1
  <2>4. k \in 1 .. n - 1 /\ o # << >>
    <3>1. k # 0
      BY <1>4, <1>9
    <3> QED BY <1>1, <1>6, <3>1, EmptySeq
  <2>5. a < i /\ SilentIn(s, a + 1, i - 1, atoms)
    BY <1>2, <2>3, <2>4
  <2> HIDE DEF g, a, i
  <2>6. /\ next \in Seq(S \X S) /\ Len(next) = m /\ next[m] = <<g, i>>
        /\ \A j \in 1 .. m - 1 : next[j] = groups[j]
        /\ WholeOf(Spans(s, next), atoms) = WholeOf(Spans(s, groups), atoms) \o Restricted(s[i], atoms)
    <3>1. S \in SUBSET (1 .. Len(s)) /\ s \in Seq(Seq(Atom)) /\ groups \in Seq(S \X S)
      BY <1>1, <1>3
    <3>2. groups[Len(groups)] = <<g, a>> /\ next = Longer(groups, i)
      BY <1>9, <2>2 DEF m, Longer
    <3>3. i \in S
      BY <1>7
    <3> HIDE DEF n
    <3>4. IsLonger(s, S, groups, g, i, atoms)
      BY <1>9, <2>2, <2>3, <2>5, <3>1, <3>2, <3>3, GroupGrows
    <3> QED BY <3>2, <3>4 DEF IsLonger, m
  <2>7. next # << >>
    BY <2>1, <2>6, EmptySeq
  <2>8. g <= i
    <3>1. g \in Int /\ a \in Int /\ i \in Int
      BY <1>1, <1>7, <2>2
    <3> QED BY <2>3, <2>5, <3>1
  <2>9. \A j \in 1 .. Len(next) : next[j][1] <= next[j][2]
    <3> HIDE DEF m
    <3> TAKE j \in 1 .. Len(next)
    <3>1. (j \in 1 .. m - 1 /\ j \in 1 .. m) \/ j = m
      BY <1>3, <2>6
    <3>2. CASE j \in 1 .. m - 1 /\ j \in 1 .. m
      <4>1. groups[j][1] <= groups[j][2] /\ next[j] = groups[j]
        BY <1>4, <2>6, <3>2
      <4> QED BY <4>1
    <3>3. CASE j = m
      <4>1. next[m] = <<g, i>>
        BY <2>6
      <4> QED BY <2>8, <3>3, <4>1
    <3> QED BY <3>1, <3>2, <3>3
  <2> QED BY <2>6, <2>7, <2>9
<1> QED BY <1>5, <1>8, <1>9

LEMMA GroupsWhole ==
    ASSUME NEW t, IsTree(t), NEW b \in DOMAIN t, NEW budget \in Int, NEW atoms, StatementsOnly(t, b, atoms)
    PROVE  LET groups == GroupStatements(t, b, budget)
           IN  /\ \A i \in 1 .. Len(groups) : groups[i][1] <= groups[i][2]
               /\ WholeOf(Spans(ChildTexts(t, b), groups), atoms) = WholeOf(StatementTexts(t, b), atoms)
<1> DEFINE S == Statements(t, b)
           o == Ascending(S)
           n == Len(o)
           st == StatementTexts(t, b)
           s == ChildTexts(t, b)
<1>1. PICK f \in [0 .. n -> Grouping(S)] :
         /\ f[0] = GroupBase
         /\ \A k \in 1 .. n : f[k] = GroupStep(f[k - 1], o[k], t, b, budget)
         /\ GroupStatements(t, b, budget) = f[n].groups
  BY GroupsFolded
<1> DEFINE P == {k \in 0 .. n : GroupedTo(t, b, atoms, f[k].groups, k)}
<1>2. n \in Nat /\ st \in Seq(Seq(Atom)) /\ Len(st) = n
  BY StatementTextsAre
<1>3. n \in 0 .. n /\ 0 \in 0 .. n
  BY <1>2
<1>4. 0 \in P
  <2>1. f[0].groups = << >>
    BY <1>1 DEF GroupBase
  <2>2. SubSeq(st, 1, 0) = << >>
    BY <1>2
  <2>3. Spans(s, << >>) = << >>
    BY DEF Spans
  <2>4. Len(<< >>) = 0 /\ \A i \in 1 .. 0 : FALSE
    OBVIOUS
  <2> HIDE DEF n, s, st
  <2>5. GroupedTo(t, b, atoms, << >>, 0)
    BY <2>2, <2>3, <2>4 DEF GroupedTo, s, st
  <2> QED BY <1>3, <2>1, <2>5
<1>5. ASSUME NEW k \in 0 .. n - 1, k \in P
      PROVE  k + 1 \in P
  <2>1. k + 1 \in 0 .. n /\ k + 1 \in 1 .. n /\ k + 1 - 1 = k /\ k \in 0 .. n
    BY <1>2
  <2>2. f[k] \in Grouping(S) /\ GroupedTo(t, b, atoms, f[k].groups, k)
    BY <1>5, <2>1
  <2>3. f[k + 1] = GroupStep(f[k], o[k + 1], t, b, budget)
    BY <1>1, <2>1
  <2>4. GroupedTo(t, b, atoms, GroupStep(f[k], o[k + 1], t, b, budget).groups, k + 1)
    BY <2>2, GroupStepWhole
  <2> QED BY <2>1, <2>3, <2>4
<1> HIDE DEF P
<1>6. n \in P
  <2> HIDE DEF n
  <2> QED BY <1>2, <1>3, <1>4, <1>5, UpTo0
<1>7. GroupedTo(t, b, atoms, f[n].groups, n)
  BY <1>6 DEF P
<1>8. SubSeq(st, 1, n) = st
  BY <1>2
<1> HIDE DEF n, o
<1> QED BY <1>1, <1>7, <1>8 DEF GroupedTo

----------------------------------------------------------------------------
(* The pieces of a function have the characters of its statements.         *)

LEMMA TextsJoined ==
    ASSUME NEW x \in Seq(Piece), NEW y \in Seq(Piece)
    PROVE  /\ TextsOf(x \o y) = TextsOf(x) \o TextsOf(y)
           /\ TextsOf(x) \in Seq(Seq(Atom)) /\ TextsOf(y) \in Seq(Seq(Atom))
<1> DEFINE z == x \o y
           n == Len(x)
           m == Len(y)
           a == TextsOf(x)
           b == TextsOf(y)
           d == TextsOf(z)
<1>1. n \in Nat /\ m \in Nat /\ DOMAIN x = 1 .. n /\ DOMAIN y = 1 .. m
  OBVIOUS
<1>2. /\ z \in Seq(Piece) /\ Len(z) = n + m
      /\ \A i \in 1 .. n + m : z[i] = IF i <= n THEN x[i] ELSE y[i - n]
  BY JoinedAt
<1>3. \A p \in Piece : p.text \in Seq(Atom)
  BY DEF Piece
<1> HIDE DEF z
<1>4. DOMAIN z = 1 .. n + m
  BY <1>2
<1>5. (\A i \in 1 .. n : x[i] \in Piece) /\ (\A i \in 1 .. m : y[i] \in Piece) /\ \A i \in 1 .. n + m : z[i] \in Piece
  BY <1>2, <1>4
<1> HIDE DEF n, m
<1>6. /\ a \in [1 .. n -> Seq(Atom)] /\ \A i \in 1 .. n : a[i] = x[i].text
      /\ b \in [1 .. m -> Seq(Atom)] /\ \A i \in 1 .. m : b[i] = y[i].text
      /\ d \in [1 .. n + m -> Seq(Atom)] /\ \A i \in 1 .. n + m : d[i] = z[i].text
  BY <1>1, <1>3, <1>4, <1>5 DEF TextsOf
<1> HIDE DEF a, b, d
<1>7. a \in Seq(Seq(Atom)) /\ Len(a) = n /\ b \in Seq(Seq(Atom)) /\ Len(b) = m
  BY <1>1, <1>6, SeqOfFunction
<1>8. d \in Seq(Seq(Atom)) /\ Len(d) = n + m
  <2>1. n + m \in Nat
    BY <1>1
  <2> QED BY <1>6, <2>1, SeqOfFunction
<1> DEFINE e == a \o b
<1>9. /\ e \in Seq(Seq(Atom)) /\ Len(e) = n + m
      /\ \A i \in 1 .. n + m : e[i] = IF i <= n THEN a[i] ELSE b[i - n]
  BY <1>7, JoinedAt
<1> HIDE DEF e
<1>10. \A i \in 1 .. n + m : d[i] = e[i]
  <2> TAKE i \in 1 .. n + m
  <2>1. (i <= n /\ i \in 1 .. n) \/ (~(i <= n) /\ i - n \in 1 .. m)
    BY <1>1
  <2> QED BY <1>2, <1>6, <1>9, <2>1
<1>11. d = e
  BY <1>8, <1>9, <1>10, SeqEqual
<1> QED BY <1>7, <1>11 DEF a, b, d, e, z

\* Pieces of texts that are cut each.
CutInto(parts, s, atoms) ==
    Len(parts) = Len(s) /\ \A i \in 1 .. Len(s) : WholeOf(TextsOf(parts[i]), atoms) = Restricted(s[i], atoms)

LEMMA PartGrown ==
    ASSUME NEW x \in Seq(Seq(Piece)), NEW y \in Seq(Piece), NEW atoms
    PROVE  WholeOf(TextsOf(FlattenSeq(Append(x, y))), atoms)
              = WholeOf(TextsOf(FlattenSeq(x)), atoms) \o WholeOf(TextsOf(y), atoms)
<1> DEFINE f == FlattenSeq(x)
<1>1. f \in Seq(Piece) /\ FlattenSeq(Append(x, y)) = f \o y
  BY FlattenTyped, FlattenAppend
<1> HIDE DEF f
<1> DEFINE a == TextsOf(f)
           b == TextsOf(y)
<1>2. TextsOf(f \o y) = a \o b /\ a \in Seq(Seq(Atom)) /\ b \in Seq(Seq(Atom))
  BY <1>1, TextsJoined
<1> HIDE DEF a, b
<1>3. WholeOf(a \o b, atoms) = WholeOf(a, atoms) \o WholeOf(b, atoms)
  BY <1>2, WholeJoined
<1> QED BY <1>1, <1>2, <1>3 DEF a, b, f

LEMMA PartsWhole ==
    ASSUME NEW s \in Seq(Seq(Atom)), NEW parts \in Seq(Seq(Piece)), NEW atoms, CutInto(parts, s, atoms)
    PROVE  WholeOf(TextsOf(FlattenSeq(parts)), atoms) = WholeOf(s, atoms)
<1> DEFINE n == Len(s)
           P == {k \in 0 .. n : WholeOf(TextsOf(FlattenSeq(SubSeq(parts, 1, k))), atoms) = WholeOf(SubSeq(s, 1, k), atoms)}
<1>1. n \in Nat /\ n \in 0 .. n /\ 0 \in 0 .. n /\ Len(parts) = n
      /\ \A i \in 1 .. n : WholeOf(TextsOf(parts[i]), atoms) = Restricted(s[i], atoms)
  BY DEF CutInto
<1>2. 0 \in P
  <2>1. SubSeq(parts, 1, 0) = << >> /\ SubSeq(s, 1, 0) = << >>
    OBVIOUS
  <2>2. TextsOf(FlattenSeq(<< >>)) = << >>
    BY FlattenEmpty DEF TextsOf
  <2> QED BY <1>1, <2>1, <2>2
<1>3. ASSUME NEW k \in 0 .. n - 1, k \in P
      PROVE  k + 1 \in P
  <2> DEFINE x == SubSeq(parts, 1, k)
             y == SubSeq(s, 1, k)
  <2>1. k + 1 \in 1 .. n /\ k + 1 \in 0 .. n
    BY <1>1
  <2>2. SubSeq(parts, 1, k + 1) = Append(x, parts[k + 1]) /\ x \in Seq(Seq(Piece)) /\ parts[k + 1] \in Seq(Piece)
    BY <1>1, PrefixGrows
  <2>3. WholeOf(SubSeq(s, 1, k + 1), atoms) = WholeOf(y, atoms) \o Restricted(s[k + 1], atoms)
    BY WholeGrows
  <2>4. WholeOf(TextsOf(FlattenSeq(x)), atoms) = WholeOf(y, atoms)
    BY <1>3
  <2> HIDE DEF x, y
  <2>5. WholeOf(TextsOf(FlattenSeq(Append(x, parts[k + 1]))), atoms)
           = WholeOf(TextsOf(FlattenSeq(x)), atoms) \o WholeOf(TextsOf(parts[k + 1]), atoms)
    BY <2>2, PartGrown
  <2> QED BY <1>1, <2>1, <2>2, <2>3, <2>4, <2>5
<1> HIDE DEF P
<1>4. n \in P
  BY <1>1, <1>2, <1>3, UpTo0
<1>5. SubSeq(parts, 1, n) = parts /\ SubSeq(s, 1, n) = s
  BY <1>1
<1> QED BY <1>4, <1>5 DEF P

LEMMA RestrictedAtoms ==
    \A atoms : \A x, y \in Seq(Atom) :
        /\ x \o y \in Seq(Atom) /\ Restricted(x, atoms) \in Seq(Atom)
        /\ Restricted(x \o y, atoms) = Restricted(x, atoms) \o Restricted(y, atoms)
<1> TAKE atoms
<1> TAKE x, y \in Seq(Atom)
<1>1. x \o y \in Seq(Atom)
  OBVIOUS
<1>2. Restricted(x \o y, atoms) = Restricted(x, atoms) \o Restricted(y, atoms)
  BY RestrictedJoined
<1>3. Restricted(x, atoms) \in Seq(Atom)
  BY RestrictedIs
<1> QED BY <1>1, <1>2, <1>3

\* A text behind a header that has nothing of it.
LEMMA BehindHeader ==
    ASSUME NEW header \in Seq(Atom), NEW text \in Seq(Atom), NEW atoms, NL \notin atoms,
           Restricted(header, atoms) = << >>
    PROVE  /\ header \o <<NL>> \o text \in Seq(Atom)
           /\ Restricted(header \o <<NL>> \o text, atoms) = Restricted(text, atoms)
<1> DEFINE x == header \o <<NL>>
           r == Restricted(text, atoms)
<1>1. <<NL>> \in Seq(Atom)
  BY AtomsAre
<1>2. x \in Seq(Atom)
  BY <1>1
<1>3. Restricted(x, atoms) = << >> \o << >>
  <2> DEFINE w == <<NL>>
  <2>1. Restricted(w, atoms) = << >>
    BY NewlineLost
  <2>2. w \in Seq(Atom)
    BY <1>1
  <2> HIDE DEF w
  <2>3. Restricted(header \o w, atoms) = Restricted(header, atoms) \o Restricted(w, atoms)
    BY <2>2, RestrictedAtoms
  <2> QED BY <2>1, <2>3 DEF w
<1>4. << >> \o << >> = << >>
  OBVIOUS
<1> HIDE DEF x
<1>5. x \o text \in Seq(Atom) /\ Restricted(x \o text, atoms) = Restricted(x, atoms) \o r /\ r \in Seq(Atom)
  BY <1>2, RestrictedAtoms
<1> HIDE DEF r
<1>6. << >> \o r = r
  BY <1>5
<1> QED BY <1>3, <1>4, <1>5, <1>6 DEF x, r

LEMMA PiecesTexts ==
    ASSUME NEW texts \in Seq(Seq(Atom)), NEW start, NEW end
    PROVE  TextsOf(Pieces(texts, start, end)) = texts
<1>1. texts = [i \in DOMAIN texts |-> texts[i]]
  OBVIOUS
<1> QED BY <1>1 DEF TextsOf, Pieces, Each

LEMMA EmitWhole ==
    ASSUME NEW t, IsTree(t), NEW b \in DOMAIN t, NEW header \in Seq(Atom), NEW start \in Int, NEW atoms,
           NL \notin atoms, Restricted(header, atoms) = << >>, StatementsOnly(t, b, atoms),
           Statements(t, b) # {},
           \A i \in Statements(t, b) :
              /\ Text(t, Append(b, i)) # << >>
              /\ start <= EndLine(t, Append(b, i)) + 1
    PROVE  WholeOf(TextsOf(EmitBodyChunks(t, header, b, start)), atoms) = WholeOf(StatementTexts(t, b), atoms)
<1> DEFINE S == Statements(t, b)
           s == ChildTexts(t, b)
           groups == GroupStatements(t, b, Budget(header))
           n == Len(groups)
           kids == t[b].kids
           Span(g) == TextOf(t, SubSeq(Children(t, b), g[1], g[2]))
           Cut(g) == SplitOversized(header \o <<NL>> \o Span(g), MaxTokens)
           Emit(g) == Pieces(Cut(g), start, EndLine(t, Append(b, g[2])))
           parts == [i \in DOMAIN groups |-> Emit(groups[i])]
           spans == Spans(s, groups)
<1>1. groups \in Seq(S \X S) /\ Budget(header) \in Int
  <2>1. Budget(header) \in Int
    BY BudgetTyped
  <2> QED BY <2>1, GroupsTyped
<1>2. EmitBodyChunks(t, header, b, start) = FlattenSeq(parts)
  BY DEF EmitBodyChunks, Concat, Each
<1>3. S \in SUBSET (1 .. kids) /\ kids \in Nat /\ s \in Seq(Seq(Atom)) /\ Len(s) = kids
  BY StatementsTyped, ChildTextsAre
<1>4. /\ \A i \in 1 .. n : groups[i][1] <= groups[i][2]
      /\ WholeOf(spans, atoms) = WholeOf(StatementTexts(t, b), atoms)
  BY <1>1, GroupsWhole
<1>5. \A i \in S : EndLine(t, Append(b, i)) \in Int /\ start <= EndLine(t, Append(b, i)) + 1
  <2> SUFFICES ASSUME NEW i \in S PROVE EndLine(t, Append(b, i)) \in Int
    OBVIOUS
  <2>1. Append(b, i) \in DOMAIN t
    BY <1>3, NodeTyped
  <2> QED BY <2>1, LineTyped
<1>6. n \in Nat /\ DOMAIN groups = 1 .. n /\ \A i \in 1 .. n : groups[i] \in S \X S
  BY <1>1
<1> HIDE DEF groups, S, n, s, kids
<1>7. \A i \in 1 .. n : groups[i][1] \in S /\ groups[i][2] \in S
  BY <1>6
<1>8. \A i \in 1 .. n : Span(groups[i]) = spans[i] /\ spans[i] \in Seq(Atom)
  <2> TAKE i \in 1 .. n
  <2> DEFINE g == groups[i]
  <2>1. g[1] \in S /\ g[2] \in S /\ g[1] <= g[2]
    BY <1>4, <1>7
  <2>2. spans[i] = FlattenSeq(SubSeq(s, g[1], g[2]))
    BY <1>6 DEF Spans
  <2> HIDE DEF g, spans
  <2>3. g[1] \in 1 .. kids /\ g[2] \in 1 .. kids
    BY <1>3, <2>1
  <2>4. g[1] \in 1 .. kids + 1 /\ g[2] \in g[1] - 1 .. kids
    BY <1>3, <2>1, <2>3
  <2>5. Span(g) = FlattenSeq(SubSeq(s, g[1], g[2]))
    BY <2>4, SpanIs DEF kids, s
  <2>6. FlattenSeq(SubSeq(s, g[1], g[2])) \in Seq(Atom)
    BY <1>3, <2>3, SpanTyped
  <2> QED BY <2>2, <2>5, <2>6 DEF g
<1> HIDE DEF Span
<1>9. \A i \in 1 .. n : /\ Cut(groups[i]) \in Seq(Seq(Atom))
                        /\ WholeOf(Cut(groups[i]), atoms) = Restricted(spans[i], atoms)
  <2> TAKE i \in 1 .. n
  <2> DEFINE text == spans[i]
             x == header \o <<NL>> \o text
  <2>1. Cut(groups[i]) = SplitOversized(x, MaxTokens) /\ text \in Seq(Atom)
    BY <1>8
  <2> HIDE DEF text
  <2>2. x \in Seq(Atom) /\ Restricted(x, atoms) = Restricted(text, atoms)
    BY <2>1, BehindHeader
  <2> HIDE DEF x
  <2>3. SplitOversized(x, MaxTokens) \in Seq(Short(Atom, MaxTokens))
    BY <2>2, AtomsAre, SplitTyped, MaxTokensAssumption
  <2>4. Short(Atom, MaxTokens) \in SUBSET Seq(Atom)
    BY DEF Short
  <2>5. SplitOversized(x, MaxTokens) \in Seq(Seq(Atom))
    BY <2>3, <2>4, SeqWithin
  <2>6. WholeOf(SplitOversized(x, MaxTokens), atoms) = Restricted(x, atoms)
    BY <2>2, AtomsAre, SplitWhole, MaxTokensAssumption
  <2> QED BY <2>1, <2>2, <2>5, <2>6 DEF text
<1> HIDE DEF Cut
<1>10. \A i \in 1 .. n : Emit(groups[i]) \in Seq(Piece) /\ TextsOf(Emit(groups[i])) = Cut(groups[i])
  <2> TAKE i \in 1 .. n
  <2> DEFINE end == EndLine(t, Append(b, groups[i][2]))
             texts == Cut(groups[i])
  <2>1. end \in Int /\ start <= end + 1
    BY <1>5, <1>7
  <2>2. texts \in Seq(Seq(Atom)) /\ Seq(Atom) \in SUBSET Seq(Atom)
    BY <1>9
  <2> HIDE DEF end, texts
  <2>3. Pieces(texts, start, end) \in Seq(Piece)
    BY <2>1, <2>2, PiecesTyped
  <2>4. TextsOf(Pieces(texts, start, end)) = texts
    BY <2>2, PiecesTexts
  <2> QED BY <2>3, <2>4 DEF texts, end
<1> HIDE DEF Emit
<1>11. \A i \in 1 .. n : parts[i] = Emit(groups[i])
  BY <1>6
<1>12. parts \in [1 .. n -> Seq(Piece)]
  BY <1>6, <1>10
<1> HIDE DEF parts
<1>13. parts \in Seq(Seq(Piece)) /\ Len(parts) = n
  BY <1>6, <1>12, SeqOfFunction
<1>14. spans \in Seq(Seq(Atom)) /\ Len(spans) = n
  <2>1. groups \in Seq(S \X S) /\ S \in SUBSET (1 .. Len(s))
    BY <1>1, <1>3 DEF groups, S
  <2> QED BY <1>3, <2>1, SpansTyped DEF n
<1> HIDE DEF spans
<1>15. CutInto(parts, spans, atoms)
  BY <1>9, <1>10, <1>11, <1>13, <1>14 DEF CutInto
<1>16. WholeOf(TextsOf(FlattenSeq(parts)), atoms) = WholeOf(spans, atoms)
  BY <1>13, <1>14, <1>15, PartsWhole
<1> QED BY <1>2, <1>4, <1>16

----------------------------------------------------------------------------
(* The characters of the statements are nowhere else.                      *)

LEMMA SeqHas ==
    ASSUME NEW S, NEW o \in Seq(S)
    PROVE  Len(o) \in Nat /\ \A k \in 1 .. Len(o) : o[k] \in S
OBVIOUS

LEMMA FlattenHas ==
    ASSUME NEW A, NEW s \in Seq(Seq(A)), NEW k \in 1 .. Len(s), NEW c \in ToSet(s[k])
    PROVE  c \in ToSet(FlattenSeq(s))
<1> DEFINE x == SubSeq(s, 1, k - 1)
           y == s[k]
           z == SubSeq(s, k + 1, Len(s))
           fx == FlattenSeq(x)
           fz == FlattenSeq(z)
<1>1. FlattenSeq(s) = FlattenSeq(SubSeq(s, 1, k)) \o fz
  <2>1. k \in 0 .. Len(s)
    OBVIOUS
  <2> QED BY <2>1, FlattenSplit
<1>2. SubSeq(s, 1, k) = Append(x, y) /\ x \in Seq(Seq(A)) /\ y \in Seq(A)
  <2>1. k - 1 \in 0 .. Len(s) - 1 /\ k - 1 + 1 = k
    OBVIOUS
  <2> QED BY <2>1, PrefixGrows
<1>3. z \in Seq(Seq(A))
  OBVIOUS
<1> HIDE DEF x, z, y
<1>4. FlattenSeq(Append(x, y)) = fx \o y /\ fx \in Seq(A) /\ fz \in Seq(A)
  BY <1>2, <1>3, FlattenAppend, FlattenTyped
<1> HIDE DEF fx, fz
<1>5. c \in ToSet(y)
  BY DEF y
<1>6. c \in ToSet((fx \o y) \o fz)
  <2>1. PICK j \in 1 .. Len(y) : y[j] = c
    BY <1>2, <1>5 DEF ToSet
  <2>2. fx \o y \in Seq(A) /\ Len(fx) + j \in 1 .. Len(fx \o y) /\ (fx \o y)[Len(fx) + j] = c
    BY <1>2, <1>4, <2>1
  <2> DEFINE w == fx \o y
             i == Len(fx) + j
  <2> HIDE DEF w, i
  <2>3. i \in DOMAIN (w \o fz) /\ (w \o fz)[i] = c
    BY <1>4, <2>2 DEF w, i
  <2> QED BY <2>3 DEF ToSet, w
<1> QED BY <1>1, <1>2, <1>4, <1>6

LEMMA FlattenOnly ==
    ASSUME NEW A, NEW s \in Seq(Seq(A)), NEW c \in ToSet(FlattenSeq(s))
    PROVE  \E k \in 1 .. Len(s) : c \in ToSet(s[k])
<1> DEFINE B == {a \in A : \E k \in 1 .. Len(s) : a \in ToSet(s[k])}
<1>1. \A k \in 1 .. Len(s) : s[k] \in Seq(B)
  <2> TAKE k \in 1 .. Len(s)
  <2> DEFINE y == s[k]
  <2>1. y \in Seq(A) /\ Len(y) \in Nat
    OBVIOUS
  <2>2. \A j \in 1 .. Len(y) : y[j] \in B
    BY <2>1 DEF ToSet
  <2> HIDE DEF y, B
  <2>3. y \in [1 .. Len(y) -> B]
    BY <2>1, <2>2
  <2>4. y \in Seq(B)
    BY <2>1, <2>3, SeqOfFunction
  <2> QED BY <2>4 DEF y
<1> HIDE DEF B
<1>2. s \in [1 .. Len(s) -> Seq(B)] /\ Len(s) \in Nat
  <2>1. Len(s) \in Nat /\ s = [k \in 1 .. Len(s) |-> s[k]]
    OBVIOUS
  <2> QED BY <1>1, <2>1
<1>3. s \in Seq(Seq(B))
  BY <1>2, SeqOfFunction
<1>4. FlattenSeq(s) \in Seq(B)
  BY <1>3, FlattenTyped
<1>5. c \in B
  BY <1>4 DEF ToSet
<1> QED BY <1>5 DEF B

\* The text of a node that has children, and of a body, is that of its children.
LEMMA TextIsChildren ==
    ASSUME NEW t, IsTree(t), IsParsed(t), NEW p \in DOMAIN t, t[p].kids > 0 \/ t[p].kind \in BodyKinds
    PROVE  Text(t, p) = FlattenSeq(ChildTexts(t, p))
<1> DEFINE c == Children(t, p)
           s == ChildTexts(t, p)
           n == t[p].kids
<1>1. Text(t, p) = TextOf(t, c)
  BY DEF IsParsed, IsJoined
<1>2. c \in Seq(DOMAIN t) /\ Len(c) = n /\ n \in Nat /\ s \in Seq(Seq(Atom)) /\ Len(s) = n
  BY NodeTyped, ChildTextsAre
<1>3. TextOf(t, SubSeq(c, 1, n)) = FlattenSeq(SubSeq(s, 1, n))
  <2>1. 1 \in 1 .. n + 1 /\ n \in 1 - 1 .. n
    BY <1>2
  <2> QED BY <2>1, SpanIs
<1> HIDE DEF c, s, n
<1>4. SubSeq(c, 1, n) = c /\ SubSeq(s, 1, n) = s
  BY <1>2
<1> QED BY <1>1, <1>3, <1>4 DEF c, s

LEMMA ChildWithin ==
    ASSUME NEW t, IsTree(t), IsParsed(t), NEW p \in DOMAIN t, NEW k \in 1 .. t[p].kids
    PROVE  Atoms(Text(t, Append(p, k))) \subseteq Atoms(Text(t, p))
<1> DEFINE s == ChildTexts(t, p)
           n == t[p].kids
<1>1. s \in Seq(Seq(Atom)) /\ Len(s) = n /\ n \in Nat /\ s[k] = Text(t, Append(p, k))
  BY ChildTextsAre
<1>2. Text(t, p) = FlattenSeq(s)
  BY <1>1, TextIsChildren
<1> HIDE DEF s
<1>3. k \in 1 .. Len(s)
  BY <1>1
<1>4. \A c \in ToSet(s[k]) : c \in ToSet(FlattenSeq(s))
  BY <1>1, <1>3, FlattenHas
<1> QED BY <1>1, <1>2, <1>4 DEF Atoms

\* Every member is a character.
Characters(atoms) == \A c \in atoms : c[1] > 0

LEMMA ApartIsSilent ==
    ASSUME NEW text \in Seq(Atom), NEW atoms, Characters(atoms), Atoms(text) \cap atoms = {}
    PROVE  Restricted(text, atoms) = << >>
<1>1. \A c \in ToSet(text) : c \notin atoms
  BY DEF Atoms, Characters
<1> QED BY <1>1, RestrictedNone

\* Of the children of a node only one has characters of a set.
OnlyChild(t, p, k, atoms) ==
    \A m \in 1 .. t[p].kids : m # k => Restricted(ChildTexts(t, p)[m], atoms) = << >>

LEMMA OthersSilent ==
    ASSUME NEW t, IsTree(t), IsParsed(t), NEW p \in DOMAIN t, NEW k \in 1 .. t[p].kids,
           NEW atoms, Characters(atoms), atoms \subseteq Atoms(Text(t, Append(p, k)))
    PROVE  OnlyChild(t, p, k, atoms)
<1> SUFFICES ASSUME NEW m \in 1 .. t[p].kids, m # k
             PROVE  Restricted(ChildTexts(t, p)[m], atoms) = << >>
  BY DEF OnlyChild
<1>1. ChildTexts(t, p)[m] = Text(t, Append(p, m)) /\ Append(p, m) \in DOMAIN t
  BY ChildTextsAre, NodeTyped
<1>2. Atoms(Text(t, Append(p, m))) \cap Atoms(Text(t, Append(p, k))) = {}
  BY DEF IsParsed, IsJoined
<1>3. Text(t, Append(p, m)) \in Seq(Atom)
  BY <1>1, NodeTyped
<1>4. Restricted(Text(t, Append(p, m)), atoms) = << >>
  BY <1>2, <1>3, ApartIsSilent
<1> QED BY <1>1, <1>4

\* What is before it has nothing of it.
LEMMA BeforeSilent ==
    ASSUME NEW t, IsTree(t), NEW p \in DOMAIN t, HasBody(t, p), NEW k \in 1 .. t[p].kids,
           BodyIndex(t, p) <= k, NEW atoms, OnlyChild(t, p, k, atoms)
    PROVE  Restricted(BeforeBody(t, p), atoms) = << >>
<1> DEFINE s == ChildTexts(t, p)
           n == t[p].kids
           i == BodyIndex(t, p)
           j == i - 1
<1>1. s \in Seq(Seq(Atom)) /\ Len(s) = n /\ n \in Nat /\ i \in 1 .. n
  BY ChildTextsAre, BodyTyped
<1>2. BeforeBody(t, p) = TextOf(t, SubSeq(Children(t, p), 1, j))
  BY DEF BeforeBody
<1>3. SilentIn(s, 1, j, atoms)
  <2> SUFFICES ASSUME NEW m \in 1 .. j PROVE Restricted(s[m], atoms) = << >>
    BY DEF SilentIn
  <2>1. m \in 1 .. n /\ m # k
    BY <1>1
  <2> QED BY <2>1 DEF OnlyChild
<1>4. 1 \in 1 .. n + 1 /\ j \in 1 - 1 .. n /\ j \in 0 .. n
  BY <1>1
<1> HIDE DEF j, s, i
<1>5. TextOf(t, SubSeq(Children(t, p), 1, j)) = FlattenSeq(SubSeq(s, 1, j))
  BY <1>4, SpanIs DEF s
<1>6. WholeOf(SubSeq(s, 1, j), atoms) = WholeOf(SubSeq(s, 1, 0), atoms)
  <2>1. 1 \in 1 .. Len(s) + 1 /\ 0 \in 1 - 1 .. Len(s) /\ j \in 0 .. Len(s) /\ 0 + 1 = 1
    BY <1>1, <1>4
  <2> HIDE DEF n
  <2>2. SilentIn(s, 0 + 1, j, atoms)
    BY <1>3
  <2> QED BY <1>1, <2>1, <2>2, WholeBehind
<1>7. SubSeq(s, 1, 0) = << >>
  BY <1>1
<1> QED BY <1>2, <1>5, <1>6, <1>7, WholeEmpty DEF WholeOf

\* A node has of it what the child has.
LEMMA ChildWhole ==
    ASSUME NEW t, IsTree(t), IsParsed(t), NEW p \in DOMAIN t, NEW k \in 1 .. t[p].kids,
           NEW atoms, OnlyChild(t, p, k, atoms)
    PROVE  Restricted(Text(t, p), atoms) = Restricted(Text(t, Append(p, k)), atoms)
<1> DEFINE s == ChildTexts(t, p)
           n == t[p].kids
           j == k - 1
           r == Restricted(s[k], atoms)
<1>1. /\ s \in Seq(Seq(Atom)) /\ Len(s) = n /\ n \in Nat /\ s[k] = Text(t, Append(p, k))
      /\ \A m \in 1 .. n : m # k => Restricted(s[m], atoms) = << >>
  BY ChildTextsAre DEF OnlyChild
<1>2. Text(t, p) = FlattenSeq(s)
  BY <1>1, TextIsChildren
<1>3. SilentIn(s, 1, j, atoms) /\ SilentIn(s, k + 1, n, atoms)
  <2>1. \A m \in 1 .. j : m \in 1 .. n /\ m # k
    BY <1>1
  <2>2. \A m \in k + 1 .. n : m \in 1 .. n /\ m # k
    BY <1>1
  <2> QED BY <1>1, <2>1, <2>2 DEF SilentIn
<1>4. /\ 0 \in 0 .. n /\ j \in 0 .. n - 1 /\ 1 \in 1 .. 0 + 1 /\ j + 1 = k /\ 0 + 1 = 1
      /\ 1 \in 1 .. n + 1 /\ k \in 1 - 1 .. n /\ n \in k .. n
  BY <1>1
<1> HIDE DEF s, n, j
<1>5. WholeOf(SubSeq(s, 1, n), atoms) = WholeOf(SubSeq(s, 1, k), atoms)
  BY <1>1, <1>3, <1>4, WholeBehind
<1>6. WholeOf(SubSeq(s, 1, j + 1), atoms) = WholeOf(SubSeq(s, 1, 0), atoms) \o Restricted(s[j + 1], atoms)
  <2>1. SilentIn(s, 0 + 1, j, atoms)
    BY <1>3, <1>4
  <2> QED BY <1>1, <1>4, <2>1, WholeUpTo
<1>7. SubSeq(s, 1, 0) = << >> /\ SubSeq(s, 1, n) = s
  BY <1>1
<1>8. WholeOf(SubSeq(s, 1, k), atoms) = << >> \o r
  BY <1>4, <1>6, <1>7, WholeEmpty
<1>9. r \in Seq(Atom)
  <2>1. s[k] \in Seq(Atom)
    BY <1>1 DEF n
  <2> QED BY <2>1, RestrictedAtoms
<1>10. << >> \o r = r
  <2> HIDE DEF r
  <2> QED BY <1>9
<1> QED BY <1>1, <1>2, <1>5, <1>7, <1>8, <1>10 DEF WholeOf

\* A body has of them what its statements have.
LEMMA StatementsWhole ==
    ASSUME NEW t, IsTree(t), NEW b \in DOMAIN t, NEW atoms, StatementsOnly(t, b, atoms),
           Statements(t, b) # {}
    PROVE  WholeOf(ChildTexts(t, b), atoms) = WholeOf(StatementTexts(t, b), atoms)
<1> DEFINE o == Ascending(Statements(t, b))
           s == ChildTexts(t, b)
           st == StatementTexts(t, b)
           n == Len(o)
           kids == t[b].kids
           P == {k \in 0 .. n - 1 : WholeOf(SubSeq(s, 1, o[k + 1]), atoms) = WholeOf(SubSeq(st, 1, k + 1), atoms)}
<1>1. /\ o # << >> /\ o \in Seq(1 .. kids) /\ st \in Seq(Seq(Atom)) /\ Len(st) = n
      /\ \A k \in 1 .. n : st[k] = s[o[k]]
  BY StatementsTyped, StatementTextsAre
<1>2. /\ SilentIn(s, 1, o[1] - 1, atoms)
      /\ SilentIn(s, o[n] + 1, kids, atoms)
      /\ \A k \in 1 .. n - 1 : o[k] < o[k + 1] /\ SilentIn(s, o[k] + 1, o[k + 1] - 1, atoms)
  BY <1>1, Gaps
<1>3. s \in Seq(Seq(Atom)) /\ Len(s) = kids /\ kids \in Nat
  BY ChildTextsAre
<1> HIDE DEF o, s, st, kids
<1>4. n \in Nat /\ n >= 1 /\ 0 \in 0 .. n - 1 /\ n - 1 \in 0 .. n - 1 /\ n - 1 \in Nat
      /\ \A k \in 1 .. n : o[k] \in 1 .. kids
  <2>1. n \in Nat /\ n >= 1 /\ \A k \in 1 .. n : o[k] \in 1 .. kids
    <3>1. o \in Seq(1 .. kids) /\ o # << >>
      BY <1>1
    <3> HIDE DEF P
    <3>2. n \in Nat /\ \A k \in 1 .. n : o[k] \in 1 .. kids
      BY <3>1, SeqHas
    <3> QED BY <3>1, <3>2, EmptySeq
  <2> HIDE DEF n, P
  <2> QED BY <2>1
<1> HIDE DEF n
<1>5. ASSUME NEW a \in 0 .. kids, NEW c \in 1 .. kids, a < c, SilentIn(s, a + 1, c - 1, atoms)
      PROVE  WholeOf(SubSeq(s, 1, c), atoms) = WholeOf(SubSeq(s, 1, a), atoms) \o Restricted(s[c], atoms)
  <2> DEFINE d == c - 1
  <2>1. a \in 0 .. Len(s) /\ d \in a .. Len(s) - 1 /\ 1 \in 1 .. a + 1 /\ d + 1 = c /\ SilentIn(s, a + 1, d, atoms)
    BY <1>3, <1>5
  <2> HIDE DEF d
  <2>2. WholeOf(SubSeq(s, 1, d + 1), atoms) = WholeOf(SubSeq(s, 1, a), atoms) \o Restricted(s[d + 1], atoms)
    BY <1>3, <2>1, WholeUpTo
  <2> QED BY <2>1, <2>2
<1>6. ASSUME NEW k \in 0 .. n - 1
      PROVE  WholeOf(SubSeq(st, 1, k + 1), atoms) = WholeOf(SubSeq(st, 1, k), atoms) \o Restricted(s[o[k + 1]], atoms)
  <2>1. k \in 0 .. Len(st) - 1 /\ k + 1 \in 1 .. n
    BY <1>1, <1>4
  <2>2. WholeOf(SubSeq(st, 1, k + 1), atoms) = WholeOf(SubSeq(st, 1, k), atoms) \o Restricted(st[k + 1], atoms)
    BY <1>1, <2>1, WholeGrows
  <2> QED BY <1>1, <2>1, <2>2
<1>7. 0 \in P
  <2>1. 0 + 1 = 1 /\ 1 \in 1 .. n
    BY <1>4
  <2>2. 0 \in 0 .. kids /\ o[1] \in 1 .. kids /\ 0 < o[1]
    BY <1>3, <1>4, <2>1
  <2>3. SilentIn(s, 0 + 1, o[1] - 1, atoms)
    BY <1>2, <2>1
  <2>4. WholeOf(SubSeq(s, 1, o[1]), atoms) = WholeOf(SubSeq(s, 1, 0), atoms) \o Restricted(s[o[1]], atoms)
    BY <1>5, <2>2, <2>3
  <2>5. WholeOf(SubSeq(st, 1, 0 + 1), atoms) = WholeOf(SubSeq(st, 1, 0), atoms) \o Restricted(s[o[0 + 1]], atoms)
    BY <1>4, <1>6
  <2>6. SubSeq(s, 1, 0) = << >> /\ SubSeq(st, 1, 0) = << >>
    BY <1>1, <1>3
  <2>7. WholeOf(SubSeq(s, 1, o[0 + 1]), atoms) = WholeOf(SubSeq(st, 1, 0 + 1), atoms)
    BY <2>1, <2>4, <2>5, <2>6
  <2> QED BY <1>4, <2>7
<1>8. ASSUME NEW k \in 0 .. n - 1 - 1, k \in P
      PROVE  k + 1 \in P
  <2> DEFINE j == k + 1
  <2>1. j \in 0 .. n - 1 /\ j \in 1 .. n - 1 /\ j \in 1 .. n /\ j + 1 \in 1 .. n
    BY <1>4
  <2>2. WholeOf(SubSeq(s, 1, o[j]), atoms) = WholeOf(SubSeq(st, 1, j), atoms)
    BY <1>8
  <2> HIDE DEF j
  <2>3. o[j] \in 0 .. kids /\ o[j + 1] \in 1 .. kids /\ o[j] < o[j + 1] /\ SilentIn(s, o[j] + 1, o[j + 1] - 1, atoms)
    <3>1. o[j] \in 1 .. kids /\ o[j + 1] \in 1 .. kids
      BY <1>4, <2>1
    <3>2. o[j] \in 0 .. kids
      BY <1>3, <3>1
    <3> QED BY <1>2, <2>1, <3>1, <3>2
  <2>4. WholeOf(SubSeq(s, 1, o[j + 1]), atoms) = WholeOf(SubSeq(s, 1, o[j]), atoms) \o Restricted(s[o[j + 1]], atoms)
    BY <1>5, <2>3
  <2>5. WholeOf(SubSeq(st, 1, j + 1), atoms) = WholeOf(SubSeq(st, 1, j), atoms) \o Restricted(s[o[j + 1]], atoms)
    BY <1>6, <2>1
  <2>6. j \in P
    BY <2>1, <2>2, <2>4, <2>5
  <2> QED BY <2>6 DEF j
<1> HIDE DEF P
<1>9. n - 1 \in P
  <2> DEFINE m == n - 1
  <2>1. m \in Nat /\ 0 \in P /\ (\A k \in 0 .. m - 1 : k \in P => k + 1 \in P) /\ m \in 0 .. m
    BY <1>4, <1>7, <1>8
  <2> HIDE DEF m
  <2>2. m \in P
    BY <2>1, UpTo0
  <2> QED BY <2>2 DEF m
<1>10. n - 1 + 1 = n /\ n \in 1 .. n /\ o[n] \in 1 .. kids
  BY <1>4
<1>11. WholeOf(SubSeq(s, 1, o[n]), atoms) = WholeOf(SubSeq(st, 1, n), atoms)
  BY <1>9, <1>10 DEF P
<1>12. WholeOf(SubSeq(s, 1, kids), atoms) = WholeOf(SubSeq(s, 1, o[n]), atoms)
  <2>1. 1 \in 1 .. Len(s) + 1 /\ o[n] \in 1 - 1 .. Len(s) /\ kids \in o[n] .. Len(s)
    BY <1>3, <1>10
  <2> QED BY <1>2, <1>3, <2>1, WholeBehind
<1>13. SubSeq(s, 1, kids) = s /\ SubSeq(st, 1, n) = st
  BY <1>1, <1>3
<1> QED BY <1>11, <1>12, <1>13 DEF s, st

\* The characters of the statements of a body.
StatementAtoms(t, b) == Atoms(FlattenSeq(StatementTexts(t, b)))

LEMMA StatementAtomsAre ==
    ASSUME NEW t, IsTree(t), IsParsed(t), NEW b \in DOMAIN t
    PROVE  /\ Characters(StatementAtoms(t, b)) /\ NL \notin StatementAtoms(t, b)
           /\ StatementAtoms(t, b) \subseteq Atoms(Text(t, b))
           /\ StatementsOnly(t, b, StatementAtoms(t, b))
<1> DEFINE S == Statements(t, b)
           o == Ascending(S)
           st == StatementTexts(t, b)
           X == StatementAtoms(t, b)
           kids == t[b].kids
<1>1. S \in SUBSET (1 .. kids) /\ o \in Seq(S)
  BY StatementsTyped
<1>2. st \in Seq(Seq(Atom)) /\ Len(st) = Len(o) /\ \A k \in 1 .. Len(o) : st[k] = ChildTexts(t, b)[o[k]]
  BY StatementTextsAre
<1>3. \A k \in 1 .. kids : ChildTexts(t, b)[k] = Text(t, Append(b, k)) /\ Append(b, k) \in DOMAIN t
  BY ChildTextsAre, NodeTyped
<1>4. X = {c \in ToSet(FlattenSeq(st)) : c[1] > 0}
  BY DEF StatementAtoms, Atoms
<1> HIDE DEF o, st, X, S
<1>5. ASSUME NEW c \in X
      PROVE  \E m \in S : c \in Atoms(Text(t, Append(b, m)))
  <2>1. c \in ToSet(FlattenSeq(st)) /\ c[1] > 0
    BY <1>4
  <2>2. PICK k \in 1 .. Len(st) : c \in ToSet(st[k])
    BY <1>2, <2>1, FlattenOnly
  <2>3. o[k] \in S
    BY <1>1, <1>2, SeqHas
  <2>4. st[k] = Text(t, Append(b, o[k]))
    BY <1>1, <1>2, <1>3, <2>3
  <2> QED BY <2>1, <2>2, <2>3, <2>4 DEF Atoms
<1>6. Characters(X)
  BY <1>4 DEF Characters
<1>7. NL \notin X
  BY <1>6 DEF Characters, NL
<1>8. X \subseteq Atoms(Text(t, b))
  <2> SUFFICES ASSUME NEW c \in X PROVE c \in Atoms(Text(t, b))
    OBVIOUS
  <2>1. PICK m \in S : c \in Atoms(Text(t, Append(b, m)))
    BY <1>5
  <2>2. Atoms(Text(t, Append(b, m))) \subseteq Atoms(Text(t, b))
    BY <1>1, ChildWithin
  <2> QED BY <2>1, <2>2
<1>9. StatementsOnly(t, b, X)
  <2> SUFFICES ASSUME NEW k \in (1 .. kids) \ S
               PROVE  Restricted(ChildTexts(t, b)[k], X) = << >>
    BY DEF StatementsOnly, S
  <2> DEFINE text == Text(t, Append(b, k))
  <2>1. ChildTexts(t, b)[k] = text /\ text \in Seq(Atom)
    BY <1>3, NodeTyped
  <2>2. Atoms(text) \cap X = {}
    <3> SUFFICES ASSUME NEW c \in X, c \in Atoms(text) PROVE FALSE
      OBVIOUS
    <3>1. PICK m \in S : c \in Atoms(Text(t, Append(b, m)))
      BY <1>5
    <3>2. m \in 1 .. kids /\ k \in 1 .. kids /\ m # k
      BY <1>1
    <3>3. Atoms(Text(t, Append(b, m))) \cap Atoms(text) = {}
      BY <3>2 DEF IsParsed, IsJoined
    <3> QED BY <3>1, <3>3
  <2> HIDE DEF text
  <2> QED BY <1>6, <2>1, <2>2, ApartIsSilent
<1> QED BY <1>6, <1>7, <1>8, <1>9 DEF X

\* The body is the first child of its kind.
LEMMA BodyFirst ==
    ASSUME NEW t, IsTree(t), NEW p \in DOMAIN t, NEW k \in 1 .. t[p].kids,
           t[Append(p, k)].kind \in BodyKinds
    PROVE  BodyIndex(t, p) <= k
<1> DEFINE children == Children(t, p)
           blocks == {i \in 1 .. Len(children) : t[children[i]].kind \in BodyKinds}
<1>1. /\ children \in Seq(DOMAIN t) /\ Len(children) = t[p].kids /\ t[p].kids \in Nat
      /\ \A i \in 1 .. t[p].kids : children[i] = Append(p, i)
  BY NodeTyped
<1>2. BodyIndex(t, p) = IF blocks # {} THEN Min(blocks) ELSE 0
  BY DEF BodyIndex, FirstChild, SelectInSeq
<1>3. k \in blocks /\ blocks \subseteq Nat
  <2> HIDE DEF children
  <2>1. k \in 1 .. Len(children) /\ children[k] = Append(p, k)
    BY <1>1
  <2>2. t[children[k]].kind \in BodyKinds
    BY <2>1
  <2>3. k \in blocks
    BY <2>1, <2>2
  <2>4. \A i \in blocks : i \in Nat
    BY <1>1
  <2> QED BY <2>3, <2>4
<1> HIDE DEF blocks
<1>4. PICK m \in blocks : \A i \in blocks : m <= i
  BY <1>3, LeastOf
<1>5. \A i \in blocks : Min(blocks) <= i
  BY <1>4 DEF Min
<1> QED BY <1>2, <1>3, <1>5

\* The header has nothing of the body, and in a class nothing of the method.
LEMMA HeaderSilent ==
    ASSUME NEW t, IsTree(t), IsParsed(t), NEW p \in DOMAIN t, HasBody(t, p),
           NEW atoms, Characters(atoms), atoms \subseteq Atoms(Text(t, Body(t, p)))
    PROVE  Restricted(BuildFunctionHeader(t, p), atoms) = << >>
<1> DEFINE f == Front(p)
           c == Front(f)
           i == BodyIndex(t, p)
           inClass == /\ Len(p) >= 2 /\ t[f].kind \in BodyKinds
                      /\ t[c].kind \in ClassKinds
           own == BeforeBody(t, p)
<1>1. /\ own \in Seq(Atom) /\ i \in 1 .. t[p].kids /\ Body(t, p) = Append(p, i)
      /\ t[p].kids \in Nat
  BY BodyTyped, NodeTyped
<1>2. BuildFunctionHeader(t, p) = IF inClass THEN BeforeBody(t, c) \o <<Dots, NL, NL>> \o own ELSE own
  BY DEF BuildFunctionHeader
<1>3. OnlyChild(t, p, i, atoms)
  <2> HIDE DEF i
  <2> QED BY <1>1, OthersSilent
<1>4. Restricted(own, atoms) = << >>
  <2>1. i <= i
    BY <1>1
  <2> QED BY <1>1, <1>3, <2>1, BeforeSilent
<1> HIDE DEF own
<1>5. CASE inClass
  <2> DEFINE j == Last(p)
             k == Last(f)
             outer == BeforeBody(t, c)
             dots == <<Dots, NL, NL>>
  <2>1. p \in Seq(Nat) /\ p # << >>
    BY <1>5, NodeTyped
  <2>2. f \in DOMAIN t /\ Len(f) = Len(p) - 1 /\ f \in Seq(Nat) /\ j \in 1 .. t[f].kids /\ Append(f, j) = p
    BY <2>1, FrontLast DEF IsTree
  <2>3. f # << >>
    BY <1>5, <2>1, <2>2
  <2> HIDE DEF f, j
  <2>4. c \in DOMAIN t /\ k \in 1 .. t[c].kids /\ Append(c, k) = f
    BY <2>2, <2>3, FrontLast DEF IsTree
  <2> HIDE DEF c, k
  <2>5. HasBody(t, c) /\ BodyIndex(t, c) <= k
    BY <1>5, <2>4, HasBodyBy, BodyFirst
  <2>6. atoms \subseteq Atoms(Text(t, p)) /\ atoms \subseteq Atoms(Text(t, f))
    <3>1. Atoms(Text(t, Append(p, i))) \subseteq Atoms(Text(t, p))
      BY <1>1, ChildWithin
    <3>2. Atoms(Text(t, Append(f, j))) \subseteq Atoms(Text(t, f))
      BY <2>2, ChildWithin
    <3> QED BY <1>1, <2>2, <3>1, <3>2
  <2>7. OnlyChild(t, c, k, atoms)
    BY <2>4, <2>6, OthersSilent
  <2>8. outer \in Seq(Atom) /\ Restricted(outer, atoms) = << >>
    BY <2>4, <2>5, <2>7, BodyTyped, BeforeSilent
  <2>9. dots \in Seq(Atom) /\ Restricted(dots, atoms) = << >>
    <3>1. dots \in Seq(Atom)
      BY AtomsAre
    <3>2. ToSet(dots) = {Dots, NL}
      BY DEF ToSet
    <3>3. Dots \notin atoms /\ NL \notin atoms
      BY DEF Characters, Dots, NL
    <3> HIDE DEF dots
    <3>4. \A a \in ToSet(dots) : a \notin atoms
      BY <3>2, <3>3
    <3> QED BY <3>1, <3>4, RestrictedNone
  <2> HIDE DEF outer, dots
  <2>10. << >> \o << >> = << >>
    OBVIOUS
  <2>11. outer \o dots \in Seq(Atom) /\ Restricted(outer \o dots, atoms) = << >>
    BY <2>8, <2>9, <2>10, RestrictedAtoms
  <2> DEFINE x == outer \o dots
  <2> HIDE DEF x
  <2>12. Restricted(x \o own, atoms) = << >>
    <3>1. x \in Seq(Atom) /\ Restricted(x, atoms) = << >>
      BY <2>11 DEF x
    <3> QED BY <1>1, <1>4, <2>10, <3>1, RestrictedAtoms
  <2> QED BY <1>2, <1>5, <2>12 DEF x, outer, dots
<1>6. CASE ~inClass
  BY <1>2, <1>4, <1>6
<1> QED BY <1>5, <1>6

\* However a function is cut, its pieces have the characters of its statements
\* once and in order.
LEMMA FunctionWhole ==
    ASSUME NEW t, IsTree(t), IsParsed(t), NEW p \in DOMAIN t, t[p].kind \in FunctionKinds,
           HasBody(t, p), Statements(t, Body(t, p)) # {}
    PROVE  WholeOf(TextsOf(DeclarationPieces(t, p)), StatementAtoms(t, Body(t, p)))
              = WholeOf(StatementTexts(t, Body(t, p)), StatementAtoms(t, Body(t, p)))
<1> DEFINE b == Body(t, p)
           i == BodyIndex(t, p)
           X == StatementAtoms(t, b)
           text == Text(t, p)
           start == StartLine(t, p)
           end == EndLine(t, p)
<1>1. b \in DOMAIN t /\ b = Append(p, i) /\ i \in 1 .. t[p].kids /\ t[b].kind \in BodyKinds
  BY BodyTyped
<1> HIDE DEF b, i
<1>2. Characters(X) /\ NL \notin X /\ X \subseteq Atoms(Text(t, b)) /\ StatementsOnly(t, b, X)
  BY <1>1, StatementAtomsAre
<1> HIDE DEF X
<1>3. t[p].kind \notin ClassKinds /\ t[p].kind \in Declarations /\ Statements(t, b) # {}
  BY DEF FunctionKinds, ClassKinds, Declarations, b
<1>4. CASE Tokens(text) <= MaxTokens
  <2>1. DeclarationPieces(t, p) = Pieces(<<text>>, start, end)
    BY <1>4 DEF DeclarationPieces
  <2>2. text \in Seq(Atom) /\ <<text>> \in Seq(Seq(Atom))
    <3>1. text \in Seq(Atom)
      BY NodeTyped
    <3> QED BY <3>1
  <2>3. TextsOf(DeclarationPieces(t, p)) = <<text>>
    <3> HIDE DEF text, start, end
    <3> QED BY <2>1, <2>2, PiecesTexts
  <2>4. WholeOf(<<text>>, X) = Restricted(text, X)
    <3> HIDE DEF text
    <3> QED BY <2>2, WholeOfOne
  <2>5. OnlyChild(t, p, i, X)
    BY <1>1, <1>2, OthersSilent
  <2>6. Restricted(text, X) = Restricted(Text(t, b), X)
    BY <1>1, <2>5, ChildWhole
  <2>7. Text(t, b) = FlattenSeq(ChildTexts(t, b))
    BY <1>1, TextIsChildren
  <2>8. WholeOf(ChildTexts(t, b), X) = WholeOf(StatementTexts(t, b), X)
    BY <1>1, <1>2, <1>3, StatementsWhole
  <2> QED BY <2>3, <2>4, <2>6, <2>7, <2>8 DEF WholeOf, b, X
<1>5. CASE ~(Tokens(text) <= MaxTokens)
  <2> DEFINE header == BuildFunctionHeader(t, p)
  <2>1. DeclarationPieces(t, p) = EmitBodyChunks(t, header, b, start)
    BY <1>3, <1>5 DEF DeclarationPieces, SplitLargeFunction, b
  <2>2. header \in Seq(Atom) /\ start \in Int
    BY <1>3, FunctionHeaderTyped, DeclaredIs, NamedLines
  <2>3. Restricted(header, X) = << >>
    BY <1>1, <1>2, HeaderSilent DEF b
  <2>4. \A k \in Statements(t, b) :
           /\ Text(t, Append(b, k)) # << >>
           /\ start <= EndLine(t, Append(b, k)) + 1
    BY <1>3, StatementLines DEF b
  <2> HIDE DEF header, start
  <2>5. WholeOf(TextsOf(EmitBodyChunks(t, header, b, start)), X) = WholeOf(StatementTexts(t, b), X)
    BY <1>1, <1>2, <1>3, <2>2, <2>3, <2>4, EmitWhole
  <2> QED BY <2>1, <2>5 DEF b, X
<1> QED BY <1>4, <1>5

----------------------------------------------------------------------------
(* An overview has what its units have.                                    *)

\* Texts that have the same of a set have the same of it behind one another.
LEMMA SameWhole ==
    ASSUME NEW x \in Seq(Seq(Atom)), NEW y \in Seq(Seq(Atom)), Len(x) = Len(y), NEW atoms,
           \A m \in 1 .. Len(x) : Restricted(x[m], atoms) = Restricted(y[m], atoms)
    PROVE  WholeOf(x, atoms) = WholeOf(y, atoms)
<1> DEFINE n == Len(x)
           P == {k \in 0 .. n : WholeOf(SubSeq(x, 1, k), atoms) = WholeOf(SubSeq(y, 1, k), atoms)}
<1>1. n \in Nat /\ n \in 0 .. n /\ 0 \in 0 .. n /\ n = Len(y)
  OBVIOUS
<1>2. 0 \in P
  <2>1. SubSeq(x, 1, 0) = << >> /\ SubSeq(y, 1, 0) = << >>
    OBVIOUS
  <2> QED BY <1>1, <2>1
<1>3. ASSUME NEW k \in 0 .. n - 1, k \in P
      PROVE  k + 1 \in P
  <2> DEFINE px == SubSeq(x, 1, k)
             py == SubSeq(y, 1, k)
             cx == x[k + 1]
             cy == y[k + 1]
  <2>1. SubSeq(x, 1, k + 1) = Append(px, cx) /\ px \in Seq(Seq(Atom)) /\ cx \in Seq(Atom)
    <3>1. k \in 0 .. Len(x) - 1
      OBVIOUS
    <3> QED BY <3>1, PrefixGrows
  <2>6. SubSeq(y, 1, k + 1) = Append(py, cy) /\ py \in Seq(Seq(Atom)) /\ cy \in Seq(Atom)
    <3>1. k \in 0 .. Len(y) - 1
      OBVIOUS
    <3> QED BY <3>1, PrefixGrows
  <2>2. k + 1 \in 0 .. n /\ k + 1 \in 1 .. n
    BY <1>1
  <2>3. WholeOf(px, atoms) = WholeOf(py, atoms) /\ Restricted(cx, atoms) = Restricted(cy, atoms)
    BY <1>3, <2>2
  <2> HIDE DEF px, py, cx, cy, P
  <2>4. WholeOf(Append(px, cx), atoms) = WholeOf(px, atoms) \o Restricted(cx, atoms)
    BY <2>1, WholeAppend
  <2>5. WholeOf(Append(py, cy), atoms) = WholeOf(py, atoms) \o Restricted(cy, atoms)
    BY <2>6, WholeAppend
  <2> QED BY <2>1, <2>2, <2>3, <2>4, <2>5, <2>6 DEF P
<1> HIDE DEF P
<1>4. n \in P
  BY <1>1, <1>2, <1>3, UpTo0
<1>5. SubSeq(x, 1, n) = x /\ SubSeq(y, 1, n) = y
  BY <1>1
<1> QED BY <1>4, <1>5 DEF P

\* A header in front of a text is silent.
LEMMA HeaderLost ==
    ASSUME NEW header \in Seq(Atom), NEW text \in Seq(Atom), NEW atoms,
           Restricted(header, atoms) = << >>
    PROVE  header \o text \in Seq(Atom) /\ Restricted(header \o text, atoms) = Restricted(text, atoms)
<1> DEFINE r == Restricted(text, atoms)
<1>1. header \o text \in Seq(Atom) /\ r \in Seq(Atom)
  BY RestrictedAtoms
<1>3. Restricted(header \o text, atoms) = Restricted(header, atoms) \o r
  BY RestrictedAtoms
<1> HIDE DEF r
<1>2. << >> \o r = r
  BY <1>1
<1> QED BY <1>1, <1>2, <1>3 DEF r

LEMMA HeadersLost ==
    ASSUME NEW header \in Seq(Atom), NEW texts \in Seq(Seq(Atom)), NEW atoms,
           Restricted(header, atoms) = << >>
    PROVE  WholeOf(Each(texts, LAMBDA sub : header \o sub), atoms) = WholeOf(texts, atoms)
<1> DEFINE each == Each(texts, LAMBDA sub : header \o sub)
           n == Len(texts)
<1>1. each \in Seq(Seq(Atom))
  BY HeadersTyped
<1>2. each = [i \in DOMAIN texts |-> header \o texts[i]]
  BY DEF Each
<1>3. n \in Nat /\ DOMAIN texts = 1 .. n /\ \A i \in 1 .. n : texts[i] \in Seq(Atom)
  OBVIOUS
<1> HIDE DEF each, n
<1>4. Len(each) = n /\ \A i \in 1 .. n : each[i] = header \o texts[i]
  <2>1. DOMAIN each = 1 .. n
    BY <1>2, <1>3
  <2> QED BY <1>1, <1>2, <1>3, <2>1
<1>5. \A i \in 1 .. n : Restricted(each[i], atoms) = Restricted(texts[i], atoms)
  <2> TAKE i \in 1 .. n
  <2>1. texts[i] \in Seq(Atom) /\ each[i] = header \o texts[i]
    BY <1>3, <1>4
  <2> QED BY <2>1, HeaderLost
<1>6. WholeOf(each, atoms) = WholeOf(texts, atoms)
  <2>1. Len(each) = Len(texts)
    BY <1>4 DEF n
  <2> QED BY <1>1, <1>4, <1>5, <2>1, SameWhole DEF n
<1> QED BY <1>6 DEF each

\* What is packed behind the header and what is being packed.
BehindSoFar(acc, atoms) == WholeOf(acc.pieces, atoms) \o Restricted(acc.current, atoms)

LEMMA WholeAtoms ==
    \A atoms : \A x, y \in Seq(Seq(Atom)) :
        /\ WholeOf(x, atoms) \in Seq(Atom) /\ x \o y \in Seq(Seq(Atom))
        /\ WholeOf(x \o y, atoms) = WholeOf(x, atoms) \o WholeOf(y, atoms)
BY WholeTyped, WholeJoined

LEMMA FlushedWhole ==
    ASSUME NEW acc \in PackedBehind, NEW header \in Seq(Atom), NEW atoms,
           Restricted(header, atoms) = << >>
    PROVE  WholeOf(FlushedBehind(acc, header), atoms) = BehindSoFar(acc, atoms)
<1> DEFINE p == acc.pieces
           q == acc.current
           wp == WholeOf(p, atoms)
<1>1. p \in Seq(Seq(Atom)) /\ q \in Seq(Atom)
  BY DEF PackedBehind
<1>2. FlushedBehind(acc, header) = IF q = << >> THEN p ELSE Append(p, header \o q)
  BY DEF FlushedBehind
<1>3. BehindSoFar(acc, atoms) = wp \o Restricted(q, atoms)
  BY DEF BehindSoFar
<1> HIDE DEF p, q
<1>4. wp \in Seq(Atom)
  BY <1>1, WholeAtoms
<1>5. CASE q = << >>
  <2>1. Restricted(q, atoms) = << >>
    BY <1>5, RestrictedEmpty
  <2> HIDE DEF wp
  <2>2. wp \o << >> = wp
    BY <1>4
  <2> QED BY <1>2, <1>3, <1>5, <2>1, <2>2 DEF wp
<1>6. CASE q # << >>
  <2>1. header \o q \in Seq(Atom) /\ Restricted(header \o q, atoms) = Restricted(q, atoms)
    BY <1>1, HeaderLost
  <2> DEFINE text == header \o q
  <2> HIDE DEF text
  <2>2. WholeOf(Append(p, text), atoms) = wp \o Restricted(text, atoms)
    <3>1. text \in Seq(Atom)
      BY <2>1 DEF text
    <3> QED BY <1>1, <3>1, WholeAppend
  <2> QED BY <1>2, <1>3, <1>6, <2>1, <2>2 DEF text
<1> QED BY <1>5, <1>6

LEMMA BehindStepWhole ==
    ASSUME NEW acc \in PackedBehind, NEW unit \in Seq(Atom), NEW header \in Seq(Atom),
           NEW budget \in Nat \ {0}, NEW atoms, NL \notin atoms, Restricted(header, atoms) = << >>
    PROVE  BehindSoFar(BehindStep(acc, unit, header, budget), atoms)
              = BehindSoFar(acc, atoms) \o Restricted(unit, atoms)
<1> DEFINE flushed == FlushedBehind(acc, header)
           cut == SplitOversized(unit, budget)
           split == Each(cut, LAMBDA sub : header \o sub)
           next == BehindStep(acc, unit, header, budget)
           p == acc.pieces
           q == acc.current
           wp == WholeOf(p, atoms)
           rq == Restricted(q, atoms)
           r == Restricted(unit, atoms)
<1>1. p \in Seq(Seq(Atom)) /\ q \in Seq(Atom)
  BY DEF PackedBehind
<1>2. flushed \in Seq(Seq(Atom)) /\ WholeOf(flushed, atoms) = wp \o rq
  BY BehindTyped, FlushedWhole DEF BehindSoFar
<1>3. cut \in Seq(Seq(Atom)) /\ WholeOf(cut, atoms) = r
  BY AtomsAre, SplitTyped, SplitWhole
<1> HIDE DEF cut
<1>4. split \in Seq(Seq(Atom)) /\ WholeOf(split, atoms) = r
  BY <1>3, HeadersTyped, HeadersLost
<1>5. \/ next.pieces = flushed \o split /\ next.current = << >>
      \/ next.pieces = flushed /\ next.current = unit
      \/ next.pieces = p /\ next.current = q \o unit
  <2>1. [acc EXCEPT !.current = @ \o unit] = [pieces |-> p, current |-> q \o unit]
    <3>1. PICK a \in Seq(Seq(Atom)), b \in Seq(Atom) : acc = [pieces |-> a, current |-> b]
      BY DEF PackedBehind
    <3>2. acc.pieces = a /\ acc.current = b
      BY <3>1
    <3>3. \A c : [acc EXCEPT !.current = c] = [pieces |-> a, current |-> c]
      BY <3>1
    <3> QED BY <3>2, <3>3
  <2> HIDE DEF flushed, split, p, q
  <2> QED BY <2>1 DEF BehindStep, flushed, split, cut, p, q
<1> HIDE DEF flushed, split, next, p, q
<1>6. wp \in Seq(Atom) /\ rq \in Seq(Atom) /\ r \in Seq(Atom)
  BY <1>1, WholeAtoms, RestrictedAtoms
<1>7. BehindSoFar(acc, atoms) = wp \o rq
  BY DEF BehindSoFar, p, q
<1>8. BehindSoFar(next, atoms) = (wp \o rq) \o r
  <2>1. CASE next.pieces = flushed \o split /\ next.current = << >>
    <3>1. WholeOf(flushed \o split, atoms) = (wp \o rq) \o r
      <4>1. WholeOf(flushed \o split, atoms) = WholeOf(flushed, atoms) \o WholeOf(split, atoms)
        BY <1>2, <1>4, WholeAtoms
      <4> HIDE DEF wp, rq, r
      <4> QED BY <1>2, <1>4, <4>1
    <3> HIDE DEF wp, rq, r
    <3>2. ((wp \o rq) \o r) \o << >> = (wp \o rq) \o r
      BY <1>6
    <3> QED BY <2>1, <3>1, <3>2, RestrictedEmpty DEF BehindSoFar
  <2>2. CASE next.pieces = flushed /\ next.current = unit
    BY <1>2, <2>2 DEF BehindSoFar
  <2>3. CASE next.pieces = p /\ next.current = q \o unit
    <3>1. Restricted(q \o unit, atoms) = rq \o r
      BY <1>1, RestrictedAtoms
    <3> HIDE DEF wp, rq, r
    <3>2. wp \o (rq \o r) = (wp \o rq) \o r
      BY <1>6, RegroupedAtoms
    <3> QED BY <2>3, <3>1, <3>2 DEF BehindSoFar, wp
  <2> QED BY <1>5, <2>1, <2>2, <2>3
<1> QED BY <1>7, <1>8 DEF next, r

\* The pieces of an overview have of a set what its units have, when the header
\* has nothing of it.
LEMMA PackUnitsWhole ==
    ASSUME NEW header \in Seq(Atom), NEW units \in Seq(Seq(Atom)), NEW budget \in Nat \ {0},
           NEW atoms, NL \notin atoms, Restricted(header, atoms) = << >>
    PROVE  WholeOf(PackUnits(header, units, budget), atoms) = WholeOf(units, atoms)
<1> DEFINE n == Len(units)
<1>1. n \in Nat /\ n \in 0 .. n /\ 0 \in 0 .. n
  OBVIOUS
<1>2. PICK f \in [0 .. n -> PackedBehind] :
         /\ f[0] = BehindBase
         /\ \A k \in 1 .. n : f[k] = BehindStep(f[k - 1], units[k], header, budget)
         /\ PackUnits(header, units, budget) = AllBehind(f[n], header)
  BY BehindFolded
<1> DEFINE P == {k \in 0 .. n : BehindSoFar(f[k], atoms) = WholeOf(SubSeq(units, 1, k), atoms)}
<1>3. 0 \in P
  <2>1. SubSeq(units, 1, 0) = << >>
    OBVIOUS
  <2>2. BehindSoFar(BehindBase, atoms) = << >> \o << >>
    BY WholeEmpty, RestrictedEmpty DEF BehindSoFar, BehindBase
  <2>3. << >> \o << >> = << >>
    OBVIOUS
  <2> QED BY <1>1, <1>2, <2>1, <2>2, <2>3, WholeEmpty
<1>4. ASSUME NEW k \in 0 .. n - 1, k \in P
      PROVE  k + 1 \in P
  <2> DEFINE acc == f[k]
             unit == units[k + 1]
             sk == SubSeq(units, 1, k)
  <2>1. k \in 0 .. n /\ k + 1 \in 1 .. n /\ k + 1 \in 0 .. n /\ (k + 1) - 1 = k
    BY <1>1
  <2>2. SubSeq(units, 1, k + 1) = Append(sk, unit) /\ sk \in Seq(Seq(Atom)) /\ unit \in Seq(Atom)
    BY PrefixGrows
  <2>3. f[k + 1] = BehindStep(acc, unit, header, budget) /\ acc \in PackedBehind
    BY <1>2, <2>1
  <2>4. BehindSoFar(acc, atoms) = WholeOf(sk, atoms)
    BY <1>4
  <2> HIDE DEF acc, unit, sk, P
  <2>5. BehindSoFar(BehindStep(acc, unit, header, budget), atoms)
           = BehindSoFar(acc, atoms) \o Restricted(unit, atoms)
    BY <2>2, <2>3, BehindStepWhole
  <2>6. WholeOf(Append(sk, unit), atoms) = WholeOf(sk, atoms) \o Restricted(unit, atoms)
    BY <2>2, WholeAppend
  <2> QED BY <2>1, <2>2, <2>3, <2>4, <2>5, <2>6 DEF P
<1> HIDE DEF P
<1>5. n \in P
  BY <1>1, <1>3, <1>4, UpTo0
<1>6. SubSeq(units, 1, n) = units
  OBVIOUS
<1> DEFINE acc == f[n]
           flushed == FlushedBehind(acc, header)
<1>7. BehindSoFar(acc, atoms) = WholeOf(units, atoms)
  BY <1>5, <1>6 DEF P
<1>8. acc \in PackedBehind
  BY <1>1
<1> HIDE DEF acc
<1>9. WholeOf(flushed, atoms) = WholeOf(units, atoms)
  BY <1>7, <1>8, FlushedWhole
<1>10. PackUnits(header, units, budget) = IF flushed = << >> THEN <<header>> ELSE flushed
  BY <1>2 DEF AllBehind, acc
<1>11. WholeOf(<<header>>, atoms) = << >>
  BY WholeOfOne
<1> HIDE DEF flushed
<1> QED BY <1>9, <1>10, <1>11, WholeEmpty

\* What is behind the body has nothing of it.
LEMMA AfterSilent ==
    ASSUME NEW t, IsTree(t), NEW p \in DOMAIN t, HasBody(t, p),
           NEW atoms, OnlyChild(t, p, BodyIndex(t, p), atoms)
    PROVE  Restricted(AfterBody(t, p), atoms) = << >>
<1> DEFINE s == ChildTexts(t, p)
           n == t[p].kids
           i == BodyIndex(t, p)
           j == i + 1
<1>1. s \in Seq(Seq(Atom)) /\ Len(s) = n /\ n \in Nat /\ i \in 1 .. n
  BY ChildTextsAre, BodyTyped
<1>2. AfterBody(t, p) = TextOf(t, SubSeq(Children(t, p), j, n))
  BY DEF AfterBody
<1>3. SilentIn(s, j, n, atoms)
  <2> SUFFICES ASSUME NEW m \in j .. n PROVE Restricted(s[m], atoms) = << >>
    BY DEF SilentIn
  <2>1. m \in 1 .. n /\ m # i
    BY <1>1
  <2> QED BY <2>1 DEF OnlyChild
<1>4. j \in 1 .. n + 1 /\ n \in j - 1 .. n /\ i \in j - 1 .. n /\ n \in i .. n
  BY <1>1
<1> HIDE DEF s, i, n
<1>5. TextOf(t, SubSeq(Children(t, p), j, n)) = FlattenSeq(SubSeq(s, j, n))
  <2> HIDE DEF j
  <2> QED BY <1>4, SpanIs DEF s, n
<1>6. WholeOf(SubSeq(s, j, n), atoms) = WholeOf(SubSeq(s, j, i), atoms)
  BY <1>1, <1>3, <1>4, WholeBehind
<1>7. SubSeq(s, j, i) = << >>
  BY <1>1
<1> QED BY <1>2, <1>5, <1>6, <1>7, WholeEmpty DEF WholeOf

\* An overview has of the body what its units have.
LEMMA CollapseWhole ==
    ASSUME NEW t, IsTree(t), IsParsed(t), NEW p \in DOMAIN t, HasBody(t, p),
           NEW atoms, Characters(atoms), atoms \subseteq Atoms(Text(t, Body(t, p)))
    PROVE  WholeOf(CollapseChildren(t, p), atoms) = WholeOf(CollectUnits(t, Body(t, p)), atoms)
<1> DEFINE header == BeforeBody(t, p)
           units == CollectUnits(t, Body(t, p))
           tail == AfterBody(t, p)
           i == BodyIndex(t, p)
<1>1. /\ header \in Seq(Atom) /\ tail \in Seq(Atom) /\ Body(t, p) \in DOMAIN t
      /\ Body(t, p) = Append(p, i) /\ i \in 1 .. t[p].kids /\ t[p].kids \in Nat
  BY BodyTyped, NodeTyped
<1>2. OnlyChild(t, p, i, atoms)
  <2> HIDE DEF i
  <2> QED BY <1>1, OthersSilent
<1>3. Restricted(header, atoms) = << >> /\ Restricted(tail, atoms) = << >>
  <2>1. i <= i
    BY <1>1
  <2> QED BY <1>1, <1>2, <2>1, BeforeSilent, AfterSilent
<1>4. units \in Seq(Seq(Atom))
  BY <1>1, CollectTyped
<1>5. CollapseChildren(t, p) = IF units = << >> THEN <<header \o tail>>
                               ELSE PackUnits(header, units, Budget(header))
  BY DEF CollapseChildren, Collapse
<1>6. NL \notin atoms
  BY DEF Characters, NL
<1> HIDE DEF header, units, tail
<1>7. CASE units = << >>
  <2>1. header \o tail \in Seq(Atom) /\ Restricted(header \o tail, atoms) = << >>
    BY <1>1, <1>3, HeaderLost
  <2> DEFINE text == header \o tail
  <2> HIDE DEF text
  <2>2. WholeOf(<<text>>, atoms) = Restricted(text, atoms)
    <3>1. text \in Seq(Atom)
      BY <2>1 DEF text
    <3> QED BY <3>1, WholeOfOne
  <2>3. WholeOf(<<text>>, atoms) = << >>
    BY <2>1, <2>2 DEF text
  <2>4. WholeOf(units, atoms) = << >>
    BY <1>7, WholeEmpty
  <2> QED BY <1>5, <1>7, <2>3, <2>4 DEF text, units
<1>8. CASE units # << >>
  <2>1. Budget(header) \in Nat \ {0}
    BY <1>1, BudgetTyped
  <2>2. WholeOf(PackUnits(header, units, Budget(header)), atoms) = WholeOf(units, atoms)
    BY <1>1, <1>3, <1>4, <1>6, <2>1, PackUnitsWhole
  <2> QED BY <1>5, <1>8, <2>2 DEF units
<1> QED BY <1>7, <1>8

\* A node as a skeleton shows it, below being what it shows of its body.
ShownAs(t, p, below) ==
    IF HasBody(t, p) /\ t[p].kind \in Declarations
    THEN BeforeBody(t, p) \o (IF t[p].kind \in FunctionKinds THEN << >> ELSE below) \o AfterBody(t, p)
    ELSE Text(t, p)
BelowShown(t, b, u) == [k \in 1 .. t[b].kids |-> u[Append(b, k)]]
ShownOver(t, p, u) == ShownAs(t, p, FlattenSeq(BelowShown(t, Body(t, p), u)))
IsShown(u, t) == u = [p \in DOMAIN t |-> ShownOver(t, p, u)]

LEMMA BelowTyped ==
    ASSUME NEW t, IsTree(t), NEW b \in DOMAIN t, NEW u,
           \A k \in 1 .. t[b].kids : u[Append(b, k)] \in Seq(Atom)
    PROVE  /\ BelowShown(t, b, u) \in Seq(Seq(Atom)) /\ Len(BelowShown(t, b, u)) = t[b].kids
           /\ FlattenSeq(BelowShown(t, b, u)) \in Seq(Atom)
<1> DEFINE n == t[b].kids
           s == BelowShown(t, b, u)
<1>1. n \in Nat
  BY NodeTyped
<1>2. s \in [1 .. n -> Seq(Atom)]
  BY DEF BelowShown
<1> HIDE DEF n, s
<1>3. s \in Seq(Seq(Atom)) /\ Len(s) = n
  BY <1>1, <1>2, SeqOfFunction
<1>4. FlattenSeq(s) \in Seq(Atom)
  BY <1>3, FlattenTyped
<1> QED BY <1>3, <1>4 DEF n, s

LEMMA BelowIs ==
    ASSUME NEW t, IsTree(t), NEW b \in DOMAIN t, NEW u
    PROVE  Concat(Children(t, b), LAMBDA q : u[q]) = FlattenSeq(BelowShown(t, b, u))
<1> DEFINE c == Children(t, b)
           n == t[b].kids
<1>1. DOMAIN c = 1 .. n /\ \A k \in 1 .. n : c[k] = Append(b, k)
  BY DEF Children
<1>2. Concat(c, LAMBDA q : u[q]) = FlattenSeq([k \in DOMAIN c |-> u[c[k]]])
  BY DEF Concat, Each
<1> HIDE DEF c, n
<1>3. [k \in DOMAIN c |-> u[c[k]]] = [k \in 1 .. n |-> u[Append(b, k)]]
  BY <1>1
<1> QED BY <1>2, <1>3 DEF BelowShown, c, n

LEMMA ShownTyped ==
    ASSUME NEW t, IsTree(t), NEW p \in DOMAIN t, NEW below,
           HasBody(t, p) /\ t[p].kind \in Declarations => below \in Seq(Atom)
    PROVE  ShownAs(t, p, below) \in Seq(Atom)
<1>1. CASE HasBody(t, p) /\ t[p].kind \in Declarations
  <2> DEFINE x == BeforeBody(t, p)
             y == IF t[p].kind \in FunctionKinds THEN << >> ELSE below
             z == AfterBody(t, p)
  <2>1. x \in Seq(Atom) /\ y \in Seq(Atom) /\ z \in Seq(Atom)
    BY <1>1, BodyTyped
  <2>2. ShownAs(t, p, below) = x \o y \o z
    BY <1>1 DEF ShownAs
  <2> HIDE DEF x, y, z
  <2> QED BY <2>1, <2>2
<1>2. CASE ~(HasBody(t, p) /\ t[p].kind \in Declarations)
  <2>1. Text(t, p) \in Seq(Atom)
    BY NodeTyped
  <2> QED BY <1>2, <2>1 DEF ShownAs
<1> QED BY <1>1, <1>2

\* The children of a body are deeper than its node.
LEMMA BodyDeeper ==
    ASSUME NEW t, IsTree(t), NEW p \in DOMAIN t, HasBody(t, p)
    PROVE  /\ Body(t, p) \in DOMAIN t /\ Len(Body(t, p)) > Len(p)
           /\ \A k \in 1 .. t[Body(t, p)].kids :
                 Append(Body(t, p), k) \in DOMAIN t /\ Len(Append(Body(t, p), k)) > Len(p)
<1> DEFINE b == Body(t, p)
<1>1. b \in DOMAIN t /\ Len(b) = Len(p) + 1 /\ Len(p) \in Nat
  BY BodyTyped, NodeTyped
<1> HIDE DEF b
<1>2. b \in Seq(Nat) /\ t[b].kids \in Nat
  BY <1>1, NodeTyped
<1>3. ASSUME NEW k \in 1 .. t[b].kids
      PROVE  Append(b, k) \in DOMAIN t /\ Len(Append(b, k)) > Len(p)
  <2>1. Append(b, k) \in DOMAIN t
    BY <1>1, NodeTyped
  <2>2. Len(Append(b, k)) = Len(b) + 1
    BY <1>2
  <2> QED BY <1>1, <2>1, <2>2
<1>4. Len(b) > Len(p)
  BY <1>1
<1> QED BY <1>1, <1>3, <1>4 DEF b

\* A skeleton exists.
LEMMA ShownExists ==
    ASSUME NEW t, IsTree(t)
    PROVE  \E u : IsShown(u, t)
<1> DEFINE W == [DOMAIN t -> Seq(Atom)]
           next(u) == [p \in DOMAIN t |-> ShownOver(t, p, u)]
           step == [u \in W |-> next(u)]
<1>1. ASSUME NEW u \in W, NEW p \in DOMAIN t
      PROVE  ShownOver(t, p, u) \in Seq(Atom)
  <2> DEFINE below == FlattenSeq(BelowShown(t, Body(t, p), u))
  <2>1. ASSUME HasBody(t, p)
        PROVE  below \in Seq(Atom)
    <3> DEFINE b == Body(t, p)
    <3>1. b \in DOMAIN t /\ \A k \in 1 .. t[b].kids : Append(b, k) \in DOMAIN t
      BY <2>1, BodyDeeper
    <3> HIDE DEF b
    <3>2. \A k \in 1 .. t[b].kids : u[Append(b, k)] \in Seq(Atom)
      BY <3>1
    <3> QED BY <3>1, <3>2, BelowTyped DEF b
  <2> HIDE DEF below
  <2>2. ShownAs(t, p, below) \in Seq(Atom)
    BY <2>1, ShownTyped
  <2> QED BY <2>2 DEF ShownOver, below
<1>2. step \in [W -> W]
  <2>1. \A u \in W : next(u) \in W
    BY <1>1
  <2> HIDE DEF W, next
  <2> QED BY <2>1
<1>3. ASSUME NEW u \in W, NEW v \in W, NEW p \in DOMAIN t, AgreeBelow(t, p, u, v)
      PROVE  step[u][p] = step[v][p]
  <2>1. step[u][p] = ShownOver(t, p, u) /\ step[v][p] = ShownOver(t, p, v)
    OBVIOUS
  <2>2. ASSUME HasBody(t, p)
        PROVE  BelowShown(t, Body(t, p), u) = BelowShown(t, Body(t, p), v)
    <3> DEFINE b == Body(t, p)
    <3>1. \A k \in 1 .. t[b].kids : Append(b, k) \in DOMAIN t /\ Len(Append(b, k)) > Len(p)
      BY <2>2, BodyDeeper
    <3> HIDE DEF b
    <3>2. \A k \in 1 .. t[b].kids : u[Append(b, k)] = v[Append(b, k)]
      BY <1>3, <3>1 DEF AgreeBelow
    <3> QED BY <3>2 DEF BelowShown, b
  <2>3. ShownOver(t, p, u) = ShownOver(t, p, v)
    BY <2>2 DEF ShownOver, ShownAs
  <2> QED BY <2>1, <2>3
<1>4. << >> \in Seq(Atom)
  OBVIOUS
<1> HIDE DEF step, next
<1>5. \E u \in W : u = step[u]
  BY <1>2, <1>3, <1>4, FixedPoint
<1>6. PICK u \in W : u = step[u]
  BY <1>5
<1>7. u = next(u)
  BY <1>6 DEF step
<1> QED BY <1>7 DEF next, IsShown

LEMMA ShownIs ==
    ASSUME NEW t, IsTree(t), NEW u, IsShown(u, t)
    PROVE  \A p \in DOMAIN t : u[p] = ShownOver(t, p, u) /\ u[p] \in Seq(Atom)
<1>1. \A p \in DOMAIN t : u[p] = ShownOver(t, p, u)
  BY DEF IsShown
<1> DEFINE Q == {p \in DOMAIN t : u[p] \in Seq(Atom)}
<1>2. ASSUME NEW p \in DOMAIN t, DeeperIn(t, p, Q)
      PROVE  p \in Q
  <2> DEFINE below == FlattenSeq(BelowShown(t, Body(t, p), u))
  <2>1. ASSUME HasBody(t, p)
        PROVE  below \in Seq(Atom)
    <3> DEFINE b == Body(t, p)
    <3>1. b \in DOMAIN t /\ \A k \in 1 .. t[b].kids : Append(b, k) \in DOMAIN t /\ Len(Append(b, k)) > Len(p)
      BY <2>1, BodyDeeper
    <3> HIDE DEF b
    <3>2. \A k \in 1 .. t[b].kids : u[Append(b, k)] \in Seq(Atom)
      BY <1>2, <3>1 DEF DeeperIn
    <3> QED BY <3>1, <3>2, BelowTyped DEF b
  <2> HIDE DEF below
  <2>2. ShownAs(t, p, below) \in Seq(Atom)
    BY <2>1, ShownTyped
  <2> QED BY <1>1, <2>2 DEF ShownOver, below
<1> HIDE DEF Q
<1>3. Q \in SUBSET DOMAIN t
  BY DEF Q
<1>4. Q = DOMAIN t
  BY <1>2, <1>3, ByDepth
<1> QED BY <1>1, <1>4 DEF Q

\* The skeleton of a body.
LEMMA SkeletonIs ==
    ASSUME NEW t, IsTree(t)
    PROVE  \E u : /\ IsShown(u, t)
                  /\ \A b \in DOMAIN t : Skeleton(t, b) = FlattenSeq(BelowShown(t, b, u))
<1> DEFINE Raw(p, u) ==
               IF HasBody(t, p) /\ t[p].kind \in Declarations
               THEN BeforeBody(t, p)
                    \o (IF t[p].kind \in FunctionKinds THEN << >>
                        ELSE Concat(Children(t, Body(t, p)), LAMBDA q : u[q]))
                    \o AfterBody(t, p)
               ELSE Text(t, p)
           IsRaw(u) == u = [p \in DOMAIN t |-> Raw(p, u)]
           Shown == CHOOSE u : IsRaw(u)
<1>1. ASSUME NEW u, NEW p \in DOMAIN t
      PROVE  Raw(p, u) = ShownOver(t, p, u)
  <2>1. HasBody(t, p) => Concat(Children(t, Body(t, p)), LAMBDA q : u[q])
                            = FlattenSeq(BelowShown(t, Body(t, p), u))
    <3>1. HasBody(t, p) => Body(t, p) \in DOMAIN t
      BY BodyTyped
    <3> QED BY <3>1, BelowIs
  <2> QED BY <2>1 DEF ShownOver, ShownAs
<1>2. \A u : IsRaw(u) <=> IsShown(u, t)
  <2> HIDE DEF Raw
  <2> QED BY <1>1 DEF IsShown
<1>3. \A b : Skeleton(t, b) = Concat(Children(t, b), LAMBDA q : Shown[q])
  BY DEF Skeleton
<1>4. IsRaw(Shown)
  <2> HIDE DEF IsRaw
  <2> QED BY <1>2, ShownExists
<1> HIDE DEF IsRaw, Shown
<1>5. IsShown(Shown, t)
  BY <1>2, <1>4
<1>6. \A b \in DOMAIN t : Skeleton(t, b) = FlattenSeq(BelowShown(t, b, Shown))
  BY <1>3, BelowIs
<1> QED BY <1>5, <1>6

LEMMA NonEmptyWhole ==
    ASSUME NEW text \in Seq(Atom), NEW atoms
    PROVE  WholeOf(NonEmpty(text), atoms) = Restricted(text, atoms)
<1>1. CASE text = << >>
  BY <1>1, WholeEmpty, RestrictedEmpty DEF NonEmpty
<1>2. CASE text # << >>
  BY <1>2, WholeOfOne DEF NonEmpty
<1> QED BY <1>1, <1>2

\* What the units and the text that runs have.
UnitsSoFar(acc, atoms) == WholeOf(acc.units, atoms) \o Restricted(acc.run, atoms)

LEMMA FlushWhole ==
    ASSUME NEW acc \in Collecting, NEW atoms
    PROVE  WholeOf(Flush(acc), atoms) = UnitsSoFar(acc, atoms)
<1> DEFINE units == acc.units
           run == acc.run
           last == NonEmpty(run)
<1>1. units \in Seq(Seq(Atom)) /\ run \in Seq(Atom)
  BY DEF Collecting
<1> HIDE DEF units, run
<1>2. last \in Seq(Seq(Atom)) /\ WholeOf(last, atoms) = Restricted(run, atoms)
  BY <1>1, NonEmptyTyped, NonEmptyWhole
<1> HIDE DEF last
<1>3. WholeOf(units \o last, atoms) = WholeOf(units, atoms) \o WholeOf(last, atoms)
  BY <1>1, <1>2, WholeAtoms
<1> QED BY <1>2, <1>3 DEF Flush, UnitsSoFar, units, run, last

LEMMA FourRegrouped ==
    \A w, x, y, z \in Seq(Atom) : ((w \o x) \o y) \o z = w \o ((x \o y) \o z)
<1> TAKE w, x, y, z \in Seq(Atom)
<1> DEFINE xy == x \o y
<1>1. xy \in Seq(Atom) /\ (w \o x) \o y = w \o xy
  BY RegroupedAtoms
<1> HIDE DEF xy
<1>2. w \o (xy \o z) = (w \o xy) \o z
  BY <1>1, RegroupedAtoms
<1> QED BY <1>1, <1>2 DEF xy

\* A child adds what a skeleton shows of it, when the units of the body in it
\* have what a skeleton shows of that.
LEMMA UnitStepWhole ==
    ASSUME NEW t, IsTree(t), NEW child \in DOMAIN t, NEW inner, InnerTyped(t, child, inner),
           NEW acc \in Collecting, NEW atoms, Characters(atoms), NEW below,
           HasBody(t, child) /\ t[child].kind \in Declarations =>
              below \in Seq(Atom) /\ WholeOf(inner[Body(t, child)], atoms) = Restricted(below, atoms)
    PROVE  UnitsSoFar(UnitStep(acc, child, t, inner), atoms)
              = UnitsSoFar(acc, atoms) \o Restricted(ShownAs(t, child, below), atoms)
<1> DEFINE next == UnitStep(acc, child, t, inner)
           w == UnitsSoFar(acc, atoms)
           flushed == Flush(acc)
<1>1. flushed \in Seq(Seq(Atom)) /\ WholeOf(flushed, atoms) = w
  BY FlushTyped, FlushWhole
<1>2. w \in Seq(Atom)
  BY <1>1, WholeAtoms
<1>3. NL \notin atoms /\ Dots \notin atoms
  BY DEF Characters, NL, Dots
<1>4. CASE ~HasBody(t, child) \/ t[child].kind \notin Declarations
  <2> DEFINE text == Text(t, child)
             units == acc.units
             run == acc.run
  <2>1. text \in Seq(Atom) /\ units \in Seq(Seq(Atom)) /\ run \in Seq(Atom)
    BY NodeTyped DEF Collecting
  <2>2. next = [acc EXCEPT !.run = @ \o text]
    BY <1>4 DEF UnitStep
  <2>3. next.units = units /\ next.run = run \o text
    BY <2>2 DEF Collecting
  <2>4. ShownAs(t, child, below) = text
    BY <1>4 DEF ShownAs
  <2> HIDE DEF text, units, run, next
  <2>5. Restricted(run \o text, atoms) = Restricted(run, atoms) \o Restricted(text, atoms)
    BY <2>1, RestrictedAtoms
  <2> DEFINE a == WholeOf(units, atoms)
             b == Restricted(run, atoms)
             c == Restricted(text, atoms)
  <2>6. a \in Seq(Atom) /\ b \in Seq(Atom) /\ c \in Seq(Atom)
    BY <2>1, WholeAtoms, RestrictedAtoms
  <2>7. UnitsSoFar(next, atoms) = a \o (b \o c) /\ w = a \o b
    BY <2>3, <2>5 DEF UnitsSoFar, units, run
  <2> HIDE DEF a, b, c, w
  <2>8. a \o (b \o c) = (a \o b) \o c
    BY <2>6, RegroupedAtoms
  <2> QED BY <2>4, <2>7, <2>8 DEF c, w, next
<1>5. CASE HasBody(t, child) /\ t[child].kind \in Declarations
  <2> DEFINE before == BeforeBody(t, child)
             after == AfterBody(t, child)
             units == inner[Body(t, child)]
             rb == Restricted(before, atoms)
             ra == Restricted(after, atoms)
             rl == Restricted(below, atoms)
             last == NonEmpty(after)
  <2>1. before \in Seq(Atom) /\ after \in Seq(Atom) /\ below \in Seq(Atom)
    BY <1>5, BodyTyped
  <2>2. units \in Seq(Seq(Atom)) /\ WholeOf(units, atoms) = rl
    BY <1>5 DEF InnerTyped
  <2>3. next = IF t[child].kind \in FunctionKinds
               THEN [units |-> Append(flushed, Append(before, Dots)), run |-> after]
               ELSE [units |-> Append(flushed, before) \o units \o last, run |-> << >>]
    BY <1>5 DEF UnitStep
  <2>4. ShownAs(t, child, below)
           = IF t[child].kind \in FunctionKinds THEN before \o << >> \o after ELSE before \o below \o after
    BY <1>5 DEF ShownAs
  <2> HIDE DEF before, after, units, flushed, next, w
  <2>5. rb \in Seq(Atom) /\ ra \in Seq(Atom) /\ rl \in Seq(Atom)
    BY <2>1, RestrictedAtoms
  <2>6. last \in Seq(Seq(Atom)) /\ WholeOf(last, atoms) = ra
    BY <2>1, NonEmptyTyped, NonEmptyWhole
  <2> HIDE DEF last
  <2>7. CASE t[child].kind \in FunctionKinds
    <3> DEFINE text == Append(before, Dots)
    <3>1. text \in Seq(Atom)
      BY <2>1, AtomsAre
    <3>2. Restricted(text, atoms) = rb
      <4>1. Restricted(text, atoms) = rb \o Only(Dots, atoms)
        BY <2>1, AtomsAre, RestrictedAppend
      <4>2. Only(Dots, atoms) = << >>
        BY <1>3 DEF Only
      <4> HIDE DEF rb, text
      <4>3. rb \o << >> = rb
        BY <2>5
      <4> QED BY <4>1, <4>2, <4>3
    <3> HIDE DEF text
    <3>3. WholeOf(Append(flushed, text), atoms) = WholeOf(flushed, atoms) \o Restricted(text, atoms)
      BY <1>1, <3>1, WholeAppend
    <3>4. next.units = Append(flushed, text) /\ next.run = after
      BY <2>3, <2>7 DEF text
    <3>5. UnitsSoFar(next, atoms) = (w \o rb) \o ra
      BY <1>1, <3>2, <3>3, <3>4 DEF UnitsSoFar
    <3>6. before \o << >> = before
      BY <2>1
    <3>7. Restricted(before \o after, atoms) = rb \o ra
      BY <2>1, RestrictedAtoms
    <3> HIDE DEF rb, ra
    <3>8. w \o (rb \o ra) = (w \o rb) \o ra
      BY <1>2, <2>5, RegroupedAtoms
    <3> QED BY <2>4, <2>7, <3>5, <3>6, <3>7, <3>8 DEF w, next
  <2>8. CASE t[child].kind \notin FunctionKinds
    <3> DEFINE x == Append(flushed, before)
               xu == x \o units
    <3>1. x \in Seq(Seq(Atom))
      BY <1>1, <2>1
    <3>2. WholeOf(x, atoms) = w \o rb
      <4>1. WholeOf(Append(flushed, before), atoms) = WholeOf(flushed, atoms) \o Restricted(before, atoms)
        BY <1>1, <2>1, WholeAppend
      <4> QED BY <1>1, <4>1
    <3> HIDE DEF x
    <3>3. xu \in Seq(Seq(Atom)) /\ WholeOf(xu, atoms) = WholeOf(x, atoms) \o WholeOf(units, atoms)
      BY <2>2, <3>1, WholeAtoms
    <3> HIDE DEF xu
    <3>4. WholeOf(xu \o last, atoms) = WholeOf(xu, atoms) \o WholeOf(last, atoms)
      BY <2>6, <3>3, WholeAtoms
    <3>5. next.units = xu \o last /\ next.run = << >>
      BY <2>3, <2>8 DEF xu, x
    <3> HIDE DEF rb, ra, rl
    <3>6. WholeOf(xu \o last, atoms) = ((w \o rb) \o rl) \o ra
      BY <2>2, <2>6, <3>2, <3>3, <3>4
    <3>7. (((w \o rb) \o rl) \o ra) \o << >> = ((w \o rb) \o rl) \o ra
      BY <1>2, <2>5
    <3>8. UnitsSoFar(next, atoms) = ((w \o rb) \o rl) \o ra
      BY <3>5, <3>6, <3>7, RestrictedEmpty DEF UnitsSoFar
    <3>9. Restricted((before \o below) \o after, atoms) = (rb \o rl) \o ra
      <4> DEFINE y == before \o below
      <4>1. y \in Seq(Atom) /\ Restricted(y, atoms) = rb \o rl
        BY <2>1, RestrictedAtoms DEF rb, rl
      <4> HIDE DEF y
      <4>2. Restricted(y \o after, atoms) = Restricted(y, atoms) \o ra
        BY <2>1, <4>1, RestrictedAtoms DEF ra
      <4> QED BY <4>1, <4>2 DEF y
    <3>10. ((w \o rb) \o rl) \o ra = w \o ((rb \o rl) \o ra)
      <4>1. \A x1, y, z \in Seq(Atom) : ((w \o x1) \o y) \o z = w \o ((x1 \o y) \o z)
        BY <1>2, FourRegrouped
      <4> QED BY <2>5, <4>1
    <3> QED BY <2>4, <2>8, <3>8, <3>9, <3>10 DEF w, next
  <2> QED BY <2>7, <2>8
<1> QED BY <1>4, <1>5

\* The units of the body of a child have what a skeleton shows of it.
ShownBelow(t, child, inner, u, atoms) ==
    HasBody(t, child) /\ t[child].kind \in Declarations =>
        LET below == FlattenSeq(BelowShown(t, Body(t, child), u))
        IN  /\ inner[Body(t, child)] \in Seq(Seq(Atom)) /\ below \in Seq(Atom)
            /\ WholeOf(inner[Body(t, child)], atoms) = Restricted(below, atoms)

LEMMA UnitsOverWhole ==
    ASSUME NEW t, IsTree(t), NEW block \in DOMAIN t, NEW inner, NEW u, IsShown(u, t),
           NEW atoms, Characters(atoms),
           \A k \in 1 .. t[block].kids : ShownBelow(t, Append(block, k), inner, u, atoms)
    PROVE  WholeOf(UnitsOver(t, block, inner), atoms) = WholeOf(BelowShown(t, block, u), atoms)
<1> DEFINE children == Children(t, block)
           n == Len(children)
           s == BelowShown(t, block, u)
<1>1. n \in Nat /\ n = t[block].kids
      /\ \A k \in 1 .. n : children[k] = Append(block, k) /\ Append(block, k) \in DOMAIN t
  BY NodeTyped
<1>12. n \in 0 .. n /\ 0 \in 0 .. n
  <2>1. n \in Nat
    BY <1>1
  <2> HIDE DEF n
  <2> QED BY <2>1
<1>2. \A k \in 1 .. n : InnerTyped(t, Append(block, k), inner)
  BY <1>1 DEF InnerTyped, ShownBelow
<1>3. \E f \in [0 .. n -> Collecting] :
          /\ f[0] = UnitBase
          /\ \A k \in 1 .. n : f[k] = UnitStep(f[k - 1], children[k], t, inner)
          /\ UnitsOver(t, block, inner) = Flush(f[n])
  <2>1. \A k \in 1 .. t[block].kids : InnerTyped(t, Append(block, k), inner)
    BY <1>1, <1>2
  <2> QED BY <2>1, UnitsFolded
<1>4. \A k \in 1 .. n : u[Append(block, k)] = ShownOver(t, Append(block, k), u) /\ u[Append(block, k)] \in Seq(Atom)
  BY <1>1, ShownIs
<1>5. s \in Seq(Seq(Atom)) /\ Len(s) = n /\ \A k \in 1 .. n : s[k] = u[Append(block, k)]
  <2>1. \A k \in 1 .. t[block].kids : u[Append(block, k)] \in Seq(Atom)
    BY <1>1, <1>4
  <2>2. s \in Seq(Seq(Atom)) /\ Len(s) = n
    BY <1>1, <2>1, BelowTyped
  <2>3. \A k \in 1 .. n : s[k] = u[Append(block, k)]
    BY <1>1 DEF BelowShown
  <2> QED BY <2>2, <2>3
<1> HIDE DEF children, n, s
<1>6. PICK f \in [0 .. n -> Collecting] :
          /\ f[0] = UnitBase
          /\ \A k \in 1 .. n : f[k] = UnitStep(f[k - 1], children[k], t, inner)
          /\ UnitsOver(t, block, inner) = Flush(f[n])
  BY <1>3
<1> DEFINE P == {k \in 0 .. n : UnitsSoFar(f[k], atoms) = WholeOf(SubSeq(s, 1, k), atoms)}
<1>7. 0 \in P
  <2>1. SubSeq(s, 1, 0) = << >>
    BY <1>5
  <2>2. UnitsSoFar(UnitBase, atoms) = << >> \o << >>
    BY WholeEmpty, RestrictedEmpty DEF UnitsSoFar, UnitBase
  <2>3. << >> \o << >> = << >>
    OBVIOUS
  <2> QED BY <1>6, <1>12, <2>1, <2>2, <2>3, WholeEmpty
<1>8. ASSUME NEW k \in 0 .. n - 1, k \in P
      PROVE  k + 1 \in P
  <2> DEFINE acc == f[k]
             child == Append(block, k + 1)
             text == s[k + 1]
             sk == SubSeq(s, 1, k)
             below == FlattenSeq(BelowShown(t, Body(t, child), u))
  <2>1. k \in 0 .. n /\ k + 1 \in 1 .. n /\ k + 1 \in 0 .. n /\ (k + 1) - 1 = k
    BY <1>1
  <2>2. SubSeq(s, 1, k + 1) = Append(sk, text) /\ sk \in Seq(Seq(Atom)) /\ text \in Seq(Atom)
    <3>1. k \in 0 .. Len(s) - 1
      BY <1>5
    <3> QED BY <1>5, <3>1, PrefixGrows
  <2>3. f[k + 1] = UnitStep(acc, child, t, inner) /\ acc \in Collecting /\ child \in DOMAIN t
    BY <1>1, <1>6, <2>1
  <2>4. UnitsSoFar(acc, atoms) = WholeOf(sk, atoms)
    BY <1>8
  <2>5. InnerTyped(t, child, inner) /\ ShownBelow(t, child, inner, u, atoms)
    BY <1>1, <1>2, <2>1
  <2>6. text = ShownAs(t, child, below)
    BY <1>4, <1>5, <2>1 DEF ShownOver
  <2>7. HasBody(t, child) /\ t[child].kind \in Declarations =>
           below \in Seq(Atom) /\ WholeOf(inner[Body(t, child)], atoms) = Restricted(below, atoms)
    BY <2>5 DEF ShownBelow
  <2> HIDE DEF acc, child, text, sk, below, P
  <2>8. UnitsSoFar(UnitStep(acc, child, t, inner), atoms)
           = UnitsSoFar(acc, atoms) \o Restricted(ShownAs(t, child, below), atoms)
    BY <2>3, <2>5, <2>7, UnitStepWhole
  <2>9. WholeOf(Append(sk, text), atoms) = WholeOf(sk, atoms) \o Restricted(text, atoms)
    BY <2>2, WholeAppend
  <2>10. UnitsSoFar(f[k + 1], atoms) = WholeOf(SubSeq(s, 1, k + 1), atoms)
    BY <2>2, <2>3, <2>4, <2>6, <2>8, <2>9
  <2> QED BY <2>1, <2>10 DEF P
<1> HIDE DEF P
<1>9. n \in P
  BY <1>1, <1>7, <1>8, <1>12, UpTo0
<1>10. SubSeq(s, 1, n) = s
  BY <1>5
<1>11. WholeOf(Flush(f[n]), atoms) = UnitsSoFar(f[n], atoms)
  <2>1. f[n] \in Collecting
    BY <1>12
  <2> QED BY <2>1, FlushWhole
<1> QED BY <1>6, <1>9, <1>10, <1>11 DEF P, s

\* The units of a body have what a skeleton shows of it.
LEMMA CollectWhole ==
    ASSUME NEW t, IsTree(t), NEW block \in DOMAIN t, NEW u, IsShown(u, t),
           NEW atoms, Characters(atoms)
    PROVE  WholeOf(CollectUnits(t, block), atoms) = WholeOf(BelowShown(t, block, u), atoms)
<1> DEFINE Units == CHOOSE w : IsUnits(w, t)
<1>1. IsUnits(Units, t)
  BY UnitsExist
<1>2. \A b \in DOMAIN t : CollectUnits(t, b) = Units[b]
  BY DEF CollectUnits, IsUnits
<1> HIDE DEF Units
<1>3. \A b \in DOMAIN t : Units[b] = UnitsOver(t, b, Units) /\ Units[b] \in Seq(Seq(Atom))
  <2>1. \A b \in DOMAIN t : Units[b] = UnitsOver(t, b, Units)
    BY <1>1 DEF IsUnits
  <2>2. \A b \in DOMAIN t : Units[b] \in Seq(Seq(Atom))
    BY <1>2, CollectTyped
  <2> QED BY <2>1, <2>2
<1> DEFINE Keeps(b) == WholeOf(Units[b], atoms) = WholeOf(BelowShown(t, b, u), atoms)
           Q == {b \in DOMAIN t : Keeps(b)}
<1>4. ASSUME NEW b \in DOMAIN t, DeeperIn(t, b, Q)
      PROVE  b \in Q
  <2>1. ASSUME NEW k \in 1 .. t[b].kids
        PROVE  ShownBelow(t, Append(b, k), Units, u, atoms)
    <3> DEFINE child == Append(b, k)
               body == Body(t, child)
    <3>1. child \in DOMAIN t
      BY NodeTyped
    <3> HIDE DEF Q
    <3>2. ASSUME HasBody(t, child)
          PROVE  /\ Units[body] \in Seq(Seq(Atom)) /\ FlattenSeq(BelowShown(t, body, u)) \in Seq(Atom)
                 /\ WholeOf(Units[body], atoms) = Restricted(FlattenSeq(BelowShown(t, body, u)), atoms)
      <4>1. body \in DOMAIN t /\ Len(body) > Len(b)
        BY <3>2, BodyBelow
      <4>2. \A j \in 1 .. t[body].kids : Append(body, j) \in DOMAIN t
        BY <3>1, <3>2, BodyDeeper
      <4> HIDE DEF body
      <4>3. Keeps(body)
        BY <1>4, <4>1 DEF DeeperIn, Q
      <4>4. \A j \in 1 .. t[body].kids : u[Append(body, j)] \in Seq(Atom)
        BY <4>2, ShownIs
      <4>5. FlattenSeq(BelowShown(t, body, u)) \in Seq(Atom)
        BY <4>1, <4>4, BelowTyped
      <4> QED BY <1>3, <4>1, <4>3, <4>5 DEF WholeOf
    <3> HIDE DEF child
    <3>3. ShownBelow(t, child, Units, u, atoms)
      BY <3>2 DEF ShownBelow
    <3> QED BY <3>3 DEF child
  <2>2. WholeOf(UnitsOver(t, b, Units), atoms) = WholeOf(BelowShown(t, b, u), atoms)
    BY <2>1, UnitsOverWhole
  <2> QED BY <1>3, <2>2
<1> HIDE DEF Q, Keeps
<1>5. Q \in SUBSET DOMAIN t
  BY DEF Q
<1>6. Q = DOMAIN t
  BY <1>4, <1>5, ByDepth
<1>7. Keeps(block)
  BY <1>6 DEF Q
<1> QED BY <1>2, <1>7 DEF Keeps

LEMMA SkeletonWhole ==
    ASSUME NEW t, IsTree(t), NEW block \in DOMAIN t, NEW atoms, Characters(atoms)
    PROVE  WholeOf(CollectUnits(t, block), atoms) = Restricted(Skeleton(t, block), atoms)
<1>1. PICK u : IsShown(u, t) /\ Skeleton(t, block) = FlattenSeq(BelowShown(t, block, u))
  BY SkeletonIs
<1>2. WholeOf(CollectUnits(t, block), atoms) = WholeOf(BelowShown(t, block, u), atoms)
  BY <1>1, CollectWhole
<1> QED BY <1>1, <1>2 DEF WholeOf

\* The pieces of a large class have of its body what its skeleton has.
LEMMA OverviewWhole ==
    ASSUME NEW t, IsTree(t), IsParsed(t), NEW p \in DOMAIN t, t[p].kind \in ClassKinds,
           HasBody(t, p), Tokens(Text(t, p)) > MaxTokens
    PROVE  LET body == Atoms(Text(t, Body(t, p)))
           IN  WholeOf(TextsOf(DeclarationPieces(t, p)), body) = Restricted(Skeleton(t, Body(t, p)), body)
<1> DEFINE b == Body(t, p)
           body == Atoms(Text(t, b))
           start == StartLine(t, p)
           end == EndLine(t, p)
           pieces == CollapseChildren(t, p)
<1>1. b \in DOMAIN t
  BY BodyTyped
<1>2. Characters(body)
  BY DEF Characters, Atoms
<1>3. pieces \in Seq(Seq(Atom))
  BY CollapseTyped
<1>4. DeclarationPieces(t, p) = Pieces(pieces, start, end)
  <2>1. ~(Tokens(Text(t, p)) <= MaxTokens)
    <3>1. Len(Text(t, p)) \in Nat /\ MaxTokens \in Nat
      BY NodeTyped, MaxTokensAssumption
    <3> QED BY <3>1 DEF Tokens
  <2> QED BY <2>1 DEF DeclarationPieces
<1>5. WholeOf(pieces, body) = WholeOf(CollectUnits(t, b), body)
  <2>1. body \subseteq Atoms(Text(t, Body(t, p)))
    OBVIOUS
  <2> HIDE DEF body
  <2> QED BY <1>2, <2>1, CollapseWhole
<1> HIDE DEF pieces, start, end, body, b
<1>6. TextsOf(Pieces(pieces, start, end)) = pieces
  BY <1>3, PiecesTexts
<1>7. WholeOf(CollectUnits(t, b), body) = Restricted(Skeleton(t, b), body)
  BY <1>1, <1>2, SkeletonWhole
<1> QED BY <1>4, <1>5, <1>6, <1>7 DEF b, body

----------------------------------------------------------------------------
(* The chunks of a declaration, as they are loaded.                        *)

\* The chunks of a symbol are those that the chunker made of it in its file.
LEMMA LoadedOf ==
    ASSUME RowsInv, NEW s \in db.symbols
    PROVE  LoadChunks(db, s.id) =
              {WithFile(c, FileOf(s)) : c \in {d \in Chunked[FileOf(s)].chunks : d.symbol = s.id}}
<1>1. PICK e \in files : \E i \in DOMAIN Chunked[e.file].symbols : IndexOf(s, e, i)
  BY HasPlace
<1>2. PICK i \in DOMAIN Chunked[e.file].symbols : IndexOf(s, e, i)
  BY <1>1
<1>3. s.id = Chunked[e.file].symbols[i].id
  BY <1>2, PlaceValues
<1>4. FileOf(s) = e.file
  BY <1>2, FileIs
<1> QED BY <1>3, <1>4, LoadedAre

\* Of a declaration that can be cut every piece is kept.
LEMMA DeclaredChunks ==
    ASSUME NEW file, IsFile(file), file.form = "code", NEW p \in Walked(file.tree),
           Splittable(file.tree, p)
    PROVE  LET pieces == DeclarationPieces(file.tree, p)
           IN  {d \in Document(CodeChunker(file)).chunks : d.symbol = SymbolId(file, p)}
                  = {Chonk(DeclaredSymbol(file, p), pieces, i) : i \in DOMAIN pieces}
<1> DEFINE t == file.tree
           id == SymbolId(file, p)
           chunks == Document(CodeChunker(file)).chunks
           Own(q) == DeclarationPieces(t, q)
           Made(q, i) == Chonk(DeclaredSymbol(file, q), Own(q), i)
           pieces == Own(p)
<1>1. IsTree(t) /\ IsParsed(t) /\ p \in DOMAIN t /\ t[p].kind \in Declarations
  BY WalkedIs
<1>2. \A q, i : Made(q, i).symbol = SymbolId(file, q)
  BY DEF Chonk, DeclaredSymbol, Symbol
<1>3. \A i : Made(p, i).content = pieces[i].text
  BY DEF Chonk
<1>4. \A i \in DOMAIN pieces : Tokens(pieces[i].text) <= MaxTokens
  <2>1. pieces \in Seq(PieceIn(Short(Atom, MaxTokens)))
    BY <1>1, SplittableFits
  <2> HIDE DEF pieces
  <2> TAKE i \in DOMAIN pieces
  <2>2. pieces[i] \in PieceIn(Short(Atom, MaxTokens))
    BY <2>1
  <2> QED BY <2>2 DEF PieceIn, Short, Tokens
<1>5. chunks = {c \in WalkChunks(file) : Tokens(c.content) <= MaxTokens}
  BY DEF Document, CodeChunker, Result, Fitting
<1>6. WalkChunks(file) = UNION {{Made(q, i) : i \in DOMAIN Own(q)} : q \in Walked(t)}
  <2>1. \A q : MakeChonks(DeclaredSymbol(file, q), Own(q)) = {Made(q, i) : i \in DOMAIN Own(q)}
    BY ChonksAre
  <2> HIDE DEF Made
  <2> QED BY <2>1 DEF WalkChunks
<1>7. \A q \in Walked(t) : SymbolId(file, q) = id => q = p
  <2> TAKE q \in Walked(t)
  <2>1. p \in Seq(Nat) /\ q \in Seq(Nat) /\ file.key \in Nat
    BY WalkedIs, NodeTyped DEF IsFile
  <2>2. Tail(<<file.key>> \o p) = p /\ Tail(<<file.key>> \o q) = q
    BY <2>1, TailBehind
  <2> QED BY <2>2 DEF SymbolId, FileId
<1> HIDE DEF Made, Own, chunks, id, t
<1>8. ASSUME NEW d \in chunks, d.symbol = id
      PROVE  \E i \in DOMAIN pieces : d = Made(p, i)
  <2>1. PICK q \in Walked(t) : d \in {Made(q, i) : i \in DOMAIN Own(q)}
    BY <1>5, <1>6
  <2>2. PICK i \in DOMAIN Own(q) : d = Made(q, i)
    BY <2>1
  <2>3. q = p
    BY <1>2, <1>7, <1>8, <2>2
  <2> QED BY <2>2, <2>3
<1>9. ASSUME NEW i \in DOMAIN pieces
      PROVE  Made(p, i) \in chunks /\ Made(p, i).symbol = id
  <2>1. Made(p, i) \in WalkChunks(file)
    <3>1. p \in Walked(t)
      BY DEF t
    <3> QED BY <1>6, <3>1
  <2>2. Tokens(Made(p, i).content) <= MaxTokens
    BY <1>3, <1>4
  <2> QED BY <1>2, <1>5, <2>1, <2>2 DEF id
<1>10. {d \in chunks : d.symbol = id} = {Made(p, i) : i \in DOMAIN pieces}
  BY <1>8, <1>9
<1> QED BY <1>10 DEF Made, Own, chunks, id, t

\* What a chunk of a piece says is what its row says.
LEMMA ChonkRow ==
    ASSUME NEW symbol, NEW pieces \in Seq(Piece), NEW i \in DOMAIN pieces, NEW file,
           Chonk(symbol, pieces, i) \in ChunkRecord
    PROVE  LET row == WithFile(Chonk(symbol, pieces, i), file)
           IN  /\ row.id = <<symbol.id, i>> /\ row.piece = i - 1 /\ row.content = pieces[i].text
               /\ row.prev = IF i > 1 THEN <<symbol.id, i - 1>> ELSE Nil
               /\ row.next = IF i < Len(pieces) THEN <<symbol.id, i + 1>> ELSE Nil
<1> DEFINE c == Chonk(symbol, pieces, i)
<1>1. /\ c.id = <<symbol.id, i>> /\ c.piece = i - 1 /\ c.content = pieces[i].text
      /\ c.prev = IF i > 1 THEN <<symbol.id, i - 1>> ELSE Nil
      /\ c.next = IF i < Len(pieces) THEN <<symbol.id, i + 1>> ELSE Nil
  BY DEF Chonk
<1>2. c \in ChunkRecord
  OBVIOUS
<1> HIDE DEF c
<1>3. DOMAIN c = {"id", "symbol", "piece", "count", "prev", "next", "content", "start",
                  "end", "signature"}
  BY <1>2 DEF ChunkRecord
<1>4. WithFile(c, file).prev = c.prev /\ WithFile(c, file).next = c.next
  BY <1>3 DEF WithFile
<1>5. WithFile(c, file).id = c.id /\ WithFile(c, file).piece = c.piece
      /\ WithFile(c, file).content = c.content
  BY <1>2, WithFileOfChunk
<1> QED BY <1>1, <1>4, <1>5 DEF c

\* The code of a declaration that can be cut is its pieces in their order.
LEMMA DeclaredCode ==
    ASSUME RowsInv, NEW s \in db.symbols, IsCode(s), Splittable(TreeOf(s), PlaceOf(s))
    PROVE  CodeOf(s) = FlattenSeq(TextsOf(DeclarationPieces(TreeOf(s), PlaceOf(s))))
<1>1. PICK e \in files : \E q \in Walked(e.file.tree) :
         /\ FileOf(s) = e.file /\ PlaceOf(s) = q /\ e.file.form = "code" /\ IsFile(e.file)
         /\ Chunked[e.file] = Document(CodeChunker(e.file))
         /\ s.id = SymbolId(e.file, q)
  BY CodeRow
<1> DEFINE file == e.file
           t == file.tree
           p == PlaceOf(s)
           pieces == DeclarationPieces(t, p)
           symbol == DeclaredSymbol(file, p)
           n == Len(pieces)
           rows == LoadChunks(db, s.id)
           Made(i) == Chonk(symbol, pieces, i)
           row == [i \in 1 .. n |-> WithFile(Made(i), file)]
<1>2. /\ FileOf(s) = file /\ p \in Walked(t) /\ file.form = "code" /\ IsFile(file)
      /\ Chunked[file] = Document(CodeChunker(file)) /\ s.id = SymbolId(file, p)
  BY <1>1
<1>3. Splittable(t, p) /\ TreeOf(s) = t
  BY <1>2 DEF TreeOf
<1>4. pieces \in Seq(Piece) /\ pieces # << >>
  <2>1. IsTree(t) /\ IsParsed(t) /\ p \in DOMAIN t /\ t[p].kind \in Declarations
    BY <1>2, WalkedIs
  <2>2. pieces \in Seq(PieceIn(Short(Atom, MaxTokens))) \ {<< >>}
    BY <1>3, <2>1, SplittableFits
  <2>3. PieceIn(Short(Atom, MaxTokens)) \subseteq Piece
    BY DEF PieceIn
  <2> HIDE DEF pieces
  <2> QED BY <2>2, <2>3
<1>5. n \in Nat \ {0} /\ DOMAIN pieces = 1 .. n
  <2> HIDE DEF pieces
  <2> QED BY <1>4, EmptySeq
<1>6. {d \in Chunked[file].chunks : d.symbol = s.id} = {Made(i) : i \in 1 .. n}
  <2>1. {d \in Chunked[file].chunks : d.symbol = s.id} = {Made(i) : i \in DOMAIN pieces}
    BY <1>2, <1>3, DeclaredChunks
  <2> HIDE DEF Made, pieces
  <2> QED BY <1>5, <2>1
<1>7. rows = {WithFile(c, file) : c \in {d \in Chunked[file].chunks : d.symbol = s.id}}
  BY <1>2, LoadedOf
<1>8. symbol.id = s.id
  BY <1>2 DEF DeclaredSymbol, Symbol
<1>9. WellFormed(Chunked[file])
  BY IndexedEntries
<1> HIDE DEF rows, Made, pieces, symbol, t, p, n
<1>10. \A i \in 1 .. n : Made(i) \in ChunkRecord
  BY <1>6, <1>9 DEF WellFormed
<1>11. rows = {row[i] : i \in 1 .. n}
  <2>1. \A i \in 1 .. n : row[i] = WithFile(Made(i), file)
    OBVIOUS
  <2> HIDE DEF row, file
  <2>2. rows = {WithFile(c, file) : c \in {Made(i) : i \in 1 .. n}}
    BY <1>6, <1>7
  <2> QED BY <2>1, <2>2
<1>12. \A i \in 1 .. n :
          /\ row[i].id = <<s.id, i>> /\ row[i].piece = i - 1 /\ row[i].content = pieces[i].text
          /\ row[i].prev = IF i > 1 THEN <<s.id, i - 1>> ELSE Nil
          /\ row[i].next = IF i < n THEN <<s.id, i + 1>> ELSE Nil
  <2> TAKE i \in 1 .. n
  <2>1. Chonk(symbol, pieces, i) \in ChunkRecord /\ i \in DOMAIN pieces
    BY <1>5, <1>10 DEF Made
  <2>2. row[i] = WithFile(Chonk(symbol, pieces, i), file)
    BY DEF Made
  <2> HIDE DEF row, file
  <2> QED BY <1>4, <1>8, <2>1, <2>2, ChonkRow DEF n
<1>13. Numbered(rows)
  BY ChunksAreTyped DEF ChunksTyped, rows
<1>14. row \in [1 .. n -> rows] /\ DOMAIN row = 1 .. n
  BY <1>11
<1> HIDE DEF row
<1>15. LinkedRow(row, n)
  <2>1. \A i \in 1 .. n : row[i].prev = Nil <=> i = 1
    <3> TAKE i \in 1 .. n
    <3>1. <<s.id, i - 1>> # Nil
      BY DEF Nil
    <3>2. (i > 1) <=> (i # 1)
      BY <1>5
    <3> QED BY <1>12, <3>1, <3>2
  <2>2. \A i \in 1 .. n - 1 : row[i].next = row[i + 1].id
    <3> TAKE i \in 1 .. n - 1
    <3>1. i \in 1 .. n /\ i + 1 \in 1 .. n /\ i < n
      BY <1>5
    <3> QED BY <1>12, <3>1
  <2>3. \A i, j \in 1 .. n : row[i].id = row[j].id => i = j
    <3> TAKE i, j \in 1 .. n
    <3>1. row[i].id = <<s.id, i>> /\ row[j].id = <<s.id, j>>
      BY <1>12
    <3>2. <<s.id, i>> = <<s.id, j>> => i = j
      OBVIOUS
    <3> QED BY <3>1, <3>2
  <2> QED BY <2>1, <2>2, <2>3 DEF LinkedRow
<1>16. OrderedChunks(rows) = row
  <2>1. \A x \in rows : \E i \in 1 .. n : row[i] = x
    BY <1>11
  <2>2. \A i \in 1 .. n : row[i].piece = i - 1
    BY <1>12
  <2> HIDE DEF file
  <2> QED BY <1>5, <1>13, <1>14, <1>15, <2>1, <2>2, LinkedOrder
<1>17. PieceTexts(db, s.id) = TextsOf(pieces)
  <2>1. PieceTexts(db, s.id) = [i \in DOMAIN row |-> row[i].content]
    BY <1>16 DEF PieceTexts, Each, rows
  <2> QED BY <1>5, <1>12, <1>14, <2>1 DEF TextsOf
<1>18. CodeOf(s) = FlattenSeq(TextsOf(pieces))
  BY <1>17, CodeIs DEF FullCode
<1> QED BY <1>3, <1>18 DEF pieces, p, t

\* The text of the statements of a body, as the property has it.
LEMMA SourceIs ==
    ASSUME NEW t, NEW b
    PROVE  Concat(Ascending(Statements(t, b)), LAMBDA i : Text(t, Append(b, i)))
              = FlattenSeq(StatementTexts(t, b))
BY DEF Concat, Each, StatementTexts

\* The code of a function with a body has the characters of its statements.
LEMMA StatementsFound ==
    ASSUME RowsInv, NEW s \in db.symbols, IsCode(s), s.type = "method", Bodied(s)
    PROVE  LET source == FlattenSeq(StatementTexts(TreeOf(s), BodyOf(s)))
           IN  Restricted(CodeOf(s), Atoms(source)) = Restricted(source, Atoms(source))
<1>1. PICK e \in files : \E q \in Walked(e.file.tree) :
         /\ FileOf(s) = e.file /\ PlaceOf(s) = q /\ e.file.form = "code" /\ IsFile(e.file)
         /\ s.type = DeclaredSymbol(e.file, q).type
  BY CodeRow
<1> DEFINE file == e.file
           t == file.tree
           p == PlaceOf(s)
           b == Body(t, p)
           source == FlattenSeq(StatementTexts(t, b))
<1>2. /\ FileOf(s) = file /\ p \in Walked(t) /\ file.form = "code" /\ IsFile(file)
      /\ s.type = DeclaredSymbol(file, p).type
  BY <1>1
<1>3. IsTree(t) /\ IsParsed(t) /\ p \in DOMAIN t /\ t[p].kind \in Declarations
  BY <1>2, WalkedIs
<1>4. TreeOf(s) = t /\ BodyOf(s) = b /\ HasBody(t, p)
  BY <1>2 DEF TreeOf, BodyOf, Bodied
<1>5. t[p].kind \in FunctionKinds
  <2>1. t[p].kind \notin ClassKinds
    BY <1>2 DEF DeclaredSymbol, Symbol
  <2> QED BY <1>3, <2>1 DEF Declarations
<1>6. b \in DOMAIN t
  BY <1>3, <1>4, BodyTyped
<1>7. CASE Statements(t, b) = {}
  <2>1. StatementTexts(t, b) \in Seq(Seq(Atom)) /\ Len(StatementTexts(t, b)) = 0
    <3>1. Ascending(Statements(t, b)) \in Seq(Statements(t, b))
      BY <1>3, <1>6, StatementsTyped
    <3>2. Ascending(Statements(t, b)) = << >>
      BY <1>7, <3>1
    <3>3. Len(<< >>) = 0
      OBVIOUS
    <3> QED BY <1>3, <1>6, <3>2, <3>3, StatementTextsAre
  <2>2. source = << >>
    <3>1. StatementTexts(t, b) = << >>
      BY <2>1, EmptySeq
    <3>2. DOMAIN << >> = 1 .. 0 /\ << >> = [i \in 1 .. 0 |-> << >>] /\ 0 \in Nat
      OBVIOUS
    <3>3. FlattenSeq(<< >>) = << >>
      BY <3>2, FlattenOfEmpty
    <3> QED BY <3>1, <3>3
  <2> HIDE DEF source
  <2>3. Atoms(source) = {}
    BY <2>2 DEF Atoms, ToSet
  <2>4. CodeOf(s) \in Seq(Int \X Int)
    BY CodeIs, ChunksAreTyped, ContentsTyped
  <2>5. Restricted(CodeOf(s), {}) = << >>
    BY <2>4, RestrictedNone
  <2>6. Restricted(source, {}) = << >>
    BY <2>2, RestrictedEmpty
  <2> QED BY <1>4, <2>3, <2>5, <2>6 DEF source
<1>8. CASE Statements(t, b) # {}
  <2>1. Splittable(t, p)
    BY <1>4, <1>5, <1>8 DEF Splittable
  <2>2. CodeOf(s) = FlattenSeq(TextsOf(DeclarationPieces(t, p)))
    BY <1>4, <2>1, DeclaredCode
  <2>3. WholeOf(TextsOf(DeclarationPieces(t, p)), StatementAtoms(t, b))
           = WholeOf(StatementTexts(t, b), StatementAtoms(t, b))
    BY <1>3, <1>4, <1>5, <1>8, FunctionWhole
  <2>4. Restricted(CodeOf(s), Atoms(source)) = Restricted(source, Atoms(source))
    BY <2>2, <2>3 DEF WholeOf, StatementAtoms
  <2> QED BY <1>4, <2>4 DEF source
<1> QED BY <1>7, <1>8

\* The code of a large class has what its skeleton has.
LEMMA OverviewFound ==
    ASSUME RowsInv, NEW s \in db.symbols, IsCode(s), s.type = "class", Large(s), Bodied(s),
           Tokens(HeaderOf(s)) < MaxTokens
    PROVE  LET skeleton == Skeleton(TreeOf(s), BodyOf(s))
               body == Atoms(Text(TreeOf(s), BodyOf(s)))
           IN  Restricted(CodeOf(s), body) = Restricted(skeleton, body)
<1>1. PICK e \in files : \E q \in Walked(e.file.tree) :
         /\ FileOf(s) = e.file /\ PlaceOf(s) = q /\ e.file.form = "code" /\ IsFile(e.file)
         /\ s.type = DeclaredSymbol(e.file, q).type
  BY CodeRow
<1> DEFINE file == e.file
           t == file.tree
           p == PlaceOf(s)
           b == Body(t, p)
           body == Atoms(Text(t, b))
<1>2. /\ FileOf(s) = file /\ p \in Walked(t) /\ file.form = "code" /\ IsFile(file)
      /\ s.type = DeclaredSymbol(file, p).type
  BY <1>1
<1>3. IsTree(t) /\ IsParsed(t) /\ p \in DOMAIN t /\ t[p].kind \in Declarations
  BY <1>2, WalkedIs
<1>4. /\ TreeOf(s) = t /\ BodyOf(s) = b /\ HasBody(t, p)
      /\ Tokens(Text(t, p)) > MaxTokens /\ Tokens(BeforeBody(t, p)) < MaxTokens
  BY <1>2 DEF TreeOf, BodyOf, Bodied, Large, SymbolText, HeaderOf
<1>5. t[p].kind \in ClassKinds
  BY <1>2 DEF DeclaredSymbol, Symbol
<1>6. Splittable(t, p)
  BY <1>4, <1>5 DEF Splittable
<1>7. CodeOf(s) = FlattenSeq(TextsOf(DeclarationPieces(t, p)))
  BY <1>4, <1>6, DeclaredCode
<1>8. WholeOf(TextsOf(DeclarationPieces(t, p)), body) = Restricted(Skeleton(t, b), body)
  BY <1>3, <1>4, <1>5, OverviewWhole
<1> HIDE DEF t, p, b, body
<1> QED BY <1>4, <1>7, <1>8 DEF WholeOf, body

----------------------------------------------------------------------------
(* The theorems.                                                           *)

\* However a function is cut, and in whatever order its rows are loaded, its code
\* has every character of its statements once and in order.
THEOREM StatementsAreKept == Spec => []KeepsStatements
<1>1. RetrievalInv => KeepsStatements
  <2> SUFFICES ASSUME RowsInv, NEW s \in db.symbols, IsCode(s), s.type = "method", Bodied(s)
               PROVE  LET source == Concat(Ascending(Statements(TreeOf(s), BodyOf(s))),
                                           LAMBDA i : Text(TreeOf(s), Append(BodyOf(s), i)))
                      IN  Restricted(CodeOf(s), Atoms(source)) = Restricted(source, Atoms(source))
    BY DEF RetrievalInv, KeepsStatements
  <2> QED BY StatementsFound, SourceIs
<1> QED BY <1>1, InvariantHolds, PTL

\* However a large class is collapsed, its code has everything of its body but
\* the bodies of its functions, once and in order.
THEOREM OverviewsAreKept == Spec => []OverviewKeeps
<1>1. RetrievalInv => OverviewKeeps
  <2> SUFFICES ASSUME RowsInv, NEW s \in db.symbols, IsCode(s), s.type = "class", Large(s),
                      Bodied(s), Tokens(HeaderOf(s)) < MaxTokens
               PROVE  LET skeleton == Skeleton(TreeOf(s), BodyOf(s))
                          body == Atoms(Text(TreeOf(s), BodyOf(s)))
                      IN  Restricted(CodeOf(s), body) = Restricted(skeleton, body)
    BY DEF RetrievalInv, OverviewKeeps
  <2> QED BY OverviewFound
<1> QED BY <1>1, InvariantHolds, PTL
==============================================================================
