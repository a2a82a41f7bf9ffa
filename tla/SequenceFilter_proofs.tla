------------------------ MODULE SequenceFilter_proofs ------------------------
(***************************************************************************)
(* Induction over the natural numbers for sets, what Filtered returns, and *)
(* sequences without repetition.                                           *)
(***************************************************************************)
EXTENDS SequenceFilter, Functions, FiniteSetsExt, SequenceTheorems, FiniteSetTheorems,
  WellFoundedInduction, TLAPS

\* A set that holds 0 and the successor of each of its numbers holds all of them.
LEMMA NatSetInduction ==
  ASSUME NEW I, 0 \in I, \A n \in Nat : n \in I => n + 1 \in I
  PROVE  Nat \subseteq I
<1> DEFINE out == Nat \ I
<1> SUFFICES ASSUME out # {} PROVE FALSE
  OBVIOUS
<1>1. PICK x \in out : \A y \in out : ~ (<<y, x>> \in OpToRel(<, Nat))
  <2>1. out \subseteq Nat
    OBVIOUS
  <2> HIDE DEF out
  <2> QED
    BY <2>1, NatLessThanWellFounded, WFMin
<1>2. x \in Nat /\ x # 0
  OBVIOUS
<1>3. x - 1 \in Nat /\ x - 1 < x
  BY <1>2
<1>4. <<x - 1, x>> \in OpToRel(<, Nat)
  BY <1>2, <1>3 DEF OpToRel
<1>5. x - 1 \in I
  BY <1>1, <1>3, <1>4
<1>6. (x - 1) + 1 \in I
  BY <1>3, <1>5
<1> QED
  BY <1>2, <1>6

\* The smaller of two numbers.
LEMMA MinOfTwo ==
  ASSUME NEW a \in Nat, NEW b \in Nat
  PROVE  Min({a, b}) \in {a, b} /\ Min({a, b}) <= a /\ Min({a, b}) <= b
<1>1. \E x \in {a, b} : \A y \in {a, b} : x <= y
  OBVIOUS
<1>2. Min({a, b}) \in {a, b} /\ \A y \in {a, b} : Min({a, b}) <= y
  BY <1>1 DEF Min
<1> QED
  BY <1>2

\* A set of numbers has a smallest one, and Min is it.
LEMMA MinOfNumbers ==
  ASSUME NEW S \in SUBSET Nat, S # {}
  PROVE  Min(S) \in S /\ \A w \in S : Min(S) <= w
<1>1. PICK x \in S : \A y \in S : ~ (<<y, x>> \in OpToRel(<, Nat))
  BY NatLessThanWellFounded, WFMin
<1>2. \A y \in S : x <= y
  <2> SUFFICES ASSUME NEW y \in S PROVE x <= y
    OBVIOUS
  <2>1. x \in Nat /\ y \in Nat
    OBVIOUS
  <2>2. ~ (<<y, x>> \in OpToRel(<, Nat))
    BY <1>1
  <2>3. ~ (y < x)
    BY <2>1, <2>2 DEF OpToRel
  <2> QED
    BY <2>1, <2>3
<1>3. Min(S) \in S /\ \A w \in S : Min(S) <= w
  BY <1>2 DEF Min
<1> QED
  BY <1>3

\* A set of positive numbers with a bound has a largest one, and Max is it.
LEMMA MaxOfNumbers ==
  ASSUME NEW n \in Nat, NEW S \in SUBSET (1..n), S # {}
  PROVE  Max(S) \in S /\ \A w \in S : w <= Max(S)
<1> DEFINE below == {n - w : w \in S}
<1>1. below \subseteq Nat /\ below # {}
  <2>1. ASSUME NEW w \in S PROVE n - w \in Nat
    <3>1. w \in 1..n
      OBVIOUS
    <3> QED
      BY <3>1
  <2> QED
    BY <2>1, Zenon
<1>2. PICK x \in below : \A y \in below : ~ (<<y, x>> \in OpToRel(<, Nat))
  <2> HIDE DEF below
  <2> QED
    BY <1>1, NatLessThanWellFounded, WFMin
<1>3. \A y \in below : y >= x
  <2> SUFFICES ASSUME NEW y \in below PROVE y >= x
    OBVIOUS
  <2>1. x \in Nat /\ y \in Nat
    BY <1>1
  <2>2. ~ (<<y, x>> \in OpToRel(<, Nat))
    BY <1>2
  <2>3. ~ (y < x)
    BY <2>1, <2>2 DEF OpToRel
  <2> QED
    BY <2>1, <2>3
<1>4. PICK m \in S : x = n - m
  OBVIOUS
<1>5. \A w \in S : m >= w
  <2> SUFFICES ASSUME NEW w \in S PROVE m >= w
    OBVIOUS
  <2>1. n - w \in below /\ m \in 1..n /\ w \in 1..n
    BY <1>4
  <2>2. n - w >= n - m
    BY <1>3, <1>4, <2>1
  <2> QED
    BY <2>1, <2>2
<1>6. \E z \in S : \A w \in S : z >= w
  BY <1>4, <1>5
<1>7. Max(S) \in S /\ \A w \in S : Max(S) >= w
  BY <1>6 DEF Max
<1> QED
  BY <1>7

\* A function on 1..n is a sequence.
LEMMA FunctionIsSeq ==
  ASSUME NEW S, NEW n \in Nat, NEW f \in [1..n -> S]
  PROVE  f \in Seq(S) /\ Len(f) = n
OBVIOUS

-----------------------------------------------------------------------------
\* The body of Filtered, with the function that it recurs on as an argument.
Extended(seq, keep, f, n) ==
  IF n = 0 THEN <<>>
  ELSE IF seq[n] \in keep THEN Append(f[n - 1], seq[n])
  ELSE f[n - 1]

\* There is a function that satisfies the equation.
LEMMA FilterExists ==
  ASSUME NEW S, NEW seq \in Seq(S), NEW keep
  PROVE  \E f : f = [n \in 0..Len(seq) |-> Extended(seq, keep, f, n)]
<1> DEFINE Upto(m) == \E f : f = [n \in 0..m |-> Extended(seq, keep, f, n)]
           I == {m \in Nat : Upto(m)}
<1>1. 0 \in I
  <2> DEFINE f == [n \in 0..0 |-> <<>>]
  <2>1. f = [n \in 0..0 |-> Extended(seq, keep, f, n)]
    BY DEF Extended
  <2> QED
    BY <2>1
<1>2. ASSUME NEW m \in Nat, m \in I PROVE m + 1 \in I
  <2>1. PICK f : f = [n \in 0..m |-> Extended(seq, keep, f, n)]
    BY <1>2
  <2> DEFINE g == [n \in 0..(m + 1) |-> IF n = m + 1 THEN Extended(seq, keep, f, m + 1) ELSE f[n]]
  <2>2. ASSUME NEW n \in 0..(m + 1) PROVE g[n] = Extended(seq, keep, g, n)
    <3>1. CASE n = m + 1
      <4>1. g[m] = f[m] /\ n - 1 = m /\ n # 0
        BY <3>1
      <4>2. Extended(seq, keep, g, n) = Extended(seq, keep, f, n)
        BY <3>1, <4>1 DEF Extended
      <4> QED
        BY <3>1, <4>2
    <3>2. CASE n # m + 1
      <4>1. n \in 0..m /\ (n # 0 => n - 1 \in 0..m /\ n - 1 # m + 1)
        BY <3>2
      <4>2. f[n] = Extended(seq, keep, f, n)
        BY <2>1, <4>1
      <4>3. n # 0 => g[n - 1] = f[n - 1]
        BY <4>1
      <4>4. g[n] = f[n]
        BY <3>2
      <4> QED
        BY <4>2, <4>3, <4>4 DEF Extended
    <3> QED
      BY <3>1, <3>2
  <2>3. g = [n \in 0..(m + 1) |-> Extended(seq, keep, g, n)]
    <3> HIDE DEF g
    <3>1. g = [n \in 0..(m + 1) |-> g[n]]
      BY DEF g
    <3> QED
      BY <2>2, <3>1
  <2> HIDE DEF g
  <2> QED
    BY <2>3
<1>3. Nat \subseteq I
  <2> HIDE DEF I
  <2> QED
    BY <1>1, <1>2, NatSetInduction
<1>4. Len(seq) \in Nat
  BY LenProperties
<1> QED
  BY <1>3, <1>4

\* What Filtered computes: a function of the prefixes, by its equation.
LEMMA FilterDef ==
  ASSUME NEW S, NEW seq \in Seq(S), NEW keep
  PROVE  \E f : /\ f = [n \in 0..Len(seq) |-> Extended(seq, keep, f, n)]
                /\ Filtered(seq, keep) = f[Len(seq)]
<1> DEFINE f == CHOOSE f : f = [n \in 0..Len(seq) |-> Extended(seq, keep, f, n)]
<1>1. f = [n \in 0..Len(seq) |-> Extended(seq, keep, f, n)]
  BY FilterExists
<1>2. Filtered(seq, keep) = f[Len(seq)]
  BY DEF Filtered, Extended
<1> QED
  BY <1>1, <1>2

\* Filtered keeps the elements of keep, all of them, in a sequence that is no
\* longer and that is without repetition if seq is.
LEMMA FilterProperties ==
  ASSUME NEW S, NEW seq \in Seq(S), NEW keep
  PROVE  /\ Filtered(seq, keep) \in Seq(S)
         /\ Len(Filtered(seq, keep)) <= Len(seq)
         /\ Range(Filtered(seq, keep)) = Range(seq) \cap keep
         /\ IsInjective(seq) => IsInjective(Filtered(seq, keep))
<1>1. Len(seq) \in Nat /\ DOMAIN seq = 1..Len(seq) /\ \A i \in 1..Len(seq) : seq[i] \in S
  BY LenProperties, ElementOfSeq
<1>2. PICK f : /\ f = [n \in 0..Len(seq) |-> Extended(seq, keep, f, n)]
               /\ Filtered(seq, keep) = f[Len(seq)]
  BY FilterDef
<1> DEFINE Sound(s, n) ==
             /\ s \in Seq(S)
             /\ Len(s) <= n
             /\ \A j \in 1..Len(s) : s[j] \in keep /\ \E i \in 1..n : s[j] = seq[i]
             /\ \A i \in 1..n : seq[i] \in keep => \E j \in 1..Len(s) : s[j] = seq[i]
             /\ IsInjective(seq) => \A j, k \in 1..Len(s) : s[j] = s[k] => j = k
           Good(n) == Sound(f[n], n)
           I == {n \in Nat : n <= Len(seq) => Good(n)}
<1>3. 0 \in I
  <2>1. f[0] = <<>>
    BY <1>1, <1>2 DEF Extended
  <2>2. f[0] \in Seq(S) /\ Len(f[0]) = 0 /\ 1..0 = {}
    BY <2>1, EmptySeq
  <2> QED
    BY <2>2
<1>4. ASSUME NEW n \in Nat, n \in I PROVE n + 1 \in I
  <2> SUFFICES ASSUME n + 1 <= Len(seq) PROVE Good(n + 1)
    OBVIOUS
  <2>1. Good(n)
    BY <1>1, <1>4
  <2>2. f[n + 1] = Extended(seq, keep, f, n + 1)
    BY <1>1, <1>2
  <2>3. n + 1 \in 1..Len(seq) /\ seq[n + 1] \in S /\ (n + 1) - 1 = n
    BY <1>1
  <2>4. Len(f[n]) \in Nat
    BY <2>1, LenProperties
  <2>5. CASE seq[n + 1] \notin keep
    <3>1. f[n + 1] = f[n]
      BY <2>2, <2>3, <2>5 DEF Extended
    <3>2. \A i \in 1..(n + 1) : seq[i] \in keep => i \in 1..n
      BY <2>5
    <3>3. 1..n \subseteq 1..(n + 1)
      OBVIOUS
    <3> HIDE DEF I
    <3> QED
      BY <2>1, <2>4, <3>1, <3>2, <3>3
  <2>6. CASE seq[n + 1] \in keep
    <3> DEFINE s == f[n]
               x == seq[n + 1]
    <3>1. f[n + 1] = Append(s, x)
      BY <2>2, <2>3, <2>6 DEF Extended
    <3>2. /\ Append(s, x) \in Seq(S)
          /\ Len(Append(s, x)) = Len(s) + 1
          /\ \A i \in 1..Len(s) : Append(s, x)[i] = s[i]
          /\ Append(s, x)[Len(s) + 1] = x
      BY <2>1, <2>3, AppendProperties
    <3>3. \A j \in 1..Len(s) + 1 : j \in 1..Len(s) \/ j = Len(s) + 1
      BY <2>4
    <3>4. Len(f[n + 1]) <= n + 1
      BY <2>1, <2>4, <3>1, <3>2
    <3>5. \A j \in 1..Len(s) + 1 : Append(s, x)[j] \in keep /\ \E i \in 1..n + 1 : Append(s, x)[j] = seq[i]
      <4> TAKE j \in 1..Len(s) + 1
      <4>1. CASE j = Len(s) + 1
        BY <2>6, <3>2, <4>1
      <4>2. CASE j \in 1..Len(s)
        <5>1. PICK i \in 1..n : s[j] = seq[i]
          BY <2>1, <4>2
        <5>2. i \in 1..n + 1
          OBVIOUS
        <5> QED
          BY <2>1, <3>2, <4>2, <5>1, <5>2
      <4> QED
        BY <3>3, <4>1, <4>2
    <3>6. \A i \in 1..n + 1 : seq[i] \in keep => \E j \in 1..Len(s) + 1 : Append(s, x)[j] = seq[i]
      <4> SUFFICES ASSUME NEW i \in 1..n + 1, seq[i] \in keep
                   PROVE  \E j \in 1..Len(s) + 1 : Append(s, x)[j] = seq[i]
        OBVIOUS
      <4>1. CASE i = n + 1
        <5>1. Len(s) + 1 \in 1..Len(s) + 1
          BY <2>4
        <5> QED
          BY <3>2, <4>1, <5>1
      <4>2. CASE i \in 1..n
        <5>1. PICK j \in 1..Len(s) : s[j] = seq[i]
          BY <2>1, <4>2
        <5>2. j \in 1..Len(s) + 1
          BY <2>4
        <5> QED
          BY <3>2, <5>1, <5>2
      <4> QED
        BY <4>1, <4>2
    <3>7. ASSUME IsInjective(seq)
          PROVE  \A j, k \in 1..Len(s) + 1 : Append(s, x)[j] = Append(s, x)[k] => j = k
      <4>1. \A j \in 1..Len(s) : s[j] # x
        <5> SUFFICES ASSUME NEW j \in 1..Len(s), s[j] = x PROVE FALSE
          OBVIOUS
        <5>1. PICK i \in 1..n : s[j] = seq[i]
          BY <2>1
        <5>2. i \in DOMAIN seq /\ n + 1 \in DOMAIN seq /\ seq[i] = seq[n + 1] /\ i # n + 1
          BY <1>1, <2>3, <5>1
        <5> QED
          BY <3>7, <5>2 DEF IsInjective
      <4>2. \A j, k \in 1..Len(s) : s[j] = s[k] => j = k
        BY <2>1, <3>7
      <4> QED
        BY <3>2, <3>3, <4>1, <4>2
    <3> HIDE DEF s, x
    <3>8. QED
      BY <3>1, <3>2, <3>4, <3>5, <3>6, <3>7
  <2> QED
    BY <2>5, <2>6
<1>5. Nat \subseteq I
  <2> HIDE DEF I
  <2> QED
    BY <1>3, <1>4, NatSetInduction
<1>6. Good(Len(seq))
  <2>1. Len(seq) \in I
    BY <1>1, <1>5
  <2>2. Len(seq) <= Len(seq)
    BY <1>1
  <2> QED
    BY <2>1, <2>2, Zenon
<1> DEFINE r == Filtered(seq, keep)
<1>7. /\ r \in Seq(S)
      /\ Len(r) <= Len(seq)
      /\ \A j \in 1..Len(r) : r[j] \in keep /\ \E i \in 1..Len(seq) : r[j] = seq[i]
      /\ \A i \in 1..Len(seq) : seq[i] \in keep => \E j \in 1..Len(r) : r[j] = seq[i]
      /\ IsInjective(seq) => \A j, k \in 1..Len(r) : r[j] = r[k] => j = k
  <2>1. Sound(f[Len(seq)], Len(seq))
    BY <1>6
  <2>2. r = f[Len(seq)]
    BY <1>2
  <2>3. Sound(r, Len(seq))
    <3> HIDE DEF r, Sound
    <3> QED
      BY <2>1, <2>2
  <2> HIDE DEF r
  <2> QED
    BY <2>3
<1>8. DOMAIN r = 1..Len(r)
  BY <1>7, LenProperties
<1> HIDE DEF r
<1>9. Range(r) = Range(seq) \cap keep
  <2>1. ASSUME NEW x, x \in Range(r) PROVE x \in Range(seq) \cap keep
    <3>1. PICK j \in 1..Len(r) : x = r[j]
      BY <1>8, <2>1 DEF Range
    <3>2. x \in keep
      BY <1>7, <3>1
    <3>3. PICK i \in 1..Len(seq) : x = seq[i]
      BY <1>7, <3>1
    <3>4. x \in Range(seq)
      BY <1>1, <3>3 DEF Range
    <3> QED
      BY <3>2, <3>4
  <2>2. ASSUME NEW x, x \in Range(seq), x \in keep PROVE x \in Range(r)
    <3>1. PICK i \in 1..Len(seq) : x = seq[i]
      BY <1>1, <2>2 DEF Range
    <3>2. PICK j \in 1..Len(r) : r[j] = seq[i]
      BY <1>7, <2>2, <3>1
    <3> QED
      BY <1>8, <3>1, <3>2 DEF Range
  <2> QED
    BY <2>1, <2>2
<1>10. IsInjective(seq) => IsInjective(r)
  BY <1>7, <1>8 DEF IsInjective
<1> QED
  BY <1>7, <1>9, <1>10 DEF r

\* One more element, tested against another set that agrees on the others.
LEMMA FilterExtends ==
  ASSUME NEW S, NEW seq \in Seq(S), NEW longer \in Seq(S), NEW keep, NEW kept,
         Len(longer) = Len(seq) + 1,
         \A i \in 1..Len(seq) : longer[i] = seq[i] /\ (seq[i] \in keep <=> seq[i] \in kept)
  PROVE  Filtered(longer, kept) =
           IF longer[Len(longer)] \in kept THEN Append(Filtered(seq, keep), longer[Len(longer)])
           ELSE Filtered(seq, keep)
<1> DEFINE m == Len(seq)
<1>1. m \in Nat
  BY LenProperties
<1>2. PICK f : /\ f = [n \in 0..Len(seq) |-> Extended(seq, keep, f, n)]
               /\ Filtered(seq, keep) = f[Len(seq)]
  BY FilterDef
<1>3. PICK g : /\ g = [n \in 0..Len(longer) |-> Extended(longer, kept, g, n)]
               /\ Filtered(longer, kept) = g[Len(longer)]
  BY FilterDef
<1>4. /\ \A n \in 0..m : f[n] = Extended(seq, keep, f, n)
      /\ \A n \in 0..(m + 1) : g[n] = Extended(longer, kept, g, n)
      /\ Filtered(seq, keep) = f[m] /\ Filtered(longer, kept) = g[m + 1]
  BY <1>2, <1>3
<1> HIDE DEF m
<1> DEFINE I == {n \in Nat : n <= m => g[n] = f[n]}
<1>5. 0 \in I
  <2>1. 0 \in 0..m /\ 0 \in 0..(m + 1)
    BY <1>1
  <2>2. f[0] = <<>> /\ g[0] = <<>>
    BY <1>4, <2>1 DEF Extended
  <2> QED
    BY <2>2
<1>6. ASSUME NEW n \in Nat, n \in I PROVE n + 1 \in I
  <2> SUFFICES ASSUME n + 1 <= m PROVE g[n + 1] = f[n + 1]
    OBVIOUS
  <2>1. /\ n + 1 \in 0..m /\ n + 1 \in 0..(m + 1) /\ n + 1 \in 1..m
        /\ n + 1 # 0 /\ (n + 1) - 1 = n
    BY <1>1
  <2>2. g[n] = f[n]
    BY <1>1, <1>6
  <2>3. longer[n + 1] = seq[n + 1] /\ (seq[n + 1] \in keep <=> seq[n + 1] \in kept)
    BY <2>1 DEF m
  <2>4. f[n + 1] = Extended(seq, keep, f, n + 1) /\ g[n + 1] = Extended(longer, kept, g, n + 1)
    BY <1>4, <2>1
  <2> HIDE DEF I
  <2> QED
    BY <2>1, <2>2, <2>3, <2>4 DEF Extended
<1>7. Nat \subseteq I
  <2> HIDE DEF I
  <2> QED
    BY <1>5, <1>6, NatSetInduction
<1>8. g[m] = f[m]
  BY <1>1, <1>7
<1>9. m + 1 \in 0..(m + 1) /\ m + 1 # 0 /\ (m + 1) - 1 = m /\ Len(longer) = m + 1
  BY <1>1 DEF m
<1>10. g[m + 1] = Extended(longer, kept, g, m + 1)
  BY <1>4, <1>9
<1> QED
  BY <1>4, <1>8, <1>9, <1>10 DEF Extended

\* s is seq without its first k elements.
IsRest(s, seq, k) == Len(s) = Len(seq) - k /\ \A j \in 1..(Len(seq) - k) : s[j] = seq[k + j]

\* The elements of s are elements of seq, in their order.
InOrderOf(s, seq) ==
  \A i, j \in 1..Len(s) : i < j =>
    \E p, q \in 1..Len(seq) : p < q /\ s[i] = seq[p] /\ s[j] = seq[q]

\* When the elements of keep are those after the first k, they are what is left.
LEMMA FilterSuffix ==
  ASSUME NEW S, NEW seq \in Seq(S), NEW keep, NEW k \in 0..Len(seq),
         \A i \in 1..Len(seq) : seq[i] \in keep <=> i > k
  PROVE  Filtered(seq, keep) \in Seq(S) /\ IsRest(Filtered(seq, keep), seq, k)
<1>1. Len(seq) \in Nat /\ k \in Nat /\ \A i \in 1..Len(seq) : seq[i] \in S
  BY LenProperties, ElementOfSeq
<1>2. PICK f : /\ f = [n \in 0..Len(seq) |-> Extended(seq, keep, f, n)]
               /\ Filtered(seq, keep) = f[Len(seq)]
  BY FilterDef
<1>3. \A n \in 0..Len(seq) : f[n] = Extended(seq, keep, f, n)
  BY <1>2
<1> DEFINE Good(n) == /\ f[n] \in Seq(S) /\ Len(f[n]) = IF n <= k THEN 0 ELSE n - k
                      /\ \A j \in 1..Len(f[n]) : f[n][j] = seq[k + j]
           I == {n \in Nat : n <= Len(seq) => Good(n)}
<1>4. 0 \in I
  <2>1. f[0] = <<>>
    BY <1>1, <1>3 DEF Extended
  <2>2. f[0] \in Seq(S) /\ Len(f[0]) = 0 /\ 1..0 = {} /\ 0 <= k
    BY <1>1, <2>1
  <2> QED
    BY <2>2
<1>5. ASSUME NEW n \in Nat, n \in I PROVE n + 1 \in I
  <2> SUFFICES ASSUME n + 1 <= Len(seq) PROVE Good(n + 1)
    OBVIOUS
  <2>1. Good(n)
    BY <1>1, <1>5
  <2>2. n + 1 \in 1..Len(seq) /\ n + 1 \in 0..Len(seq) /\ (n + 1) - 1 = n /\ n + 1 # 0
    BY <1>1
  <2>3. f[n + 1] = Extended(seq, keep, f, n + 1)
    BY <1>3, <2>2
  <2>4. CASE n + 1 <= k
    <3>1. f[n + 1] = f[n]
      BY <1>1, <2>2, <2>3, <2>4 DEF Extended
    <3>2. n <= k
      BY <1>1, <2>4
    <3> QED
      BY <2>1, <2>4, <3>1, <3>2
  <2>5. CASE ~ (n + 1 <= k)
    <3>1. f[n + 1] = Append(f[n], seq[n + 1])
      BY <1>1, <2>2, <2>3, <2>5 DEF Extended
    <3>2. Len(f[n]) = n - k /\ n - k \in Nat
      BY <1>1, <2>1, <2>5
    <3>3. /\ Append(f[n], seq[n + 1]) \in Seq(S) /\ Len(Append(f[n], seq[n + 1])) = Len(f[n]) + 1
          /\ \A i \in 1..Len(f[n]) : Append(f[n], seq[n + 1])[i] = f[n][i]
          /\ Append(f[n], seq[n + 1])[Len(f[n]) + 1] = seq[n + 1]
      BY <1>1, <2>1, <2>2, AppendProperties
    <3>4. Len(f[n + 1]) = (n + 1) - k
      BY <1>1, <3>1, <3>2, <3>3
    <3>5. ASSUME NEW j \in 1..Len(f[n + 1]) PROVE f[n + 1][j] = seq[k + j]
      <4>1. CASE j = Len(f[n]) + 1
        <5>1. k + j = n + 1
          BY <1>1, <3>2, <4>1
        <5> QED
          BY <3>1, <3>3, <4>1, <5>1
      <4>2. CASE j # Len(f[n]) + 1
        <5>1. j \in 1..Len(f[n])
          BY <3>2, <3>4, <4>2
        <5> QED
          BY <2>1, <3>1, <3>3, <5>1
      <4> QED
        BY <4>1, <4>2
    <3> HIDE DEF I
    <3> QED
      BY <2>5, <3>1, <3>3, <3>4, <3>5
  <2> QED
    BY <2>4, <2>5
<1>6. Nat \subseteq I
  <2> HIDE DEF I
  <2> QED
    BY <1>4, <1>5, NatSetInduction
<1>7. Good(Len(seq))
  <2>1. Len(seq) \in I
    BY <1>1, <1>6
  <2>2. Len(seq) <= Len(seq)
    BY <1>1
  <2> QED
    BY <2>1, <2>2, Zenon
<1>8. (IF Len(seq) <= k THEN 0 ELSE Len(seq) - k) = Len(seq) - k
  BY <1>1
<1> QED
  BY <1>2, <1>7, <1>8 DEF IsRest

\* The elements that are kept come in the order of the sequence.
LEMMA FilterOrder ==
  ASSUME NEW S, NEW seq \in Seq(S), NEW keep
  PROVE  InOrderOf(Filtered(seq, keep), seq)
<1>1. Len(seq) \in Nat /\ \A i \in 1..Len(seq) : seq[i] \in S
  BY LenProperties, ElementOfSeq
<1>2. PICK f : /\ f = [n \in 0..Len(seq) |-> Extended(seq, keep, f, n)]
               /\ Filtered(seq, keep) = f[Len(seq)]
  BY FilterDef
<1>3. \A n \in 0..Len(seq) : f[n] = Extended(seq, keep, f, n)
  BY <1>2
<1> DEFINE Ordered(s, n) ==
             /\ s \in Seq(S)
             /\ \A i \in 1..Len(s) : \E p \in 1..n : s[i] = seq[p]
             /\ \A i, j \in 1..Len(s) : i < j =>
                  \E p, q \in 1..n : p < q /\ s[i] = seq[p] /\ s[j] = seq[q]
           I == {n \in Nat : n <= Len(seq) => Ordered(f[n], n)}
<1>4. 0 \in I
  <2>1. f[0] = <<>>
    BY <1>1, <1>3 DEF Extended
  <2>2. f[0] \in Seq(S) /\ Len(f[0]) = 0 /\ 1..0 = {}
    BY <2>1
  <2> QED
    BY <2>2
<1>5. ASSUME NEW n \in Nat, n \in I PROVE n + 1 \in I
  <2> SUFFICES ASSUME n + 1 <= Len(seq) PROVE Ordered(f[n + 1], n + 1)
    OBVIOUS
  <2>1. Ordered(f[n], n)
    BY <1>1, <1>5
  <2>2. n + 1 \in 1..Len(seq) /\ n + 1 \in 0..Len(seq) /\ (n + 1) - 1 = n /\ n + 1 # 0
    BY <1>1
  <2>3. f[n + 1] = Extended(seq, keep, f, n + 1)
    BY <1>3, <2>2
  <2>4. 1..n \subseteq 1..(n + 1) /\ n + 1 \in 1..(n + 1) /\ \A p \in 1..n : p < n + 1
    OBVIOUS
  <2>5. CASE seq[n + 1] \notin keep
    <3>1. f[n + 1] = f[n]
      BY <2>2, <2>3, <2>5 DEF Extended
    <3>2. Ordered(f[n], n + 1)
      <4> DEFINE s == f[n]
      <4>1. \A i \in 1..Len(s) : \E p \in 1..(n + 1) : s[i] = seq[p]
        BY <2>1, <2>4
      <4>2. \A i, j \in 1..Len(s) : i < j => \E p, q \in 1..(n + 1) : p < q /\ s[i] = seq[p] /\ s[j] = seq[q]
        <5> SUFFICES ASSUME NEW i \in 1..Len(s), NEW j \in 1..Len(s), i < j
                     PROVE  \E p, q \in 1..(n + 1) : p < q /\ s[i] = seq[p] /\ s[j] = seq[q]
          OBVIOUS
        <5>1. PICK p \in 1..n, q \in 1..n : p < q /\ s[i] = seq[p] /\ s[j] = seq[q]
          BY <2>1
        <5> QED
          BY <2>4, <5>1
      <4> QED
        BY <2>1, <4>1, <4>2
    <3> HIDE DEF I, Ordered
    <3> QED
      BY <3>1, <3>2
  <2>6. CASE seq[n + 1] \in keep
    <3> DEFINE s == f[n]
               t == Append(s, seq[n + 1])
    <3>1. f[n + 1] = t
      BY <2>2, <2>3, <2>6 DEF Extended
    <3>2. /\ t \in Seq(S) /\ Len(t) = Len(s) + 1 /\ Len(s) \in Nat
          /\ \A i \in 1..Len(s) : t[i] = s[i]
          /\ t[Len(s) + 1] = seq[n + 1]
      BY <1>1, <2>1, <2>2, AppendProperties, LenProperties
    <3> HIDE DEF t
    <3>3. \A i \in 1..Len(t) : i \in 1..Len(s) \/ i = Len(s) + 1
      BY <3>2
    <3>4. \A i \in 1..Len(t) : \E p \in 1..(n + 1) : t[i] = seq[p]
      BY <2>1, <2>4, <3>2, <3>3
    <3>5. ASSUME NEW i \in 1..Len(t), NEW j \in 1..Len(t), i < j
          PROVE  \E p, q \in 1..(n + 1) : p < q /\ t[i] = seq[p] /\ t[j] = seq[q]
      <4>1. i \in 1..Len(s)
        BY <3>2, <3>3, <3>5
      <4>2. CASE j \in 1..Len(s)
        <5>1. PICK p \in 1..n, q \in 1..n : p < q /\ s[i] = seq[p] /\ s[j] = seq[q]
          BY <2>1, <3>5, <4>1, <4>2
        <5> QED
          BY <2>4, <3>2, <4>1, <4>2, <5>1
      <4>3. CASE j = Len(s) + 1
        <5>1. PICK p \in 1..n : s[i] = seq[p]
          BY <2>1, <4>1
        <5> QED
          BY <2>4, <3>2, <4>1, <4>3, <5>1
      <4> QED
        BY <3>3, <4>2, <4>3
    <3> HIDE DEF I, s
    <3> QED
      BY <3>1, <3>2, <3>4, <3>5
  <2> QED
    BY <2>5, <2>6
<1>6. Nat \subseteq I
  <2> HIDE DEF I
  <2> QED
    BY <1>4, <1>5, NatSetInduction
<1>7. Ordered(f[Len(seq)], Len(seq))
  <2>1. Len(seq) \in I
    BY <1>1, <1>6
  <2>2. Len(seq) <= Len(seq)
    BY <1>1
  <2> QED
    BY <2>1, <2>2, Zenon
<1> DEFINE kept == Filtered(seq, keep)
<1>8. kept = f[Len(seq)]
  BY <1>2
<1>9. Ordered(kept, Len(seq))
  <2> HIDE DEF Ordered, kept
  <2> QED
    BY <1>7, <1>8
<1> QED
  BY <1>9 DEF InOrderOf

\* An appended element is added to the range.
LEMMA RangeAppend ==
  ASSUME NEW S, NEW seq \in Seq(S), NEW x \in S
  PROVE  Range(Append(seq, x)) = Range(seq) \cup {x}
<1>1. /\ Append(seq, x) \in Seq(S) /\ Len(Append(seq, x)) = Len(seq) + 1
      /\ \A i \in 1..Len(seq) : Append(seq, x)[i] = seq[i]
      /\ Append(seq, x)[Len(seq) + 1] = x
  BY AppendProperties
<1>2. /\ Len(seq) \in Nat /\ DOMAIN seq = 1..Len(seq)
      /\ DOMAIN Append(seq, x) = 1..Len(seq) + 1
  BY <1>1, LenProperties
<1> QED
  BY <1>1, <1>2 DEF Range

\* A sequence without repetition stays one when a new element is appended.
LEMMA AppendDistinct ==
  ASSUME NEW S, NEW seq \in Seq(S), NEW x \in S, IsInjective(seq), x \notin Range(seq)
  PROVE  IsInjective(Append(seq, x))
<1>1. /\ Append(seq, x) \in Seq(S) /\ Len(Append(seq, x)) = Len(seq) + 1
      /\ \A i \in 1..Len(seq) : Append(seq, x)[i] = seq[i]
      /\ Append(seq, x)[Len(seq) + 1] = x
  BY AppendProperties
<1>2. /\ Len(seq) \in Nat /\ DOMAIN seq = 1..Len(seq)
      /\ DOMAIN Append(seq, x) = 1..Len(seq) + 1
  BY <1>1, LenProperties
<1> QED
  BY <1>1, <1>2 DEF Range, IsInjective

\* Nor does one appear when two of them that share nothing are concatenated.
LEMMA ConcatDistinct ==
  ASSUME NEW S, NEW s \in Seq(S), NEW t \in Seq(S),
         IsInjective(s), IsInjective(t), Range(s) \cap Range(t) = {}
  PROVE  IsInjective(s \o t)
<1>1. /\ s \o t \in Seq(S) /\ Len(s \o t) = Len(s) + Len(t)
      /\ \A i \in 1..Len(s) + Len(t) :
           (s \o t)[i] = IF i <= Len(s) THEN s[i] ELSE t[i - Len(s)]
  BY ConcatProperties
<1>2. /\ Len(s) \in Nat /\ DOMAIN s = 1..Len(s)
      /\ Len(t) \in Nat /\ DOMAIN t = 1..Len(t)
      /\ DOMAIN (s \o t) = 1..Len(s) + Len(t)
  BY <1>1, LenProperties
<1> DEFINE u == s \o t
<1>3. ASSUME NEW i \in 1..Len(s) + Len(t) PROVE
        \/ i \in DOMAIN s /\ u[i] = s[i] /\ u[i] \in Range(s)
        \/ i - Len(s) \in DOMAIN t /\ u[i] = t[i - Len(s)] /\ u[i] \in Range(t)
  BY <1>1, <1>2 DEF Range
<1> HIDE DEF u
<1>4. ASSUME NEW i \in 1..Len(s) + Len(t), NEW j \in 1..Len(s) + Len(t), u[i] = u[j]
      PROVE  i = j
  <2>1. CASE i \in DOMAIN s /\ j \in DOMAIN s /\ u[i] = s[i] /\ u[j] = s[j]
    BY <1>4, <2>1 DEF IsInjective
  <2>2. CASE /\ i - Len(s) \in DOMAIN t /\ u[i] = t[i - Len(s)]
             /\ j - Len(s) \in DOMAIN t /\ u[j] = t[j - Len(s)]
    <3>1. i - Len(s) = j - Len(s)
      BY <1>4, <2>2 DEF IsInjective
    <3> QED
      BY <1>2, <3>1
  <2> QED
    BY <1>3, <1>4, <2>1, <2>2
<1> QED
  BY <1>2, <1>4 DEF IsInjective, u

\* The head of such a sequence is not in its tail, which is one too.
LEMMA TailDistinct ==
  ASSUME NEW S, NEW seq \in Seq(S), seq # <<>>, IsInjective(seq)
  PROVE  /\ Head(seq) \in Range(seq)
         /\ Range(Tail(seq)) = Range(seq) \ {Head(seq)}
         /\ IsInjective(Tail(seq))
<1>1. /\ Tail(seq) \in Seq(S) /\ Len(Tail(seq)) = Len(seq) - 1
      /\ \A i \in 1..Len(Tail(seq)) : Tail(seq)[i] = seq[i + 1]
  BY HeadTailProperties
<1>2. Head(seq) = seq[1]
  OBVIOUS
<1>3. /\ Len(seq) \in Nat \ {0} /\ DOMAIN seq = 1..Len(seq)
      /\ DOMAIN Tail(seq) = 1..Len(seq) - 1
  BY <1>1, EmptySeq, LenProperties
<1>4. \A i \in 1..Len(seq) - 1 : i + 1 \in DOMAIN seq /\ i + 1 # 1 /\ Tail(seq)[i] = seq[i + 1]
  BY <1>1, <1>3
<1>5. \A i \in DOMAIN seq : i # 1 => i - 1 \in DOMAIN Tail(seq) /\ seq[i] = Tail(seq)[i - 1]
  BY <1>1, <1>3
<1>6. Head(seq) \in Range(seq)
  BY <1>2, <1>3 DEF Range
<1>7. Range(Tail(seq)) \subseteq Range(seq) \ {Head(seq)}
  BY <1>2, <1>3, <1>4 DEF Range, IsInjective
<1>8. Range(seq) \ {Head(seq)} \subseteq Range(Tail(seq))
  BY <1>2, <1>5 DEF Range
<1>9. ASSUME NEW i \in DOMAIN Tail(seq), NEW j \in DOMAIN Tail(seq), Tail(seq)[i] = Tail(seq)[j]
      PROVE  i = j
  <2>1. i + 1 \in DOMAIN seq /\ j + 1 \in DOMAIN seq /\ seq[i + 1] = seq[j + 1]
    BY <1>3, <1>4, <1>9
  <2>2. i + 1 = j + 1
    BY <2>1 DEF IsInjective
  <2> QED
    BY <1>3, <2>2
<1> QED
  BY <1>6, <1>7, <1>8, <1>9 DEF IsInjective

-----------------------------------------------------------------------------
(***************************************************************************)
(* A fold along 1..n by a function on values and indices, in the form that *)
(* the library gives it: it recurs on sets of indices by their largest.    *)
(***************************************************************************)
FoldSolves(f, V, base, step, n) ==
  /\ f \in [SUBSET (1..n) -> V]
  /\ \A T \in SUBSET (1..n) : f[T] = IF T = {} THEN base ELSE step[<<f[T \ {Max(T)}], Max(T)>>]

\* There is one function that satisfies the equation.
LEMMA FoldSolution ==
  ASSUME NEW V, NEW n \in Nat, NEW base \in V, NEW step \in [V \X (1..n) -> V]
  PROVE  \E f : FoldSolves(f, V, base, step, n)
<1> DEFINE Upto(m) == \E f : FoldSolves(f, V, base, step, m)
           I == {m \in Nat : m <= n => Upto(m)}
<1>1. 0 \in I
  <2> DEFINE f == [T \in SUBSET (1..0) |-> base]
  <2>1. \A T \in SUBSET (1..0) : T = {}
    OBVIOUS
  <2>2. FoldSolves(f, V, base, step, 0)
    BY <2>1 DEF FoldSolves
  <2> QED
    BY <2>2
<1>2. ASSUME NEW m \in Nat, m \in I PROVE m + 1 \in I
  <2> SUFFICES ASSUME m + 1 <= n PROVE Upto(m + 1)
    OBVIOUS
  <2>1. PICK f : FoldSolves(f, V, base, step, m)
    BY <1>2
  <2> DEFINE last(T) == step[<<f[T \ {m + 1}], m + 1>>]
             g == [T \in SUBSET (1..(m + 1)) |-> IF m + 1 \in T THEN last(T) ELSE f[T]]
  <2>2. ASSUME NEW T \in SUBSET (1..(m + 1))
        PROVE  g[T] \in V /\ g[T] = IF T = {} THEN base ELSE step[<<g[T \ {Max(T)}], Max(T)>>]
    <3>1. CASE m + 1 \in T
      <4>1. Max(T) = m + 1
        <5>1. T # {} /\ m + 1 \in Nat
          BY <3>1
        <5>2. Max(T) \in T /\ \A i \in T : i <= Max(T)
          BY <5>1, MaxOfNumbers
        <5>3. Max(T) \in 1..(m + 1) /\ m + 1 <= Max(T)
          BY <3>1, <5>2
        <5> QED
          BY <5>3
      <4>2. /\ T \ {m + 1} \in SUBSET (1..(m + 1)) /\ m + 1 \notin T \ {m + 1}
            /\ T \ {m + 1} \in SUBSET (1..m)
        OBVIOUS
      <4>3. g[T \ {m + 1}] = f[T \ {m + 1}] /\ f[T \ {m + 1}] \in V
        BY <2>1, <4>2 DEF FoldSolves
      <4>4. g[T] = last(T) /\ last(T) \in V
        <5>1. m + 1 \in 1..n
          OBVIOUS
        <5> QED
          BY <3>1, <4>3, <5>1
      <4> QED
        BY <3>1, <4>1, <4>3, <4>4
    <3>2. CASE m + 1 \notin T
      <4>1. T \in SUBSET (1..m)
        BY <3>2
      <4>2. f[T] \in V /\ f[T] = IF T = {} THEN base ELSE step[<<f[T \ {Max(T)}], Max(T)>>]
        BY <2>1, <4>1 DEF FoldSolves
      <4>3. g[T] = f[T]
        BY <3>2
      <4>4. \A x : T \ {x} \in SUBSET (1..(m + 1)) /\ m + 1 \notin T \ {x}
        BY <3>2
      <4>5. \A x : g[T \ {x}] = f[T \ {x}]
        BY <4>4
      <4> QED
        BY <4>2, <4>3, <4>5
    <3> QED
      BY <3>1, <3>2
  <2>3. g = [T \in SUBSET (1..(m + 1)) |-> g[T]]
    OBVIOUS
  <2> HIDE DEF g
  <2>4. g \in [SUBSET (1..(m + 1)) -> V]
    BY <2>2, <2>3
  <2>5. FoldSolves(g, V, base, step, m + 1)
    BY <2>2, <2>4 DEF FoldSolves
  <2> QED
    BY <2>5
<1>3. Nat \subseteq I
  <2> HIDE DEF I
  <2> QED
    BY <1>1, <1>2, NatSetInduction
<1>4. Upto(n)
  BY <1>3
<1> QED
  BY <1>4

\* The largest of 1..i.
LEMMA MaxOfInterval ==
  ASSUME NEW n \in Nat, NEW i \in 1..n
  PROVE  Max(1..i) = i /\ (1..i) \ {i} = 1..(i - 1) /\ 1..i # {} /\ 1..i \in SUBSET (1..n)
<1>1. i \in Nat /\ i \in 1..i /\ i <= n
  OBVIOUS
<1>2. Max(1..i) \in 1..i /\ \A j \in 1..i : j <= Max(1..i)
  BY <1>1, MaxOfNumbers
<1>3. Max(1..i) = i
  BY <1>1, <1>2
<1>4. (1..i) \ {i} = 1..(i - 1)
  BY <1>1
<1>5. \A j \in 1..i : j \in 1..n
  BY <1>1
<1> QED
  BY <1>1, <1>3, <1>4, <1>5
-----------------------------------------------------------------------------
(***************************************************************************)
(* Sizes of finite sets, and products.                                     *)
(***************************************************************************)
\* A set with at least n elements has a subset of n.
LEMMA SubsetOfSize ==
  ASSUME NEW S, IsFiniteSet(S), NEW n \in Nat, n <= Cardinality(S)
  PROVE  \E T \in SUBSET S : Cardinality(T) = n
<1>1. PICK c \in Nat : c = Cardinality(S)
  BY FS_CardinalityType
<1>2. PICK f \in Bijection(1..c, S) : TRUE
  <2>1. ExistsBijection(1..c, S)
    BY <1>1, FS_CardinalityType
  <2> QED
    BY <2>1 DEF ExistsBijection
<1>3. f \in [1..c -> S] /\ \A i, j \in 1..c : f[i] = f[j] => i = j
  BY <1>2 DEF Bijection, Injection, IsInjective
<1> DEFINE T == {f[i] : i \in 1..n}
           h == [i \in 1..n |-> f[i]]
<1>4. 1..n \subseteq 1..c
  BY <1>1
<1>5. T \in SUBSET S
  BY <1>3, <1>4
<1>6. h \in Bijection(1..n, T)
  BY <1>3, <1>4 DEF Bijection, Injection, Surjection, IsInjective
<1>7. ExistsBijection(1..n, T)
  BY <1>6 DEF ExistsBijection
<1> HIDE DEF T
<1>8. Cardinality(T) = n
  BY <1>7, FS_CountingElements
<1> QED
  BY <1>5, <1>8

\* The size of a union of two sets that have nothing in common.
LEMMA DisjointUnion ==
  ASSUME NEW S, NEW T, IsFiniteSet(S), IsFiniteSet(T), S \cap T = {}
  PROVE  /\ IsFiniteSet(S \cup T)
         /\ Cardinality(S \cup T) = Cardinality(S) + Cardinality(T)
         /\ Cardinality(S) \in Nat /\ Cardinality(T) \in Nat
<1>1. PICK a \in Nat, b \in Nat : a = Cardinality(S) /\ b = Cardinality(T)
  BY FS_CardinalityType
<1>2. IsFiniteSet(S \cup T) /\ Cardinality(S \cup T) = a + b - Cardinality(S \cap T)
  BY <1>1, FS_Union
<1>3. Cardinality(S \cap T) = 0
  BY FS_EmptySet
<1>4. a + b - 0 = a + b
  BY <1>1
<1> QED
  BY <1>1, <1>2, <1>3, <1>4

\* A product of positive numbers is positive.
LEMMA TimesPositive ==
  ASSUME NEW a \in Nat, NEW b \in Nat, a >= 1, b >= 1
  PROVE  a * b \in Nat /\ a * b >= 1
OBVIOUS

\* A product grows with its factor.
LEMMA TimesMonotone ==
  ASSUME NEW a \in Nat, NEW b \in Nat, NEW c \in Nat, a <= b
  PROVE  a * c \in Nat /\ b * c \in Nat /\ a * c <= b * c
OBVIOUS

-----------------------------------------------------------------------------
(***************************************************************************)
(* Sums of the numbers of a function over a finite set.  The library's sum *)
(* recurs on subsets, by an element that it takes out.                     *)
(***************************************************************************)
AnyOf(T) == CHOOSE e \in T : TRUE

\* The body of the recursion of a sum, with the function it recurs on as an argument.
Summed(nums, f, T) == IF T = {} THEN 0 ELSE nums[AnyOf(T)] + f[T \ {AnyOf(T)}]

\* A set that holds the empty set, and each set without whose chosen element it
\* holds the rest, holds all the subsets.
LEMMA SubsetInduction ==
  ASSUME NEW S, IsFiniteSet(S), NEW I, {} \in I,
         \A T \in SUBSET S : T # {} /\ T \ {AnyOf(T)} \in I => T \in I
  PROVE  SUBSET S \subseteq I
<1> DEFINE J == {n \in Nat : \A T \in SUBSET S : Cardinality(T) <= n => T \in I}
<1>1. \A T \in SUBSET S : IsFiniteSet(T) /\ Cardinality(T) \in Nat
  BY FS_Subset, FS_CardinalityType
<1>2. 0 \in J
  <2> SUFFICES ASSUME NEW T \in SUBSET S, Cardinality(T) <= 0 PROVE T \in I
    OBVIOUS
  <2>1. Cardinality(T) = 0
    BY <1>1
  <2> QED
    BY <1>1, <2>1, FS_EmptySet
<1>3. ASSUME NEW n \in Nat, n \in J PROVE n + 1 \in J
  <2> SUFFICES ASSUME NEW T \in SUBSET S, Cardinality(T) <= n + 1 PROVE T \in I
    OBVIOUS
  <2> SUFFICES ASSUME T # {} PROVE T \in I
    OBVIOUS
  <2>1. AnyOf(T) \in T
    BY DEF AnyOf
  <2>2. Cardinality(T \ {AnyOf(T)}) = Cardinality(T) - 1
    BY <1>1, <2>1, FS_RemoveElement
  <2>3. T \ {AnyOf(T)} \in SUBSET S /\ Cardinality(T \ {AnyOf(T)}) <= n
    BY <1>1, <2>2
  <2>4. T \ {AnyOf(T)} \in I
    BY <1>3, <2>3
  <2> QED
    BY <2>4
<1>4. Nat \subseteq J
  <2> HIDE DEF J
  <2> QED
    BY <1>2, <1>3, NatSetInduction
<1> QED
  BY <1>1, <1>4

\* There is a function that satisfies the equation of the sum.
LEMMA SumExists ==
  ASSUME NEW S, IsFiniteSet(S), NEW nums
  PROVE  \E f : f = [T \in SUBSET S |-> Summed(nums, f, T)]
<1> DEFINE Small(n) == {T \in SUBSET S : Cardinality(T) <= n}
           Upto(n) == \E f : f = [T \in Small(n) |-> Summed(nums, f, T)]
           J == {n \in Nat : Upto(n)}
<1>1. \A T \in SUBSET S : IsFiniteSet(T) /\ Cardinality(T) \in Nat
  BY FS_Subset, FS_CardinalityType
<1>2. 0 \in J
  <2> DEFINE f == [T \in Small(0) |-> 0]
  <2>1. ASSUME NEW T \in Small(0) PROVE T = {}
    <3>1. Cardinality(T) = 0
      BY <1>1
    <3> QED
      BY <1>1, <3>1, FS_EmptySet
  <2>2. f = [T \in Small(0) |-> Summed(nums, f, T)]
    BY <2>1 DEF Summed
  <2> HIDE DEF f, Small
  <2> QED
    BY <2>2
<1>3. ASSUME NEW n \in Nat, n \in J PROVE n + 1 \in J
  <2>1. PICK f : f = [T \in Small(n) |-> Summed(nums, f, T)]
    BY <1>3
  <2> DEFINE g == [T \in Small(n + 1) |-> Summed(nums, f, T)]
  <2>2. ASSUME NEW T \in Small(n + 1), T # {}
        PROVE  T \ {AnyOf(T)} \in Small(n) /\ T \ {AnyOf(T)} \in Small(n + 1)
    <3>1. AnyOf(T) \in T
      BY <2>2 DEF AnyOf
    <3>2. Cardinality(T \ {AnyOf(T)}) = Cardinality(T) - 1
      BY <1>1, <3>1, FS_RemoveElement
    <3> QED
      BY <1>1, <3>2
  <2>3. ASSUME NEW T \in Small(n) PROVE g[T] = f[T]
    <3>1. T \in Small(n + 1)
      BY <1>1
    <3>2. g[T] = Summed(nums, f, T)
      BY <3>1
    <3> HIDE DEF g, Small
    <3> QED
      BY <2>1, <3>2
  <2>4. ASSUME NEW T \in Small(n + 1) PROVE g[T] = Summed(nums, g, T)
    <3>1. g[T] = Summed(nums, f, T)
      OBVIOUS
    <3> HIDE DEF g, Small
    <3>2. CASE T = {}
      BY <3>1, <3>2 DEF Summed
    <3>3. CASE T # {}
      <4>1. g[T \ {AnyOf(T)}] = f[T \ {AnyOf(T)}]
        BY <2>2, <2>3, <3>3
      <4> QED
        BY <3>1, <3>3, <4>1 DEF Summed
    <3> QED
      BY <3>2, <3>3
  <2>5. g = [T \in Small(n + 1) |-> Summed(nums, g, T)]
    <3>1. g = [T \in Small(n + 1) |-> g[T]]
      OBVIOUS
    <3> HIDE DEF g, Small
    <3> QED
      BY <2>4, <3>1
  <2> HIDE DEF g, Small
  <2> QED
    BY <2>5
<1>4. Nat \subseteq J
  <2> HIDE DEF J
  <2> QED
    BY <1>2, <1>3, NatSetInduction
<1>5. Cardinality(S) \in Nat /\ \A T \in SUBSET S : Cardinality(T) <= Cardinality(S)
  BY FS_CardinalityType, FS_Subset
<1>6. Small(Cardinality(S)) = SUBSET S
  BY <1>5
<1>7. Upto(Cardinality(S))
  BY <1>4, <1>5
<1> HIDE DEF Small
<1> QED
  BY <1>6, <1>7

\* F has the sum of nums over each subset of S.
SumsUp(F, nums, S) ==
  /\ F[{}] = 0
  /\ \A T \in SUBSET S : T # {} => F[T] = nums[AnyOf(T)] + F[T \ {AnyOf(T)}]

\* The sum over S is one of them.
LEMMA SumDef ==
  ASSUME NEW S, IsFiniteSet(S), NEW nums
  PROVE  \E F : SumsUp(F, nums, S) /\ SumFunctionOnSet(nums, S) = F[S]
<1> DEFINE g == CHOOSE f : f = [T \in SUBSET S |-> Summed(nums, f, T)]
<1>1. g = [T \in SUBSET S |-> Summed(nums, g, T)]
  BY SumExists
<1>2. SumFunctionOnSet(nums, S) = g[S]
  BY DEF SumFunctionOnSet, FoldFunctionOnSet, MapThenFoldSet, Summed, AnyOf
<1> HIDE DEF g
<1>3. {} \in SUBSET S
  OBVIOUS
<1>4. SumsUp(g, nums, S)
  BY <1>1, <1>3 DEF SumsUp, Summed
<1> QED
  BY <1>2, <1>4

\* The sum of natural numbers is one.
LEMMA SumIsNat ==
  ASSUME NEW S, IsFiniteSet(S), NEW f \in [S -> Nat]
  PROVE  SumFunctionOnSet(f, S) \in Nat
<1>1. PICK g : SumsUp(g, f, S) /\ SumFunctionOnSet(f, S) = g[S]
  BY SumDef
<1> DEFINE I == {T \in SUBSET S : g[T] \in Nat}
<1>2. {} \in I
  BY <1>1 DEF SumsUp
<1>3. ASSUME NEW T \in SUBSET S, T # {}, T \ {AnyOf(T)} \in I PROVE T \in I
  <2>1. AnyOf(T) \in S
    BY <1>3 DEF AnyOf
  <2>2. g[T] = f[AnyOf(T)] + g[T \ {AnyOf(T)}]
    BY <1>1, <1>3 DEF SumsUp
  <2>3. f[AnyOf(T)] \in Nat /\ g[T \ {AnyOf(T)}] \in Nat
    BY <1>3, <2>1
  <2> QED
    BY <2>2, <2>3
<1>4. SUBSET S \subseteq I
  <2> HIDE DEF I
  <2> QED
    BY <1>2, <1>3, SubsetInduction
<1> QED
  BY <1>1, <1>4

AtMost(d, r, a, s, c, o, S) == \A h \in S : d * r[h] <= a * s[h] + c * o[h]

SumsAtMost(d, r, a, s, c, o, S) ==
  d * SumFunctionOnSet(r, S) <= a * SumFunctionOnSet(s, S) + c * SumFunctionOnSet(o, S)

\* A linear bound that holds for each element holds for the sums.
LEMMA SumBound ==
  ASSUME NEW S, IsFiniteSet(S),
         NEW r \in [S -> Nat], NEW s \in [S -> Nat], NEW o \in [S -> Nat],
         NEW d \in Nat, NEW a \in Nat, NEW c \in Nat, AtMost(d, r, a, s, c, o, S)
  PROVE  SumsAtMost(d, r, a, s, c, o, S)
<1>1. PICK f : SumsUp(f, r, S) /\ SumFunctionOnSet(r, S) = f[S]
  BY SumDef
<1>2. PICK g : SumsUp(g, s, S) /\ SumFunctionOnSet(s, S) = g[S]
  BY SumDef
<1>3. PICK k : SumsUp(k, o, S) /\ SumFunctionOnSet(o, S) = k[S]
  BY SumDef
<1> DEFINE I == {T \in SUBSET S :
                   /\ f[T] \in Nat /\ g[T] \in Nat /\ k[T] \in Nat
                   /\ d * f[T] <= a * g[T] + c * k[T]}
<1>4. {} \in I
  <2>1. f[{}] = 0 /\ g[{}] = 0 /\ k[{}] = 0
    BY <1>1, <1>2, <1>3 DEF SumsUp
  <2>2. d * 0 <= a * 0 + c * 0
    OBVIOUS
  <2> QED
    BY <2>1, <2>2
<1>5. ASSUME NEW T \in SUBSET S, T # {}, T \ {AnyOf(T)} \in I PROVE T \in I
  <2> DEFINE h == AnyOf(T)
             U == T \ {h}
  <2>1. h \in S
    BY <1>5 DEF AnyOf
  <2>2. f[T] = r[h] + f[U] /\ g[T] = s[h] + g[U] /\ k[T] = o[h] + k[U]
    BY <1>1, <1>2, <1>3, <1>5 DEF SumsUp
  <2>3. /\ f[U] \in Nat /\ g[U] \in Nat /\ k[U] \in Nat
        /\ d * f[U] <= a * g[U] + c * k[U]
    BY <1>5
  <2>4. r[h] \in Nat /\ s[h] \in Nat /\ o[h] \in Nat /\ d * r[h] <= a * s[h] + c * o[h]
    BY <2>1 DEF AtMost
  <2> HIDE DEF h, U
  <2>5. /\ d * f[T] = d * r[h] + d * f[U]
        /\ a * g[T] = a * s[h] + a * g[U]
        /\ c * k[T] = c * o[h] + c * k[U]
    BY <2>2, <2>3, <2>4
  <2>6. f[T] \in Nat /\ g[T] \in Nat /\ k[T] \in Nat
    BY <2>2, <2>3, <2>4
  <2>7. /\ d * r[h] \in Nat /\ d * f[U] \in Nat /\ a * s[h] \in Nat
        /\ a * g[U] \in Nat /\ c * o[h] \in Nat /\ c * k[U] \in Nat
    BY <2>3, <2>4
  <2>8. d * f[T] <= a * g[T] + c * k[T]
    BY <2>3, <2>4, <2>5, <2>7
  <2> QED
    BY <2>6, <2>8
<1>6. S \in I
  <2>1. SUBSET S \subseteq I
    <3> HIDE DEF I
    <3> QED
      BY <1>4, <1>5, SubsetInduction
  <2> QED
    BY <2>1
<1> QED
  BY <1>1, <1>2, <1>3, <1>6 DEF SumsAtMost

\* The sum of what is 1 for the elements of a set and 0 for the others is the size
\* of the set.
LEMMA SumOfOnes ==
  ASSUME NEW S, IsFiniteSet(S), NEW f \in [S -> Nat], NEW U \in SUBSET S,
         \A e \in U : f[e] = 1, \A e \in S \ U : f[e] = 0
  PROVE  SumFunctionOnSet(f, S) = Cardinality(U)
<1>1. PICK F : SumsUp(F, f, S) /\ SumFunctionOnSet(f, S) = F[S]
  BY SumDef
<1> DEFINE I == {T \in SUBSET S : F[T] = Cardinality(T \cap U)}
<1>2. {} \in I
  <2>1. {} \cap U = {}
    OBVIOUS
  <2> QED
    BY <1>1, <2>1, FS_EmptySet DEF SumsUp
<1>3. ASSUME NEW T \in SUBSET S, T # {}, T \ {AnyOf(T)} \in I PROVE T \in I
  <2> DEFINE e == AnyOf(T)
             rest == (T \ {e}) \cap U
  <2>1. e \in T
    BY <1>3 DEF AnyOf
  <2>2. F[T] = f[e] + F[T \ {e}]
    BY <1>1, <1>3 DEF SumsUp
  <2>3. F[T \ {e}] = Cardinality(rest)
    BY <1>3
  <2>4. IsFiniteSet(rest) /\ e \notin rest /\ Cardinality(rest) \in Nat
    <3>1. rest \in SUBSET S
      OBVIOUS
    <3> QED
      BY <3>1, FS_Subset, FS_CardinalityType
  <2>5. f[e] = IF e \in U THEN 1 ELSE 0
    <3>1. e \in S
      BY <2>1
    <3> QED
      BY <3>1
  <2>6. T \cap U = IF e \in U THEN rest \cup {e} ELSE rest
    BY <2>1
  <2> HIDE DEF e, rest
  <2>7. PICK m \in Nat : m = Cardinality(rest)
    BY <2>4
  <2>8. Cardinality(rest \cup {e}) = m + 1
    BY <2>4, <2>7, FS_AddElement
  <2>9. F[T \ {e}] = m
    BY <2>3, <2>7
  <2>10. F[T] = Cardinality(T \cap U)
    <3>1. CASE e \in U
      <4>1. T \cap U = rest \cup {e} /\ f[e] = 1
        BY <2>5, <2>6, <3>1
      <4>2. F[T] = 1 + m
        BY <2>2, <2>9, <4>1
      <4>3. 1 + m = m + 1
        BY <2>7
      <4>4. Cardinality(T \cap U) = m + 1
        BY <2>8, <4>1
      <4> QED
        BY ONLY <4>2, <4>3, <4>4
    <3>2. CASE e \notin U
      <4>1. T \cap U = rest /\ f[e] = 0
        BY <2>5, <2>6, <3>2
      <4>2. F[T] = 0 + m
        BY <2>2, <2>9, <4>1
      <4>3. F[T] = m
        BY <2>7, <4>2
      <4> QED
        BY <2>7, <4>1, <4>3
    <3> QED
      BY <3>1, <3>2
  <2> QED
    BY <2>10
<1>4. SUBSET S \subseteq I
  <2> HIDE DEF I
  <2> QED
    BY <1>2, <1>3, SubsetInduction
<1>5. S \cap U = U
  OBVIOUS
<1> QED
  BY <1>1, <1>4, <1>5

Equal(d, r, a, s, c, o, S) == \A h \in S : d * r[h] = a * s[h] + c * o[h]

EqualSums(d, r, a, s, c, o, S) ==
  d * SumFunctionOnSet(r, S) = a * SumFunctionOnSet(s, S) + c * SumFunctionOnSet(o, S)

\* A linear equation that holds for each element holds for the sums.
LEMMA SumEquation ==
  ASSUME NEW S, IsFiniteSet(S),
         NEW r \in [S -> Nat], NEW s \in [S -> Nat], NEW o \in [S -> Nat],
         NEW d \in Nat, NEW a \in Nat, NEW c \in Nat, Equal(d, r, a, s, c, o, S)
  PROVE  EqualSums(d, r, a, s, c, o, S)
<1>1. PICK f : SumsUp(f, r, S) /\ SumFunctionOnSet(r, S) = f[S]
  BY SumDef
<1>2. PICK g : SumsUp(g, s, S) /\ SumFunctionOnSet(s, S) = g[S]
  BY SumDef
<1>3. PICK k : SumsUp(k, o, S) /\ SumFunctionOnSet(o, S) = k[S]
  BY SumDef
<1> DEFINE I == {T \in SUBSET S :
                   /\ f[T] \in Nat /\ g[T] \in Nat /\ k[T] \in Nat
                   /\ d * f[T] = a * g[T] + c * k[T]}
<1>4. {} \in I
  <2>1. f[{}] = 0 /\ g[{}] = 0 /\ k[{}] = 0
    BY <1>1, <1>2, <1>3 DEF SumsUp
  <2>2. d * f[{}] = 0 /\ a * g[{}] = 0 /\ c * k[{}] = 0 /\ 0 \in Nat
    BY <2>1
  <2>3. d * f[{}] = a * g[{}] + c * k[{}]
    BY <2>2
  <2> QED
    BY <2>1, <2>2, <2>3
<1>5. ASSUME NEW T \in SUBSET S, T # {}, T \ {AnyOf(T)} \in I PROVE T \in I
  <2> DEFINE h == AnyOf(T)
             U == T \ {h}
  <2>1. h \in S
    BY <1>5 DEF AnyOf
  <2>2. f[T] = r[h] + f[U] /\ g[T] = s[h] + g[U] /\ k[T] = o[h] + k[U]
    BY <1>1, <1>2, <1>3, <1>5 DEF SumsUp
  <2>3. /\ f[U] \in Nat /\ g[U] \in Nat /\ k[U] \in Nat
        /\ d * f[U] = a * g[U] + c * k[U]
    BY <1>5
  <2>4. r[h] \in Nat /\ s[h] \in Nat /\ o[h] \in Nat /\ d * r[h] = a * s[h] + c * o[h]
    BY <2>1 DEF Equal
  <2> HIDE DEF h, U
  <2>5. /\ d * f[T] = d * r[h] + d * f[U]
        /\ a * g[T] = a * s[h] + a * g[U]
        /\ c * k[T] = c * o[h] + c * k[U]
    BY <2>2, <2>3, <2>4
  <2>6. f[T] \in Nat /\ g[T] \in Nat /\ k[T] \in Nat
    BY <2>2, <2>3, <2>4
  <2>7. /\ d * r[h] \in Nat /\ d * f[U] \in Nat /\ a * s[h] \in Nat
        /\ a * g[U] \in Nat /\ c * o[h] \in Nat /\ c * k[U] \in Nat
    BY <2>3, <2>4
  <2>8. d * f[T] = a * g[T] + c * k[T]
    BY <2>3, <2>4, <2>5, <2>7
  <2> QED
    BY <2>6, <2>8
<1>6. S \in I
  <2>1. SUBSET S \subseteq I
    <3> HIDE DEF I
    <3> QED
      BY <1>4, <1>5, SubsetInduction
  <2> QED
    BY <2>1
<1> QED
  BY <1>1, <1>2, <1>3, <1>6 DEF EqualSums

\* A factor of each number is a factor of the sum.
LEMMA SumScaled ==
  ASSUME NEW S, IsFiniteSet(S), NEW f \in [S -> Nat], NEW g \in [S -> Nat], NEW c \in Nat,
         \A e \in S : g[e] = c * f[e]
  PROVE  /\ SumFunctionOnSet(f, S) \in Nat /\ SumFunctionOnSet(g, S) \in Nat
         /\ SumFunctionOnSet(g, S) = c * SumFunctionOnSet(f, S)
<1>1. PICK x \in Nat, y \in Nat : x = SumFunctionOnSet(f, S) /\ y = SumFunctionOnSet(g, S)
  <2>1. SumFunctionOnSet(f, S) \in Nat /\ SumFunctionOnSet(g, S) \in Nat
    BY SumIsNat
  <2> QED
    BY <2>1
<1>2. Equal(1, g, c, f, 0, f, S)
  <2> SUFFICES ASSUME NEW e \in S PROVE 1 * g[e] = c * f[e] + 0 * f[e]
    BY DEF Equal
  <2>1. g[e] \in Nat /\ f[e] \in Nat /\ c * f[e] \in Nat /\ g[e] = c * f[e]
    OBVIOUS
  <2> QED
    BY <2>1
<1>3. EqualSums(1, g, c, f, 0, f, S)
  <2>1. 0 \in Nat /\ 1 \in Nat
    OBVIOUS
  <2> QED
    BY <1>2, <2>1, SumEquation
<1>4. 1 * y = c * x + 0 * x
  BY <1>1, <1>3 DEF EqualSums
<1>5. y = c * x
  BY <1>4
<1> QED
  BY <1>1, <1>5

-----------------------------------------------------------------------------
(***************************************************************************)
(* Ranks, and whole shares of a number in proportion to weights: the       *)
(* quotients, and one more for the largest remainders.                     *)
(***************************************************************************)
\* A relation that orders a set, each pair one way or the other.
Orders(before, S) ==
  /\ before \in SUBSET (S \X S)
  /\ \A e \in S : <<e, e>> \notin before
  /\ \A d, e, f \in S : <<d, e>> \in before /\ <<e, f>> \in before => <<d, f>> \in before
  /\ \A e, f \in S : e # f => <<e, f>> \in before \/ <<f, e>> \in before

\* How many come before an element.
Rank(before, S, e) == Cardinality({f \in S : <<f, e>> \in before})

\* What comes later has a larger rank.
LEMMA RankGrows ==
  ASSUME NEW S, IsFiniteSet(S), NEW before, Orders(before, S),
         NEW e \in S, NEW f \in S, <<e, f>> \in before
  PROVE  Rank(before, S, e) \in Nat /\ Rank(before, S, f) \in Nat /\ Rank(before, S, e) < Rank(before, S, f)
<1> DEFINE A == {d \in S : <<d, e>> \in before}
           B == {d \in S : <<d, f>> \in before}
<1>1. A \in SUBSET S /\ B \in SUBSET S /\ e \notin A /\ A \cup {e} \in SUBSET B
  BY DEF Orders
<1> HIDE DEF A, B
<1>2. IsFiniteSet(A) /\ IsFiniteSet(B)
  BY <1>1, FS_Subset
<1>3. Cardinality(A \cup {e}) = Cardinality(A) + 1
  BY <1>1, <1>2, FS_AddElement
<1>4. Cardinality(A \cup {e}) <= Cardinality(B)
  BY <1>1, <1>2, FS_Subset
<1>5. PICK a \in Nat, b \in Nat : a = Cardinality(A) /\ b = Cardinality(B)
  BY <1>2, FS_CardinalityType
<1>6. a < b
  BY <1>3, <1>4, <1>5
<1> QED
  BY <1>5, <1>6 DEF Rank, A, B

\* The ranks of n elements are the numbers below n, each of them once.
LEMMA RanksAreNumbers ==
  ASSUME NEW S, IsFiniteSet(S), NEW before, Orders(before, S)
  PROVE  /\ \A e \in S : Rank(before, S, e) \in Nat /\ Rank(before, S, e) < Cardinality(S)
         /\ \A e, f \in S : Rank(before, S, e) = Rank(before, S, f) => e = f
         /\ \A i \in 0..(Cardinality(S) - 1) : \E e \in S : Rank(before, S, e) = i
<1>1. PICK n \in Nat : n = Cardinality(S)
  BY FS_CardinalityType
<1> DEFINE R(e) == Rank(before, S, e)
           g == [e \in S |-> R(e)]
<1>2. ASSUME NEW e \in S PROVE R(e) \in Nat /\ R(e) < n
  <2> DEFINE A == {d \in S : <<d, e>> \in before}
  <2>1. A \in SUBSET S /\ A \in SUBSET (S \ {e})
    BY DEF Orders
  <2> HIDE DEF A
  <2>2. IsFiniteSet(S \ {e}) /\ Cardinality(S \ {e}) = n - 1
    BY <1>1, FS_RemoveElement
  <2>3. IsFiniteSet(A) /\ Cardinality(A) <= n - 1
    BY <2>1, <2>2, FS_Subset
  <2>4. PICK a \in Nat : a = Cardinality(A)
    BY <2>3, FS_CardinalityType
  <2>5. a < n
    BY <1>1, <2>3, <2>4
  <2> QED
    BY <2>4, <2>5 DEF Rank, A
<1>3. ASSUME NEW e \in S, NEW f \in S, R(e) = R(f) PROVE e = f
  <2>1. e # f => R(e) < R(f) \/ R(f) < R(e)
    BY RankGrows DEF Orders
  <2>2. R(e) \in Nat /\ R(f) \in Nat
    BY <1>2
  <2> QED
    BY <1>3, <2>1, <2>2
<1> HIDE DEF R
<1>4. g \in Injection(S, 0..(n - 1))
  <2>1. g \in [S -> 0..(n - 1)]
    BY <1>1, <1>2
  <2>2. \A e, f \in S : g[e] = g[f] => e = f
    BY <1>3
  <2> QED
    BY <2>1, <2>2 DEF Injection, IsInjective
<1>5. IsFiniteSet(0..(n - 1)) /\ Cardinality(0..(n - 1)) = n
  <2>1. 0 \in Int /\ n - 1 \in Int
    BY <1>1
  <2>2. IsFiniteSet(0..(n - 1)) /\ Cardinality(0..(n - 1)) = IF 0 > n - 1 THEN 0 ELSE (n - 1) - 0 + 1
    BY ONLY <2>1, FS_Interval, Zenon
  <2>3. (IF 0 > n - 1 THEN 0 ELSE (n - 1) - 0 + 1) = n
    BY <1>1
  <2> QED
    BY <2>2, <2>3
<1>6. g \in Surjection(S, 0..(n - 1))
  <2>1. Cardinality(S) = Cardinality(0..(n - 1))
    BY <1>1, <1>5
  <2> HIDE DEF g
  <2> QED
    BY ONLY <1>4, <1>5, <2>1, FS_Injection
<1>7. \A i \in 0..(n - 1) : \E e \in S : R(e) = i
  BY <1>6 DEF Surjection
<1> QED
  BY <1>1, <1>2, <1>3, <1>7 DEF R

\* As many elements have a rank below L as there are numbers below L.
LEMMA RanksBelow ==
  ASSUME NEW S, IsFiniteSet(S), NEW before, Orders(before, S), NEW L \in Nat, L <= Cardinality(S)
  PROVE  Cardinality({e \in S : Rank(before, S, e) < L}) = L
<1>1. PICK n \in Nat : n = Cardinality(S)
  BY FS_CardinalityType
<1> DEFINE R(e) == Rank(before, S, e)
           U == {e \in S : R(e) < L}
           h == [e \in U |-> R(e)]
<1>2. /\ \A e \in S : R(e) \in Nat /\ R(e) < n
      /\ \A e, f \in S : R(e) = R(f) => e = f
      /\ \A i \in 0..(n - 1) : \E e \in S : R(e) = i
  BY <1>1, RanksAreNumbers
<1> HIDE DEF R
<1>3. h \in Bijection(U, 0..(L - 1))
  <2>1. h \in [U -> 0..(L - 1)]
    BY <1>2
  <2>2. \A e, f \in U : h[e] = h[f] => e = f
    BY <1>2
  <2>3. \A i \in 0..(L - 1) : \E e \in U : h[e] = i
    <3> SUFFICES ASSUME NEW i \in 0..(L - 1) PROVE \E e \in U : h[e] = i
      OBVIOUS
    <3>1. i \in 0..(n - 1) /\ i < L
      BY <1>1
    <3>2. PICK e \in S : R(e) = i
      BY <1>2, <3>1
    <3> QED
      BY <3>1, <3>2
  <2> QED
    BY <2>1, <2>2, <2>3 DEF Bijection, Injection, Surjection, IsInjective
<1>4. IsFiniteSet(0..(L - 1)) /\ Cardinality(0..(L - 1)) = L
  <2>1. 0 \in Int /\ L - 1 \in Int
    OBVIOUS
  <2>2. IsFiniteSet(0..(L - 1)) /\ Cardinality(0..(L - 1)) = IF 0 > L - 1 THEN 0 ELSE (L - 1) - 0 + 1
    BY ONLY <2>1, FS_Interval, Zenon
  <2>3. (IF 0 > L - 1 THEN 0 ELSE (L - 1) - 0 + 1) = L
    OBVIOUS
  <2> QED
    BY <2>2, <2>3
<1>5. IsFiniteSet(U)
  <2>1. U \in SUBSET S
    OBVIOUS
  <2> HIDE DEF U
  <2> QED
    BY <2>1, FS_Subset
<1>6. ExistsBijection(U, 0..(L - 1))
  BY <1>3 DEF ExistsBijection
<1> HIDE DEF U
<1>7. Cardinality(U) = L
  BY ONLY <1>4, <1>5, <1>6, FS_Bijection
<1> QED
  BY <1>7 DEF U, R

\* Division of whole numbers.
LEMMA Division ==
  ASSUME NEW a \in Nat, NEW d \in Nat, d >= 1
  PROVE  a \div d \in Nat /\ a % d \in Nat /\ a % d <= d - 1 /\ a = d * (a \div d) + (a % d)
OBVIOUS

\* A larger number has a larger quotient, or the same and no smaller a remainder.
LEMMA DivisionGrows ==
  ASSUME NEW d \in Nat, d >= 1, NEW p \in Nat, NEW q \in Nat, NEW x \in Nat, NEW y \in Nat,
         x <= d - 1, y <= d - 1, d * p + x <= d * q + y
  PROVE  p < q \/ (p = q /\ x <= y)
<1>1. CASE p > q
  <2>1. PICK j \in Nat : p = q + 1 + j
    <3>1. p - q - 1 \in Nat /\ p = q + 1 + (p - q - 1)
      BY <1>1
    <3> QED
      BY <3>1
  <2>2. d * p = d * q + d + d * j /\ d * j \in Nat /\ d * q \in Nat
    BY <2>1
  <2> QED
    BY <2>2
<1>2. CASE p = q
  <2>1. d * p = d * q /\ d * q \in Nat
    BY <1>2
  <2>2. x <= y
    BY <2>1
  <2> QED
    BY <1>2, <2>2
<1> QED
  BY <1>1, <1>2

\* What is left over after n divisions by d is less than n.
LEMMA FewLeft ==
  ASSUME NEW d \in Nat, d >= 1, NEW n \in Nat, n >= 1, NEW l \in Int, NEW t \in Nat,
         d * l = t, t <= (d - 1) * n
  PROVE  l \in Nat /\ l < n
<1>1. l >= 0
  <2> SUFFICES ASSUME l < 0 PROVE FALSE
    OBVIOUS
  <2>1. PICK m \in Nat : l = -(m + 1)
    <3>1. -l - 1 \in Nat /\ l = -((-l - 1) + 1)
      OBVIOUS
    <3> QED
      BY <3>1
  <2>2. d * l = -(d * m + d) /\ d * m \in Nat
    BY <2>1
  <2> QED
    BY <2>2
<1>2. l < n
  <2> SUFFICES ASSUME l >= n PROVE FALSE
    BY <1>1
  <2>1. l \in Nat
    BY <1>1
  <2>2. d * l \in Nat /\ n * d <= l * d
    BY <2>1, TimesMonotone
  <2>3. n * d = (d - 1) * n + n /\ l * d = d * l
    BY <2>1
  <2> QED
    BY <2>2, <2>3
<1> QED
  BY <1>1, <1>2

\* R in proportion to w, whose sum is W, and what the rounding leaves of each.
Quotients(w, R, W, S) == [e \in S |-> (R * w[e]) \div W]
Remainders(w, R, W, S) == [e \in S |-> (R * w[e]) % W]

LargerFirst(rest, S) ==
  {p \in S \X S : rest[p[1]] > rest[p[2]] \/ (rest[p[1]] = rest[p[2]] /\ p[1] < p[2])}

\* R in proportion to w: the quotients, and one more for as many elements as the
\* rounding leaves, those of the largest remainders.
LargestShares(w, R, S) ==
  LET W == SumFunctionOnSet(w, S)
      base == Quotients(w, R, W, S)
      order == LargerFirst(Remainders(w, R, W, S), S)
      left == R - SumFunctionOnSet(base, S)
  IN  [e \in S |-> base[e] + (IF Rank(order, S, e) < left THEN 1 ELSE 0)]

\* Ties are broken by the number of the element.
LEMMA LargerFirstOrders ==
  ASSUME NEW S \in SUBSET Int, NEW rest \in [S -> Nat]
  PROVE  Orders(LargerFirst(rest, S), S)
<1>1. \A e, f \in S : <<e, f>> \in LargerFirst(rest, S)
        <=> rest[e] > rest[f] \/ (rest[e] = rest[f] /\ e < f)
  BY DEF LargerFirst
<1>2. \A e \in S : rest[e] \in Nat /\ e \in Int
  OBVIOUS
<1>3. LargerFirst(rest, S) \in SUBSET (S \X S)
  BY DEF LargerFirst
<1>4. \A e \in S : <<e, e>> \notin LargerFirst(rest, S)
  BY <1>1, <1>2
<1>5. ASSUME NEW d \in S, NEW e \in S, NEW f \in S,
             <<d, e>> \in LargerFirst(rest, S), <<e, f>> \in LargerFirst(rest, S)
      PROVE  <<d, f>> \in LargerFirst(rest, S)
  BY <1>1, <1>2, <1>5
<1>6. ASSUME NEW e \in S, NEW f \in S, e # f
      PROVE  <<e, f>> \in LargerFirst(rest, S) \/ <<f, e>> \in LargerFirst(rest, S)
  BY <1>1, <1>2, <1>6
<1> QED
  BY <1>3, <1>4, <1>5, <1>6 DEF Orders

\* The shares are whole, add up to R, and are no smaller for a larger weight.
LEMMA LargestSharesAddUp ==
  ASSUME NEW S \in SUBSET Int, IsFiniteSet(S), S # {}, NEW w \in [S -> Nat],
         \A e \in S : w[e] >= 1, NEW R \in Nat
  PROVE  /\ LargestShares(w, R, S) \in [S -> Nat]
         /\ SumFunctionOnSet(LargestShares(w, R, S), S) = R
         /\ \A e, f \in S : w[e] > w[f] => LargestShares(w, R, S)[e] >= LargestShares(w, R, S)[f]
<1> DEFINE W == SumFunctionOnSet(w, S)
           base == Quotients(w, R, W, S)
           rest == Remainders(w, R, W, S)
           order == LargerFirst(rest, S)
           left == R - SumFunctionOnSet(base, S)
           U == {e \in S : Rank(order, S, e) < left}
           extra == [e \in S |-> IF e \in U THEN 1 ELSE 0]
           one == [e \in S |-> 1]
           share == LargestShares(w, R, S)
<1>1. PICK n \in Nat : n = Cardinality(S) /\ n >= 1
  BY FS_CardinalityType, FS_EmptySet
<1>2. one \in [S -> Nat] /\ SumFunctionOnSet(one, S) = n
  <2>1. PICK all \in SUBSET S : all = S
    OBVIOUS
  <2>2. one \in [S -> Nat] /\ (\A e \in all : one[e] = 1) /\ \A e \in S \ all : one[e] = 0
    BY <2>1
  <2> HIDE DEF one
  <2>3. SumFunctionOnSet(one, S) = Cardinality(all)
    BY ONLY IsFiniteSet(S), all \in SUBSET S, <2>2, SumOfOnes
  <2> QED
    BY <1>1, <2>1, <2>2, <2>3
<1>3. W \in Nat /\ W >= 1
  <2>1. AtMost(1, one, 1, w, 0, w, S)
    <3> SUFFICES ASSUME NEW e \in S PROVE 1 * one[e] <= 1 * w[e] + 0 * w[e]
      BY DEF AtMost
    <3>1. w[e] \in Nat /\ w[e] >= 1 /\ one[e] = 1
      OBVIOUS
    <3> HIDE DEF one
    <3> QED
      BY <3>1
  <2>2. 0 \in Nat /\ 1 \in Nat
    OBVIOUS
  <2> HIDE DEF one, W
  <2>3. SumFunctionOnSet(w, S) \in Nat /\ SumsAtMost(1, one, 1, w, 0, w, S)
    BY ONLY IsFiniteSet(S), <1>2, <2>1, <2>2, w \in [S -> Nat], SumBound, SumIsNat
  <2>4. W \in Nat /\ 1 * n <= 1 * W + 0 * W
    BY <1>2, <2>3 DEF W, SumsAtMost
  <2> QED
    BY <1>1, <2>4
<1> HIDE DEF W, one
<1>4. /\ base \in [S -> Nat] /\ rest \in [S -> Nat]
      /\ \A e \in S : /\ R * w[e] \in Nat /\ w[e] \in Nat /\ base[e] \in Nat /\ rest[e] \in Nat
                      /\ rest[e] <= W - 1 /\ R * w[e] = W * base[e] + rest[e]
  <2>1. ASSUME NEW e \in S
        PROVE  /\ base[e] \in Nat /\ rest[e] \in Nat /\ rest[e] <= W - 1 /\ R * w[e] = W * base[e] + rest[e]
               /\ R * w[e] \in Nat /\ w[e] \in Nat
    <3>1. w[e] \in Nat
      OBVIOUS
    <3>2. PICK a \in Nat : a = R * w[e]
      BY <3>1
    <3>3. base[e] = a \div W /\ rest[e] = a % W
      BY <3>2 DEF Quotients, Remainders
    <3>4. a \div W \in Nat /\ a % W \in Nat /\ a % W <= W - 1 /\ a = W * (a \div W) + (a % W)
      BY ONLY <1>3, a \in Nat, Division
    <3> HIDE DEF base, rest
    <3> QED
      BY <3>1, <3>2, <3>3, <3>4
  <2>2. base = [e \in S |-> base[e]] /\ rest = [e \in S |-> rest[e]]
    BY DEF Quotients, Remainders
  <2> HIDE DEF base, rest
  <2> QED
    BY <2>1, <2>2
<1>5. Orders(order, S)
  <2> HIDE DEF rest
  <2> QED
    BY <1>4, LargerFirstOrders
<1>6. \A e, f \in S : <<e, f>> \in order <=> rest[e] > rest[f] \/ (rest[e] = rest[f] /\ e < f)
  <2> HIDE DEF rest
  <2> QED
    BY DEF LargerFirst
<1>7. \A e \in S : share[e] = base[e] + (IF Rank(order, S, e) < left THEN 1 ELSE 0)
  BY DEF LargestShares, W
<1>8. share = [e \in S |-> share[e]]
  BY DEF LargestShares
<1> HIDE DEF base, rest, order, share
<1>9. PICK B \in Nat, T \in Nat : /\ B = SumFunctionOnSet(base, S) /\ T = SumFunctionOnSet(rest, S)
                                  /\ T <= (W - 1) * n
  <2>1. AtMost(1, rest, W - 1, one, 0, base, S)
    <3> SUFFICES ASSUME NEW e \in S PROVE 1 * rest[e] <= (W - 1) * one[e] + 0 * base[e]
      BY DEF AtMost
    <3>1. one[e] = 1 /\ rest[e] \in Nat /\ base[e] \in Nat /\ rest[e] <= W - 1
      BY <1>4 DEF one
    <3> QED
      BY ONLY <1>3, <3>1
  <2>2. 0 \in Nat /\ 1 \in Nat /\ W - 1 \in Nat /\ rest \in [S -> Nat] /\ base \in [S -> Nat]
    BY <1>3, <1>4
  <2>3. /\ SumFunctionOnSet(rest, S) \in Nat /\ SumFunctionOnSet(base, S) \in Nat
        /\ SumsAtMost(1, rest, W - 1, one, 0, base, S)
    BY ONLY IsFiniteSet(S), <1>2, <2>1, <2>2, SumBound, SumIsNat
  <2>4. PICK B \in Nat, T \in Nat : B = SumFunctionOnSet(base, S) /\ T = SumFunctionOnSet(rest, S)
    BY <2>3
  <2>5. 1 * T <= (W - 1) * n + 0 * B
    BY <1>2, <2>3, <2>4 DEF SumsAtMost
  <2>6. (W - 1) * n \in Nat
    BY <2>2
  <2> QED
    BY <2>4, <2>5, <2>6
<1>10. R * W = W * B + T
  <2>1. Equal(R, w, W, base, 1, rest, S)
    <3> SUFFICES ASSUME NEW e \in S PROVE R * w[e] = W * base[e] + 1 * rest[e]
      BY DEF Equal
    <3>1. rest[e] \in Nat /\ R * w[e] = W * base[e] + rest[e]
      BY <1>4
    <3> QED
      BY ONLY <3>1
  <2>2. 1 \in Nat /\ W \in Nat /\ base \in [S -> Nat] /\ rest \in [S -> Nat]
    BY <1>3, <1>4
  <2>3. EqualSums(R, w, W, base, 1, rest, S)
    BY ONLY IsFiniteSet(S), w \in [S -> Nat], R \in Nat, <2>1, <2>2, SumEquation
  <2>4. R * W = W * B + 1 * T
    BY <1>9, <2>3 DEF W, EqualSums
  <2> QED
    BY <2>4
<1>11. left \in Nat /\ left < n /\ left = R - B
  <2>1. left = R - B
    BY <1>9
  <2>2. PICK l \in Int : l = R - B
    OBVIOUS
  <2>3. W * l = T
    <3>1. R = l + B
      BY <2>2
    <3>2. R * W = W * l + W * B
      BY ONLY <1>3, <3>1, l \in Int, B \in Nat
    <3>3. W * l \in Int /\ W * B \in Nat
      BY <1>3
    <3> QED
      BY <1>10, <3>2, <3>3
  <2>4. l \in Nat /\ l < n
    BY ONLY <1>1, <1>3, <1>9, <2>3, l \in Int, FewLeft
  <2> QED
    BY <2>1, <2>2, <2>4
<1> HIDE DEF left
<1>12. extra \in [S -> Nat] /\ SumFunctionOnSet(extra, S) = left
  <2>1. left <= Cardinality(S)
    BY <1>1, <1>11
  <2>2. Cardinality(U) = left
    BY <1>5, <1>11, <2>1, RanksBelow
  <2>3. U \in SUBSET S
    OBVIOUS
  <2> HIDE DEF U
  <2>4. extra \in [S -> Nat] /\ (\A e \in U : extra[e] = 1) /\ \A e \in S \ U : extra[e] = 0
    BY <2>3
  <2> HIDE DEF extra
  <2>5. SumFunctionOnSet(extra, S) = Cardinality(U)
    BY ONLY IsFiniteSet(S), <2>3, <2>4, SumOfOnes
  <2> QED
    BY <2>2, <2>4, <2>5
<1>13. \A e \in S : share[e] = base[e] + extra[e] /\ extra[e] \in 0..1
  <2> SUFFICES ASSUME NEW e \in S PROVE share[e] = base[e] + extra[e] /\ extra[e] \in 0..1
    OBVIOUS
  <2>1. e \in U <=> Rank(order, S, e) < left
    OBVIOUS
  <2> HIDE DEF U
  <2> QED
    BY <1>7, <2>1
<1>14. \A e, f \in S : <<e, f>> \in order => extra[f] <= extra[e]
  <2> SUFFICES ASSUME NEW e \in S, NEW f \in S, <<e, f>> \in order PROVE extra[f] <= extra[e]
    OBVIOUS
  <2>1. Rank(order, S, e) \in Nat /\ Rank(order, S, f) \in Nat /\ Rank(order, S, e) < Rank(order, S, f)
    BY <1>5, RankGrows
  <2>2. f \in U => e \in U
    BY <1>11, <2>1
  <2> HIDE DEF U
  <2> QED
    BY <2>2
<1>15. left = 0 => \A e \in S : extra[e] = 0
  <2> SUFFICES ASSUME left = 0, NEW e \in S PROVE extra[e] = 0
    OBVIOUS
  <2>1. Rank(order, S, e) \in Nat
    <3> DEFINE A == {f \in S : <<f, e>> \in order}
    <3>1. A \in SUBSET S
      OBVIOUS
    <3> HIDE DEF A
    <3>2. Cardinality(A) \in Nat
      BY <3>1, FS_Subset, FS_CardinalityType
    <3> QED
      BY <3>2 DEF Rank, A
  <2>2. e \notin U
    BY <2>1
  <2> HIDE DEF U
  <2> QED
    BY <2>2
<1> HIDE DEF extra, U
<1>16. share \in [S -> Nat]
  <2>1. \A e \in S : share[e] \in Nat
    BY <1>4, <1>13
  <2> QED
    BY <1>8, <2>1
<1>17. SumFunctionOnSet(share, S) = R
  <2>1. Equal(1, share, 1, base, 1, extra, S)
    <3> SUFFICES ASSUME NEW e \in S PROVE 1 * share[e] = 1 * base[e] + 1 * extra[e]
      BY DEF Equal
    <3>1. share[e] = base[e] + extra[e] /\ base[e] \in Nat /\ extra[e] \in 0..1
      BY <1>4, <1>13
    <3> QED
      BY ONLY <3>1
  <2>2. 1 \in Nat /\ base \in [S -> Nat] /\ extra \in [S -> Nat] /\ share \in [S -> Nat]
    BY <1>4, <1>12, <1>16
  <2>3. EqualSums(1, share, 1, base, 1, extra, S)
    BY ONLY IsFiniteSet(S), <2>1, <2>2, SumEquation
  <2>4. SumFunctionOnSet(share, S) \in Nat
    BY ONLY IsFiniteSet(S), <1>16, SumIsNat
  <2>5. PICK s \in Nat : s = SumFunctionOnSet(share, S)
    BY <2>4
  <2>6. 1 * s = 1 * B + 1 * left
    BY <1>9, <1>12, <2>3, <2>5 DEF EqualSums
  <2>7. s = R
    BY <1>11, <2>6
  <2> QED
    BY <2>5, <2>7
<1>18. ASSUME NEW e \in S, NEW f \in S, w[e] > w[f] PROVE share[e] >= share[f]
  <2>1. /\ base[e] \in Nat /\ base[f] \in Nat /\ rest[e] \in Nat /\ rest[f] \in Nat
        /\ extra[e] \in 0..1 /\ extra[f] \in 0..1
        /\ share[e] = base[e] + extra[e] /\ share[f] = base[f] + extra[f]
    BY <1>4, <1>13
  <2>2. W * base[f] + rest[f] <= W * base[e] + rest[e]
    <3>1. w[f] \in Nat /\ w[e] \in Nat /\ w[f] <= w[e]
      BY <1>4, <1>18
    <3>2. w[f] * R <= w[e] * R
      BY ONLY <3>1, R \in Nat, TimesMonotone
    <3>3. w[f] * R = R * w[f] /\ w[e] * R = R * w[e]
      BY ONLY <3>1, R \in Nat
    <3>4. R * w[f] = W * base[f] + rest[f] /\ R * w[e] = W * base[e] + rest[e]
      BY <1>4
    <3> QED
      BY <3>2, <3>3, <3>4
  <2>3. base[f] < base[e] \/ (base[f] = base[e] /\ rest[f] <= rest[e])
    <3>1. rest[e] <= W - 1 /\ rest[f] <= W - 1
      BY <1>4
    <3> QED
      BY ONLY <1>3, <2>1, <2>2, <3>1, DivisionGrows
  <2>4. CASE base[f] < base[e]
    BY <2>1, <2>4
  <2>5. CASE base[f] = base[e] /\ rest[f] < rest[e]
    <3>1. <<e, f>> \in order
      BY <1>6, <2>5
    <3>2. extra[f] <= extra[e]
      BY <1>14, <3>1
    <3> QED
      BY <2>1, <2>5, <3>2
  <2>6. CASE base[f] = base[e] /\ rest[f] = rest[e]
    <3>1. R * w[e] = R * w[f]
      BY <1>4, <2>6
    <3>2. R = 0
      <4>1. PICK x \in Nat, y \in Nat : x = w[e] /\ y = w[f] /\ x > y
        BY <1>4, <1>18
      <4>2. R * x = R * y
        BY <3>1, <4>1
      <4>3. PICK j \in Nat : x = y + j /\ j >= 1
        <5>1. x - y \in Nat /\ x = y + (x - y) /\ x - y >= 1
          BY <4>1
        <5> QED
          BY <5>1
      <4>4. R * x = R * y + R * j /\ R * j \in Nat /\ R * y \in Nat
        BY <4>3
      <4>5. R * j = 0
        BY <4>2, <4>4
      <4>6. R >= 1 => R * j >= 1
        BY ONLY <4>3, R \in Nat, TimesPositive
      <4> QED
        BY <4>5, <4>6
    <3>3. left = 0
      BY <1>11, <3>2
    <3>4. extra[e] = 0 /\ extra[f] = 0
      BY <1>15, <3>3
    <3> QED
      BY <2>1, <2>6, <3>4
  <2> QED
    BY <2>1, <2>3, <2>4, <2>5, <2>6
<1> QED
  BY <1>16, <1>17, <1>18 DEF share

=============================================================================
