-------------------------- MODULE RecursionProofs --------------------------
(***************************************************************************)
(* Loops of the code that are recursive functions here.  Nothing is known  *)
(* of such a function before one is shown to exist.                        *)
(***************************************************************************)
EXTENDS Integers, SequencesExt, WellFoundedInduction, TLAPS

\* A non-empty set of offsets has a least one.
LEMMA LeastOffset ==
  ASSUME NEW S \in SUBSET Nat, S # {}
  PROVE  \E m \in S : \A n \in S : m <= n
<1> DEFINE Less == {p \in Nat \X Nat : p[1] < p[2]}
<1>1. IsWellFoundedOn(Less, Nat)
  BY NatLessThanWellFounded DEF OpToRel
<1> HIDE DEF Less
<1>2. \E m \in S : \A n \in S : <<n, m>> \notin Less
  BY <1>1, WFMin
<1>3. \A m, n \in Nat : <<n, m>> \notin Less => m <= n
  BY DEF Less
<1> QED BY <1>2, <1>3

\* Induction up to a bound.
LEMMA UpTo ==
  ASSUME NEW n \in Nat, NEW G, 0 \in G, \A i \in 1 .. n : i - 1 \in G => i \in G
  PROVE  \A i \in 0 .. n : i \in G
<1> DEFINE Missing == {i \in 0 .. n : i \notin G}
<1> SUFFICES ASSUME Missing # {} PROVE FALSE
  OBVIOUS
<1>1. Missing \in SUBSET Nat
  OBVIOUS
<1>2. PICK m \in Missing : \A k \in Missing : m <= k
  <2> HIDE DEF Missing
  <2> QED BY <1>1, LeastOffset
<1>3. m # 0 /\ m \in 0 .. n /\ m \notin G
  BY <1>2
<1>4. m - 1 \in 0 .. n /\ m - 1 \notin Missing /\ m \in 1 .. n
  BY <1>2, <1>3
<1> QED BY <1>3, <1>4

\* Induction down from a bound.
LEMMA DownFrom ==
  ASSUME NEW n \in Nat, NEW G, n \in G,
         \A i \in 0 .. n - 1 : (\A j \in i + 1 .. n : j \in G) => i \in G
  PROVE  \A i \in 0 .. n : i \in G
<1> DEFINE Missing == {k \in 0 .. n : n - k \notin G}
<1> SUFFICES ASSUME Missing # {} PROVE FALSE
  <2> SUFFICES ASSUME NEW i \in 0 .. n, i \notin G PROVE FALSE
    OBVIOUS
  <2>1. n - i \in 0 .. n /\ n - (n - i) = i
    OBVIOUS
  <2>2. n - i \in Missing
    BY <2>1
  <2> HIDE DEF Missing
  <2> QED BY <2>2
<1>1. Missing \in SUBSET Nat
  OBVIOUS
<1>2. PICK m \in Missing : \A k \in Missing : m <= k
  <2> HIDE DEF Missing
  <2> QED BY <1>1, LeastOffset
<1>3. m \in 0 .. n /\ n - m \notin G /\ m # 0
  BY <1>2
<1>4. n - m \in 0 .. n - 1
  BY <1>3
<1>5. ASSUME NEW j \in (n - m) + 1 .. n
      PROVE  j \in G
  <2>1. n - j \in 0 .. n /\ n - j < m /\ n - (n - j) = j
    BY <1>3
  <2>2. n - j \notin Missing
    BY <1>2, <1>3, <2>1
  <2> QED BY <2>1, <2>2
<1> QED BY <1>3, <1>4, <1>5

\* g answers at x what it answers at the next place, as long as the loop goes on.
Follows(g, S, go, next, out) ==
  /\ g = [x \in S |-> g[x]]
  /\ \A x \in S : g[x] = IF go[x] THEN g[next[x]] ELSE out[x]

\* A loop that moves from a place to the next and answers at its last place
\* is a function, even if it does not end everywhere.
LEMMA TailRecursion ==
  ASSUME NEW S, NEW go, NEW next \in [S -> S], NEW out
  PROVE  \E g : Follows(g, S, go, next, out)
<1> DEFINE Leads(x, n, p) == /\ p \in [0 .. n -> S] /\ p[0] = x /\ ~go[p[n]]
                             /\ \A i \in 0 .. n - 1 : go[p[i]] /\ p[i + 1] = next[p[i]]
           Ends(x) == {y \in S : \E n \in Nat : \E p : Leads(x, n, p) /\ y = p[n]}
           g == [x \in S |-> out[CHOOSE y : y \in Ends(x)]]
<1>1. ASSUME NEW x \in S, ~go[x]
      PROVE  Ends(x) = {x}
  <2>1. x \in Ends(x)
    <3> DEFINE p == [i \in 0 .. 0 |-> x]
    <3>1. Leads(x, 0, p)
      BY <1>1
    <3>2. p[0] = x
      OBVIOUS
    <3> HIDE DEF Leads, p
    <3> QED BY <3>1, <3>2
  <2>2. ASSUME NEW n \in Nat, NEW p, Leads(x, n, p)
        PROVE  p[n] = x
    <3>1. n = 0
      BY <1>1, <2>2
    <3> QED BY <2>2, <3>1
  <2> HIDE DEF Leads
  <2> QED BY <2>1, <2>2
<1>2. ASSUME NEW x \in S, go[x]
      PROVE  Ends(x) = Ends(next[x])
  <2>1. ASSUME NEW n \in Nat, NEW p, Leads(x, n, p)
        PROVE  p[n] \in Ends(next[x])
    <3> DEFINE q == [i \in 0 .. n - 1 |-> p[i + 1]]
    <3>1. n # 0
      BY <1>2, <2>1
    <3>2. n - 1 \in Nat /\ q[n - 1] = p[n] /\ p[n] \in S
      BY <2>1, <3>1
    <3>3. q \in [0 .. n - 1 -> S] /\ q[0] = next[x]
      BY <2>1, <3>1
    <3>4. \A i \in 0 .. n - 2 : go[q[i]] /\ q[i + 1] = next[q[i]]
      BY <2>1
    <3>5. Leads(next[x], n - 1, q)
      BY <2>1, <3>2, <3>3, <3>4
    <3> HIDE DEF Leads, q
    <3> QED BY <3>2, <3>5
  <2>2. ASSUME NEW n \in Nat, NEW p, Leads(next[x], n, p)
        PROVE  p[n] \in Ends(x)
    <3> DEFINE q == [i \in 0 .. n + 1 |-> IF i = 0 THEN x ELSE p[i - 1]]
    <3>1. q[n + 1] = p[n] /\ p[n] \in S
      BY <2>2
    <3>2. q \in [0 .. n + 1 -> S] /\ q[0] = x
      BY <2>2
    <3>3. \A i \in 0 .. n : go[q[i]] /\ q[i + 1] = next[q[i]]
      <4> SUFFICES ASSUME NEW i \in 0 .. n
                   PROVE  go[q[i]] /\ q[i + 1] = next[q[i]]
        OBVIOUS
      <4>1. q[i + 1] = p[i]
        OBVIOUS
      <4>2. CASE i = 0
        BY <1>2, <2>2, <4>1, <4>2
      <4>3. CASE i # 0
        BY <2>2, <4>1, <4>3
      <4> QED BY <4>2, <4>3
    <3>4. ~go[q[n + 1]]
      BY <2>2, <3>1
    <3> HIDE DEF q
    <3>5. (n + 1) - 1 = n
      OBVIOUS
    <3>6. ~go[q[n + 1]] /\ \A i \in 0 .. (n + 1) - 1 : go[q[i]] /\ q[i + 1] = next[q[i]]
      BY <3>4, <3>5, <3>3
    <3>7. Leads(x, n + 1, q)
      BY <3>2, <3>6
    <3> HIDE DEF Leads
    <3> QED BY <3>1, <3>7
  <2> HIDE DEF Leads
  <2> QED BY <2>1, <2>2
<1> HIDE DEF Ends
<1>3. \A x \in S : g[x] = IF go[x] THEN g[next[x]] ELSE out[x]
  <2> SUFFICES ASSUME NEW x \in S
               PROVE  g[x] = IF go[x] THEN g[next[x]] ELSE out[x]
    OBVIOUS
  <2>1. CASE go[x]
    BY <1>2, <2>1
  <2>2. CASE ~go[x]
    BY <1>1, <2>2
  <2> QED BY <2>1, <2>2
<1>4. g = [x \in S |-> g[x]]
  OBVIOUS
<1> HIDE DEF g
<1> QED BY <1>3, <1>4 DEF Follows

\* g starts at 0 with first and goes on to n step by step.
Steps(g, n, V, first, step) ==
  /\ g \in [0 .. n -> V]
  /\ g[0] = first
  /\ \A i \in 1 .. n : g[i] = step[<<i, g[i - 1]>>]

\* A value that is computed step by step from 0 to n is a function.
LEMMA StepByStep ==
  ASSUME NEW V, NEW n \in Nat, NEW first \in V, NEW step \in [(1 .. n) \X V -> V]
  PROVE  \E g : Steps(g, n, V, first, step)
<1> DEFINE Upto(k, h) == /\ h \in [0 .. k -> V] /\ h[0] = first
                         /\ \A i \in 1 .. k : h[i] = step[<<i, h[i - 1]>>]
           Missing == {k \in 0 .. n : ~\E h : Upto(k, h)}
<1>1. Missing = {}
  <2> SUFFICES ASSUME Missing # {} PROVE FALSE
    OBVIOUS
  <2>1. PICK m \in Missing : \A k \in Missing : m <= k
    <3>1. Missing \in SUBSET Nat
      OBVIOUS
    <3> HIDE DEF Missing
    <3> QED BY <3>1, LeastOffset
  <2>2. m # 0
    <3>1. Upto(0, [i \in 0 .. 0 |-> first])
      OBVIOUS
    <3> HIDE DEF Upto
    <3> QED BY <2>1, <3>1
  <2>3. m - 1 \in 0 .. n /\ m - 1 \notin Missing
    BY <2>1, <2>2
  <2>4. PICK h : Upto(m - 1, h)
    BY <2>3
  <2> DEFINE l == [i \in 0 .. m |-> IF i < m THEN h[i] ELSE step[<<m, h[m - 1]>>]]
  <2>5. h[m - 1] \in V
    BY <2>2, <2>4
  <2>6. l \in [0 .. m -> V] /\ l[0] = first
    BY <2>1, <2>2, <2>4, <2>5
  <2>7. ASSUME NEW i \in 1 .. m
        PROVE  l[i] = step[<<i, l[i - 1]>>]
    <3>1. l[i - 1] = h[i - 1]
      BY <2>1
    <3>2. CASE i = m
      BY <2>1, <3>1, <3>2
    <3>3. CASE i # m
      BY <2>1, <2>4, <3>1, <3>3
    <3> QED BY <3>2, <3>3
  <2>8. Upto(m, l)
    BY <2>6, <2>7
  <2> HIDE DEF Upto
  <2> QED BY <2>1, <2>8
<1>2. PICK g : Upto(n, g)
  <2>1. n \in 0 .. n
    OBVIOUS
  <2> HIDE DEF Upto
  <2> QED BY <1>1, <2>1
<1> QED BY <1>2 DEF Steps

\* FlattenSeq joins sequences one by one.
LEMMA FlattenUnfolds ==
  ASSUME NEW s, Len(s) \in Nat, Len(s) # 0
  PROVE  \E u : /\ FlattenSeq(s) = u[Len(s)] /\ u[1] = s[1]
                /\ \A i \in 2 .. Len(s) : u[i] = u[i - 1] \o s[i]
<1> DEFINE n == Len(s)
           Body(f, k) == [i \in 1 .. k |-> IF i = 1 THEN s[1] ELSE f[i - 1] \o s[i]]
           G == {k \in 0 .. n : \E f : f = Body(f, k)}
<1>1. 0 \in G
  <2>1. << >> = Body(<< >>, 0)
    OBVIOUS
  <2> HIDE DEF Body
  <2> QED BY <2>1
<1>2. ASSUME NEW k \in 1 .. n, k - 1 \in G
      PROVE  k \in G
  <2>1. PICK f : f = Body(f, k - 1)
    BY <1>2
  <2> DEFINE g == [i \in 1 .. k |-> IF i < k THEN f[i] ELSE IF i = 1 THEN s[1] ELSE f[i - 1] \o s[i]]
  <2>2. ASSUME NEW i \in 1 .. k
        PROVE  g[i] = IF i = 1 THEN s[1] ELSE g[i - 1] \o s[i]
    <3>1. i # 1 => g[i - 1] = f[i - 1]
      OBVIOUS
    <3>2. CASE i < k
      <4>1. g[i] = f[i] /\ i \in 1 .. k - 1
        BY <3>2
      <4>2. f[i] = IF i = 1 THEN s[1] ELSE f[i - 1] \o s[i]
        BY <2>1, <4>1
      <4> QED BY <3>1, <4>1, <4>2
    <3>3. CASE ~(i < k)
      <4>1. g[i] = IF i = 1 THEN s[1] ELSE f[i - 1] \o s[i]
        BY <3>3
      <4> QED BY <3>1, <4>1
    <3> QED BY <3>2, <3>3
  <2>3. g = Body(g, k)
    <3>1. g = [i \in 1 .. k |-> g[i]]
      OBVIOUS
    <3> HIDE DEF g
    <3> QED BY <2>2, <3>1
  <2> HIDE DEF Body, g
  <2> QED BY <2>3
<1> DEFINE u == CHOOSE f : f = Body(f, n)
<1>3. u = Body(u, n)
  <2>1. n \in G
    <3> HIDE DEF G
    <3>1. \A i \in 0 .. n : i \in G
      BY <1>1, <1>2, UpTo
    <3> QED BY <3>1
  <2> HIDE DEF Body
  <2> QED BY <2>1
<1>4. FlattenSeq(s) = u[n]
  BY DEF FlattenSeq
<1> HIDE DEF u
<1>5. \A i \in 1 .. n : u[i] = IF i = 1 THEN s[1] ELSE u[i - 1] \o s[i]
  BY <1>3
<1>6. 1 \in 1 .. n /\ \A i \in 2 .. n : i \in 1 .. n /\ i # 1
  OBVIOUS
<1> QED BY <1>4, <1>5, <1>6

\* The largest of some offsets.
LEMMA MaxIs ==
  ASSUME NEW n \in Nat, NEW s \in SUBSET (1 .. n), s # {}
  PROVE  Max(s) \in s /\ \A y \in s : y <= Max(s)
<1> DEFINE T == {n - y : y \in s}
<1>1. T \in SUBSET Nat /\ T # {}
  <2>1. \A y \in s : y \in 1 .. n /\ n - y \in Nat
    OBVIOUS
  <2> QED BY <2>1
<1>2. PICK m \in T : \A k \in T : m <= k
  <2> HIDE DEF T
  <2> QED BY <1>1, LeastOffset
<1>3. PICK x \in s : m = n - x
  BY <1>2
<1>4. ASSUME NEW y \in s
      PROVE  x >= y
  <2>1. m <= n - y
    BY <1>2
  <2>2. x \in 1 .. n /\ y \in 1 .. n
    OBVIOUS
  <2> QED BY <1>3, <2>1, <2>2
<1>5. /\ (CHOOSE z \in s : \A y \in s : z >= y) \in s
      /\ \A y \in s : (CHOOSE z \in s : \A y_1 \in s : z >= y_1) >= y
  BY <1>4
<1> QED BY <1>5 DEF Max

LEMMA FirstIndices ==
  ASSUME NEW n \in Nat, NEW k \in 1 .. n
  PROVE  /\ 1 .. k \in SUBSET (1 .. n) /\ 1 .. k # {}
         /\ Max(1 .. k) = k /\ (1 .. k) \ {k} = 1 .. k - 1
<1>1. k \in Nat /\ k \in 1 .. k /\ \A y \in 1 .. k : y \in 1 .. n
  OBVIOUS
<1>2. Max(1 .. k) \in 1 .. k /\ k <= Max(1 .. k)
  BY <1>1, MaxIs
<1>3. Max(1 .. k) = k
  BY <1>2
<1>4. (1 .. k) \ {k} = 1 .. k - 1
  BY <1>1
<1> QED BY <1>1, <1>3, <1>4

\* iter goes over the sets of indices as FoldLeft does, with F for its step.
FoldsUp(iter, n, S, base, F) ==
  /\ iter \in [SUBSET (1 .. n) -> S]
  /\ \A s \in SUBSET (1 .. n) :
       iter[s] = IF s = {} THEN base ELSE F[<<iter[s \ {Max(s)}], Max(s)>>]

LEMMA FoldExists ==
  ASSUME NEW n \in Nat, NEW S, NEW base \in S, NEW F \in [S \X (1 .. n) -> S]
  PROVE  \E iter : FoldsUp(iter, n, S, base, F)
<1> DEFINE Of(iter, s) == IF s = {} THEN base ELSE F[<<iter[s \ {Max(s)}], Max(s)>>]
           Folds(iter, k) == /\ iter \in [SUBSET (1 .. k) -> S]
                             /\ \A s \in SUBSET (1 .. k) : iter[s] = Of(iter, s)
           G == {k \in 0 .. n : \E iter : Folds(iter, k)}
<1>1. 0 \in G
  <2> DEFINE iter == [s \in SUBSET (1 .. 0) |-> base]
  <2>1. SUBSET (1 .. 0) = {{}}
    OBVIOUS
  <2>2. Folds(iter, 0)
    BY <2>1
  <2> HIDE DEF iter, Folds
  <2> QED BY <2>2
<1>2. ASSUME NEW k \in 1 .. n, k - 1 \in G
      PROVE  k \in G
  <2>1. PICK iter : Folds(iter, k - 1)
    BY <1>2
  <2> DEFINE more == [s \in SUBSET (1 .. k) |-> IF k \in s THEN F[<<iter[s \ {k}], k>>] ELSE iter[s]]
  <2>2. ASSUME NEW s \in SUBSET (1 .. k)
        PROVE  s \ {k} \in SUBSET (1 .. k - 1) /\ s \ {k} \in SUBSET (1 .. k) /\ k \notin s \ {k}
    OBVIOUS
  <2>3. ASSUME NEW s \in SUBSET (1 .. k)
        PROVE  more[s] \in S /\ more[s] = Of(more, s)
    <3>1. CASE k \in s
      <4>1. Max(s) = k
        <5>1. Max(s) \in s /\ k <= Max(s)
          <6>1. k \in Nat /\ s # {}
            BY <3>1
          <6> QED BY <3>1, <6>1, MaxIs
        <5>2. Max(s) \in 1 .. k
          BY <5>1
        <5> QED BY <5>1, <5>2
      <4>2. iter[s \ {k}] \in S /\ more[s \ {k}] = iter[s \ {k}]
        BY <2>1, <2>2
      <4>3. <<iter[s \ {k}], k>> \in S \X (1 .. n)
        BY <4>2
      <4>4. F[<<iter[s \ {k}], k>>] \in S
        BY <4>3
      <4>5. more[s] = F[<<iter[s \ {k}], k>>] /\ Of(more, s) = F[<<more[s \ {k}], k>>]
        BY <3>1, <4>1
      <4> QED BY <4>2, <4>4, <4>5
    <3>2. CASE k \notin s
      <4>1. s \in SUBSET (1 .. k - 1) /\ s \ {Max(s)} \in SUBSET (1 .. k) /\ k \notin s \ {Max(s)}
        <5>1. \A i \in s : i \in 1 .. k - 1
          BY <3>2
        <5> QED BY <3>2, <5>1
      <4>2. more[s] = iter[s] /\ more[s \ {Max(s)}] = iter[s \ {Max(s)}]
        BY <3>2, <4>1
      <4>3. iter[s] \in S /\ iter[s] = Of(iter, s)
        BY <2>1, <4>1
      <4> QED BY <4>2, <4>3
    <3> QED BY <3>1, <3>2
  <2>4. more \in [SUBSET (1 .. k) -> S]
    BY <2>3
  <2> HIDE DEF more
  <2>5. Folds(more, k)
    BY <2>3, <2>4
  <2> HIDE DEF Folds
  <2> QED BY <2>5
<1>3. n \in G
  <2> HIDE DEF G
  <2>1. \A k \in 0 .. n : k \in G
    BY <1>1, <1>2, UpTo
  <2> QED BY <2>1
<1> QED BY <1>3 DEF FoldsUp

=============================================================================
