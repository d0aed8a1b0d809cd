---------------------------- MODULE WriterProofs ----------------------------
(***************************************************************************)
(* What the writer gives the readers, for every value, row and name: a     *)
(* value that write_value spells is the value that is read back, and the   *)
(* bytes of a call are one commit, whatever is in them.                    *)
(***************************************************************************)
EXTENDS Builder, ScanProofs

-----------------------------------------------------------------------------
(* The inside of a text. *)

Spelled(x) == IF IsTextEscaped(x) THEN <<DLE, x>> ELSE <<x>>

\* What write_value puts between STX and ETX.
Spelling(v) ==
  FlattenSeq([i \in DOMAIN v |-> IF IsTextEscaped(v[i]) THEN <<DLE, v[i]>> ELSE <<v[i]>>])

\* The byte x stands in s from p to q.
SpelledAt(x, s, p, q) ==
  IF IsTextEscaped(x) THEN q = p + 2 /\ At(s, p) = DLE /\ At(s, p + 1) = x
  ELSE q = p + 1 /\ At(s, p) = x

\* s spells the first k bytes of v, and the i-th of them ends at off[i].
Spells(v, s, k, off) ==
  /\ s \in Seq(Byte)
  /\ off \in [0 .. k -> Nat]
  /\ off[0] = 0 /\ off[k] = Len(s)
  /\ \A i \in 1 .. k : off[i] <= Len(s) /\ SpelledAt(v[i], s, off[i - 1], off[i])

LEMMA SpelledIs ==
  ASSUME NEW x \in Byte
  PROVE  /\ Spelled(x) \in Seq(Byte)
         /\ IsTextEscaped(x) => /\ Len(Spelled(x)) = 2
                                /\ Spelled(x)[1] = DLE /\ Spelled(x)[2] = x
         /\ ~IsTextEscaped(x) => Len(Spelled(x)) = 1 /\ Spelled(x)[1] = x
<1>1. DLE \in Byte
  BY DEF DLE, Byte
<1>2. CASE IsTextEscaped(x)
  BY <1>1, <1>2 DEF Spelled
<1>3. CASE ~IsTextEscaped(x)
  BY <1>3 DEF Spelled
<1> QED BY <1>2, <1>3

LEMMA SpellsMore ==
  ASSUME NEW v \in Seq(Byte), NEW k \in 1 .. Len(v), NEW s, NEW off,
         Spells(v, s, k - 1, off)
  PROVE  \E o : Spells(v, s \o Spelled(v[k]), k, o)
<1> DEFINE x == v[k]
           w == Spelled(x)
           t == s \o w
           o == [i \in 0 .. k |-> IF i < k THEN off[i] ELSE Len(s) + Len(w)]
<1>1. /\ x \in Byte /\ w \in Seq(Byte) /\ s \in Seq(Byte)
      /\ IsTextEscaped(x) => Len(w) = 2 /\ w[1] = DLE /\ w[2] = x
      /\ ~IsTextEscaped(x) => Len(w) = 1 /\ w[1] = x
  <2>1. x \in Byte
    OBVIOUS
  <2> QED BY <2>1, SpelledIs DEF Spells
<1> HIDE DEF w, x
<1>2. /\ t \in Seq(Byte) /\ Len(t) = Len(s) + Len(w)
      /\ \A q \in 0 .. Len(s) - 1 : At(t, q) = At(s, q)
      /\ \A q \in 0 .. Len(w) - 1 : At(t, Len(s) + q) = w[q + 1]
  BY <1>1 DEF At
<1> HIDE DEF t
<1>3. /\ off \in [0 .. k - 1 -> Nat] /\ off[0] = 0 /\ off[k - 1] = Len(s)
      /\ \A i \in 1 .. k - 1 : off[i] <= Len(s) /\ SpelledAt(v[i], s, off[i - 1], off[i])
  BY DEF Spells
<1>4. /\ Len(s) \in Nat /\ Len(w) \in Nat /\ k \in Nat /\ k > 0
  BY <1>1
<1>5. /\ o \in [0 .. k -> Nat] /\ o[0] = 0 /\ o[k] = Len(t)
      /\ \A i \in 0 .. k - 1 : o[i] = off[i]
  BY <1>2, <1>3, <1>4
<1> HIDE DEF o
<1>6. ASSUME NEW i \in 1 .. k
      PROVE  o[i] <= Len(t) /\ SpelledAt(v[i], t, o[i - 1], o[i])
  <2>1. CASE i < k
    <3>1. /\ i \in 1 .. k - 1 /\ i - 1 \in 0 .. k - 1 /\ i \in 0 .. k - 1
      BY <1>4, <2>1
    <3>2. o[i] = off[i] /\ o[i - 1] = off[i - 1] /\ off[i] \in Nat /\ off[i - 1] \in Nat
      BY <1>3, <1>5, <3>1
    <3>3. off[i] <= Len(s) /\ SpelledAt(v[i], s, off[i - 1], off[i])
      BY <1>3, <3>1
    <3>4. SpelledAt(v[i], t, off[i - 1], off[i])
      BY <1>2, <1>4, <3>2, <3>3 DEF SpelledAt
    <3> QED BY <1>2, <1>4, <3>2, <3>3, <3>4
  <2>2. CASE ~(i < k)
    <3>1. i = k /\ k - 1 \in 0 .. k - 1
      BY <1>4, <2>2
    <3>2. o[k - 1] = Len(s) /\ o[k] = Len(s) + Len(w)
      BY <1>2, <1>3, <1>5, <3>1
    <3>3. SpelledAt(x, t, Len(s), Len(s) + Len(w))
      <4>1. CASE IsTextEscaped(x)
        <5>1. Len(w) = 2 /\ w[1] = DLE /\ w[2] = x
          BY <1>1, <4>1
        <5>2. At(t, Len(s) + 0) = w[0 + 1] /\ At(t, Len(s) + 1) = w[1 + 1]
          BY <1>2, <5>1
        <5> QED BY <1>4, <4>1, <5>1, <5>2 DEF SpelledAt
      <4>2. CASE ~IsTextEscaped(x)
        <5>1. Len(w) = 1 /\ w[1] = x
          BY <1>1, <4>2
        <5>2. At(t, Len(s) + 0) = w[0 + 1]
          BY <1>2, <5>1
        <5> QED BY <1>4, <4>2, <5>1, <5>2 DEF SpelledAt
      <4> QED BY <4>1, <4>2
    <3>4. v[i] = x
      BY <3>1 DEF x
    <3> QED BY <1>2, <1>4, <3>1, <3>2, <3>3, <3>4
  <2> QED BY <2>1, <2>2
<1>7. Spells(v, t, k, o)
  BY <1>2, <1>5, <1>6 DEF Spells
<1> QED BY <1>7 DEF t, w, x

LEMMA SpellingIs ==
  ASSUME NEW v \in Seq(Byte)
  PROVE  \E off : Spells(v, Spelling(v), Len(v), off)
<1> DEFINE n == Len(v)
           f == [i \in DOMAIN v |-> IF IsTextEscaped(v[i]) THEN <<DLE, v[i]>> ELSE <<v[i]>>]
<1>0. n \in Nat /\ DOMAIN v = 1 .. n
  OBVIOUS
<1>1. Len(f) = n /\ \A i \in 1 .. n : f[i] = Spelled(v[i])
  BY <1>0 DEF Spelled
<1>2. Spelling(v) = FlattenSeq(f)
  BY DEF Spelling
<1> HIDE DEF f, n
<1>3. Spells(v, << >>, 0, [i \in 0 .. 0 |-> 0])
  BY DEF Spells
<1>4. CASE n = 0
  <2>1. FlattenSeq(f) = f
    BY <1>1, <1>4 DEF FlattenSeq
  <2>2. f = << >>
    BY <1>0, <1>4 DEF f
  <2> QED BY <1>2, <1>3, <1>4, <2>1, <2>2 DEF n
<1>5. CASE n # 0
  <2>1. PICK u : /\ FlattenSeq(f) = u[n] /\ u[1] = f[1]
                 /\ \A i \in 2 .. n : u[i] = u[i - 1] \o f[i]
    BY <1>0, <1>1, <1>5, FlattenUnfolds
  <2> DEFINE U(k) == IF k = 0 THEN << >> ELSE u[k]
             Good(k) == \E off : Spells(v, U(k), k, off)
             G == {k \in 0 .. n : Good(k)}
  <2>2. 0 \in G
    BY <1>0, <1>3
  <2>3. ASSUME NEW k \in 1 .. n
        PROVE  U(k) = U(k - 1) \o Spelled(v[k])
    <3>1. f[k] = Spelled(v[k]) /\ v[k] \in Byte
      BY <1>0, <1>1 DEF n
    <3>2. CASE k = 1
      <4>1. Spelled(v[k]) \in Seq(Byte)
        BY <3>1, SpelledIs
      <4>2. << >> \o Spelled(v[k]) = Spelled(v[k])
        BY <4>1
      <4> QED BY <2>1, <3>1, <3>2, <4>2
    <3>3. CASE k # 1
      <4>1. k \in 2 .. n /\ k - 1 # 0 /\ k # 0
        BY <1>0, <3>3
      <4> QED BY <2>1, <3>1, <4>1
    <3> QED BY <3>2, <3>3
  <2> HIDE DEF U
  <2>4. ASSUME NEW k \in 1 .. n, k - 1 \in G
        PROVE  k \in G
    <3>1. PICK off : Spells(v, U(k - 1), k - 1, off)
      BY <2>4
    <3>2. \E o : Spells(v, U(k - 1) \o Spelled(v[k]), k, o)
      <4>1. k \in 1 .. Len(v)
        BY DEF n
      <4> QED BY <3>1, <4>1, SpellsMore
    <3>3. Good(k)
      BY <2>3, <3>2
    <3> HIDE DEF Good
    <3> QED BY <1>0, <3>3
  <2>5. Good(n)
    <3> HIDE DEF G
    <3>1. \A k \in 0 .. n : k \in G
      BY <1>0, <2>2, <2>4, UpTo
    <3> USE DEF G
    <3> HIDE DEF Good
    <3> QED BY <1>0, <3>1
  <2>6. U(n) = FlattenSeq(f)
    BY <1>5, <2>1 DEF U
  <2> QED BY <1>2, <2>5, <2>6 DEF n
<1> QED BY <1>4, <1>5

\* A text that stands at p is read to behind its ETX.
LEMMA SpelledText ==
  ASSUME NEW v \in Seq(Byte), NEW buf, NEW stop \in Nat, NEW p \in Nat,
         p + Len(Spelling(v)) + 2 <= stop,
         \A q \in 0 .. Len(Spelling(v)) - 1 : At(buf, p + 1 + q) = At(Spelling(v), q),
         At(buf, p + 1 + Len(Spelling(v))) = ETX
  PROVE  /\ Len(Spelling(v)) \in Nat
         /\ TextRest(buf, stop)[p + 1] = p + Len(Spelling(v)) + 2
<1> DEFINE s == Spelling(v)
           n == Len(v)
           rest == TextRest(buf, stop)
<1>1. PICK off : Spells(v, s, n, off)
  BY SpellingIs
<1>2. /\ s \in Seq(Byte) /\ Len(s) \in Nat /\ n \in Nat
      /\ off \in [0 .. n -> Nat] /\ off[0] = 0 /\ off[n] = Len(s)
      /\ \A i \in 1 .. n : off[i] <= Len(s) /\ SpelledAt(v[i], s, off[i - 1], off[i])
  BY <1>1 DEF Spells
<1>3. /\ \A q \in 0 .. stop - 1 :
           /\ EscapeAt(buf, q, stop) => rest[q] = rest[q + 2]
           /\ At(buf, q) = ETX => rest[q] = q + 1
           /\ PlainInText(At(buf, q)) => rest[q] = rest[q + 1]
  BY TextUnfolds
<1>4. /\ \A q \in 0 .. Len(s) - 1 : At(buf, p + 1 + q) = At(s, q)
      /\ At(buf, p + 1 + Len(s)) = ETX /\ p + Len(s) + 2 <= stop
  OBVIOUS
<1>5. \A i \in 1 .. n : v[i] \in Byte
  OBVIOUS
<1> HIDE DEF s, n, rest
<1> DEFINE G == {i \in 0 .. n : rest[p + 1 + off[i]] = p + Len(s) + 2}
<1>6. n \in G
  <2>1. p + 1 + Len(s) \in 0 .. stop - 1
    BY <1>2, <1>4
  <2>2. rest[p + 1 + Len(s)] = p + 1 + Len(s) + 1
    BY <1>3, <1>4, <2>1
  <2>3. p + 1 + Len(s) + 1 = p + Len(s) + 2 /\ n \in 0 .. n /\ off[n] = Len(s)
    BY <1>2
  <2> QED BY <2>2, <2>3
<1>7. ASSUME NEW j \in 0 .. n - 1, \A k \in j + 1 .. n : k \in G
      PROVE  j \in G
  <2> DEFINE i == j + 1
             x == v[i]
             q == off[j]
             r == off[i]
  <2>1. i \in 1 .. n /\ i - 1 = j /\ j \in 0 .. n /\ i \in 0 .. n
    BY <1>2
  <2>2. /\ q \in Nat /\ r \in Nat /\ r <= Len(s) /\ SpelledAt(x, s, q, r) /\ x \in Byte
    <3> HIDE DEF i
    <3> QED BY <1>2, <1>5, <2>1
  <2>3. rest[p + 1 + r] = p + Len(s) + 2
    BY <1>7, <2>1
  <2> HIDE DEF i, x, q, r
  <2>4. CASE IsTextEscaped(x)
    <3>1. r = q + 2 /\ At(s, q) = DLE /\ At(s, q + 1) = x
      BY <2>2, <2>4 DEF SpelledAt
    <3>2. /\ q \in 0 .. Len(s) - 1 /\ q + 1 \in 0 .. Len(s) - 1
          /\ p + 1 + (q + 1) = (p + 1 + q) + 1 /\ p + 1 + r = (p + 1 + q) + 2
          /\ p + 1 + q \in 0 .. stop - 1 /\ (p + 1 + q) + 1 < stop
      <4>1. q \in Nat /\ q + 2 <= Len(s) /\ Len(s) \in Nat /\ p + Len(s) + 2 <= stop
        BY <1>2, <1>4, <2>2, <3>1
      <4> HIDE DEF q
      <4> QED BY <3>1, <4>1
    <3>3. At(buf, p + 1 + q) = DLE /\ At(buf, (p + 1 + q) + 1) = x
      BY <1>4, <3>1, <3>2
    <3>4. EscapeAt(buf, p + 1 + q, stop)
      BY <2>4, <3>2, <3>3 DEF EscapeAt
    <3>5. rest[p + 1 + q] = p + Len(s) + 2
      BY <1>3, <2>3, <3>2, <3>4
    <3> QED BY <2>1, <3>5 DEF q
  <2>5. CASE ~IsTextEscaped(x)
    <3>1. r = q + 1 /\ At(s, q) = x
      BY <2>2, <2>5 DEF SpelledAt
    <3>2. /\ q \in 0 .. Len(s) - 1
          /\ p + 1 + r = (p + 1 + q) + 1
          /\ p + 1 + q \in 0 .. stop - 1
      BY <1>2, <1>4, <2>2, <3>1
    <3>3. At(buf, p + 1 + q) = x
      BY <1>4, <3>1, <3>2
    <3>4. PlainInText(x)
      BY <2>5 DEF IsTextEscaped, PlainInText
    <3>5. rest[p + 1 + q] = p + Len(s) + 2
      BY <1>3, <2>3, <3>2, <3>3, <3>4
    <3> QED BY <2>1, <3>5 DEF q
  <2> QED BY <2>4, <2>5
<1>8. 0 \in G
  <2> HIDE DEF G
  <2>1. \A i \in 0 .. n : i \in G
    BY <1>2, <1>6, <1>7, DownFrom
  <2> QED BY <1>2, <2>1
<1>9. rest[p + 1] = p + Len(s) + 2
  <2>1. p + 1 + off[0] = p + 1
    BY <1>2
  <2> QED BY <1>8, <2>1
<1> QED BY <1>2, <1>9 DEF rest, s

-----------------------------------------------------------------------------
(* The value of a text. *)

\* decode_text, from the front: a byte, or the one behind a DLE.
LEMMA DecodeUnfolds ==
  ASSUME NEW s \in Seq(Byte)
  PROVE  \E from : /\ DecodeText(s) = from[1] /\ from[Len(s) + 1] = << >>
                   /\ \A i \in 1 .. Len(s) :
                        /\ s[i] # DLE => from[i] = <<s[i]>> \o from[i + 1]
                        /\ s[i] = DLE /\ i # Len(s) => from[i] = <<s[i + 1]>> \o from[i + 2]
<1> DEFINE len == Len(s)
           Rest(f, i) == IF i > len THEN << >>
                         ELSE IF s[i] # DLE THEN <<s[i]>> \o f[i + 1]
                         ELSE IF i = len THEN << >>
                         ELSE <<s[i + 1]>> \o f[i + 2]
           Body(f) == [i \in 1 .. len + 2 |-> Rest(f, i)]
           from == CHOOSE f : f = Body(f)
           V == Seq(Byte) \X Seq(Byte)
           first == <<<< >>, << >>>>
           Two(k, w) == IF s[len + 1 - k] # DLE THEN <<s[len + 1 - k]>> \o w[1]
                        ELSE IF k = 1 THEN << >>
                        ELSE <<s[len + 2 - k]>> \o w[2]
           step == [x \in (1 .. len) \X V |-> <<Two(x[1], x[2]), x[2][1]>>]
<1>0. len \in Nat /\ \A i \in 1 .. len : s[i] \in Byte
  OBVIOUS
<1>1. first \in V
  <2>1. << >> \in Seq(Byte)
    OBVIOUS
  <2>2. \A x \in Seq(Byte) : <<x, x>> \in V
    OBVIOUS
  <2> HIDE DEF V
  <2> QED BY <2>1, <2>2
<1>2. step \in [(1 .. len) \X V -> V]
  <2> SUFFICES ASSUME NEW k \in 1 .. len, NEW w \in V
               PROVE  Two(k, w) \in Seq(Byte) /\ w[1] \in Seq(Byte)
    OBVIOUS
  <2>1. w[1] \in Seq(Byte) /\ w[2] \in Seq(Byte)
    OBVIOUS
  <2>2. len + 1 - k \in 1 .. len /\ (k # 1 => len + 2 - k \in 1 .. len)
    BY <1>0
  <2>3. s[len + 1 - k] \in Byte /\ (k # 1 => s[len + 2 - k] \in Byte)
    BY <1>0, <2>2
  <2>4. ASSUME NEW x \in Byte, NEW t \in Seq(Byte)
        PROVE  <<x>> \o t \in Seq(Byte)
    OBVIOUS
  <2> QED BY <2>1, <2>3, <2>4
<1>3. PICK g : Steps(g, len, V, first, step)
  <2> HIDE DEF V, first, step
  <2> QED BY <1>0, <1>1, <1>2, StepByStep
<1>4. /\ g \in [0 .. len -> V] /\ g[0] = first
      /\ \A k \in 1 .. len : g[k] = <<Two(k, g[k - 1]), g[k - 1][1]>>
  <2>1. /\ g \in [0 .. len -> V] /\ g[0] = first
        /\ \A k \in 1 .. len : g[k] = step[<<k, g[k - 1]>>]
    BY <1>3 DEF Steps
  <2>2. \A k \in 1 .. len : g[k - 1] \in V
    <3>1. \A k \in 1 .. len : k - 1 \in 0 .. len
      BY <1>0
    <3> HIDE DEF V, first, step
    <3> QED BY <2>1, <3>1
  <2> HIDE DEF V, Two
  <2> QED BY <2>1, <2>2
<1> DEFINE h == [i \in 1 .. len + 2 |-> IF i > len THEN << >> ELSE g[len + 1 - i][1]]
<1>5. ASSUME NEW i \in 1 .. len + 2
      PROVE  h[i] = Rest(h, i)
  <2>1. CASE i > len
    BY <1>0, <2>1
  <2>2. CASE i <= len
    <3> DEFINE k == len + 1 - i
    <3>1. k \in 1 .. len /\ len + 1 - k = i /\ len + 2 - k = i + 1
          /\ k - 1 = len + 1 - (i + 1) /\ i + 1 \in 1 .. len + 2 /\ i + 2 \in 1 .. len + 2
          /\ (k = 1 <=> i = len)
      BY <1>0, <2>2
    <3>2. h[i] = g[k][1]
      BY <1>0, <2>2
    <3>3. g[k - 1][1] = h[i + 1]
      <4>1. CASE i = len
        <5>1. g[k - 1] = first /\ h[i + 1] = << >>
          BY <1>4, <3>1, <4>1
        <5> QED BY <5>1
      <4>2. CASE i # len
        <5>1. h[i + 1] = g[len + 1 - (i + 1)][1]
          BY <1>0, <2>2, <3>1, <4>2
        <5> QED BY <3>1, <5>1
      <4> QED BY <4>1, <4>2
    <3>4. k # 1 => g[k - 1][2] = h[i + 2]
      <4> SUFFICES ASSUME k # 1 PROVE g[k - 1][2] = h[i + 2]
        OBVIOUS
      <4>1. k - 1 \in 1 .. len /\ i < len
        BY <1>0, <2>2, <3>1
      <4>2. g[k - 1][2] = g[(k - 1) - 1][1]
        <5>1. g[k - 1] = <<Two(k - 1, g[(k - 1) - 1]), g[(k - 1) - 1][1]>>
          BY <1>4, <4>1
        <5> HIDE DEF Two, k
        <5> QED BY <5>1
      <4>3. CASE i + 2 > len
        <5>1. (k - 1) - 1 = 0
          BY <1>0, <4>1, <4>3
        <5>3. h[i + 2] = << >>
          BY <3>1, <4>3
        <5>2. g[0][1] = << >>
          BY <1>4
        <5> HIDE DEF h, k
        <5> QED BY <4>2, <5>1, <5>2, <5>3
      <4>4. CASE ~(i + 2 > len)
        <5>1. h[i + 2] = g[len + 1 - (i + 2)][1] /\ len + 1 - (i + 2) = (k - 1) - 1
          BY <1>0, <3>1, <4>4
        <5> QED BY <4>2, <5>1
      <4> QED BY <4>3, <4>4
    <3>5. g[k][1] = Two(k, g[k - 1])
      BY <1>4, <3>1
    <3> HIDE DEF k, h
    <3>6. Two(k, g[k - 1]) = IF s[i] # DLE THEN <<s[i]>> \o g[k - 1][1]
                             ELSE IF k = 1 THEN << >>
                             ELSE <<s[i + 1]>> \o g[k - 1][2]
      BY <3>1
    <3> HIDE DEF Two
    <3> QED BY <1>0, <2>2, <3>1, <3>2, <3>3, <3>4, <3>5, <3>6
  <2> QED BY <1>0, <2>1, <2>2
<1>6. from = Body(from)
  <2>1. h = Body(h)
    <3>1. h = [i \in 1 .. len + 2 |-> h[i]]
      OBVIOUS
    <3> HIDE DEF h, Rest
    <3> QED BY <1>5, <3>1
  <2> HIDE DEF Body, h
  <2> QED BY <2>1
<1>7. DecodeText(s) = from[1]
  BY DEF DecodeText
<1> HIDE DEF from
<1>8. \A i \in 1 .. len + 2 : from[i] = Rest(from, i)
  BY <1>6
<1>9. /\ from[len + 1] = << >>
      /\ \A i \in 1 .. len :
           /\ s[i] # DLE => from[i] = <<s[i]>> \o from[i + 1]
           /\ s[i] = DLE /\ i # len => from[i] = <<s[i + 1]>> \o from[i + 2]
  <2>1. len + 1 \in 1 .. len + 2 /\ len + 1 > len
    BY <1>0
  <2>2. from[len + 1] = << >>
    BY <1>8, <2>1
  <2>3. \A i \in 1 .. len : i \in 1 .. len + 2 /\ ~(i > len)
    BY <1>0
  <2> HIDE DEF len
  <2>4. ASSUME NEW i \in 1 .. len
        PROVE  from[i] = IF s[i] # DLE THEN <<s[i]>> \o from[i + 1]
                         ELSE IF i = len THEN << >>
                         ELSE <<s[i + 1]>> \o from[i + 2]
    BY <1>8, <2>3
  <2> QED BY <2>2, <2>4
<1> QED BY <1>7, <1>9

\* What is spelled is decoded.
LEMMA DecodeSpelled ==
  ASSUME NEW v \in Seq(Byte)
  PROVE  DecodeText(Spelling(v)) = v
<1> DEFINE s == Spelling(v)
           n == Len(v)
           Rest(j) == SubSeq(v, j + 1, n)
<1>1. PICK off : Spells(v, s, n, off)
  BY SpellingIs
<1>2. /\ s \in Seq(Byte) /\ Len(s) \in Nat /\ n \in Nat
      /\ off \in [0 .. n -> Nat] /\ off[0] = 0 /\ off[n] = Len(s)
      /\ \A i \in 1 .. n : off[i] <= Len(s) /\ SpelledAt(v[i], s, off[i - 1], off[i])
  BY <1>1 DEF Spells
<1>3. /\ Rest(n) = << >> /\ Rest(0) = v
      /\ \A j \in 0 .. n - 1 : Rest(j) = <<v[j + 1]>> \o Rest(j + 1)
  <2>1. n \in Nat /\ SubSeq(v, 1, n) = v /\ SubSeq(v, n + 1, n) = << >>
    OBVIOUS
  <2>2. ASSUME NEW j \in 0 .. n - 1
        PROVE  Rest(j) = <<v[j + 1]>> \o Rest(j + 1)
    OBVIOUS
  <2>3. Rest(0) = v /\ Rest(n) = << >>
    <3>1. 0 + 1 = 1
      OBVIOUS
    <3> QED BY <2>1, <3>1
  <2> HIDE DEF Rest
  <2> QED BY <2>2, <2>3
<1> HIDE DEF s, Rest
<1>4. PICK from : /\ DecodeText(s) = from[1] /\ from[Len(s) + 1] = << >>
                  /\ \A i \in 1 .. Len(s) :
                       /\ s[i] # DLE => from[i] = <<s[i]>> \o from[i + 1]
                       /\ s[i] = DLE /\ i # Len(s) => from[i] = <<s[i + 1]>> \o from[i + 2]
  BY <1>2, DecodeUnfolds
<1> DEFINE G == {i \in 0 .. n : from[off[i] + 1] = Rest(i)}
<1>5. n \in G
  BY <1>2, <1>3, <1>4
<1>6. ASSUME NEW j \in 0 .. n - 1, \A k \in j + 1 .. n : k \in G
      PROVE  j \in G
  <2> DEFINE i == j + 1
             x == v[i]
             q == off[j]
             r == off[i]
  <2>1. i \in 1 .. n /\ i - 1 = j /\ j \in 0 .. n /\ i \in 0 .. n
    BY <1>2
  <2>2. /\ q \in Nat /\ r \in Nat /\ r <= Len(s) /\ SpelledAt(x, s, q, r)
    <3> HIDE DEF i
    <3> QED BY <1>2, <2>1
  <2>3. from[r + 1] = Rest(i) /\ Rest(j) = <<x>> \o Rest(i)
    <3>1. Rest(j) = <<x>> \o Rest(i)
      BY <1>3
    <3>2. i \in G
      <4> HIDE DEF G
      <4>1. i \in j + 1 .. n
        BY <1>2, <2>1
      <4> HIDE DEF i
      <4> QED BY <1>6, <4>1
    <3> HIDE DEF i
    <3> QED BY <3>1, <3>2
  <2> HIDE DEF i, x, q, r
  <2>4. CASE IsTextEscaped(x)
    <3>1. r = q + 2 /\ s[q + 1] = DLE /\ s[(q + 1) + 1] = x
      BY <2>2, <2>4 DEF SpelledAt, At
    <3>2. q + 1 \in 1 .. Len(s) /\ q + 1 # Len(s) /\ (q + 1) + 2 = r + 1
      BY <1>2, <2>2, <3>1
    <3>3. from[q + 1] = <<x>> \o from[r + 1]
      BY <1>4, <3>1, <3>2
    <3> QED BY <2>1, <2>3, <3>3 DEF q
  <2>5. CASE ~IsTextEscaped(x)
    <3>1. r = q + 1 /\ s[q + 1] = x
      BY <2>2, <2>5 DEF SpelledAt, At
    <3>2. q + 1 \in 1 .. Len(s) /\ (q + 1) + 1 = r + 1 /\ x # DLE
      BY <1>2, <2>2, <2>5, <3>1 DEF IsTextEscaped
    <3>3. from[q + 1] = <<x>> \o from[r + 1]
      BY <1>4, <3>1, <3>2
    <3> QED BY <2>1, <2>3, <3>3 DEF q
  <2> QED BY <2>4, <2>5
<1>7. 0 \in G
  <2> HIDE DEF G
  <2>1. \A i \in 0 .. n : i \in G
    BY <1>2, <1>5, <1>6, DownFrom
  <2> QED BY <1>2, <2>1
<1> QED BY <1>2, <1>3, <1>4, <1>7 DEF s

\* Behind the last byte there is nothing, not even a note.
LEMMA NothingAfter ==
  ASSUME NEW t \in Seq(Byte)
  PROVE  OnlyNotesAfter(t, Len(t)) = TRUE
<1> DEFINE len == Len(t)
           Goes(p) == p # len /\ At(t, p) = BEL /\ Comment(t, p, len) # Err
           Here(f, p) == \/ p = len
                         \/ /\ At(t, p) = BEL
                            /\ \E e \in {Comment(t, p, len)} \ {Err} : f[Layout(t, e, len)]
           Body(f) == [p \in 0 .. len |-> Here(f, p)]
           notes == CHOOSE f : f = Body(f)
           S == 0 .. len
           go == [p \in S |-> Goes(p)]
           next == [p \in S |-> IF Goes(p) THEN Layout(t, Comment(t, p, len), len) ELSE p]
           out == [p \in S |-> p = len]
<1>0. len \in Nat
  OBVIOUS
<1>1. ASSUME NEW p \in S, Goes(p)
      PROVE  Layout(t, Comment(t, p, len), len) \in S
  <2>1. Comment(t, p, len) \in {Err} \cup (p + 1 .. len)
    <3>1. RightFrom(ScanPrimitive(t, len), t, len, 0)
      BY <1>0, PrimitivesMove
    <3>2. "comment" \in Primitives \ Passing
      BY DEF Primitives, Passing
    <3>3. Ranged("comment", p, len, Comment(t, p, len))
      BY <1>0, <3>1, <3>2 DEF RightFrom, Comment
    <3> QED BY <3>2, <3>3 DEF Ranged
  <2>2. Comment(t, p, len) \in 0 .. len
    BY <1>1, <2>1
  <2>3. Layout(t, Comment(t, p, len), len) \in Comment(t, p, len) .. len
    BY <1>0, <2>2, LayoutStops
  <2> QED BY <2>2, <2>3
<1> HIDE DEF len
<1>2. next \in [S -> S]
  <2> HIDE DEF Goes
  <2> QED BY <1>1
<1>3. PICK g : Follows(g, S, go, next, out)
  <2> HIDE DEF S, go, next, out
  <2> QED BY <1>2, TailRecursion
<1>4. \A p \in S : g[p] = IF Goes(p) THEN g[Layout(t, Comment(t, p, len), len)] ELSE p = len
  <2>1. \A p \in S : g[p] = IF go[p] THEN g[next[p]] ELSE out[p]
    BY <1>3 DEF Follows
  <2>2. \A p \in S : /\ go[p] = Goes(p) /\ out[p] = (p = len)
                     /\ Goes(p) => next[p] = Layout(t, Comment(t, p, len), len)
    <3> HIDE DEF Goes
    <3> QED OBVIOUS
  <2> HIDE DEF go, next, out, Goes
  <2> QED BY <2>1, <2>2
<1> DEFINE h == [p \in S |-> g[p] = TRUE]
<1>5. ASSUME NEW p \in S
      PROVE  h[p] = Here(h, p)
  <2>1. CASE Goes(p)
    <3>1. h[p] = (g[Layout(t, Comment(t, p, len), len)] = TRUE)
      BY <1>4, <2>1
    <3>2. h[Layout(t, Comment(t, p, len), len)] = (g[Layout(t, Comment(t, p, len), len)] = TRUE)
      BY <1>1, <2>1
    <3> HIDE DEF h
    <3>3. Here(h, p) = h[Layout(t, Comment(t, p, len), len)]
      BY <2>1, <3>2
    <3> QED BY <3>1, <3>2, <3>3
  <2>2. CASE ~Goes(p)
    <3>1. h[p] = (p = len)
      <4>1. g[p] = (p = len)
        BY <1>4, <2>2
      <4> QED BY <4>1
    <3> HIDE DEF h
    <3>2. Here(h, p) = (p = len)
      BY <2>2
    <3> QED BY <3>1, <3>2
  <2> QED BY <2>1, <2>2
<1>6. notes = Body(notes)
  <2>1. h = Body(h)
    <3>1. h = [p \in S |-> h[p]]
      OBVIOUS
    <3> HIDE DEF h, Here
    <3> QED BY <1>5, <3>1
  <2> HIDE DEF Body, h
  <2> QED BY <2>1
<1>7. OnlyNotesAfter(t, len) = notes[Layout(t, len, len)]
  BY DEF OnlyNotesAfter, len
<1>8. Layout(t, len, len) = len
  BY <1>0 DEF Layout
<1> HIDE DEF notes
<1>9. notes[len] = TRUE
  BY <1>0, <1>6
<1> QED BY <1>7, <1>8, <1>9 DEF len

-----------------------------------------------------------------------------
(* A value that is written is the value that is read. *)

\* Nothing is trimmed where both ends are data.
LEMMA TrimsNothing ==
  ASSUME NEW raw \in Seq(Byte),
         raw # << >> => ~IsLayout(raw[1]) /\ ~IsLayout(raw[Len(raw)])
  PROVE  Trim(raw) = raw
<1> DEFINE n == Len(raw)
           data == {i \in DOMAIN raw : ~IsLayout(raw[i])}
           first == CHOOSE i \in data : \A j \in data : i <= j
           last  == CHOOSE i \in data : \A j \in data : j <= i
<1>0. n \in Nat /\ DOMAIN raw = 1 .. n
  OBVIOUS
<1>1. Trim(raw) = IF data = {} THEN << >> ELSE SubSeq(raw, first, last)
  BY DEF Trim
<1>2. CASE raw = << >>
  <2>1. data = {}
    BY <1>2
  <2> QED BY <1>1, <1>2, <2>1
<1>3. CASE raw # << >>
  <2>1. 1 \in data /\ n \in data /\ data \subseteq 1 .. n
    BY <1>0, <1>3
  <2> HIDE DEF data, n
  <2>2. first = 1
    <3>1. \A j \in data : 1 <= j
      BY <2>1
    <3>2. first \in data /\ \A j \in data : first <= j
      BY <2>1, <3>1
    <3> HIDE DEF first
    <3> QED BY <1>0, <2>1, <3>2
  <2>3. last = n
    <3>1. \A j \in data : j <= n
      BY <2>1
    <3>2. last \in data /\ \A j \in data : j <= last
      BY <2>1, <3>1
    <3> HIDE DEF last
    <3> QED BY <1>0, <2>1, <3>2
  <2> HIDE DEF first, last
  <2>4. SubSeq(raw, 1, n) = raw
    BY DEF n
  <2> QED BY <1>1, <2>1, <2>2, <2>3, <2>4
<1> QED BY <1>2, <1>3

\* A plain value is written as it is, any other as a text.
LEMMA WritesText ==
  ASSUME NEW v \in Seq(Byte), ~IsPlainValue(v)
  PROVE  /\ WriteValue(v) = <<STX>> \o Spelling(v) \o <<ETX>>
         /\ WriteValue(v) \in Seq(Byte) /\ Spelling(v) \in Seq(Byte)
         /\ Len(WriteValue(v)) = Len(Spelling(v)) + 2
         /\ At(WriteValue(v), 0) = STX /\ At(WriteValue(v), Len(Spelling(v)) + 1) = ETX
         /\ \A q \in 0 .. Len(Spelling(v)) - 1 : At(WriteValue(v), 1 + q) = At(Spelling(v), q)
<1>1. WriteValue(v) = <<STX>> \o Spelling(v) \o <<ETX>>
  BY DEF WriteValue, Spelling
<1>2. Spelling(v) \in Seq(Byte)
  <2>1. PICK off : Spells(v, Spelling(v), Len(v), off)
    BY SpellingIs
  <2> QED BY <2>1 DEF Spells
<1>3. STX \in Byte /\ ETX \in Byte
  BY DEF STX, ETX, Byte
<1> DEFINE s == Spelling(v)
           w == <<STX>> \o s \o <<ETX>>
<1> HIDE DEF s
<1>4. /\ w \in Seq(Byte) /\ Len(w) = Len(s) + 2
      /\ At(w, 0) = STX /\ At(w, Len(s) + 1) = ETX
      /\ \A q \in 0 .. Len(s) - 1 : At(w, 1 + q) = At(s, q)
  BY <1>2, <1>3 DEF At, s
<1> QED BY <1>1, <1>2, <1>4 DEF s

(***************************************************************************)
(* write_value and value: whatever the bytes of a value, the raw unit that *)
(* is written for it stands for it again.                                  *)
(***************************************************************************)
ValuesComeBack == \A v \in Seq(Byte) : Value(WriteValue(v)) = v

THEOREM WrittenIsRead == ValuesComeBack
<1> SUFFICES ASSUME NEW v \in Seq(Byte)
             PROVE  Value(WriteValue(v)) = v
  BY Zenon DEF ValuesComeBack
<1> DEFINE t == WriteValue(v)
           len == Len(t)
<1>1. CASE IsPlainValue(v)
  <2>1. t = v
    BY <1>1 DEF WriteValue
  <2>2. len \in Nat /\ \A q \in 0 .. len - 1 : IsPlain(At(v, q))
    BY <1>1, <2>1 DEF IsPlainValue, At
  <2>3. Trim(v) = v
    BY <1>1, TrimsNothing DEF IsPlainValue, Last
  <2>4. ~CodeAt(v, 0, len, {STX}) /\ ~CodeAt(v, 0, len, {DLE, ENQ})
    BY <2>2 DEF CodeAt, IsPlain, STX, DLE, ENQ
  <2>5. Plain(v, 0, len) = len
    <3> HIDE DEF t, len
    <3>1. 0 \in 0 .. len /\ len \in 0 .. len /\ ~(len < len)
      BY <2>2
    <3>2. \A q \in 0 .. (len - 1) : IsPlain(At(v, q))
      BY <2>2
    <3> QED BY <2>2, <3>1, <3>2, PlainIs
  <2>6. Slice(v, 0, len) = v
    BY <2>1 DEF Slice
  <2>7. TrimmedValue(v) = v
    <3> HIDE DEF t, len
    <3>1. Len(v) = len
      BY <2>1 DEF len
    <3> QED BY <2>3, <2>4, <2>5, <2>6, <3>1 DEF TrimmedValue
  <2> QED BY <2>1, <2>3, <2>7 DEF Value
<1>2. CASE ~IsPlainValue(v)
  <2> DEFINE s == Spelling(v)
  <2>0. t = <<STX>> \o s \o <<ETX>>
    BY <1>2, WritesText
  <2>1. /\ t \in Seq(Byte) /\ s \in Seq(Byte) /\ len = Len(s) + 2
        /\ At(t, 0) = STX /\ At(t, Len(s) + 1) = ETX
        /\ \A q \in 0 .. Len(s) - 1 : At(t, 1 + q) = At(s, q)
    BY <1>2, WritesText
  <2>2. len \in Nat /\ len > 0 /\ Len(s) \in Nat
    BY <2>1
  <2>3. Trim(t) = t
    <3>1. ~IsLayout(STX) /\ ~IsLayout(ETX)
      BY DEF IsLayout, STX, ETX, SP, HT, LF, CR
    <3>2. t[1] = STX /\ t[Len(t)] = ETX
      BY <2>1, <2>2 DEF At
    <3> HIDE DEF t
    <3> QED BY <2>1, <3>1, <3>2, TrimsNothing
  <2>4. TextRest(t, len)[1] = len
    <3>1. /\ 0 + Len(s) + 2 <= len
          /\ \A q \in 0 .. Len(s) - 1 : At(t, 0 + 1 + q) = At(s, q)
          /\ At(t, 0 + 1 + Len(s)) = ETX
      <4> HIDE DEF t, len, s
      <4>1. 0 + 1 = 1 /\ 1 + Len(s) = Len(s) + 1
        BY <2>2
      <4> QED BY <2>1, <2>2, <4>1
    <3>2. TextRest(t, len)[0 + 1] = 0 + Len(s) + 2
      <4> HIDE DEF t, len
      <4> QED BY <2>2, <3>1, SpelledText
    <3> HIDE DEF t, len, s
    <3> QED BY <2>1, <2>2, <3>2
  <2>5. Text(t, 0, len) = len
    <3> HIDE DEF t, len, s
    <3>1. Text(t, 0, len) = IF 0 + 1 > len THEN Err ELSE TextRest(t, len)[0 + 1]
      BY <2>2, TextUnfolds
    <3> QED BY <2>2, <2>4, <3>1
  <2>6. OnlyNotesAfter(t, len)
    BY <2>1, NothingAfter
  <2>7. Slice(t, 1, len - 1) = s
    <3> HIDE DEF s
    <3> QED BY <2>0, <2>1, <2>2 DEF Slice, s
  <2>8. TextValue(t, 0, len) = v
    <3>1. DecodeText(s) = v
      BY DecodeSpelled
    <3> HIDE DEF t, len, s
    <3>2. TextValue(t, 0, len) = DecodeText(Slice(t, 1, len - 1))
      BY DEF TextValue
    <3> QED BY <2>7, <3>1, <3>2
  <2>9. TrimmedValue(t) = v
    <3> HIDE DEF t, s
    <3>1. CodeAt(t, 0, len, {STX}) /\ ~CodeAt(t, 0, len, {DLE, ENQ}) /\ len # Err
      <4> HIDE DEF len
      <4> QED BY <2>1, <2>2 DEF CodeAt, Err, STX, DLE, ENQ
    <3> DEFINE end == Text(t, 0, len)
               value == IF end # Err /\ OnlyNotesAfter(t, end) THEN TextValue(t, 0, end) ELSE NoValue
    <3>2. TrimmedValue(t) = value
      <4> HIDE DEF value
      <4>1. value = IF end # Err /\ OnlyNotesAfter(t, end) THEN TextValue(t, 0, end) ELSE NoValue
        BY DEF value
      <4> HIDE DEF end
      <4> QED BY <3>1, <4>1 DEF TrimmedValue, end
    <3> HIDE DEF len
    <3> QED BY <2>5, <2>6, <2>8, <3>1, <3>2
  <2> QED BY <2>3, <2>9 DEF Value
<1> QED BY <1>1, <1>2

-----------------------------------------------------------------------------
(* What the scan passes over. *)

InPlace(c, b, k) ==
  /\ k + Len(c) <= Len(b)
  /\ \A p \in 0 .. Len(c) - 1 : At(b, k + p) = At(c, p)

\* The loop comes from before c to behind it, wherever c stands.
Passed(c) ==
  /\ c \in Seq(Byte)
  /\ \A b \in Seq(Byte), k \in Nat, d \in Nat :
       InPlace(c, b, k) /\ ComesTo(b, k, FALSE, d) => ComesTo(b, k + Len(c), FALSE, d)

\* Every ETB of c is behind an odd run of DLEs.
MarkFree(c) ==
  \A i \in 0 .. Len(c) - 1 :
    At(c, i) = ETB => \E m \in 0 .. i - 1 : m % 2 = 1 /\ Escaped(c, i, m)

\* What a builder pushes, but for the codes of a level.
Piece(c) == Passed(c) /\ MarkFree(c) /\ (c # << >> => c[Len(c)] # DLE)

LEMMA PassedRun ==
  ASSUME NEW c \in Seq(Byte), \A i \in 1 .. Len(c) : MovesOnly(c[i])
  PROVE  Piece(c)
<1>1. ASSUME NEW b \in Seq(Byte), NEW k \in Nat, NEW d \in Nat,
             InPlace(c, b, k), ComesTo(b, k, FALSE, d)
      PROVE  ComesTo(b, k + Len(c), FALSE, d)
  <2> DEFINE n == Len(c)
             Good(i) == ComesTo(b, k + i, FALSE, d)
             G == {i \in 0 .. n : Good(i)}
  <2>1. n \in Nat /\ k + 0 = k
    OBVIOUS
  <2>2. 0 \in G
    <3>1. Good(0)
      BY <1>1, <2>1
    <3> HIDE DEF Good
    <3> QED BY <2>1, <3>1
  <2>3. ASSUME NEW i \in 1 .. n, i - 1 \in G
        PROVE  i \in G
    <3>1. /\ k + (i - 1) \in 0 .. Len(b) - 1 /\ i - 1 \in 0 .. Len(c) - 1
          /\ k + (i - 1) + 1 = k + i /\ (i - 1) + 1 = i
      BY <1>1, <2>1 DEF InPlace
    <3>2. MovesOnly(At(b, k + (i - 1)))
      <4>1. At(b, k + (i - 1)) = At(c, i - 1)
        BY <1>1, <3>1 DEF InPlace
      <4> QED BY <3>1, <4>1 DEF At
    <3>3. ComesTo(b, k + (i - 1), FALSE, d)
      BY <2>3
    <3>4. Good(i)
      BY <3>1, <3>2, <3>3, ComesFurther
    <3> HIDE DEF Good
    <3> QED BY <3>4
  <2>4. n \in G
    <3> HIDE DEF G
    <3>1. \A i \in 0 .. n : i \in G
      BY <2>1, <2>2, <2>3, UpTo
    <3> QED BY <2>1, <3>1
  <2> QED BY <2>4
<1>2. Passed(c)
  BY <1>1 DEF Passed
<1>3. MarkFree(c)
  <2> SUFFICES ASSUME NEW i \in 0 .. Len(c) - 1, At(c, i) = ETB
               PROVE  FALSE
    BY DEF MarkFree
  <2>1. MovesOnly(c[i + 1])
    OBVIOUS
  <2> QED BY <2>1 DEF At, MovesOnly
<1>4. c # << >> => c[Len(c)] # DLE
  BY DEF MovesOnly
<1> QED BY <1>2, <1>3, <1>4 DEF Piece

\* The ETBs of a part keep their escapes in the whole.
LEMMA EscapedInPlace ==
  ASSUME NEW c \in Seq(Byte), NEW b \in Seq(Byte), NEW k \in Nat, InPlace(c, b, k),
         NEW i \in 0 .. Len(c) - 1, NEW m \in 0 .. i - 1, Escaped(c, i, m)
  PROVE  k + i \in Nat /\ m \in 0 .. (k + i) - 1 /\ Escaped(b, k + i, m)
<1>1. /\ Len(c) \in Nat /\ i \in Nat /\ m \in Nat /\ m < i
      /\ \A p \in 0 .. Len(c) - 1 : At(b, k + p) = At(c, p)
  BY DEF InPlace
<1>2. ASSUME NEW q \in ((k + i) - m) .. ((k + i) - 1)
      PROVE  At(b, q) = DLE
  <2>1. q - k \in (i - m) .. (i - 1) /\ q - k \in 0 .. Len(c) - 1 /\ k + (q - k) = q
    BY <1>1
  <2>2. At(b, k + (q - k)) = DLE
    BY <1>1, <2>1 DEF Escaped
  <2> QED BY <2>1, <2>2
<1>3. At(b, (k + i) - m - 1) # DLE
  <2>1. i - m - 1 \in 0 .. Len(c) - 1 /\ k + (i - m - 1) = (k + i) - m - 1
    BY <1>1
  <2>2. At(b, k + (i - m - 1)) # DLE
    BY <1>1, <2>1 DEF Escaped
  <2> QED BY <2>1, <2>2
<1>4. Escaped(b, k + i, m)
  BY <1>2, <1>3 DEF Escaped
<1> QED BY <1>1, <1>4

LEMMA JoinIs ==
  ASSUME NEW a \in Seq(Byte), NEW c \in Seq(Byte)
  PROVE  /\ a \o c \in Seq(Byte) /\ Len(a \o c) = Len(a) + Len(c)
         /\ Len(a) \in Nat /\ Len(c) \in Nat
         /\ InPlace(a, a \o c, 0) /\ InPlace(c, a \o c, Len(a))
         /\ c # << >> => (a \o c)[Len(a \o c)] = c[Len(c)]
         /\ c = << >> => a \o c = a
BY DEF InPlace, At

LEMMA InPlaceJoin ==
  ASSUME NEW a \in Seq(Byte), NEW c \in Seq(Byte), NEW b, NEW k \in Nat, InPlace(a \o c, b, k),
         Len(b) \in Nat
  PROVE  InPlace(a, b, k) /\ InPlace(c, b, k + Len(a))
<1> DEFINE h == a \o c
<1>1. /\ Len(h) = Len(a) + Len(c) /\ Len(a) \in Nat /\ Len(c) \in Nat
      /\ InPlace(a, h, 0) /\ InPlace(c, h, Len(a)) /\ InPlace(h, b, k)
  BY JoinIs
<1> HIDE DEF h
<1>2. \A p \in 0 .. Len(a) - 1 : p \in 0 .. Len(h) - 1 /\ 0 + p = p
  BY <1>1
<1>3. \A p \in 0 .. Len(c) - 1 : Len(a) + p \in 0 .. Len(h) - 1 /\ k + (Len(a) + p) = (k + Len(a)) + p
  BY <1>1
<1> QED BY <1>1, <1>2, <1>3 DEF InPlace

LEMMA MarkFreeJoin ==
  ASSUME NEW a \in Seq(Byte), NEW c \in Seq(Byte), MarkFree(a), MarkFree(c)
  PROVE  MarkFree(a \o c)
<1> DEFINE h == a \o c
<1>1. /\ h \in Seq(Byte) /\ Len(h) = Len(a) + Len(c) /\ Len(a) \in Nat /\ Len(c) \in Nat
      /\ InPlace(a, h, 0) /\ InPlace(c, h, Len(a))
  BY JoinIs
<1> HIDE DEF h
<1>2. ASSUME NEW i \in 0 .. Len(h) - 1, At(h, i) = ETB
      PROVE  \E m \in 0 .. i - 1 : m % 2 = 1 /\ Escaped(h, i, m)
  <2>1. CASE i < Len(a)
    <3>1. i \in 0 .. Len(a) - 1 /\ 0 + i = i
      BY <1>1, <2>1
    <3>2. At(a, i) = ETB
      BY <1>1, <1>2, <3>1 DEF InPlace
    <3>3. PICK m \in 0 .. i - 1 : m % 2 = 1 /\ Escaped(a, i, m)
      BY <3>1, <3>2 DEF MarkFree
    <3>4. Escaped(h, 0 + i, m)
      BY <1>1, <3>1, <3>3, EscapedInPlace
    <3> QED BY <3>1, <3>3, <3>4
  <2>2. CASE ~(i < Len(a))
    <3> DEFINE j == i - Len(a)
    <3>1. j \in 0 .. Len(c) - 1 /\ Len(a) + j = i
      BY <1>1, <2>2
    <3> HIDE DEF j
    <3>2. At(c, j) = ETB
      BY <1>1, <1>2, <3>1 DEF InPlace
    <3>3. PICK m \in 0 .. j - 1 : m % 2 = 1 /\ Escaped(c, j, m)
      BY <3>1, <3>2 DEF MarkFree
    <3>4. m \in 0 .. (Len(a) + j) - 1 /\ Escaped(h, Len(a) + j, m)
      BY <1>1, <3>1, <3>3, EscapedInPlace
    <3> QED BY <3>1, <3>3, <3>4
  <2> QED BY <2>1, <2>2
<1> QED BY <1>2 DEF MarkFree, h

LEMMA PieceJoin ==
  ASSUME NEW a, NEW c, Piece(a), Piece(c)
  PROVE  Piece(a \o c)
<1> DEFINE h == a \o c
<1>0. a \in Seq(Byte) /\ c \in Seq(Byte)
  BY DEF Piece, Passed
<1>1. /\ h \in Seq(Byte) /\ Len(h) = Len(a) + Len(c) /\ Len(a) \in Nat /\ Len(c) \in Nat
      /\ InPlace(a, h, 0) /\ InPlace(c, h, Len(a))
      /\ c # << >> => h[Len(h)] = c[Len(c)]
      /\ c = << >> => h = a
  BY <1>0, JoinIs
<1> HIDE DEF h
<1>2. ASSUME NEW b \in Seq(Byte), NEW k \in Nat, NEW d \in Nat,
             InPlace(h, b, k), ComesTo(b, k, FALSE, d)
      PROVE  ComesTo(b, k + Len(h), FALSE, d)
  <2>1. InPlace(a, b, k) /\ InPlace(c, b, k + Len(a))
    BY <1>0, <1>2, InPlaceJoin DEF h
  <2>3. ComesTo(b, k + Len(a), FALSE, d) /\ k + Len(a) \in Nat
    <3>1. Passed(a) /\ k + Len(a) \in Nat
      BY <1>1 DEF Piece
    <3> QED BY <1>2, <2>1, <3>1 DEF Passed
  <2>4. ComesTo(b, (k + Len(a)) + Len(c), FALSE, d)
    BY <2>1, <2>3 DEF Piece, Passed
  <2>5. (k + Len(a)) + Len(c) = k + Len(h)
    BY <1>1
  <2> QED BY <2>4, <2>5
<1>3. Passed(h)
  BY <1>1, <1>2 DEF Passed
<1>4. MarkFree(h)
  BY <1>0, MarkFreeJoin DEF Piece, h
<1>5. h # << >> => h[Len(h)] # DLE
  BY <1>1 DEF Piece
<1> QED BY <1>3, <1>4, <1>5 DEF Piece, h

-----------------------------------------------------------------------------
(* A value is passed over. *)

\* The run of DLEs in front of p is even.
EvenBefore(s, p) == \E m \in 0 .. p : m % 2 = 0 /\ Escaped(s, p, m)

\* It is odd in front of every ETB before p.
OddAtMarks(s, p) ==
  \A j \in 0 .. p - 1 : At(s, j) = ETB => \E m \in 0 .. j : m % 2 = 1 /\ Escaped(s, j, m)

LEMMA SpellingMarks ==
  ASSUME NEW v \in Seq(Byte)
  PROVE  OddAtMarks(Spelling(v), Len(Spelling(v)))
<1> DEFINE s == Spelling(v)
           n == Len(v)
<1>1. PICK off : Spells(v, s, n, off)
  BY SpellingIs
<1>2. /\ s \in Seq(Byte) /\ Len(s) \in Nat /\ n \in Nat
      /\ off \in [0 .. n -> Nat] /\ off[0] = 0 /\ off[n] = Len(s)
      /\ \A i \in 1 .. n : off[i] <= Len(s) /\ SpelledAt(v[i], s, off[i - 1], off[i])
  BY <1>1 DEF Spells
<1> HIDE DEF s, n
<1> DEFINE G == {i \in 0 .. n : EvenBefore(s, off[i]) /\ OddAtMarks(s, off[i])}
<1>3. 0 \in G
  <2>1. Escaped(s, 0, 0) /\ 0 % 2 = 0
    BY DEF Escaped
  <2>2. EvenBefore(s, 0) /\ OddAtMarks(s, 0)
    BY <2>1 DEF EvenBefore, OddAtMarks
  <2> QED BY <1>2, <2>2
<1>4. ASSUME NEW i \in 1 .. n, i - 1 \in G
      PROVE  i \in G
  <2> DEFINE x == v[i]
             q == off[i - 1]
             r == off[i]
  <2>1. q \in Nat /\ r \in Nat /\ SpelledAt(x, s, q, r) /\ i - 1 \in 0 .. n /\ i \in 0 .. n
    BY <1>2
  <2>2. EvenBefore(s, q) /\ OddAtMarks(s, q)
    BY <1>4
  <2> HIDE DEF x, q, r
  <2>3. PICK m \in 0 .. q : m % 2 = 0 /\ Escaped(s, q, m)
    BY <2>2 DEF EvenBefore
  <2>4. CASE IsTextEscaped(x)
    <3>1. r = q + 2 /\ At(s, q) = DLE /\ At(s, q + 1) = x
      BY <2>1, <2>4 DEF SpelledAt
    <3>2. (m + 1) % 2 = 1 /\ (m + 2) % 2 = 0 /\ 0 % 2 = 0
      BY <2>1, <2>3
    <3>3. Escaped(s, q + 1, m + 1)
      <4>1. \A p \in (q + 1) - (m + 1) .. (q + 1) - 1 : p \in q - m .. q - 1 \/ p = q
        BY <2>1
      <4>2. m + 1 < q + 1 => m < q /\ (q + 1) - (m + 1) - 1 = q - m - 1
        BY <2>1
      <4> QED BY <2>3, <3>1, <4>1, <4>2 DEF Escaped
    <3>4. EvenBefore(s, r)
      <4>1. CASE x = DLE
        <5>1. \A p \in (q + 2) - (m + 2) .. (q + 2) - 1 : p \in (q + 1) - (m + 1) .. (q + 1) - 1 \/ p = q + 1
          BY <2>1
        <5>2. m + 2 < q + 2 => m + 1 < q + 1 /\ (q + 2) - (m + 2) - 1 = (q + 1) - (m + 1) - 1
          BY <2>1
        <5>3. Escaped(s, q + 2, m + 2)
          BY <3>1, <3>3, <4>1, <5>1, <5>2 DEF Escaped
        <5>4. m + 2 \in 0 .. q + 2
          BY <2>1
        <5> QED BY <3>1, <3>2, <5>3, <5>4 DEF EvenBefore
      <4>2. CASE x # DLE
        <5>1. Escaped(s, q + 2, 0)
          <6>1. (q + 2) - 0 - 1 = q + 1 /\ \A p \in (q + 2) - 0 .. (q + 2) - 1 : FALSE
            BY <2>1
          <6> QED BY <3>1, <4>2, <6>1 DEF Escaped
        <5>2. 0 \in 0 .. q + 2
          BY <2>1
        <5> QED BY <3>1, <3>2, <5>1, <5>2 DEF EvenBefore
      <4> QED BY <4>1, <4>2
    <3>5. OddAtMarks(s, r)
      <4> SUFFICES ASSUME NEW j \in 0 .. r - 1, At(s, j) = ETB
                   PROVE  \E k \in 0 .. j : k % 2 = 1 /\ Escaped(s, j, k)
        BY DEF OddAtMarks
      <4>1. j \in 0 .. q - 1 \/ j = q \/ j = q + 1
        BY <2>1, <3>1
      <4>2. j # q
        BY <3>1 DEF DLE, ETB
      <4>3. m + 1 \in 0 .. q + 1
        BY <2>1
      <4> QED BY <2>2, <3>2, <3>3, <4>1, <4>2, <4>3 DEF OddAtMarks
    <3> QED BY <2>1, <3>4, <3>5 DEF r
  <2>5. CASE ~IsTextEscaped(x)
    <3>1. r = q + 1 /\ At(s, q) = x /\ x # DLE /\ x # ETB
      BY <2>1, <2>5 DEF SpelledAt, IsTextEscaped
    <3>2. EvenBefore(s, r)
      <4>1. (q + 1) - 0 - 1 = q /\ 0 % 2 = 0 /\ 0 \in 0 .. q + 1
            /\ \A p \in (q + 1) - 0 .. (q + 1) - 1 : FALSE
        BY <2>1
      <4>2. Escaped(s, q + 1, 0)
        BY <3>1, <4>1 DEF Escaped
      <4> QED BY <3>1, <4>1, <4>2 DEF EvenBefore
    <3>3. OddAtMarks(s, r)
      <4> SUFFICES ASSUME NEW j \in 0 .. r - 1, At(s, j) = ETB
                   PROVE  \E k \in 0 .. j : k % 2 = 1 /\ Escaped(s, j, k)
        BY DEF OddAtMarks
      <4>1. j \in 0 .. q - 1 \/ j = q
        BY <2>1, <3>1
      <4> QED BY <2>2, <3>1, <4>1 DEF OddAtMarks
    <3> QED BY <2>1, <3>2, <3>3 DEF r
  <2> QED BY <2>4, <2>5
<1>5. n \in G
  <2> HIDE DEF G
  <2>1. \A i \in 0 .. n : i \in G
    BY <1>2, <1>3, <1>4, UpTo
  <2> QED BY <1>2, <2>1
<1> QED BY <1>2, <1>5 DEF s

\* A text that the loop is in, it reads to its end.
LEMMA ComesOverText ==
  ASSUME NEW b \in Seq(Byte), NEW p \in 0 .. Len(b), NEW d, ComesTo(b, p, TRUE, d),
         TextRest(b, Len(b))[p] # Err
  PROVE  ComesTo(b, TextRest(b, Len(b))[p], FALSE, d)
<1>1. PICK y \in Reader : RunOf(b)[y] = ScanOf(b) /\ Changed(NewReader, y, p, TRUE, d)
  BY DEF ComesTo
<1>2. y.in_text = TRUE /\ y.pos = p /\ y.depth = d
  BY <1>1 DEF Changed
<1>3. PassesTo(b, y, TextRest(b, Len(b))[p], FALSE)
  <2>1. y.pos <= Len(b) /\ TextRest(b, Len(b))[y.pos] = TextRest(b, Len(b))[p]
    BY <1>2
  <2> QED BY <1>2, <2>1, PassesText
<1>4. PICK z : Passes(b, y, z) /\ z.pos = TextRest(b, Len(b))[p] /\ z.in_text = FALSE
  BY <1>3 DEF PassesTo
<1>5. z \in Reader /\ RunOf(b)[z] = ScanOf(b) /\ Changed(NewReader, z, z.pos, FALSE, d)
  BY <1>1, <1>2, <1>4 DEF Passes, Changed
<1> QED BY <1>4, <1>5 DEF ComesTo

LEMMA PieceText ==
  ASSUME NEW v \in Seq(Byte), NEW w \in Seq(Byte), Spelling(v) \in Seq(Byte),
         Len(w) = Len(Spelling(v)) + 2,
         At(w, 0) = STX, At(w, Len(Spelling(v)) + 1) = ETX,
         \A q \in 0 .. Len(Spelling(v)) - 1 : At(w, 1 + q) = At(Spelling(v), q)
  PROVE  Piece(w)
<1> DEFINE s == Spelling(v)
<1>1. /\ s \in Seq(Byte) /\ Len(s) \in Nat /\ Len(w) = Len(s) + 2
      /\ At(w, 0) = STX /\ At(w, Len(s) + 1) = ETX
      /\ \A q \in 0 .. Len(s) - 1 : At(w, 1 + q) = At(s, q)
  OBVIOUS
<1>2. OddAtMarks(s, Len(s))
  BY SpellingMarks
<1>3. ASSUME NEW b \in Seq(Byte), NEW k \in Nat, NEW d \in Nat,
             InPlace(w, b, k), ComesTo(b, k, FALSE, d)
      PROVE  ComesTo(b, k + Len(w), FALSE, d)
  <2> DEFINE len == Len(b)
  <2>1. len \in Nat /\ k + Len(s) + 2 <= len /\ k \in 0 .. len - 1 /\ k + 1 \in 0 .. len
    BY <1>1, <1>3 DEF InPlace
  <2>2. /\ At(b, k) = STX /\ At(b, k + 1 + Len(s)) = ETX
        /\ \A q \in 0 .. Len(s) - 1 : At(b, k + 1 + q) = At(s, q)
    <3>1. At(b, k + 0) = At(w, 0) /\ k + 0 = k
      BY <1>1, <1>3 DEF InPlace
    <3>2. At(b, k + (Len(s) + 1)) = At(w, Len(s) + 1) /\ k + (Len(s) + 1) = k + 1 + Len(s)
      BY <1>1, <1>3 DEF InPlace
    <3>3. ASSUME NEW q \in 0 .. Len(s) - 1
          PROVE  At(b, k + 1 + q) = At(s, q)
      <4>1. 1 + q \in 0 .. Len(w) - 1 /\ k + (1 + q) = k + 1 + q
        BY <1>1
      <4>2. At(b, k + (1 + q)) = At(w, 1 + q)
        BY <1>3, <4>1 DEF InPlace
      <4> QED BY <1>1, <4>1, <4>2
    <3> QED BY <1>1, <3>1, <3>2, <3>3
  <2>3. TextRest(b, len)[k + 1] = k + Len(s) + 2
    <3> HIDE DEF len
    <3> QED BY <2>1, <2>2, SpelledText
  <2> HIDE DEF s
  <2>4. ComesTo(b, k + 1, TRUE, d)
    BY <1>3, <2>1, <2>2, ComesFurther
  <2>5. k + Len(s) + 2 \in Nat /\ k + Len(s) + 2 = k + Len(w)
    <3> DEFINE n == Len(s)
    <3>1. n \in Nat /\ Len(w) = n + 2
      BY <1>1
    <3> HIDE DEF n
    <3>2. k + n + 2 \in Nat /\ k + n + 2 = k + (n + 2)
      BY <3>1
    <3>3. k + n + 2 = k + Len(w)
      BY <3>1, <3>2
    <3> QED BY <3>2, <3>3 DEF n
  <2>6. k + Len(s) + 2 # Err
    BY <2>5 DEF Err
  <2>7. ComesTo(b, k + Len(s) + 2, FALSE, d)
    BY <2>1, <2>3, <2>4, <2>6, ComesOverText
  <2> QED BY <2>5, <2>7
<1>4. Passed(w)
  BY <1>3 DEF Passed
<1> HIDE DEF s
<1>5. ASSUME NEW i \in 0 .. Len(w) - 1, At(w, i) = ETB
      PROVE  \E m \in 0 .. i - 1 : m % 2 = 1 /\ Escaped(w, i, m)
  <2>1. i # 0 /\ i # Len(s) + 1
    BY <1>1, <1>5 DEF STX, ETX, ETB
  <2> DEFINE j == i - 1
  <2>2. j \in 0 .. Len(s) - 1 /\ 1 + j = i
    BY <1>1, <2>1
  <2> HIDE DEF j
  <2>3. At(s, j) = ETB
    BY <1>1, <1>5, <2>2
  <2>4. PICK m \in 0 .. j : m % 2 = 1 /\ Escaped(s, j, m)
    BY <1>2, <2>2, <2>3 DEF OddAtMarks
  <2>5. ASSUME NEW q \in i - m .. i - 1
        PROVE  At(w, q) = DLE
    <3>1. q - 1 \in j - m .. j - 1 /\ q - 1 \in 0 .. Len(s) - 1 /\ 1 + (q - 1) = q
      BY <1>1, <2>2
    <3>2. At(s, q - 1) = DLE
      BY <2>4, <3>1 DEF Escaped
    <3> QED BY <1>1, <3>1, <3>2
  <2>6. At(w, i - m - 1) # DLE
    <3>1. CASE m < j
      <4>1. j - m - 1 \in 0 .. Len(s) - 1 /\ 1 + (j - m - 1) = i - m - 1
        BY <1>1, <2>2, <3>1
      <4>2. At(s, j - m - 1) # DLE
        BY <2>4, <3>1 DEF Escaped
      <4>3. At(w, 1 + (j - m - 1)) = At(s, j - m - 1)
        BY <1>1, <4>1
      <4> QED BY <4>1, <4>2, <4>3
    <3>2. CASE ~(m < j)
      <4>1. i - m - 1 = 0
        BY <2>2, <2>4, <3>2
      <4> QED BY <1>1, <4>1 DEF STX, DLE
    <3> QED BY <3>1, <3>2
  <2>7. m \in 0 .. i - 1
    BY <2>2
  <2> QED BY <2>4, <2>5, <2>6, <2>7 DEF Escaped
<1>6. w[Len(w)] # DLE
  BY <1>1 DEF At, ETX, DLE
<1> QED BY <1>4, <1>5, <1>6 DEF Piece, MarkFree

\* What write_value gives, whatever the value.
LEMMA PieceValue ==
  ASSUME NEW v \in Seq(Byte)
  PROVE  Piece(WriteValue(v))
<1>1. CASE IsPlainValue(v)
  <2>1. WriteValue(v) = v
    BY <1>1 DEF WriteValue
  <2>2. \A i \in 1 .. Len(v) : MovesOnly(v[i])
    BY <1>1 DEF IsPlainValue, IsPlain, MovesOnly, STX, DLE, CAN, ETB, SYN
  <2> QED BY <2>1, <2>2, PassedRun
<1>2. CASE ~IsPlainValue(v)
  BY <1>2, WritesText, PieceText
<1> QED BY <1>1, <1>2

-----------------------------------------------------------------------------
(* The builder's state. *)

BuilderState ==
  [buf : Seq(Byte), in_record : BOOLEAN, units : Nat, stack : Seq(BOOLEAN \X Nat)]

\* The loop comes from the start to the end of c, and d levels are open there.
Reaches(c, d) ==
  /\ c \in Seq(Byte) /\ d \in Nat
  /\ \A b \in Seq(Byte) : InPlace(c, b, 0) => ComesTo(b, Len(c), FALSE, d)

\* What holds between any two calls.
Sound(b) ==
  /\ b \in BuilderState
  /\ Reaches(b.buf, Len(b.stack))
  /\ MarkFree(b.buf)
  /\ b.stack = << >> /\ b.buf # << >> => b.buf[Len(b.buf)] # DLE

\* The call that makes c of b writes a piece and opens or closes no level.
Grows(b, c) ==
  /\ b \in BuilderState /\ c \in BuilderState
  /\ c.stack = b.stack
  /\ \E p : Piece(p) /\ c.buf = b.buf \o p

LEMMA NewIsSound == Sound(NewBuilder)
<1>1. NewBuilder \in BuilderState /\ NewBuilder.buf = << >> /\ NewBuilder.stack = << >>
  BY DEF NewBuilder, BuilderState
<1>2. ASSUME NEW b \in Seq(Byte)
      PROVE  ComesTo(b, 0, FALSE, 0)
  <2>1. Changed(NewReader, NewReader, 0, FALSE, 0)
    BY DEF Changed, NewReader
  <2> QED BY <2>1, NewReaderTyped DEF ComesTo, ScanOf, RunOf
<1>3. << >> \in Seq(Byte) /\ Len(<< >>) = 0
  OBVIOUS
<1>4. Reaches(<< >>, 0)
  BY <1>2, <1>3 DEF Reaches
<1>5. MarkFree(<< >>)
  BY <1>3 DEF MarkFree
<1> QED BY <1>1, <1>3, <1>4, <1>5 DEF Sound

\* A text or a run more.
LEMMA ReachesOn ==
  ASSUME NEW a, NEW d, Reaches(a, d), NEW p, Piece(p)
  PROVE  Reaches(a \o p, d)
<1>1. a \in Seq(Byte) /\ p \in Seq(Byte) /\ d \in Nat /\ Len(a) \in Nat /\ 0 + Len(a) = Len(a)
  BY DEF Reaches, Piece, Passed
<1>2. a \o p \in Seq(Byte) /\ Len(a \o p) = Len(a) + Len(p)
  BY <1>1, JoinIs
<1>3. ASSUME NEW b \in Seq(Byte), InPlace(a \o p, b, 0)
      PROVE  ComesTo(b, Len(a) + Len(p), FALSE, d)
  <2>1. InPlace(a, b, 0) /\ InPlace(p, b, Len(a))
    BY <1>1, <1>3, InPlaceJoin
  <2>2. ComesTo(b, Len(a), FALSE, d)
    BY <2>1 DEF Reaches
  <2> QED BY <1>1, <2>1, <2>2 DEF Piece, Passed
<1> QED BY <1>1, <1>2, <1>3 DEF Reaches

\* The code of a level more.
LEMMA ReachesLevel ==
  ASSUME NEW a, NEW d, Reaches(a, d)
  PROVE  /\ Reaches(a \o <<DLE>>, d + 1)
         /\ d > 0 => Reaches(a \o <<CAN>>, d - 1)
<1>1. a \in Seq(Byte) /\ d \in Nat /\ Len(a) \in Nat /\ 0 + Len(a) = Len(a)
  BY DEF Reaches
<1>2. ASSUME NEW x \in Byte
      PROVE  /\ a \o <<x>> \in Seq(Byte) /\ Len(a \o <<x>>) = Len(a) + 1
             /\ \A b \in Seq(Byte) : InPlace(a \o <<x>>, b, 0) =>
                  ComesTo(b, Len(a), FALSE, d) /\ Len(a) \in 0 .. Len(b) - 1 /\ At(b, Len(a)) = x
  <2> DEFINE p == <<x>>
  <2>1. p \in Seq(Byte) /\ Len(p) = 1 /\ At(p, 0) = x
    BY DEF At
  <2> HIDE DEF p
  <2>2. a \o p \in Seq(Byte) /\ Len(a \o p) = Len(a) + Len(p)
    BY <1>1, <2>1, JoinIs
  <2>3. ASSUME NEW b \in Seq(Byte), InPlace(a \o p, b, 0)
        PROVE  ComesTo(b, Len(a), FALSE, d) /\ Len(a) \in 0 .. Len(b) - 1 /\ At(b, Len(a)) = x
    <3>1. InPlace(a, b, 0) /\ InPlace(p, b, Len(a))
      BY <1>1, <2>1, <2>3, InPlaceJoin
    <3>2. ComesTo(b, Len(a), FALSE, d)
      BY <3>1 DEF Reaches
    <3>3. Len(a) + 1 <= Len(b) /\ At(b, Len(a) + 0) = x /\ Len(a) + 0 = Len(a)
      BY <1>1, <2>1, <3>1 DEF InPlace
    <3>4. Len(a) \in 0 .. Len(b) - 1
      BY <1>1, <3>3
    <3> QED BY <3>2, <3>3, <3>4
  <2> QED BY <2>1, <2>2, <2>3 DEF p
<1>3. DLE \in Byte /\ CAN \in Byte
  BY DEF DLE, CAN, Byte
<1>4. Reaches(a \o <<DLE>>, d + 1)
  <2>1. /\ a \o <<DLE>> \in Seq(Byte) /\ Len(a \o <<DLE>>) = Len(a) + 1
        /\ \A b \in Seq(Byte) : InPlace(a \o <<DLE>>, b, 0) =>
             ComesTo(b, Len(a), FALSE, d) /\ Len(a) \in 0 .. Len(b) - 1 /\ At(b, Len(a)) = DLE
    BY <1>2, <1>3
  <2> DEFINE h == a \o <<DLE>>
  <2> HIDE DEF h
  <2>2. \A b \in Seq(Byte) : InPlace(h, b, 0) => ComesTo(b, Len(a) + 1, FALSE, d + 1)
    BY <1>1, <2>1, ComesFurther DEF h
  <2>3. h \in Seq(Byte) /\ Len(h) = Len(a) + 1 /\ d + 1 \in Nat
    BY <1>1, <2>1 DEF h
  <2>4. Reaches(h, d + 1)
    BY <2>2, <2>3 DEF Reaches
  <2> QED BY <2>4 DEF h
<1>5. ASSUME d > 0
      PROVE  Reaches(a \o <<CAN>>, d - 1)
  <2>1. /\ a \o <<CAN>> \in Seq(Byte) /\ Len(a \o <<CAN>>) = Len(a) + 1
        /\ \A b \in Seq(Byte) : InPlace(a \o <<CAN>>, b, 0) =>
             ComesTo(b, Len(a), FALSE, d) /\ Len(a) \in 0 .. Len(b) - 1 /\ At(b, Len(a)) = CAN
    BY <1>2, <1>3
  <2> DEFINE h == a \o <<CAN>>
  <2> HIDE DEF h
  <2>2. \A b \in Seq(Byte) : InPlace(h, b, 0) => ComesTo(b, Len(a) + 1, FALSE, d - 1)
    BY <1>1, <1>5, <2>1, ComesFurther DEF h
  <2>3. h \in Seq(Byte) /\ Len(h) = Len(a) + 1 /\ d - 1 \in Nat
    BY <1>1, <1>5, <2>1 DEF h
  <2>4. Reaches(h, d - 1)
    BY <2>2, <2>3 DEF Reaches
  <2> QED BY <2>4 DEF h
<1> QED BY <1>4, <1>5

LEMMA GrowsSound ==
  ASSUME NEW b, NEW c, Sound(b), Grows(b, c)
  PROVE  Sound(c)
<1>1. PICK p : Piece(p) /\ c.buf = b.buf \o p
  BY DEF Grows
<1>2. b.buf \in Seq(Byte) /\ p \in Seq(Byte) /\ c \in BuilderState /\ c.stack = b.stack
  BY <1>1 DEF Grows, BuilderState, Piece, Passed
<1>3. Reaches(c.buf, Len(c.stack))
  BY <1>1, <1>2, ReachesOn DEF Sound
<1>4. MarkFree(c.buf)
  BY <1>1, <1>2, MarkFreeJoin DEF Sound, Piece
<1>5. ASSUME c.stack = << >>, c.buf # << >>
      PROVE  c.buf[Len(c.buf)] # DLE
  <2>1. /\ p # << >> => c.buf[Len(c.buf)] = p[Len(p)]
        /\ p = << >> => c.buf = b.buf
    BY <1>1, <1>2, JoinIs
  <2>2. CASE p = << >>
    BY <1>2, <1>5, <2>1, <2>2 DEF Sound
  <2>3. CASE p # << >>
    BY <1>1, <2>1, <2>3 DEF Piece
  <2> QED BY <2>2, <2>3
<1> QED BY <1>2, <1>3, <1>4, <1>5 DEF Sound

LEMMA GrowsOn ==
  ASSUME NEW b, NEW c, NEW e, Grows(b, c), Grows(c, e)
  PROVE  Grows(b, e)
<1>1. PICK p : Piece(p) /\ c.buf = b.buf \o p
  BY DEF Grows
<1>2. PICK q : Piece(q) /\ e.buf = c.buf \o q
  BY DEF Grows
<1>3. b.buf \in Seq(Byte) /\ p \in Seq(Byte) /\ q \in Seq(Byte)
  BY <1>1, <1>2 DEF Grows, BuilderState, Piece, Passed
<1>4. e.buf = b.buf \o (p \o q)
  <2>1. ASSUME NEW a \in Seq(Byte), NEW s \in Seq(Byte), NEW t \in Seq(Byte)
        PROVE  (a \o s) \o t = a \o (s \o t)
    BY ConcatAssociative
  <2> HIDE DEF Byte
  <2>2. (b.buf \o p) \o q = b.buf \o (p \o q)
    BY <1>3, <2>1, Zenon
  <2> QED BY <1>1, <1>2, <2>2
<1>5. Piece(p \o q)
  BY <1>1, <1>2, PieceJoin
<1> QED BY <1>4, <1>5 DEF Grows

-----------------------------------------------------------------------------
(* Each of the builder's calls. *)

LEMMA PieceCode ==
  ASSUME NEW x \in {FS, GS, RS, US, SOH, ENQ, BEL}
  PROVE  Piece(<<x>>)
<1>1. x \in Byte /\ MovesOnly(x)
  BY DEF Byte, MovesOnly, FS, GS, RS, US, SOH, ENQ, BEL, STX, DLE, CAN, ETB, SYN
<1>2. <<x>> \in Seq(Byte) /\ \A i \in 1 .. Len(<<x>>) : MovesOnly(<<x>>[i])
  BY <1>1
<1> QED BY <1>2, PassedRun

LEMMA PieceEmpty == Piece(<< >>)
<1>1. << >> \in Seq(Byte) /\ \A i \in 1 .. Len(<< >>) : MovesOnly(<< >>[i])
  OBVIOUS
<1> QED BY <1>1, PassedRun

LEMMA PieceName ==
  ASSUME NEW name \in Seq(Byte), IsName(name)
  PROVE  Piece(name)
<1>1. CASE name = << >>
  BY <1>1, PieceEmpty
<1>2. CASE name # << >>
  <2>1. \A i \in 1 .. Len(name) : MovesOnly(name[i])
    BY <1>2 DEF IsName, IsPlainValue, IsPlain, MovesOnly, STX, DLE, CAN, ETB, SYN
  <2> QED BY <2>1, PassedRun
<1> QED BY <1>1, <1>2

\* A piece more.
LEMMA PushGrows ==
  ASSUME NEW b \in BuilderState, NEW p, Piece(p)
  PROVE  Push(b, p) \in BuilderState /\ Grows(b, Push(b, p))
<1>1. /\ b.buf \o p \in Seq(Byte) /\ b.in_record \in BOOLEAN /\ b.units \in Nat
      /\ b.stack \in Seq(BOOLEAN \X Nat)
  BY JoinIs DEF BuilderState, Piece, Passed
<1>2. /\ Push(b, p) \in BuilderState
      /\ Push(b, p).buf = b.buf \o p /\ Push(b, p).stack = b.stack
  BY <1>1 DEF Push, BuilderState
<1> QED BY <1>2 DEF Grows

\* Whatever is noted of the record.
LEMMA NotedGrows ==
  ASSUME NEW b, NEW c, Grows(b, c), NEW r \in BOOLEAN, NEW n \in Nat
  PROVE  Grows(b, [c EXCEPT !.in_record = r, !.units = n])
<1> DEFINE e == [c EXCEPT !.in_record = r, !.units = n]
<1>1. c \in BuilderState
  BY DEF Grows
<1>2. e \in BuilderState /\ e.buf = c.buf /\ e.stack = c.stack
  BY <1>1 DEF BuilderState
<1> HIDE DEF e
<1>3. Grows(b, e)
  BY <1>2 DEF Grows
<1> QED BY <1>3 DEF e

LEMMA CountedGrows ==
  ASSUME NEW b, NEW c, Grows(b, c), NEW n \in Nat
  PROVE  Grows(b, [c EXCEPT !.units = n])
<1> DEFINE e == [c EXCEPT !.units = n]
<1>1. c \in BuilderState
  BY DEF Grows
<1>2. e \in BuilderState /\ e.buf = c.buf /\ e.stack = c.stack
  BY <1>1 DEF BuilderState
<1> HIDE DEF e
<1>3. Grows(b, e)
  BY <1>2 DEF Grows
<1> QED BY <1>3 DEF e

LEMMA GrowsNot ==
  ASSUME NEW b \in BuilderState
  PROVE  Grows(b, b) /\ Grows(b, EndRecord(b))
<1>1. b.buf \o << >> = b.buf
  BY DEF BuilderState
<1>2. /\ EndRecord(b) \in BuilderState
      /\ EndRecord(b).buf = b.buf /\ EndRecord(b).stack = b.stack
  BY DEF EndRecord, BuilderState
<1> QED BY <1>1, <1>2, PieceEmpty DEF Grows

\* The primitives that open and close no level.
LEMMA PrimitivesGrow ==
  ASSUME NEW b \in BuilderState
  PROVE  /\ Grows(b, Rs(b))
         /\ \A v \in Seq(Byte) : /\ Grows(b, Us(b, v)) /\ Grows(b, FirstValue(b, v))
                                 /\ Grows(b, BelNote(b, v))
         /\ \A name \in Seq(Byte) : IsName(name) =>
              Grows(b, Fs(b, name)) /\ Grows(b, Gs(b, name)) /\ Grows(b, Soh(b, name))
<1>1. ASSUME NEW x \in {FS, GS, RS, US, SOH, ENQ, BEL}, NEW p, Piece(p)
      PROVE  Piece(<<x>> \o p)
  BY <1>1, PieceCode, PieceJoin
<1>2. ASSUME NEW p, Piece(p), NEW r \in BOOLEAN, NEW n \in Nat
      PROVE  /\ Push(b, p) \in BuilderState /\ Grows(b, Push(b, p))
             /\ Grows(b, [Push(b, p) EXCEPT !.in_record = r, !.units = n])
             /\ Grows(b, [Push(b, p) EXCEPT !.units = n])
  <2> DEFINE c == Push(b, p)
  <2>1. c \in BuilderState /\ Grows(b, c)
    BY <1>2, PushGrows
  <2> HIDE DEF c
  <2>2. /\ Grows(b, [c EXCEPT !.in_record = r, !.units = n])
        /\ Grows(b, [c EXCEPT !.units = n])
    BY <2>1, NotedGrows, CountedGrows, Zenon
  <2> QED BY <2>1, <2>2 DEF c
<1>3. Grows(b, Rs(b))
  BY <1>2, PieceCode, Zenon DEF Rs
<1>5. ASSUME NEW v \in Seq(Byte)
      PROVE  Grows(b, Us(b, v)) /\ Grows(b, FirstValue(b, v)) /\ Grows(b, BelNote(b, v))
  <2>1. /\ Piece(WriteValue(v)) /\ Piece(<<US>> \o WriteValue(v))
        /\ Piece(<<BEL>> \o WriteValue(v))
    BY <1>1, PieceValue
  <2>2. Grows(b, Us(b, v))
    <3> DEFINE c == Push(b, <<US>> \o WriteValue(v))
    <3>1. c \in BuilderState /\ Grows(b, c)
      BY <2>1, PushGrows
    <3>2. Us(b, v) = [c EXCEPT !.units = c.units + 1]
      BY DEF Us
    <3> HIDE DEF c
    <3>3. c.units + 1 \in Nat
      BY <3>1 DEF BuilderState
    <3>4. Grows(b, [c EXCEPT !.units = c.units + 1])
      BY <3>1, <3>3, CountedGrows, Zenon
    <3> QED BY <3>2, <3>4
  <2>3. Grows(b, FirstValue(b, v))
    <3>1. 1 \in Nat /\ TRUE \in BOOLEAN
      OBVIOUS
    <3> QED BY <1>2, <2>1, <3>1, Zenon DEF FirstValue
  <2>4. Grows(b, BelNote(b, v))
    BY <2>1, PushGrows DEF BelNote
  <2> QED BY <2>2, <2>3, <2>4
<1>4. ASSUME NEW name \in Seq(Byte), IsName(name)
      PROVE  Grows(b, Fs(b, name)) /\ Grows(b, Gs(b, name)) /\ Grows(b, Soh(b, name))
  <2>1. /\ Piece(<<FS>> \o name) /\ Piece(<<GS>> \o name) /\ Piece(<<SOH>> \o name)
    BY <1>1, <1>4, PieceName
  <2>2. Grows(b, EndRecord(b)) /\ EndRecord(b) \in BuilderState
    BY GrowsNot DEF Grows
  <2>3. ASSUME NEW p, Piece(p)
        PROVE  Grows(b, Push(EndRecord(b), p)) /\ Grows(b, Push(b, p))
    <3> DEFINE e == EndRecord(b)
    <3> HIDE DEF e
    <3>1. e \in BuilderState /\ Grows(b, e)
      BY <2>2 DEF e
    <3>2. Grows(e, Push(e, p)) /\ Grows(b, Push(b, p))
      BY <2>3, <3>1, PushGrows
    <3> QED BY <3>1, <3>2, GrowsOn DEF e
  <2> QED BY <2>1, <2>3, Zenon DEF Fs, Gs, Soh
<1> QED BY <1>3, <1>4, <1>5

LEMMA LevelsSound ==
  ASSUME NEW b, Sound(b)
  PROVE  /\ Sound(Dle(b)) /\ Dle(b).stack # << >> /\ Front(Dle(b).stack) = b.stack
         /\ b.stack # << >> => Sound(Can(b)) /\ Can(b).stack = Front(b.stack)
<1>1. /\ b.buf \in Seq(Byte) /\ b.in_record \in BOOLEAN /\ b.units \in Nat
      /\ b.stack \in Seq(BOOLEAN \X Nat) /\ b \in BuilderState
  BY DEF Sound, BuilderState
<1>2. MarkFree(<<DLE>>) /\ MarkFree(<<CAN>>) /\ <<DLE>> \in Seq(Byte) /\ <<CAN>> \in Seq(Byte)
  BY DEF MarkFree, At, DLE, CAN, ETB, Byte
<1>3. /\ b.buf \o <<DLE>> \in Seq(Byte) /\ MarkFree(b.buf \o <<DLE>>)
      /\ b.buf \o <<CAN>> \in Seq(Byte) /\ MarkFree(b.buf \o <<CAN>>)
  BY <1>1, <1>2, JoinIs, MarkFreeJoin DEF Sound
<1>4. Sound(Dle(b)) /\ Dle(b).stack # << >> /\ Front(Dle(b).stack) = b.stack
  <2> DEFINE e == <<b.in_record, b.units>>
             stack == Append(b.stack, e)
             c == Dle(b)
  <2>1. e \in BOOLEAN \X Nat
    BY <1>1
  <2> HIDE DEF e
  <2>2. /\ stack \in Seq(BOOLEAN \X Nat) /\ stack # << >> /\ Len(stack) = Len(b.stack) + 1
        /\ Front(stack) = b.stack
    BY <1>1, <2>1 DEF Front
  <2>3. c.buf = b.buf \o <<DLE>> /\ c.stack = stack /\ c \in BuilderState
    <3> HIDE DEF stack
    <3> DEFINE h == b.buf \o <<DLE>>
    <3>0. h \in Seq(Byte)
      BY <1>3
    <3> HIDE DEF h
    <3>1. Push(b, <<DLE>>) = [b EXCEPT !.buf = h]
      BY DEF Push, h
    <3>2. c = [[b EXCEPT !.buf = h] EXCEPT !.in_record = FALSE, !.units = 0, !.stack = stack]
      BY <1>1, <3>1 DEF Dle, stack, e, BuilderState
    <3>3. c.buf = h /\ c.stack = stack /\ c \in BuilderState
      <4> HIDE DEF c
      <4> QED BY <1>1, <2>2, <3>0, <3>2 DEF BuilderState
    <3> QED BY <3>3 DEF h
  <2> HIDE DEF c, stack
  <2>4. Reaches(c.buf, Len(c.stack))
    <3>1. Reaches(b.buf \o <<DLE>>, Len(b.stack) + 1)
      BY ReachesLevel DEF Sound
    <3> QED BY <2>2, <2>3, <3>1
  <2>5. Sound(c)
    BY <1>3, <2>2, <2>3, <2>4 DEF Sound
  <2> QED BY <2>2, <2>3, <2>5 DEF c
<1>5. ASSUME b.stack # << >>
      PROVE  Sound(Can(b)) /\ Can(b).stack = Front(b.stack)
  <2> DEFINE e == Last(b.stack)
             stack == Front(b.stack)
             c == Can(b)
  <2>1. /\ e \in BOOLEAN \X Nat /\ stack \in Seq(BOOLEAN \X Nat)
        /\ Len(stack) = Len(b.stack) - 1 /\ Len(b.stack) > 0
    BY <1>1, <1>5 DEF Front, Last
  <2>2. e[1] \in BOOLEAN /\ e[2] \in Nat
    <3> HIDE DEF e
    <3> QED BY <2>1
  <2>3. c.buf = b.buf \o <<CAN>> /\ c.stack = stack /\ c \in BuilderState
    <3> HIDE DEF stack, e
    <3> DEFINE h == b.buf \o <<CAN>>
    <3>0. h \in Seq(Byte)
      BY <1>3
    <3> HIDE DEF h
    <3>1. Push(b, <<CAN>>) = [b EXCEPT !.buf = h]
      BY DEF Push, h
    <3>2. c = [[b EXCEPT !.buf = h] EXCEPT !.in_record = e[1], !.units = e[2], !.stack = stack]
      BY <1>1, <3>1 DEF Can, stack, e, BuilderState
    <3>3. c.buf = h /\ c.stack = stack /\ c \in BuilderState
      <4> HIDE DEF c
      <4> QED BY <1>1, <2>1, <2>2, <3>0, <3>2 DEF BuilderState
    <3> QED BY <3>3 DEF h
  <2> HIDE DEF c, stack
  <2>4. Reaches(c.buf, Len(c.stack))
    <3>1. Reaches(b.buf \o <<CAN>>, Len(b.stack) - 1)
      BY <2>1, ReachesLevel DEF Sound
    <3> QED BY <2>1, <2>3, <3>1
  <2>5. c.buf[Len(c.buf)] # DLE
    <3>1. (b.buf \o <<CAN>>)[Len(b.buf \o <<CAN>>)] = CAN
      BY <1>1
    <3> QED BY <2>3, <3>1 DEF CAN, DLE
  <2>6. Sound(c)
    BY <1>3, <2>3, <2>4, <2>5 DEF Sound
  <2> QED BY <2>3, <2>6 DEF c, stack
<1> QED BY <1>4, <1>5

\* The composed calls that are not folds.
LEMMA CallsGrow ==
  ASSUME NEW b \in BuilderState
  PROVE  /\ Grows(b, InRecord(b)) /\ Grows(b, NextUnit(b))
         /\ \A v \in Seq(Byte) : Grows(b, Field(b, v)) /\ Grows(b, Note(b, v))
         /\ \A name \in Seq(Byte), v \in Seq(Byte) : IsName(name) =>
              Grows(b, Key(b, name, v)) /\ Grows(b, HeadingEntry(b, name, v))
<1>1. Grows(b, b) /\ Grows(b, Rs(b)) /\ Grows(b, EndRecord(b))
  BY GrowsNot, PrimitivesGrow
<1>2. Grows(b, InRecord(b))
  BY <1>1 DEF InRecord
<1>3. ASSUME NEW c, Grows(b, c), NEW v \in Seq(Byte)
      PROVE  Grows(b, Us(c, v)) /\ Grows(b, FirstValue(c, v))
  <2>1. c \in BuilderState
    BY <1>3 DEF Grows
  <2>2. Grows(c, Us(c, v)) /\ Grows(c, FirstValue(c, v))
    BY <2>1, PrimitivesGrow
  <2> QED BY <1>3, <2>2, GrowsOn
<1>4. ASSUME NEW v \in Seq(Byte)
      PROVE  Grows(b, Field(b, v)) /\ Grows(b, Note(b, v))
  <2>1. Grows(b, Field(b, v))
    BY <1>1, <1>3 DEF Field
  <2>2. Grows(b, Note(b, v))
    BY PrimitivesGrow DEF Note
  <2> QED BY <2>1, <2>2
<1>5. ASSUME NEW name \in Seq(Byte), NEW v \in Seq(Byte), IsName(name)
      PROVE  Grows(b, Key(b, name, v)) /\ Grows(b, HeadingEntry(b, name, v))
  <2>1. ASSUME NEW c, Grows(b, c)
        PROVE  Grows(b, Us(Soh(c, name), v))
    <3>1. c \in BuilderState
      BY <2>1 DEF Grows
    <3>2. Grows(c, Soh(c, name))
      BY <1>5, <3>1, PrimitivesGrow
    <3>3. Grows(b, Soh(c, name))
      BY <2>1, <3>2, GrowsOn
    <3> QED BY <1>3, <3>3
  <2> QED BY <1>1, <1>2, <2>1 DEF Key, HeadingEntry
<1>6. Grows(b, NextUnit(b))
  <2> DEFINE at == IF ~b.in_record THEN Rs(b) ELSE IF b.units > 0 THEN Push(b, <<US>>) ELSE b
  <2>1. Grows(b, Push(b, <<US>>))
    BY PieceCode, PushGrows
  <2>2. Grows(b, at)
    BY <1>1, <2>1
  <2>3. NextUnit(b) = [at EXCEPT !.units = at.units + 1]
    BY DEF NextUnit
  <2> HIDE DEF at
  <2>4. at.units + 1 \in Nat
    BY <2>2 DEF Grows, BuilderState
  <2>5. Grows(b, [at EXCEPT !.units = at.units + 1])
    BY <2>2, <2>4, CountedGrows, Zenon
  <2> QED BY <2>3, <2>5
<1> QED BY <1>2, <1>4, <1>5, <1>6

\* What grows with every index has grown at the end.
LEMMA FoldGrows ==
  ASSUME NEW b, NEW n \in Nat, NEW X, Grows(b, X[{}]),
         \A k \in 1 .. n : Grows(b, X[1 .. k - 1]) => Grows(b, X[1 .. k])
  PROVE  Grows(b, X[1 .. n])
<1> DEFINE G == {k \in 0 .. n : Grows(b, X[1 .. k])}
<1>1. 0 \in G
  <2>1. 1 .. 0 = {}
    OBVIOUS
  <2> QED BY <2>1
<1>2. ASSUME NEW k \in 1 .. n, k - 1 \in G
      PROVE  k \in G
  BY <1>2
<1>3. n \in G
  <2> HIDE DEF G
  <2>1. \A k \in 0 .. n : k \in G
    BY <1>1, <1>2, UpTo
  <2> QED BY <2>1
<1> QED BY <1>3

\* A record of any number of values.
LEMMA RecordGrows ==
  ASSUME NEW b \in BuilderState, NEW values \in Seq(Seq(Byte))
  PROVE  Grows(b, PositionalRecord(b, values)) /\ Grows(Rs(b), PositionalRecord(b, values))
<1> DEFINE n == Len(values)
           Of(iter) == [s \in SUBSET DOMAIN values |->
                          IF s = {} THEN Rs(b)
                          ELSE Field(iter[s \ {Max(s)}], values[Max(s)])]
           X == CHOOSE iter : iter = Of(iter)
           F == [at \in BuilderState \X (1 .. n) |-> Field(at[1], values[at[2]])]
<1>1. PositionalRecord(b, values) = X[DOMAIN values]
  BY DEF PositionalRecord, FoldLeft, MapThenFoldSet
<1>2. n \in Nat /\ DOMAIN values = 1 .. n /\ \A k \in 1 .. n : values[k] \in Seq(Byte)
  OBVIOUS
<1>3. Grows(b, Rs(b)) /\ Rs(b) \in BuilderState
  BY PrimitivesGrow DEF Grows
<1>4. ASSUME NEW c \in BuilderState, NEW k \in 1 .. n
      PROVE  /\ F[<<c, k>>] = Field(c, values[k])
             /\ Grows(c, Field(c, values[k]))
             /\ Field(c, values[k]) \in BuilderState
  <2>1. F[<<c, k>>] = Field(c, values[k])
    OBVIOUS
  <2>2. Grows(c, Field(c, values[k]))
    BY <1>2, CallsGrow
  <2> QED BY <2>1, <2>2 DEF Grows
<1>5. F \in [BuilderState \X (1 .. n) -> BuilderState]
  BY <1>4
<1> HIDE DEF F, n
<1>6. X = Of(X)
  <2>1. PICK iter : FoldsUp(iter, n, BuilderState, Rs(b), F)
    BY <1>2, <1>3, <1>5, FoldExists, Zenon
  <2>2. /\ iter \in [SUBSET (1 .. n) -> BuilderState]
        /\ \A s \in SUBSET (1 .. n) :
             iter[s] = IF s = {} THEN Rs(b) ELSE F[<<iter[s \ {Max(s)}], Max(s)>>]
    BY <2>1 DEF FoldsUp
  <2>3. ASSUME NEW s \in SUBSET (1 .. n)
        PROVE  iter[s] = IF s = {} THEN Rs(b)
                         ELSE Field(iter[s \ {Max(s)}], values[Max(s)])
    <3>1. CASE s = {}
      BY <2>2, <3>1
    <3>2. CASE s # {}
      <4>1. Max(s) \in 1 .. n
        BY <1>2, <3>2, MaxIs
      <4>2. iter[s \ {Max(s)}] \in BuilderState
        <5>1. s \ {Max(s)} \in SUBSET (1 .. n)
          OBVIOUS
        <5> QED BY <2>2, <5>1
      <4>3. F[<<iter[s \ {Max(s)}], Max(s)>>] = Field(iter[s \ {Max(s)}], values[Max(s)])
        BY <1>4, <4>1, <4>2
      <4> QED BY <2>2, <3>2, <4>3
    <3> QED BY <3>1, <3>2
  <2>4. iter = Of(iter)
    BY <1>2, <2>2, <2>3
  <2> HIDE DEF Of
  <2> QED BY <2>4
<1> HIDE DEF X
<1>7. Grows(Rs(b), X[{}])
  <2>1. {} \in SUBSET DOMAIN values
    OBVIOUS
  <2>2. X[{}] = Rs(b)
    BY <1>6, <2>1
  <2> QED BY <1>3, <2>2, GrowsNot
<1>8. ASSUME NEW k \in 1 .. n, Grows(Rs(b), X[1 .. k - 1])
      PROVE  Grows(Rs(b), X[1 .. k])
  <2>1. /\ 1 .. k \in SUBSET DOMAIN values /\ 1 .. k # {}
        /\ Max(1 .. k) = k /\ (1 .. k) \ {k} = 1 .. k - 1
    BY <1>2, FirstIndices
  <2>2. X[1 .. k] = Field(X[1 .. k - 1], values[k])
    BY <1>6, <2>1
  <2>3. X[1 .. k - 1] \in BuilderState
    BY <1>8 DEF Grows
  <2>4. Grows(X[1 .. k - 1], X[1 .. k])
    BY <1>4, <2>2, <2>3
  <2> QED BY <1>8, <2>4, GrowsOn
<1>9. Grows(Rs(b), X[1 .. n])
  BY <1>2, <1>7, <1>8, FoldGrows
<1> QED BY <1>1, <1>2, <1>3, <1>9, GrowsOn

\* A record of keyed values.
LEMMA KeyedGrows ==
  ASSUME NEW b \in BuilderState, NEW pairs \in Seq(Seq(Byte) \X Seq(Byte)),
         \A k \in DOMAIN pairs : IsName(pairs[k][1])
  PROVE  Grows(b, KeyedRecord(b, pairs)) /\ Grows(Rs(b), KeyedRecord(b, pairs))
<1> DEFINE n == Len(pairs)
           Of(iter) == [s \in SUBSET DOMAIN pairs |->
                          IF s = {} THEN Rs(b)
                          ELSE Key(iter[s \ {Max(s)}], pairs[Max(s)][1], pairs[Max(s)][2])]
           X == CHOOSE iter : iter = Of(iter)
           F == [at \in BuilderState \X (1 .. n) |-> Key(at[1], pairs[at[2]][1], pairs[at[2]][2])]
<1>1. KeyedRecord(b, pairs) = X[DOMAIN pairs]
  BY DEF KeyedRecord, FoldLeft, MapThenFoldSet
<1>2. n \in Nat /\ DOMAIN pairs = 1 .. n /\ \A k \in 1 .. n : 
        pairs[k][1] \in Seq(Byte) /\ pairs[k][2] \in Seq(Byte) /\ IsName(pairs[k][1])
  OBVIOUS
<1>3. Grows(b, Rs(b)) /\ Rs(b) \in BuilderState
  BY PrimitivesGrow DEF Grows
<1>4. ASSUME NEW c \in BuilderState, NEW k \in 1 .. n
      PROVE  /\ F[<<c, k>>] = Key(c, pairs[k][1], pairs[k][2])
             /\ Grows(c, Key(c, pairs[k][1], pairs[k][2]))
             /\ Key(c, pairs[k][1], pairs[k][2]) \in BuilderState
  <2>1. F[<<c, k>>] = Key(c, pairs[k][1], pairs[k][2])
    OBVIOUS
  <2>2. Grows(c, Key(c, pairs[k][1], pairs[k][2]))
    BY <1>2, CallsGrow
  <2> QED BY <2>1, <2>2 DEF Grows
<1>5. F \in [BuilderState \X (1 .. n) -> BuilderState]
  BY <1>4
<1> HIDE DEF F, n
<1>6. X = Of(X)
  <2>1. PICK iter : FoldsUp(iter, n, BuilderState, Rs(b), F)
    BY <1>2, <1>3, <1>5, FoldExists, Zenon
  <2>2. /\ iter \in [SUBSET (1 .. n) -> BuilderState]
        /\ \A s \in SUBSET (1 .. n) :
             iter[s] = IF s = {} THEN Rs(b) ELSE F[<<iter[s \ {Max(s)}], Max(s)>>]
    BY <2>1 DEF FoldsUp
  <2>3. ASSUME NEW s \in SUBSET (1 .. n)
        PROVE  iter[s] = IF s = {} THEN Rs(b)
                         ELSE Key(iter[s \ {Max(s)}], pairs[Max(s)][1], pairs[Max(s)][2])
    <3>1. CASE s = {}
      BY <2>2, <3>1
    <3>2. CASE s # {}
      <4>1. Max(s) \in 1 .. n
        BY <1>2, <3>2, MaxIs
      <4>2. iter[s \ {Max(s)}] \in BuilderState
        <5>1. s \ {Max(s)} \in SUBSET (1 .. n)
          OBVIOUS
        <5> QED BY <2>2, <5>1
      <4>3. F[<<iter[s \ {Max(s)}], Max(s)>>] = Key(iter[s \ {Max(s)}], pairs[Max(s)][1], pairs[Max(s)][2])
        BY <1>4, <4>1, <4>2
      <4> QED BY <2>2, <3>2, <4>3
    <3> QED BY <3>1, <3>2
  <2>4. iter = Of(iter)
    BY <1>2, <2>2, <2>3
  <2> HIDE DEF Of
  <2> QED BY <2>4
<1> HIDE DEF X
<1>7. Grows(Rs(b), X[{}])
  <2>1. {} \in SUBSET DOMAIN pairs
    OBVIOUS
  <2>2. X[{}] = Rs(b)
    BY <1>6, <2>1
  <2> QED BY <1>3, <2>2, GrowsNot
<1>8. ASSUME NEW k \in 1 .. n, Grows(Rs(b), X[1 .. k - 1])
      PROVE  Grows(Rs(b), X[1 .. k])
  <2>1. /\ 1 .. k \in SUBSET DOMAIN pairs /\ 1 .. k # {}
        /\ Max(1 .. k) = k /\ (1 .. k) \ {k} = 1 .. k - 1
    BY <1>2, FirstIndices
  <2>2. X[1 .. k] = Key(X[1 .. k - 1], pairs[k][1], pairs[k][2])
    BY <1>6, <2>1
  <2>3. X[1 .. k - 1] \in BuilderState
    BY <1>8 DEF Grows
  <2>4. Grows(X[1 .. k - 1], X[1 .. k])
    BY <1>4, <2>2, <2>3
  <2> QED BY <1>8, <2>4, GrowsOn
<1>9. Grows(Rs(b), X[1 .. n])
  BY <1>2, <1>7, <1>8, FoldGrows
<1> QED BY <1>1, <1>2, <1>3, <1>9, GrowsOn

\* A name of a header row.
HeaderEntry(c, name) == IF c.units = 0 THEN FirstValue(c, name) ELSE Us(c, name)

HeaderRow(b, names) == FoldLeft(HeaderEntry, Rs(Soh(EndRecord(b), << >>)), names)

\* A header row.
LEMMA HeaderRowGrows ==
  ASSUME NEW b \in BuilderState, NEW names \in Seq(Seq(Byte))
  PROVE  Grows(b, HeaderRow(b, names)) /\ Grows(Rs(Soh(EndRecord(b), << >>)), HeaderRow(b, names))
<1> DEFINE n == Len(names)
           Of(iter) == [s \in SUBSET DOMAIN names |->
                          IF s = {} THEN Rs(Soh(EndRecord(b), << >>))
                          ELSE HeaderEntry(iter[s \ {Max(s)}], names[Max(s)])]
           X == CHOOSE iter : iter = Of(iter)
           F == [at \in BuilderState \X (1 .. n) |-> HeaderEntry(at[1], names[at[2]])]
<1>1. HeaderRow(b, names) = X[DOMAIN names]
  BY DEF HeaderRow, FoldLeft, MapThenFoldSet
<1>2. n \in Nat /\ DOMAIN names = 1 .. n /\ \A k \in 1 .. n : names[k] \in Seq(Byte)
  OBVIOUS
<1>3. Grows(b, Rs(Soh(EndRecord(b), << >>))) /\ Rs(Soh(EndRecord(b), << >>)) \in BuilderState
  <2>1. << >> \in Seq(Byte) /\ IsName(<< >>)
    BY DEF IsName, IsPlainValue
  <2>2. Grows(b, EndRecord(b)) /\ EndRecord(b) \in BuilderState
    BY GrowsNot DEF Grows
  <2>3. Grows(EndRecord(b), Soh(EndRecord(b), << >>)) /\ Soh(EndRecord(b), << >>) \in BuilderState
    BY <2>1, <2>2, PrimitivesGrow DEF Grows
  <2>4. Grows(Soh(EndRecord(b), << >>), Rs(Soh(EndRecord(b), << >>)))
    BY <2>3, PrimitivesGrow
  <2>5. Grows(b, Rs(Soh(EndRecord(b), << >>)))
    BY <2>2, <2>3, <2>4, GrowsOn
  <2> QED BY <2>5 DEF Grows
<1>4. ASSUME NEW c \in BuilderState, NEW k \in 1 .. n
      PROVE  /\ F[<<c, k>>] = HeaderEntry(c, names[k])
             /\ Grows(c, HeaderEntry(c, names[k]))
             /\ HeaderEntry(c, names[k]) \in BuilderState
  <2>1. F[<<c, k>>] = HeaderEntry(c, names[k])
    OBVIOUS
  <2>2. Grows(c, HeaderEntry(c, names[k]))
    BY <1>2, PrimitivesGrow DEF HeaderEntry
  <2> QED BY <2>1, <2>2 DEF Grows
<1>5. F \in [BuilderState \X (1 .. n) -> BuilderState]
  BY <1>4
<1> HIDE DEF F, n
<1>6. X = Of(X)
  <2>1. PICK iter : FoldsUp(iter, n, BuilderState, Rs(Soh(EndRecord(b), << >>)), F)
    BY <1>2, <1>3, <1>5, FoldExists, Zenon
  <2>2. /\ iter \in [SUBSET (1 .. n) -> BuilderState]
        /\ \A s \in SUBSET (1 .. n) :
             iter[s] = IF s = {} THEN Rs(Soh(EndRecord(b), << >>)) ELSE F[<<iter[s \ {Max(s)}], Max(s)>>]
    BY <2>1 DEF FoldsUp
  <2>3. ASSUME NEW s \in SUBSET (1 .. n)
        PROVE  iter[s] = IF s = {} THEN Rs(Soh(EndRecord(b), << >>))
                         ELSE HeaderEntry(iter[s \ {Max(s)}], names[Max(s)])
    <3>1. CASE s = {}
      BY <2>2, <3>1
    <3>2. CASE s # {}
      <4>1. Max(s) \in 1 .. n
        BY <1>2, <3>2, MaxIs
      <4>2. iter[s \ {Max(s)}] \in BuilderState
        <5>1. s \ {Max(s)} \in SUBSET (1 .. n)
          OBVIOUS
        <5> QED BY <2>2, <5>1
      <4>3. F[<<iter[s \ {Max(s)}], Max(s)>>] = HeaderEntry(iter[s \ {Max(s)}], names[Max(s)])
        BY <1>4, <4>1, <4>2
      <4> QED BY <2>2, <3>2, <4>3
    <3> QED BY <3>1, <3>2
  <2>4. iter = Of(iter)
    BY <1>2, <2>2, <2>3
  <2> HIDE DEF Of
  <2> QED BY <2>4
<1> HIDE DEF X
<1>7. Grows(Rs(Soh(EndRecord(b), << >>)), X[{}])
  <2>1. {} \in SUBSET DOMAIN names
    OBVIOUS
  <2>2. X[{}] = Rs(Soh(EndRecord(b), << >>))
    BY <1>6, <2>1
  <2> QED BY <1>3, <2>2, GrowsNot
<1>8. ASSUME NEW k \in 1 .. n, Grows(Rs(Soh(EndRecord(b), << >>)), X[1 .. k - 1])
      PROVE  Grows(Rs(Soh(EndRecord(b), << >>)), X[1 .. k])
  <2>1. /\ 1 .. k \in SUBSET DOMAIN names /\ 1 .. k # {}
        /\ Max(1 .. k) = k /\ (1 .. k) \ {k} = 1 .. k - 1
    BY <1>2, FirstIndices
  <2>2. X[1 .. k] = HeaderEntry(X[1 .. k - 1], names[k])
    BY <1>6, <2>1
  <2>3. X[1 .. k - 1] \in BuilderState
    BY <1>8 DEF Grows
  <2>4. Grows(X[1 .. k - 1], X[1 .. k])
    BY <1>4, <2>2, <2>3
  <2> QED BY <1>8, <2>4, GrowsOn
<1>9. Grows(Rs(Soh(EndRecord(b), << >>)), X[1 .. n])
  BY <1>2, <1>7, <1>8, FoldGrows
<1> QED BY <1>1, <1>2, <1>3, <1>9, GrowsOn

LEMMA HeaderGrows ==
  ASSUME NEW b \in BuilderState, NEW names \in Seq(Seq(Byte))
  PROVE  Grows(b, Header(b, names))
<1>1. Grows(b, HeaderRow(b, names)) /\ HeaderRow(b, names) \in BuilderState
  BY HeaderRowGrows DEF Grows
<1>2. Header(b, names) = EndRecord(HeaderRow(b, names))
  BY DEF Header, HeaderRow, HeaderEntry, FoldLeft, MapThenFoldSet
<1>3. Grows(HeaderRow(b, names), EndRecord(HeaderRow(b, names)))
  BY <1>1, GrowsNot
<1> QED BY <1>1, <1>2, <1>3, GrowsOn

\* The marks of the groups above one.
LEMMA PieceMarks ==
  ASSUME NEW depth \in Nat
  PROVE  LET p == [i \in 1 .. (depth - 1) |-> GS]
         IN  Piece(p) /\ p \in Seq(Byte) /\ \A i \in 1 .. Len(p) : p[i] = GS
<1> DEFINE p == [i \in 1 .. (depth - 1) |-> GS]
<1>1. GS \in Byte /\ MovesOnly(GS)
  BY DEF Byte, MovesOnly, GS, STX, DLE, CAN, ETB, SYN
<1>2. p \in Seq(Byte) /\ \A i \in 1 .. Len(p) : p[i] = GS
  <2> DEFINE m == IF depth > 0 THEN depth - 1 ELSE 0
  <2>1. m \in Nat /\ 1 .. m = 1 .. (depth - 1)
    OBVIOUS
  <2>2. p = [i \in 1 .. m |-> GS]
    BY <2>1
  <2> HIDE DEF m, p
  <2> QED BY <1>1, <2>1, <2>2
<1> HIDE DEF p
<1>3. Piece(p)
  BY <1>1, <1>2, PassedRun
<1> QED BY <1>2, <1>3 DEF p

LEMMA GroupGrows ==
  ASSUME NEW b \in BuilderState, NEW name \in Seq(Byte), IsName(name), NEW depth \in Nat,
         NEW header, header = << >> \/ header[1] \in Seq(Seq(Byte))
  PROVE  /\ Grows(b, GroupAt(b, name, header, depth))
         /\ Grows(Gs(Push(EndRecord(b), [i \in 1 .. (depth - 1) |-> GS]), name),
                  GroupAt(b, name, header, depth))
<1> DEFINE p == [i \in 1 .. (depth - 1) |-> GS]
           e == EndRecord(b)
           line == Gs(Push(e, p), name)
<1>1. Piece(p)
  BY PieceMarks
<1>2. e \in BuilderState /\ Grows(b, e)
  BY GrowsNot DEF Grows
<1> HIDE DEF e, p
<1>3. Push(e, p) \in BuilderState /\ Grows(e, Push(e, p))
  BY <1>1, <1>2, PushGrows
<1>4. Grows(Push(e, p), line)
  BY <1>3, PrimitivesGrow
<1>5. Grows(b, Push(e, p))
  BY <1>2, <1>3, GrowsOn
<1>6. Grows(b, line)
  BY <1>4, <1>5, GrowsOn
<1> HIDE DEF line
<1>7. line \in BuilderState
  BY <1>6 DEF Grows
<1>8. GroupAt(b, name, header, depth) = IF header = << >> THEN line ELSE Header(line, header[1])
  BY DEF GroupAt, line, e, p
<1>9. header # << >> => Grows(line, Header(line, header[1]))
  BY <1>7, HeaderGrows
<1>10. Grows(line, line)
  BY <1>7, GrowsNot
<1>11. Grows(line, GroupAt(b, name, header, depth))
  BY <1>8, <1>9, <1>10
<1>12. Grows(b, GroupAt(b, name, header, depth))
  BY <1>6, <1>11, GrowsOn
<1> QED BY <1>11, <1>12 DEF line, e, p

\* A record on a level of its own.
LEMMA ListSound ==
  ASSUME NEW b, Sound(b), NEW values \in Seq(Seq(Byte))
  PROVE  Sound(List(b, values)) /\ List(b, values).stack = b.stack
<1> DEFINE level == OpenLevel(b)
           end == IF values = << >> THEN level ELSE PositionalRecord(level, values)
<1>1. b \in BuilderState /\ Grows(b, NextUnit(b))
  BY CallsGrow DEF Sound
<1>2. Sound(NextUnit(b)) /\ NextUnit(b).stack = b.stack
  BY <1>1, GrowsSound DEF Grows
<1>3. Sound(level) /\ level.stack # << >> /\ Front(level.stack) = b.stack
  <2> DEFINE c == NextUnit(b)
  <2>1. level = Dle(c)
    BY DEF OpenLevel
  <2> HIDE DEF c, level
  <2>2. Sound(Dle(c)) /\ Dle(c).stack # << >> /\ Front(Dle(c).stack) = c.stack
    BY <1>2, LevelsSound DEF c
  <2> QED BY <1>2, <2>1, <2>2 DEF c
<1> HIDE DEF level
<1>4. Sound(end) /\ end.stack = level.stack
  <2>1. level \in BuilderState
    BY <1>3 DEF Sound
  <2>2. Grows(level, PositionalRecord(level, values))
    BY <2>1, RecordGrows
  <2>3. Sound(PositionalRecord(level, values)) /\ PositionalRecord(level, values).stack = level.stack
    BY <1>3, <2>2, GrowsSound DEF Grows
  <2> QED BY <1>3, <2>3
<1> HIDE DEF end
<1>5. Sound(Can(end)) /\ Can(end).stack = Front(end.stack)
  BY <1>3, <1>4, LevelsSound
<1>6. List(b, values) = Can(end)
  BY DEF List, level, end
<1> QED BY <1>3, <1>4, <1>5, <1>6

-----------------------------------------------------------------------------
(* A reference with a path. *)

\* What needs no escape is spelled as it is.
LEMMA SpelledAlike ==
  ASSUME NEW v \in Seq(Byte), \A i \in 1 .. Len(v) : ~IsTextEscaped(v[i])
  PROVE  Spelling(v) = v
<1> DEFINE s == Spelling(v)
           n == Len(v)
<1>1. PICK off : Spells(v, s, n, off)
  BY SpellingIs
<1>2. /\ s \in Seq(Byte) /\ n \in Nat /\ Len(s) \in Nat
      /\ off \in [0 .. n -> Nat] /\ off[0] = 0 /\ off[n] = Len(s)
      /\ \A i \in 1 .. n : SpelledAt(v[i], s, off[i - 1], off[i]) /\ ~IsTextEscaped(v[i])
  BY <1>1 DEF Spells
<1> HIDE DEF s
<1>3. \A i \in 1 .. n : off[i] = off[i - 1] + 1 /\ At(s, off[i - 1]) = v[i]
  <2> HIDE DEF n
  <2> QED BY <1>2 DEF SpelledAt
<1>4. \A i \in 0 .. n : off[i] = i
  <2> DEFINE G == {i \in 0 .. n : off[i] = i}
  <2>1. 0 \in G
    BY <1>2
  <2>2. ASSUME NEW i \in 1 .. n, i - 1 \in G
        PROVE  i \in G
    BY <1>3, <2>2
  <2>3. \A i \in 0 .. n : i \in G
    <3> HIDE DEF G, n
    <3> QED BY <1>2, <2>1, <2>2, UpTo
  <2> QED BY <2>3
<1>5. Len(s) = n /\ \A i \in 1 .. n : s[i] = v[i]
  <2>1. Len(s) = n
    BY <1>2, <1>4
  <2>2. ASSUME NEW i \in 1 .. n
        PROVE  s[i] = v[i]
    <3>1. off[i - 1] = i - 1 /\ (i - 1) + 1 = i
      BY <1>4
    <3> QED BY <1>3, <3>1 DEF At
  <2> QED BY <2>1, <2>2
<1>6. s = v
  BY <1>2, <1>5
<1> QED BY <1>6 DEF s

\* The parts of a sequence are what it is made of.
LEMMA FlattenIn ==
  ASSUME NEW S, NEW s \in Seq(Seq(S))
  PROVE  FlattenSeq(s) \in Seq(S)
<1> DEFINE n == Len(s)
<1>0. n \in Nat /\ \A i \in 1 .. n : s[i] \in Seq(S)
  OBVIOUS
<1>1. CASE n = 0
  <2>1. FlattenSeq(s) = s /\ s = << >>
    BY <1>1 DEF FlattenSeq
  <2> QED BY <2>1
<1>2. CASE n # 0
  <2>1. PICK u : /\ FlattenSeq(s) = u[n] /\ u[1] = s[1]
                 /\ \A i \in 2 .. n : u[i] = u[i - 1] \o s[i]
    BY <1>0, <1>2, FlattenUnfolds
  <2> DEFINE Good(k) == k = 0 \/ u[k] \in Seq(S)
             G == {k \in 0 .. n : Good(k)}
  <2>2. 0 \in G
    BY <1>0
  <2>3. ASSUME NEW k \in 1 .. n, k - 1 \in G
        PROVE  k \in G
    <3>1. CASE k = 1
      <4>1. u[k] \in Seq(S)
        BY <1>0, <2>1, <3>1
      <4> QED BY <4>1
    <3>2. CASE k # 1
      <4>1. k \in 2 .. n /\ k - 1 # 0 /\ u[k - 1] \in Seq(S) /\ s[k] \in Seq(S)
        BY <1>0, <2>3, <3>2
      <4>2. u[k] = u[k - 1] \o s[k]
        BY <2>1, <4>1
      <4>3. u[k] \in Seq(S)
        <5> DEFINE a == u[k - 1]
        <5> DEFINE c == s[k]
        <5>1. a \in Seq(S) /\ c \in Seq(S)
          BY <4>1
        <5> HIDE DEF a, c
        <5>2. a \o c \in Seq(S)
          BY <5>1
        <5> QED BY <4>2, <5>2 DEF a, c
      <4> QED BY <4>3
    <3> QED BY <3>1, <3>2
  <2>4. Good(n)
    <3> HIDE DEF G, Good, n
    <3>1. \A k \in 0 .. n : k \in G
      BY <1>0, <2>2, <2>3, UpTo
    <3> QED BY <1>0, <3>1 DEF G
  <2> QED BY <1>2, <2>1, <2>4
<1> QED BY <1>1, <1>2

\* The inside of a text that needs no escape.
LEMMA PieceInside ==
  ASSUME NEW v \in Seq(Byte), \A i \in 1 .. Len(v) : ~IsTextEscaped(v[i])
  PROVE  Piece(<<STX>> \o v \o <<ETX>>)
<1> DEFINE w == <<STX>> \o v \o <<ETX>>
<1>1. Spelling(v) = v /\ STX \in Byte /\ ETX \in Byte
  BY SpelledAlike DEF STX, ETX, Byte
<1>2. /\ w \in Seq(Byte) /\ Len(w) = Len(v) + 2 /\ w[1] = STX /\ w[Len(v) + 2] = ETX
      /\ \A q \in 1 .. Len(v) : w[1 + q] = v[q]
  BY <1>1
<1> HIDE DEF w
<1>3. /\ At(w, 0) = STX /\ At(w, Len(v) + 1) = ETX
      /\ \A q \in 0 .. Len(v) - 1 : At(w, 1 + q) = At(v, q)
  <2>1. \A q \in 0 .. Len(v) - 1 : q + 1 \in 1 .. Len(v) /\ (1 + q) + 1 = 1 + (q + 1)
    OBVIOUS
  <2>2. (Len(v) + 1) + 1 = Len(v) + 2 /\ 0 + 1 = 1
    OBVIOUS
  <2> QED BY <1>2, <2>1, <2>2 DEF At
<1>4. Piece(w)
  BY <1>1, <1>2, <1>3, PieceText
<1> QED BY <1>4 DEF w

\* A path of names.
IsPath(path) ==
  /\ path \in Seq(Seq(Byte)) /\ path # << >>
  /\ \A i \in DOMAIN path : IsName(path[i])

LEMMA PathGrows ==
  ASSUME NEW b \in BuilderState, NEW path, IsPath(path)
  PROVE  Grows(b, EnqPath(b, path))
<1> DEFINE Data == {x \in Byte : ~IsTextEscaped(x)}
           more == [i \in 1 .. (Len(path) - 1) |-> <<US>> \o path[i + 1]]
           v == path[1] \o FlattenSeq(more)
<1>0. /\ Len(path) \in Nat /\ Len(path) # 0 /\ US \in Data
      /\ \A i \in 1 .. Len(path) : path[i] \in Seq(Byte) /\ IsName(path[i])
  BY DEF IsPath, US, Byte, IsTextEscaped, STX, ETX, DLE, ETB, EOT, SYN, EM
<1>1. ASSUME NEW i \in 1 .. Len(path)
      PROVE  path[i] \in Seq(Data)
  <2>1. path[i] \in Seq(Byte) /\ IsName(path[i])
    BY <1>0
  <2>2. \A k \in 1 .. Len(path[i]) : path[i][k] \in Data
    <3> SUFFICES ASSUME NEW k \in 1 .. Len(path[i])
                 PROVE  path[i][k] \in Data
      OBVIOUS
    <3>1. path[i] # << >> /\ path[i][k] \in Byte
      BY <2>1
    <3> QED BY <2>1, <3>1 DEF IsName, IsPlainValue, IsPlain, IsTextEscaped, STX, ETX, DLE, ETB, EOT, SYN, EM
  <2> HIDE DEF Data
  <2> QED BY <2>1, <2>2
<1>2. more \in Seq(Seq(Data))
  <2> HIDE DEF Data
  <2>1. ASSUME NEW i \in 1 .. (Len(path) - 1)
        PROVE  <<US>> \o path[i + 1] \in Seq(Data)
    <3>1. i + 1 \in 1 .. Len(path)
      BY <1>0
    <3>2. path[i + 1] \in Seq(Data)
      BY <1>1, <3>1
    <3> QED BY <1>0, <3>2
  <2>2. Len(path) - 1 \in Nat
    BY <1>0
  <2> DEFINE e(i) == <<US>> \o path[i + 1]
  <2> HIDE DEF e
  <2>3. \A i \in 1 .. (Len(path) - 1) : e(i) \in Seq(Data)
    BY <2>1 DEF e
  <2>4. [i \in 1 .. (Len(path) - 1) |-> e(i)] \in Seq(Seq(Data))
    BY <2>2, <2>3
  <2> QED BY <2>4 DEF e
<1>3. v \in Seq(Data)
  <2> HIDE DEF more, Data
  <2>1. FlattenSeq(more) \in Seq(Data)
    BY <1>2, FlattenIn
  <2>2. path[1] \in Seq(Data)
    BY <1>0, <1>1
  <2> QED BY <2>1, <2>2
<1>4. v \in Seq(Byte) /\ \A i \in 1 .. Len(v) : ~IsTextEscaped(v[i])
  <2> HIDE DEF v
  <2> QED BY <1>3
<1> DEFINE w == <<STX>> \o v \o <<ETX>>
<1>5. Piece(w) /\ w \in Seq(Byte)
  <2> HIDE DEF v
  <2>1. Piece(w)
    BY <1>4, PieceInside
  <2> QED BY <2>1 DEF Piece, Passed
<1>6. CASE Len(path) = 1
  <2>1. EnqPath(b, path) = Push(b, <<ENQ>> \o path[1])
    BY <1>6 DEF EnqPath, Enq
  <2>2. Piece(<<ENQ>>) /\ Piece(path[1])
    BY <1>0, PieceCode, PieceName
  <2>3. Piece(<<ENQ>> \o path[1])
    BY <2>2, PieceJoin
  <2> QED BY <2>1, <2>3, PushGrows
<1>7. CASE Len(path) # 1
  <2>1. EnqPath(b, path) = Push(b, <<ENQ, STX>> \o path[1] \o FlattenSeq(more) \o <<ETX>>)
    BY <1>7 DEF EnqPath
  <2>2. <<ENQ, STX>> \o path[1] \o FlattenSeq(more) \o <<ETX>> = <<ENQ>> \o w
    <3> DEFINE p == path[1]
               q == FlattenSeq(more)
    <3>1. p \in Seq(Byte) /\ q \in Seq(Byte)
      <4>1. q \in Seq(Data)
        <5> HIDE DEF more, Data
        <5> QED BY <1>2, FlattenIn
      <4> HIDE DEF q
      <4> QED BY <1>0, <4>1
    <3> HIDE DEF p, q
    <3>2. ENQ \in Byte /\ STX \in Byte /\ ETX \in Byte
      BY DEF ENQ, STX, ETX, Byte
    <3>3. ASSUME NEW e \in Seq(Byte), NEW x \in Seq(Byte), NEW z \in Seq(Byte)
          PROVE  (((e \o x) \o p) \o q) \o z = e \o ((x \o (p \o q)) \o z)
      <4>1. ASSUME NEW r \in Seq(Byte), NEW s \in Seq(Byte), NEW t \in Seq(Byte)
            PROVE  (r \o s) \o t = r \o (s \o t)
        BY ConcatAssociative
      <4> HIDE DEF Byte
      <4>2. p \o q \in Seq(Byte) /\ x \o p \in Seq(Byte)
        BY <3>1
      <4>3. (e \o x) \o p = e \o (x \o p)
        BY <3>1, <4>1, Zenon
      <4>4. (e \o (x \o p)) \o q = e \o ((x \o p) \o q)
        <5> DEFINE y == x \o p
        <5>1. y \in Seq(Byte)
          BY <4>2
        <5> HIDE DEF y
        <5>2. (e \o y) \o q = e \o (y \o q)
          BY <3>1, <4>1, <5>1, Zenon
        <5> QED BY <5>2 DEF y
      <4>5. (x \o p) \o q = x \o (p \o q)
        BY <3>1, <4>1, Zenon
      <4>6. (e \o (x \o (p \o q))) \o z = e \o ((x \o (p \o q)) \o z)
        <5> DEFINE pq == p \o q
                   y == x \o pq
        <5>1. pq \in Seq(Byte)
          BY <4>2
        <5> HIDE DEF pq
        <5>2. y \in Seq(Byte)
          BY <5>1
        <5> HIDE DEF y
        <5>3. (e \o y) \o z = e \o (y \o z)
          BY <4>1, <5>2, Zenon
        <5> QED BY <5>3 DEF pq, y
      <4> QED BY <4>3, <4>4, <4>5, <4>6, Zenon
    <3> DEFINE e == <<ENQ>>
               x == <<STX>>
               z == <<ETX>>
    <3>4. <<ENQ, STX>> = e \o x
      OBVIOUS
    <3>5. e \in Seq(Byte) /\ x \in Seq(Byte) /\ z \in Seq(Byte)
      BY <3>2
    <3> HIDE DEF e, x, z
    <3>6. (((e \o x) \o p) \o q) \o z = e \o ((x \o (p \o q)) \o z)
      BY <3>3, <3>5
    <3>7. <<ENQ, STX>> \o p \o q \o z = e \o (x \o (p \o q) \o z)
      BY <3>4, <3>6, Zenon
    <3> QED BY <3>7 DEF e, x, z, p, q
  <2> HIDE DEF w
  <2>3. Piece(<<ENQ>> \o w)
    BY <1>5, PieceCode, PieceJoin
  <2> QED BY <2>1, <2>2, <2>3, PushGrows
<1> QED BY <1>6, <1>7

-----------------------------------------------------------------------------
(* Every commit is one batch. *)

\* A call may only add to the buffer.
AddsTo(b, c) ==
  b.buf \in Seq(Byte) /\ c.buf \in Seq(Byte) /\ \E p \in Seq(Byte) : c.buf = b.buf \o p

OpensWith(b, S) == b.buf # << >> /\ At(b.buf, 0) \in S

\* The codes that a call opens a buffer with.
DataCodes == {FS, GS, RS, SOH}

\* What holds between any two calls of a builder that began empty.
Made(b) ==
  /\ Sound(b)
  /\ b.buf = << >> => ~b.in_record /\ b.stack = << >>
  /\ b.buf # << >> => OpensWith(b, DataCodes \cup {BEL})

LEMMA OpensOn ==
  ASSUME NEW b, NEW c, NEW S, AddsTo(b, c), OpensWith(b, S)
  PROVE  OpensWith(c, S)
<1>1. PICK p \in Seq(Byte) : c.buf = b.buf \o p
  BY DEF AddsTo
<1> DEFINE a == b.buf
<1>2. a \in Seq(Byte) /\ a # << >> /\ At(a, 0) \in S
  BY DEF AddsTo, OpensWith
<1> HIDE DEF a
<1>3. a \o p # << >> /\ At(a \o p, 0) = At(a, 0)
  BY <1>2 DEF At
<1> QED BY <1>1, <1>2, <1>3 DEF OpensWith, a

LEMMA AddsOn ==
  ASSUME NEW b, NEW c, NEW e, AddsTo(b, c), AddsTo(c, e)
  PROVE  AddsTo(b, e)
<1>1. PICK p \in Seq(Byte) : c.buf = b.buf \o p
  BY DEF AddsTo
<1>2. PICK q \in Seq(Byte) : e.buf = c.buf \o q
  BY DEF AddsTo
<1>3. p \o q \in Seq(Byte) /\ b.buf \in Seq(Byte)
  BY DEF AddsTo
<1>4. (b.buf \o p) \o q = b.buf \o (p \o q)
  <2>1. ASSUME NEW a \in Seq(Byte), NEW s \in Seq(Byte), NEW t \in Seq(Byte)
        PROVE  (a \o s) \o t = a \o (s \o t)
    BY ConcatAssociative
  <2> HIDE DEF Byte
  <2> QED BY <1>3, <2>1, Zenon
<1>5. e.buf = b.buf \o (p \o q)
  BY <1>1, <1>2, <1>4
<1> QED BY <1>3, <1>5 DEF AddsTo

LEMMA GrowsAdds ==
  ASSUME NEW b, NEW c, Grows(b, c)
  PROVE  AddsTo(b, c)
BY DEF Grows, BuilderState, Piece, Passed, AddsTo

\* The calls that add a piece.
LEMMA MadeGrows ==
  ASSUME NEW b, NEW c, Made(b), Grows(b, c), NEW S, S \subseteq DataCodes \cup {BEL},
         b.buf = << >> => OpensWith(c, S)
  PROVE  Made(c) /\ c.buf # << >> /\ (b.buf = << >> => OpensWith(c, S))
<1>1. Sound(c)
  BY GrowsSound DEF Made
<1>2. OpensWith(c, DataCodes \cup {BEL})
  <2>1. CASE b.buf = << >>
    BY <2>1 DEF OpensWith
  <2>2. CASE b.buf # << >>
    BY <2>2, GrowsAdds, OpensOn DEF Made
  <2> QED BY <2>1, <2>2
<1> QED BY <1>1, <1>2 DEF Made, OpensWith

LEMMA MadeLevels ==
  ASSUME NEW b, Made(b), b.buf # << >>
  PROVE  /\ Made(Dle(b)) /\ AddsTo(b, Dle(b)) /\ Dle(b).stack # << >>
         /\ b.stack # << >> => Made(Can(b)) /\ AddsTo(b, Can(b))
<1>1. b \in BuilderState /\ b.buf \in Seq(Byte) /\ Sound(b)
  BY DEF Made, Sound, BuilderState
<1>2. <<DLE>> \in Seq(Byte) /\ <<CAN>> \in Seq(Byte)
  BY DEF DLE, CAN, Byte
<1>3. Dle(b).buf = b.buf \o <<DLE>>
  BY <1>1 DEF Dle, Push, BuilderState
<1>4. Can(b).buf = b.buf \o <<CAN>>
  BY <1>1 DEF Can, Push, BuilderState
<1>5. AddsTo(b, Dle(b))
  <2>1. b.buf \o <<DLE>> \in Seq(Byte)
    BY <1>1, <1>2
  <2> QED BY <1>1, <1>2, <1>3, <2>1 DEF AddsTo
<1>6. AddsTo(b, Can(b))
  <2>1. b.buf \o <<CAN>> \in Seq(Byte)
    BY <1>1, <1>2
  <2> QED BY <1>1, <1>2, <1>4, <2>1 DEF AddsTo
<1>7. ASSUME NEW c, Sound(c), AddsTo(b, c)
      PROVE  Made(c)
  <2>1. OpensWith(c, DataCodes \cup {BEL})
    BY <1>7, OpensOn DEF Made
  <2> QED BY <1>7, <2>1 DEF Made, OpensWith
<1> QED BY <1>1, <1>5, <1>6, <1>7, LevelsSound

\* One byte and a rest, pushed on an empty buffer.
LEMMA OpensPush ==
  ASSUME NEW b \in BuilderState, b.buf = << >>, NEW x, NEW p \in Seq(Byte), x \in Byte
  PROVE  OpensWith(Push(b, <<x>> \o p), {x})
<1>1. << >> \o (<<x>> \o p) = <<x>> \o p /\ (<<x>> \o p) # << >> /\ (<<x>> \o p)[1] = x
  OBVIOUS
<1>2. Push(b, <<x>> \o p).buf = <<x>> \o p
  BY <1>1 DEF Push, BuilderState
<1> QED BY <1>1, <1>2 DEF OpensWith, At

\* A call on an empty builder opens the buffer with its code.
LEMMA CallsOpen ==
  ASSUME NEW b \in BuilderState, b.buf = << >>, ~b.in_record
  PROVE  /\ OpensWith(Rs(b), {RS}) /\ OpensWith(InRecord(b), {RS}) /\ OpensWith(NextUnit(b), {RS})
         /\ \A v \in Seq(Byte) : OpensWith(BelNote(b, v), {BEL})
         /\ \A name \in Seq(Byte) : /\ OpensWith(Fs(b, name), {FS})
                                    /\ OpensWith(Gs(b, name), {GS})
                                    /\ OpensWith(Soh(b, name), {SOH})
                                    /\ OpensWith(Soh(EndRecord(b), name), {SOH})
<1>0. {FS, GS, RS, SOH, BEL} \subseteq Byte
  BY DEF FS, GS, RS, SOH, BEL, Byte
<1>1. OpensWith(Push(b, <<RS>>), {RS})
  <2>1. <<RS>> \o << >> = <<RS>> /\ << >> \in Seq(Byte)
    OBVIOUS
  <2> QED BY <1>0, <2>1, OpensPush
<1>2. Push(b, <<RS>>) \in BuilderState
  BY PieceCode, PushGrows
<1>3. Rs(b).buf = Push(b, <<RS>>).buf
  BY <1>2 DEF Rs, BuilderState
<1>4. NextUnit(b).buf = Rs(b).buf
  <2>1. NextUnit(b) = [Rs(b) EXCEPT !.units = Rs(b).units + 1]
    BY DEF NextUnit
  <2>2. Rs(b) \in BuilderState
    BY PrimitivesGrow DEF Grows
  <2> HIDE DEF Rs
  <2> QED BY <2>1, <2>2 DEF BuilderState
<1>5. OpensWith(Rs(b), {RS}) /\ OpensWith(InRecord(b), {RS}) /\ OpensWith(NextUnit(b), {RS})
  BY <1>1, <1>3, <1>4 DEF OpensWith, InRecord
<1>6. ASSUME NEW v \in Seq(Byte)
      PROVE  OpensWith(BelNote(b, v), {BEL})
  <2>1. WriteValue(v) \in Seq(Byte)
    BY PieceValue DEF Piece, Passed
  <2> QED BY <1>0, <2>1, OpensPush DEF BelNote
<1>7. ASSUME NEW name \in Seq(Byte)
      PROVE  /\ OpensWith(Fs(b, name), {FS}) /\ OpensWith(Gs(b, name), {GS})
             /\ OpensWith(Soh(b, name), {SOH}) /\ OpensWith(Soh(EndRecord(b), name), {SOH})
  <2>1. EndRecord(b) \in BuilderState /\ EndRecord(b).buf = << >>
    BY DEF EndRecord, BuilderState
  <2> QED BY <1>0, <2>1, OpensPush DEF Fs, Gs, Soh
<1> QED BY <1>5, <1>6, <1>7

\* A call that says something other than a note.
DataCall(b, c) ==
  \/ c = Rs(b)
  \/ \E v \in Seq(Byte) : c = Field(b, v)
  \/ \E name \in Seq(Byte) :
       /\ IsName(name)
       /\ \/ c = Fs(b, name)
          \/ \E v \in Seq(Byte) : c = Key(b, name, v) \/ c = HeadingEntry(b, name, v)
          \/ \E header, depth \in Nat : /\ header = << >> \/ header[1] \in Seq(Seq(Byte))
                                        /\ c = GroupAt(b, name, header, depth)
          \/ c = OpenKeyLevel(b, name)
  \/ \E names \in Seq(Seq(Byte)) : c = Header(b, names)
  \/ \E values \in Seq(Seq(Byte)) : c = PositionalRecord(b, values) \/ c = List(b, values)
  \/ \E pairs \in Seq(Seq(Byte) \X Seq(Byte)) :
       (\A k \in DOMAIN pairs : IsName(pairs[k][1])) /\ c = KeyedRecord(b, pairs)
  \/ \E path : IsPath(path) /\ c = ReferencePath(b, path)
  \/ c = OpenLevel(b)
  \/ b.stack # << >> /\ c = Can(b)

\* What comes of a call.
Makes(b, c) ==
  Made(c) /\ c.buf # << >> /\ (b.buf = << >> => OpensWith(c, DataCodes))

LEMMA GrowsFollows ==
  ASSUME NEW b, NEW a, NEW c, Made(b), Grows(b, c), Grows(a, c),
         b.buf = << >> => OpensWith(a, DataCodes)
  PROVE  Makes(b, c)
<1>1. b.buf = << >> => OpensWith(c, DataCodes)
  BY GrowsAdds, OpensOn
<1> QED BY <1>1, MadeGrows DEF Makes

LEMMA RecordsFollow ==
  ASSUME NEW b, Made(b)
  PROVE  /\ Makes(b, Rs(b))
         /\ \A v \in Seq(Byte) : Makes(b, Field(b, v))
         /\ \A values \in Seq(Seq(Byte)) : Makes(b, PositionalRecord(b, values))
         /\ \A pairs \in Seq(Seq(Byte) \X Seq(Byte)) :
              (\A k \in DOMAIN pairs : IsName(pairs[k][1])) => Makes(b, KeyedRecord(b, pairs))
<1>1. /\ b \in BuilderState
      /\ b.buf = << >> => ~b.in_record
  BY DEF Made, Sound
<1>2. Grows(b, Rs(b)) /\ Grows(Rs(b), Rs(b)) /\ Rs(b) \in BuilderState
  BY <1>1, PrimitivesGrow, GrowsNot DEF Grows
<1>3. b.buf = << >> => OpensWith(Rs(b), DataCodes)
  BY <1>1, CallsOpen DEF OpensWith, DataCodes
<1>4. ASSUME NEW c, Grows(b, c), Grows(Rs(b), c)
      PROVE  Makes(b, c)
  BY <1>3, <1>4, GrowsFollows
<1>5. ASSUME NEW v \in Seq(Byte)
      PROVE  Makes(b, Field(b, v))
  <2>1. Grows(b, Field(b, v))
    BY <1>1, CallsGrow
  <2>2. CASE b.buf = << >>
    <3>1. Field(b, v) = FirstValue(Rs(b), v)
      BY <1>1, <2>2 DEF Field
    <3>2. Grows(Rs(b), FirstValue(Rs(b), v))
      BY <1>2, PrimitivesGrow
    <3> QED BY <1>4, <2>1, <3>1, <3>2
  <2>3. CASE b.buf # << >>
    <3>1. Grows(Field(b, v), Field(b, v))
      BY <2>1, GrowsNot DEF Grows
    <3> QED BY <2>1, <2>3, <3>1, GrowsFollows
  <2> QED BY <2>2, <2>3
<1>6. ASSUME NEW values \in Seq(Seq(Byte))
      PROVE  Makes(b, PositionalRecord(b, values))
  BY <1>1, <1>4, RecordGrows
<1>7. ASSUME NEW pairs \in Seq(Seq(Byte) \X Seq(Byte)),
             \A k \in DOMAIN pairs : IsName(pairs[k][1])
      PROVE  Makes(b, KeyedRecord(b, pairs))
  BY <1>1, <1>4, <1>7, KeyedGrows
<1> QED BY <1>2, <1>4, <1>5, <1>6, <1>7

LEMMA NamedFollow ==
  ASSUME NEW b, Made(b), NEW name \in Seq(Byte), IsName(name)
  PROVE  /\ Makes(b, Fs(b, name))
         /\ \A v \in Seq(Byte) : Makes(b, Key(b, name, v)) /\ Makes(b, HeadingEntry(b, name, v))
<1>1. /\ b \in BuilderState
      /\ b.buf = << >> => ~b.in_record
  BY DEF Made, Sound
<1>2. Makes(b, Fs(b, name))
  <2>1. Grows(b, Fs(b, name))
    BY <1>1, PrimitivesGrow
  <2>2. Grows(Fs(b, name), Fs(b, name))
    BY <2>1, GrowsNot DEF Grows
  <2>3. b.buf = << >> => OpensWith(Fs(b, name), DataCodes)
    BY <1>1, CallsOpen DEF OpensWith, DataCodes
  <2> QED BY <2>1, <2>2, <2>3, GrowsFollows
<1>3. ASSUME NEW v \in Seq(Byte)
      PROVE  Makes(b, Key(b, name, v)) /\ Makes(b, HeadingEntry(b, name, v))
  <2>1. Grows(b, Key(b, name, v)) /\ Grows(b, HeadingEntry(b, name, v))
    BY <1>1, CallsGrow
  <2>2. Grows(InRecord(b), Key(b, name, v))
    <3>1. InRecord(b) \in BuilderState
      BY <1>1, CallsGrow DEF Grows
    <3>2. Grows(InRecord(b), Soh(InRecord(b), name))
      BY <3>1, PrimitivesGrow
    <3>3. Soh(InRecord(b), name) \in BuilderState
      BY <3>2 DEF Grows
    <3>4. Grows(Soh(InRecord(b), name), Us(Soh(InRecord(b), name), v))
      BY <3>3, PrimitivesGrow
    <3> QED BY <3>2, <3>4, GrowsOn DEF Key
  <2>3. Grows(Soh(EndRecord(b), name), HeadingEntry(b, name, v))
    <3>1. EndRecord(b) \in BuilderState
      BY <1>1, GrowsNot DEF Grows
    <3>2. Soh(EndRecord(b), name) \in BuilderState
      BY <3>1, PrimitivesGrow DEF Grows
    <3> QED BY <3>2, PrimitivesGrow DEF HeadingEntry
  <2>4. b.buf = << >> => OpensWith(InRecord(b), DataCodes) /\ OpensWith(Soh(EndRecord(b), name), DataCodes)
    BY <1>1, CallsOpen DEF OpensWith, DataCodes
  <2> QED BY <2>1, <2>2, <2>3, <2>4, GrowsFollows
<1> QED BY <1>2, <1>3

LEMMA HeadersFollow ==
  ASSUME NEW b, Made(b), NEW names \in Seq(Seq(Byte))
  PROVE  Makes(b, Header(b, names))
<1>1. /\ b \in BuilderState
      /\ b.buf = << >> => ~b.in_record
  BY DEF Made, Sound
<1> DEFINE a == Soh(EndRecord(b), << >>)
<1>2. << >> \in Seq(Byte) /\ IsName(<< >>)
  BY DEF IsName, IsPlainValue
<1>3. a \in BuilderState
  <2>1. EndRecord(b) \in BuilderState
    BY <1>1, GrowsNot DEF Grows
  <2> QED BY <1>2, <2>1, PrimitivesGrow DEF Grows
<1>4. b.buf = << >> => OpensWith(a, DataCodes)
  BY <1>1, <1>2, CallsOpen DEF OpensWith, DataCodes
<1>5. Grows(b, Header(b, names))
  BY <1>1, HeaderGrows
<1>6. Grows(a, Header(b, names))
  <2>1. Grows(a, Rs(a))
    BY <1>3, PrimitivesGrow
  <2>2. Grows(Rs(a), HeaderRow(b, names)) /\ HeaderRow(b, names) \in BuilderState
    BY <1>1, HeaderRowGrows DEF Grows
  <2>3. Header(b, names) = EndRecord(HeaderRow(b, names))
    BY DEF Header, HeaderRow, HeaderEntry, FoldLeft, MapThenFoldSet
  <2>4. Grows(HeaderRow(b, names), EndRecord(HeaderRow(b, names)))
    BY <2>2, GrowsNot
  <2> HIDE DEF a
  <2> QED BY <2>1, <2>2, <2>3, <2>4, GrowsOn
<1> HIDE DEF a
<1> QED BY <1>4, <1>5, <1>6, GrowsFollows

LEMMA GroupsFollow ==
  ASSUME NEW b, Made(b), NEW name \in Seq(Byte), IsName(name), NEW depth \in Nat,
         NEW header, header = << >> \/ header[1] \in Seq(Seq(Byte))
  PROVE  Makes(b, GroupAt(b, name, header, depth))
<1>1. /\ b \in BuilderState
      /\ b.buf = << >> => ~b.in_record
  BY DEF Made, Sound
<1> DEFINE p == [i \in 1 .. (depth - 1) |-> GS]
           e == EndRecord(b)
           marks == Push(e, p)
           line == Gs(marks, name)
<1>2. Grows(b, GroupAt(b, name, header, depth)) /\ Grows(line, GroupAt(b, name, header, depth))
  BY <1>1, GroupGrows
<1>3. ASSUME b.buf = << >>
      PROVE  OpensWith(line, DataCodes)
  <2>1. Piece(p) /\ p \in Seq(Byte) /\ \A i \in 1 .. Len(p) : p[i] = GS
    BY PieceMarks
  <2>2. e \in BuilderState /\ e.buf = << >> /\ ~e.in_record
    BY <1>1, <1>3 DEF EndRecord, BuilderState
  <2> HIDE DEF p, e
  <2>3. marks \in BuilderState /\ marks.buf = p /\ ~marks.in_record
    <3>1. << >> \o p = p
      BY <2>1
    <3> QED BY <2>1, <2>2, <3>1, PushGrows DEF Push, BuilderState
  <2> HIDE DEF marks
  <2>4. Grows(marks, line)
    BY <2>3, PrimitivesGrow
  <2>5. CASE p = << >>
    <3>1. OpensWith(line, {GS})
      BY <2>3, <2>5, CallsOpen
    <3> QED BY <3>1 DEF OpensWith, DataCodes
  <2>6. CASE p # << >>
    <3>1. OpensWith(marks, DataCodes)
      <4>1. At(p, 0) = GS
        BY <2>1, <2>6 DEF At
      <4> QED BY <2>3, <2>6, <4>1 DEF OpensWith, DataCodes
    <3> HIDE DEF line
    <3> QED BY <2>4, <3>1, GrowsAdds, OpensOn
  <2> QED BY <2>5, <2>6
<1> HIDE DEF line
<1> QED BY <1>2, <1>3, GrowsFollows

LEMMA LevelsFollow ==
  ASSUME NEW b, Made(b)
  PROVE  /\ Makes(b, OpenLevel(b)) /\ OpenLevel(b).stack # << >>
         /\ \A name \in Seq(Byte) : IsName(name) => Makes(b, OpenKeyLevel(b, name))
         /\ b.stack # << >> => Makes(b, Can(b))
<1>1. /\ b \in BuilderState
      /\ b.buf = << >> => ~b.in_record
  BY DEF Made, Sound
<1>2. ASSUME NEW c, Makes(b, c)
      PROVE  Makes(b, Dle(c)) /\ Dle(c).stack # << >>
  <2>1. Made(Dle(c)) /\ AddsTo(c, Dle(c)) /\ Dle(c).stack # << >>
    BY <1>2, MadeLevels DEF Makes
  <2>2. OpensWith(Dle(c), DataCodes \cup {BEL})
    BY <1>2, <2>1, OpensOn DEF Makes, Made
  <2>3. b.buf = << >> => OpensWith(Dle(c), DataCodes)
    BY <1>2, <2>1, OpensOn DEF Makes
  <2> QED BY <2>1, <2>2, <2>3 DEF Makes, OpensWith
<1>3. Makes(b, NextUnit(b))
  <2>1. Grows(b, NextUnit(b))
    BY <1>1, CallsGrow
  <2>2. Grows(NextUnit(b), NextUnit(b))
    BY <2>1, GrowsNot DEF Grows
  <2>3. b.buf = << >> => OpensWith(NextUnit(b), DataCodes)
    BY <1>1, CallsOpen DEF OpensWith, DataCodes
  <2> QED BY <2>1, <2>2, <2>3, GrowsFollows
<1>4. Makes(b, OpenLevel(b)) /\ OpenLevel(b).stack # << >>
  BY <1>2, <1>3 DEF OpenLevel
<1>5. ASSUME NEW name \in Seq(Byte), IsName(name)
      PROVE  Makes(b, OpenKeyLevel(b, name))
  <2>1. Makes(b, Key(b, name, << >>))
    <3>1. << >> \in Seq(Byte)
      OBVIOUS
    <3> QED BY <1>5, <3>1, NamedFollow
  <2>2. OpenKeyLevel(b, name) = Dle(Key(b, name, << >>))
    BY DEF OpenKeyLevel, Key
  <2> QED BY <1>2, <2>1, <2>2
<1>6. ASSUME b.stack # << >>
      PROVE  Makes(b, Can(b))
  <2>1. b.buf # << >>
    BY <1>6 DEF Made
  <2>2. Made(Can(b)) /\ AddsTo(b, Can(b))
    BY <1>6, <2>1, MadeLevels
  <2>3. OpensWith(Can(b), DataCodes \cup {BEL})
    BY <2>1, <2>2, OpensOn DEF Made
  <2> QED BY <2>1, <2>2, <2>3 DEF Makes, OpensWith
<1> QED BY <1>4, <1>5, <1>6

LEMMA MakesOn ==
  ASSUME NEW b, NEW c, NEW e, Makes(b, c), Makes(c, e), AddsTo(c, e)
  PROVE  Makes(b, e)
<1>1. b.buf = << >> => OpensWith(e, DataCodes)
  BY OpensOn DEF Makes
<1> QED BY <1>1 DEF Makes

LEMMA ListsFollow ==
  ASSUME NEW b, Made(b), NEW values \in Seq(Seq(Byte))
  PROVE  Makes(b, List(b, values)) /\ List(b, values).stack = b.stack
<1> DEFINE level == OpenLevel(b)
           end == IF values = << >> THEN level ELSE PositionalRecord(level, values)
<1>1. Makes(b, level) /\ level.stack # << >>
  BY LevelsFollow
<1> HIDE DEF level
<1>2. Makes(b, end) /\ end.stack = level.stack
  <2>1. CASE values = << >>
    BY <1>1, <2>1
  <2>2. CASE values # << >>
    <3>1. level \in BuilderState /\ Made(level)
      BY <1>1 DEF Makes, Made, Sound
    <3>2. Grows(level, PositionalRecord(level, values))
      BY <3>1, RecordGrows
    <3>3. Makes(level, PositionalRecord(level, values)) /\ AddsTo(level, PositionalRecord(level, values))
      BY <3>1, <3>2, RecordsFollow, GrowsAdds
    <3>4. Makes(b, PositionalRecord(level, values))
      BY <1>1, <3>3, MakesOn
    <3> QED BY <2>2, <3>2, <3>4 DEF Grows
  <2> QED BY <2>1, <2>2
<1> HIDE DEF end
<1>3. Makes(end, Can(end)) /\ AddsTo(end, Can(end))
  BY <1>1, <1>2, LevelsFollow, MadeLevels DEF Makes
<1>4. List(b, values) = Can(end)
  BY DEF List, level, end
<1>5. List(b, values).stack = b.stack
  BY ListSound DEF Made
<1> QED BY <1>2, <1>3, <1>4, <1>5, MakesOn

LEMMA PathsFollow ==
  ASSUME NEW b, Made(b), NEW path, IsPath(path)
  PROVE  Makes(b, ReferencePath(b, path))
<1>1. /\ b \in BuilderState
      /\ b.buf = << >> => ~b.in_record
  BY DEF Made, Sound
<1>2. Grows(b, NextUnit(b)) /\ NextUnit(b) \in BuilderState
  BY <1>1, CallsGrow DEF Grows
<1>3. Grows(NextUnit(b), ReferencePath(b, path))
  BY <1>2, PathGrows DEF ReferencePath
<1>4. Grows(b, ReferencePath(b, path))
  BY <1>2, <1>3, GrowsOn
<1>5. b.buf = << >> => OpensWith(NextUnit(b), DataCodes)
  BY <1>1, CallsOpen DEF OpensWith, DataCodes
<1> QED BY <1>3, <1>4, <1>5, GrowsFollows

\* Every call keeps what makes a commit a batch.
LEMMA DataCallsFollow ==
  ASSUME NEW b, NEW c, Made(b), DataCall(b, c)
  PROVE  Makes(b, c)
<1>1. CASE c = Rs(b)
  BY <1>1, RecordsFollow
<1>2. CASE \E v \in Seq(Byte) : c = Field(b, v)
  BY <1>2, RecordsFollow
<1>3. ASSUME NEW name \in Seq(Byte), IsName(name),
             \/ c = Fs(b, name)
             \/ \E v \in Seq(Byte) : c = Key(b, name, v) \/ c = HeadingEntry(b, name, v)
             \/ \E header, depth \in Nat : /\ header = << >> \/ header[1] \in Seq(Seq(Byte))
                                           /\ c = GroupAt(b, name, header, depth)
             \/ c = OpenKeyLevel(b, name)
      PROVE  Makes(b, c)
  <2>1. CASE c = Fs(b, name)
    BY <1>3, <2>1, NamedFollow
  <2>2. CASE \E v \in Seq(Byte) : c = Key(b, name, v) \/ c = HeadingEntry(b, name, v)
    BY <1>3, <2>2, NamedFollow
  <2>3. CASE \E header, depth \in Nat : /\ header = << >> \/ header[1] \in Seq(Seq(Byte))
                                        /\ c = GroupAt(b, name, header, depth)
    BY <1>3, <2>3, GroupsFollow
  <2>4. CASE c = OpenKeyLevel(b, name)
    BY <1>3, <2>4, LevelsFollow
  <2> QED BY <1>3, <2>1, <2>2, <2>3, <2>4
<1>4. CASE \E names \in Seq(Seq(Byte)) : c = Header(b, names)
  BY <1>4, HeadersFollow
<1>5. CASE \E values \in Seq(Seq(Byte)) : c = PositionalRecord(b, values) \/ c = List(b, values)
  BY <1>5, RecordsFollow, ListsFollow
<1>6. CASE \E pairs \in Seq(Seq(Byte) \X Seq(Byte)) :
             (\A k \in DOMAIN pairs : IsName(pairs[k][1])) /\ c = KeyedRecord(b, pairs)
  BY <1>6, RecordsFollow
<1>7. CASE \E path : IsPath(path) /\ c = ReferencePath(b, path)
  BY <1>7, PathsFollow
<1>8. CASE c = OpenLevel(b) \/ (b.stack # << >> /\ c = Can(b))
  BY <1>8, LevelsFollow
<1> QED BY <1>1, <1>2, <1>3, <1>4, <1>5, <1>6, <1>7, <1>8 DEF DataCall

LEMMA NotesFollow ==
  ASSUME NEW b, Made(b), NEW v \in Seq(Byte)
  PROVE  Made(Note(b, v))
<1>1. /\ b \in BuilderState
      /\ b.buf = << >> => ~b.in_record
  BY DEF Made, Sound
<1>2. Grows(b, Note(b, v))
  BY <1>1, CallsGrow
<1>3. b.buf = << >> => OpensWith(Note(b, v), {BEL})
  BY <1>1, CallsOpen DEF Note
<1> QED BY <1>2, <1>3, MadeGrows

LEMMA NewIsMade == Made(NewBuilder)
BY NewIsSound DEF Made, NewBuilder

\* What a builder without an open level and with data at its start commits.
LEMMA MadeBatch ==
  ASSUME NEW b, Made(b), b.stack = << >>, OpensWith(b, DataCodes)
  PROVE  IsBatch(Bytes(b))
<1> DEFINE a == b.buf
           h == a \o <<ETB>>
           len == Len(h)
<1>1. /\ b \in BuilderState /\ a \in Seq(Byte) /\ a # << >> /\ a[Len(a)] # DLE
      /\ At(a, 0) \in DataCodes /\ MarkFree(a) /\ Reaches(a, 0)
  <2>1. Len(b.stack) = 0
    OBVIOUS
  <2> QED BY <2>1 DEF Made, Sound, BuilderState, OpensWith
<1>2. Bytes(b) = h
  BY <1>1 DEF Bytes, Etb, Push, EndRecord, BuilderState
<1>3. /\ <<ETB>> \in Seq(Byte) /\ Len(<<ETB>>) = 1 /\ At(<<ETB>>, 0) = ETB
  BY DEF ETB, Byte, At
<1> HIDE DEF a
<1>4. /\ h \in Seq(Byte) /\ Len(a) \in Nat /\ Len(a) > 0 /\ len = Len(a) + 1
      /\ \A p \in 0 .. Len(a) - 1 : At(h, p) = At(a, p)
      /\ At(h, Len(a)) = ETB
  BY <1>1, <1>3 DEF At
<1> HIDE DEF h
<1>5. /\ h # << >> /\ len - 1 = Len(a) /\ At(h, 0) = At(a, 0)
  BY <1>4
<1>6. OpensElement(At(h, 0)) /\ At(h, 0) \notin {DLE, ETB}
  <2>1. \A x \in DataCodes : OpensElement(x) /\ x \notin {DLE, ETB}
    BY DEF DataCodes, OpensElement, IsLayout, IsPlain, FS, GS, RS, SOH, SYN, EOT, EM,
           BEL, SP, HT, LF, CR, DLE, ETB
  <2> QED BY <1>1, <1>5, <2>1
<1>7. ComesTo(h, Len(a), FALSE, 0)
  <2>1. InPlace(a, h, 0)
    BY <1>4 DEF InPlace
  <2> QED BY <1>1, <1>4, <2>1 DEF Reaches
<1>8. OneCommit(h)
  BY <1>4, <1>5, <1>6, <1>7, ComesToCommit
<1>9. ASSUME NEW p \in 0 .. len - 1
      PROVE  Mark(h, p) <=> p = len - 1
  <2>1. p \in Nat
    BY <1>4
  <2>2. CASE p = Len(a)
    <3>1. At(h, Len(a) - 1) # DLE
      <4>1. At(h, Len(a) - 1) = At(a, Len(a) - 1) /\ (Len(a) - 1) + 1 = Len(a)
        BY <1>4
      <4> QED BY <1>1, <4>1 DEF At
    <3>2. Escaped(h, p, 0)
      <4>1. p - 0 - 1 = Len(a) - 1 /\ \A q \in p - 0 .. p - 1 : FALSE
        BY <2>1, <2>2
      <4> QED BY <3>1, <4>1 DEF Escaped
    <3>3. EscapesBefore(h, p) = 0
      BY <2>1, <3>2, EscapesAre
    <3> QED BY <1>4, <1>5, <2>2, <3>3 DEF Mark
  <2>3. CASE p # Len(a)
    <3>1. p \in 0 .. Len(a) - 1 /\ 0 + p = p
      BY <1>4, <2>3
    <3> SUFFICES ASSUME Mark(h, p) PROVE FALSE
      BY <1>5, <2>3
    <3>2. At(a, p) = ETB
      BY <1>4, <3>1 DEF Mark
    <3>3. PICK m \in 0 .. p - 1 : m % 2 = 1 /\ Escaped(a, p, m)
      BY <1>1, <3>1, <3>2 DEF MarkFree
    <3>4. InPlace(a, h, 0)
      BY <1>4 DEF InPlace
    <3>5. Escaped(h, 0 + p, m)
      BY <1>1, <1>4, <3>1, <3>3, <3>4, EscapedInPlace
    <3>6. EscapesBefore(h, p) = m
      BY <2>1, <3>1, <3>3, <3>5, EscapesAre
    <3> QED BY <3>3, <3>6 DEF Mark
  <2> QED BY <2>2, <2>3
<1>10. OneMark(h)
  BY <1>6, <1>9 DEF OneMark
<1> QED BY <1>2, <1>4, <1>8, <1>10 DEF IsBatch

-----------------------------------------------------------------------------
(* The calls of a writer. *)

\* What a closure does with the builder it is given, call by call.
Course(made, n) ==
  /\ made[0] = NewBuilder
  /\ \A i \in 1 .. n : \/ DataCall(made[i - 1], made[i])
                       \/ \E v \in Seq(Byte) : made[i] = Note(made[i - 1], v)

LEMMA CourseMakes ==
  ASSUME NEW n \in Nat, NEW made, Course(made, n)
  PROVE  Made(made[n])
<1> DEFINE G == {i \in 0 .. n : Made(made[i])}
<1>1. 0 \in G
  BY NewIsMade DEF Course
<1>2. ASSUME NEW i \in 1 .. n, i - 1 \in G
      PROVE  i \in G
  <2>1. Made(made[i - 1])
    BY <1>2
  <2>2. Made(made[i])
    BY <2>1, DataCallsFollow, NotesFollow DEF Course, Makes
  <2> QED BY <2>2
<1> HIDE DEF G
<1>3. \A i \in 0 .. n : i \in G
  BY <1>1, <1>2, UpTo
<1> QED BY <1>3 DEF G

\* Whatever calls a closure makes of batch (src/src/stream.rs, commit_bytes), with
\* whatever values: if it has closed its levels and does not begin with a note,
\* the bytes that the writer appends are one undamaged block, and only their last
\* ETB counts.
THEOREM BatchIsOne ==
  ASSUME NEW n \in Nat, NEW made, Course(made, n),
         made[n].stack = << >>, made[n].buf # << >>, At(made[n].buf, 0) # BEL
  PROVE  IsBatch(Bytes(made[n]))
<1>1. Made(made[n])
  BY CourseMakes
<1>2. OpensWith(made[n], DataCodes)
  BY <1>1 DEF Made, OpensWith
<1> QED BY <1>1, <1>2, MadeBatch

\* The ETB is all that the writer adds to what it was told.
LEMMA CourseBytes ==
  ASSUME NEW n \in Nat, NEW made, Course(made, n), made[n].stack = << >>
  PROVE  made[n].buf \in Seq(Byte) /\ Bytes(made[n]) = made[n].buf \o <<ETB>>
<1> DEFINE b == made[n]
<1>1. Made(b)
  BY CourseMakes
<1> HIDE DEF b
<1>2. b \in BuilderState /\ b.buf \in Seq(Byte)
  BY <1>1 DEF Made, Sound, BuilderState
<1>3. Bytes(b) = b.buf \o <<ETB>>
  BY <1>2 DEF Bytes, Etb, Push, EndRecord, BuilderState
<1> QED BY <1>2, <1>3 DEF b

\* A single call on a new builder that leaves no level open.
LEMMA OneCall ==
  ASSUME NEW c, Makes(NewBuilder, c), c.stack = << >>
  PROVE  IsBatch(Bytes(c))
<1>1. NewBuilder.buf = << >>
  BY DEF NewBuilder
<1> QED BY <1>1, MadeBatch DEF Makes

\* What StreamWriter's own calls append (src/src/stream.rs: record, map, header,
\* group, and a list in a batch) is one batch, for every value, name and row.
CallsWriteBatches ==
  /\ \A row \in Seq(Seq(Byte)) : IsBatch(RecordBytes(row))
  /\ \A row \in Seq(Seq(Byte)) : IsBatch(Bytes(List(NewBuilder, row)))
  /\ \A pairs \in Seq(Seq(Byte) \X Seq(Byte)) :
       (\A k \in DOMAIN pairs : IsName(pairs[k][1])) => IsBatch(MapBytes(pairs))
  /\ \A names \in Seq(Seq(Byte)) : IsBatch(HeaderBytes(names))
  /\ \A name \in Seq(Byte), names \in Seq(Seq(Byte)) :
       IsName(name) => IsBatch(GroupBytes(name, << >>)) /\ IsBatch(GroupBytes(name, <<names>>))

\* commit_bytes gives StreamWriter's calls an undamaged block each, in which a
\* backward search meets no ETB that counts but the last.
THEOREM WritersCalls == CallsWriteBatches
<1>1. Made(NewBuilder) /\ NewBuilder \in BuilderState /\ NewBuilder.stack = << >>
  BY NewIsMade DEF Made, Sound, NewBuilder
<1>2. ASSUME NEW c, Makes(NewBuilder, c), Grows(NewBuilder, c)
      PROVE  IsBatch(Bytes(c))
  BY <1>1, <1>2, OneCall DEF Grows
<1>3. ASSUME NEW row \in Seq(Seq(Byte))
      PROVE  IsBatch(RecordBytes(row)) /\ IsBatch(Bytes(List(NewBuilder, row)))
  <2>1. IsBatch(RecordBytes(row))
    BY <1>1, <1>2, RecordsFollow, RecordGrows DEF RecordBytes
  <2>2. IsBatch(Bytes(List(NewBuilder, row)))
    BY <1>1, ListsFollow, OneCall
  <2> QED BY <2>1, <2>2
<1>4. ASSUME NEW pairs \in Seq(Seq(Byte) \X Seq(Byte)),
             \A k \in DOMAIN pairs : IsName(pairs[k][1])
      PROVE  IsBatch(MapBytes(pairs))
  BY <1>1, <1>2, <1>4, RecordsFollow, KeyedGrows DEF MapBytes
<1>5. ASSUME NEW names \in Seq(Seq(Byte))
      PROVE  IsBatch(HeaderBytes(names))
  BY <1>1, <1>2, HeadersFollow, HeaderGrows DEF HeaderBytes
<1>6. ASSUME NEW name \in Seq(Byte), IsName(name), NEW header,
             header = << >> \/ header[1] \in Seq(Seq(Byte))
      PROVE  IsBatch(GroupBytes(name, header))
  <2>1. 1 \in Nat
    OBVIOUS
  <2> QED BY <1>1, <1>2, <1>6, <2>1, GroupsFollow, GroupGrows DEF GroupBytes
<1>7. ASSUME NEW name \in Seq(Byte), IsName(name), NEW names \in Seq(Seq(Byte))
      PROVE  IsBatch(GroupBytes(name, << >>)) /\ IsBatch(GroupBytes(name, <<names>>))
  <2>1. <<names>>[1] \in Seq(Seq(Byte))
    OBVIOUS
  <2> QED BY <1>6, <1>7, <2>1
<1> QED BY <1>3, <1>4, <1>5, <1>7 DEF CallsWriteBatches

=============================================================================
