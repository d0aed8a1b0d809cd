---------------------------- MODULE FileLogProofs ----------------------------
(***************************************************************************)
(* FileLog with one writer, for every setting and every set of batches:    *)
(* what holds whatever the batches are (BaseInv); what the file and the    *)
(* disk hold if each batch is one commit and the handle is dropped after   *)
(* an error (LogInv), hence that FileLog implements CommitLog; and where   *)
(* the backward scan may be used (MarkInv).                                *)
(***************************************************************************)
EXTENDS FileLog, WriterProofs, FiniteSetTheorems

-----------------------------------------------------------------------------
(* The records of a file. *)

\* The data a file can hold.
Datas == {Data(bytes) : bytes \in Seq(Byte)}

\* The blocks lie in the file.
Within(bytes, blocks) ==
  /\ blocks \in Seq(Block)
  /\ \A i \in 1 .. Len(blocks) : /\ blocks[i].start <= blocks[i].stop
                                 /\ blocks[i].stop <= Len(bytes)

DataAt(bytes, blocks, i) == Data(BlockBytes(bytes, blocks[i]))

\* u collects the records block by block, as Records does.
Collects(u, bytes, blocks) ==
  /\ u \in [0 .. Len(blocks) -> Seq(Datas)]
  /\ u[0] = << >>
  /\ \A i \in 1 .. Len(blocks) :
       u[i] = IF blocks[i].damaged THEN u[i - 1]
              ELSE Append(u[i - 1], DataAt(bytes, blocks, i))

LEMMA DataTyped ==
  ASSUME NEW bytes \in Seq(Byte), NEW blocks, Within(bytes, blocks), NEW i \in 1 .. Len(blocks)
  PROVE  DataAt(bytes, blocks, i) \in Datas
<1>1. blocks[i] \in Block
  BY DEF Within
<1>2. blocks[i].start \in Nat /\ blocks[i].stop \in Nat
      /\ blocks[i].start <= blocks[i].stop /\ blocks[i].stop <= Len(bytes)
  BY <1>1 DEF Within, Block
<1>3. SubSeq(bytes, blocks[i].start + 1, blocks[i].stop) \in Seq(Byte)
  BY <1>2
<1> QED BY <1>3 DEF DataAt, Datas, BlockBytes, Slice

LEMMA RecordsCollect ==
  ASSUME NEW bytes \in Seq(Byte), NEW blocks, Within(bytes, blocks)
  PROVE  \E u : Collects(u, bytes, blocks) /\ Records(bytes, blocks) = u[Len(blocks)]
<1> DEFINE n == Len(blocks)
           V == Seq(Datas)
           step == [x \in (1 .. n) \X V |->
                      IF blocks[x[1]].damaged THEN x[2]
                      ELSE Append(x[2], DataAt(bytes, blocks, x[1]))]
           Body(u) == [i \in 0 .. n |->
                         IF i = 0 THEN << >>
                         ELSE IF blocks[i].damaged THEN u[i - 1]
                         ELSE Append(u[i - 1], DataAt(bytes, blocks, i))]
           u == CHOOSE u : u = Body(u)
<1>1. n \in Nat /\ << >> \in V
  BY DEF Within
<1>2. step \in [(1 .. n) \X V -> V]
  <2>1. ASSUME NEW i \in 1 .. n, NEW s \in V
        PROVE  Append(s, DataAt(bytes, blocks, i)) \in V
    <3>1. DataAt(bytes, blocks, i) \in Datas
      BY DataTyped
    <3> QED BY <3>1
  <2> HIDE DEF V
  <2> QED BY <2>1
<1>3. PICK g : Steps(g, n, V, << >>, step)
  <2> HIDE DEF step, V
  <2> QED BY <1>1, <1>2, StepByStep
<1> HIDE DEF V
<1>4. ASSUME NEW i \in 1 .. n
      PROVE  step[<<i, g[i - 1]>>] = IF blocks[i].damaged THEN g[i - 1]
                                     ELSE Append(g[i - 1], DataAt(bytes, blocks, i))
  <2>1. g[i - 1] \in V
    BY <1>1, <1>3 DEF Steps
  <2> QED BY <2>1
<1>5. g = Body(g)
  <2> HIDE DEF step
  <2>1. g = [i \in 0 .. n |-> g[i]]
    BY <1>3 DEF Steps
  <2>2. ASSUME NEW i \in 0 .. n
        PROVE  g[i] = IF i = 0 THEN << >>
                      ELSE IF blocks[i].damaged THEN g[i - 1]
                      ELSE Append(g[i - 1], DataAt(bytes, blocks, i))
    <3>1. CASE i = 0
      BY <1>3, <3>1 DEF Steps
    <3>2. CASE i # 0
      <4>1. i \in 1 .. n
        BY <1>1, <3>2
      <4>2. g[i] = step[<<i, g[i - 1]>>]
        BY <1>3, <4>1 DEF Steps
      <4> QED BY <1>4, <3>2, <4>1, <4>2
    <3> QED BY <3>1, <3>2
  <2> QED BY <2>1, <2>2
<1>6. u = Body(u)
  <2> HIDE DEF Body
  <2> QED BY <1>5
<1>7. Records(bytes, blocks) = u[n]
  BY DEF Records, DataAt
<1> HIDE DEF u
<1>8. /\ u[0] = << >>
      /\ \A i \in 1 .. n : u[i] = IF blocks[i].damaged THEN u[i - 1]
                                  ELSE Append(u[i - 1], DataAt(bytes, blocks, i))
  <2>1. 0 \in 0 .. n /\ \A i \in 1 .. n : i \in 0 .. n /\ i # 0
    BY <1>1
  <2>2. \A i \in 0 .. n : u[i] = IF i = 0 THEN << >>
                                ELSE IF blocks[i].damaged THEN u[i - 1]
                                ELSE Append(u[i - 1], DataAt(bytes, blocks, i))
    BY <1>6
  <2> QED BY <2>1, <2>2
<1>9. u \in [0 .. n -> V]
  <2> DEFINE Bad == {i \in 0 .. n : u[i] \notin V}
  <2>1. Bad = {}
    <3> SUFFICES ASSUME Bad # {} PROVE FALSE
      OBVIOUS
    <3>1. Bad \in SUBSET Nat
      BY <1>1
    <3>2. PICK m \in Bad : \A k \in Bad : m <= k
      <4> HIDE DEF Bad
      <4> QED BY <3>1, LeastOffset
    <3>3. m # 0
      BY <1>1, <1>8, <3>2
    <3>4. m \in 1 .. n /\ u[m - 1] \in V
      BY <1>1, <3>2, <3>3
    <3>5. DataAt(bytes, blocks, m) \in Datas
      BY <3>4, DataTyped
    <3>6. Append(u[m - 1], DataAt(bytes, blocks, m)) \in V
      BY <3>4, <3>5 DEF V
    <3>7. u[m] \in V
      BY <1>8, <3>4, <3>6
    <3> QED BY <3>2, <3>7
  <2>2. u = [i \in 0 .. n |-> u[i]]
    BY <1>6
  <2> QED BY <2>1, <2>2
<1> QED BY <1>7, <1>8, <1>9 DEF Collects, V

\* As far as the blocks say the same, the same is collected.
LEMMA CollectSame ==
  ASSUME NEW a, NEW s, NEW u, Collects(u, a, s), s \in Seq(Block),
         NEW c, NEW t, NEW v, Collects(v, c, t), t \in Seq(Block),
         Len(s) <= Len(t),
         \A i \in 1 .. Len(s) : s[i].damaged = t[i].damaged /\ DataAt(a, s, i) = DataAt(c, t, i)
  PROVE  \A i \in 0 .. Len(s) : u[i] = v[i]
<1> DEFINE n == Len(s)
           Bad == {i \in 0 .. n : u[i] # v[i]}
<1>1. n \in Nat /\ Len(t) \in Nat
  OBVIOUS
<1> SUFFICES ASSUME Bad # {} PROVE FALSE
  OBVIOUS
<1>2. PICK m \in Bad : \A k \in Bad : m <= k
  <2>1. Bad \in SUBSET Nat
    BY <1>1
  <2> HIDE DEF Bad
  <2> QED BY <2>1, LeastOffset
<1>3. m # 0
  BY <1>2 DEF Collects
<1>4. m \in 1 .. n /\ m \in 1 .. Len(t) /\ u[m - 1] = v[m - 1]
  BY <1>1, <1>2, <1>3
<1>5. u[m] = v[m]
  BY <1>4 DEF Collects
<1> QED BY <1>2, <1>5

\* What has been collected stays, in front of what is added.
LEMMA CollectGrows ==
  ASSUME NEW a, NEW s, NEW u, Collects(u, a, s), s \in Seq(Block), NEW k \in 0 .. Len(s)
  PROVE  IsPrefix(u[k], u[Len(s)])
<1> DEFINE n == Len(s)
           Bad == {i \in k .. n : ~IsPrefix(u[k], u[i])}
<1>1. n \in Nat /\ k \in Nat /\ \A i \in 0 .. n : u[i] \in Seq(Datas)
  BY DEF Collects
<1>2. Bad = {}
  <2> SUFFICES ASSUME Bad # {} PROVE FALSE
    OBVIOUS
  <2>1. PICK m \in Bad : \A i \in Bad : m <= i
    <3>1. Bad \in SUBSET Nat
      BY <1>1
    <3> HIDE DEF Bad
    <3> QED BY <3>1, LeastOffset
  <2>2. m # k
    <3>1. u[k] \in Seq(Datas)
      BY <1>1
    <3>2. IsPrefix(u[k], u[k])
      BY <3>1, PrefixMeans
    <3> QED BY <2>1, <3>2
  <2>3. /\ m \in 1 .. n /\ m - 1 \in k .. n /\ m - 1 \in 0 .. n /\ m \in 0 .. n
        /\ IsPrefix(u[k], u[m - 1])
    BY <1>1, <2>1, <2>2
  <2>4. u[m] = u[m - 1] \/ \E d : u[m] = Append(u[m - 1], d) /\ d \in Datas
    <3>1. u[m] = IF s[m].damaged THEN u[m - 1] ELSE Append(u[m - 1], DataAt(a, s, m))
      BY <2>3 DEF Collects
    <3>2. CASE s[m].damaged
      BY <3>1, <3>2
    <3>3. CASE ~s[m].damaged
      <4>1. u[m] = Append(u[m - 1], DataAt(a, s, m))
        BY <3>1, <3>3
      <4> DEFINE x == u[m - 1]
                 y == u[m]
      <4>2. x \in Seq(Datas) /\ y \in Seq(Datas) /\ y = Append(x, DataAt(a, s, m))
        BY <1>1, <2>3, <4>1
      <4> HIDE DEF x, y
      <4>3. Len(x) + 1 \in 1 .. Len(y) /\ y[Len(x) + 1] = DataAt(a, s, m)
        BY <4>2
      <4>4. y[Len(x) + 1] \in Datas
        BY <4>2, <4>3
      <4> QED BY <4>1, <4>3, <4>4
    <3> QED BY <3>2, <3>3
  <2>5. IsPrefix(u[k], u[m])
    <3>1. CASE u[m] = u[m - 1]
      BY <2>3, <3>1
    <3>2. CASE \E d : u[m] = Append(u[m - 1], d) /\ d \in Datas
      <4>1. PICK d \in Datas : u[m] = Append(u[m - 1], d)
        BY <3>2
      <4> DEFINE w == u[k]
                 x == u[m - 1]
                 y == u[m]
      <4>2. w \in Seq(Datas) /\ x \in Seq(Datas) /\ y \in Seq(Datas) /\ y = Append(x, d)
        BY <1>1, <2>3, <4>1
      <4>3. IsPrefix(w, x)
        BY <2>3
      <4> HIDE DEF w, x, y
      <4>4. Len(w) <= Len(x) /\ \A i \in 1 .. Len(w) : w[i] = x[i]
        BY <4>2, <4>3, PrefixMeans
      <4>5. Len(y) = Len(x) + 1 /\ \A i \in 1 .. Len(x) : y[i] = x[i]
        BY <4>2
      <4>6. Len(w) <= Len(y) /\ \A i \in 1 .. Len(w) : w[i] = y[i]
        BY <4>2, <4>4, <4>5
      <4>7. IsPrefix(w, y)
        BY <4>2, <4>6, PrefixMeans
      <4> QED BY <4>7 DEF w, y
    <3> QED BY <2>4, <3>1, <3>2
  <2> QED BY <2>1, <2>5
<1> QED BY <1>1, <1>2

\* A slice of a buffer is that of a longer one.
LEMMA SliceSame ==
  ASSUME NEW a \in Seq(Byte), NEW c \in Seq(Byte), Begins(a, c),
         NEW lo \in Nat, NEW hi \in Nat, lo <= hi, hi <= Len(a)
  PROVE  Slice(a, lo, hi) = Slice(c, lo, hi)
<1> DEFINE x == SubSeq(a, lo + 1, hi)
           y == SubSeq(c, lo + 1, hi)
<1>1. Len(a) <= Len(c) /\ Len(a) \in Nat /\ Len(c) \in Nat
  BY DEF Begins
<1>2. \A p \in 1 .. Len(a) : a[p] = c[p]
  <2> SUFFICES ASSUME NEW p \in 1 .. Len(a) PROVE a[p] = c[p]
    OBVIOUS
  <2>1. p - 1 \in 0 .. Len(a) - 1 /\ (p - 1) + 1 = p
    OBVIOUS
  <2>2. a[(p - 1) + 1] = c[(p - 1) + 1]
    BY <2>1 DEF Begins, At
  <2> QED BY <2>1, <2>2
<1>3. /\ x \in Seq(Byte) /\ Len(x) = hi - lo
      /\ \A p \in 1 .. hi - lo : x[p] = a[lo + p]
  BY <1>1
<1>4. /\ y \in Seq(Byte) /\ Len(y) = hi - lo
      /\ \A p \in 1 .. hi - lo : y[p] = c[lo + p]
  BY <1>1
<1>5. \A p \in 1 .. hi - lo : lo + p \in 1 .. Len(a)
  BY <1>1
<1>6. \A p \in 1 .. Len(x) : x[p] = y[p]
  BY <1>2, <1>3, <1>4, <1>5
<1> HIDE DEF x, y
<1>7. x = y
  BY <1>3, <1>4, <1>6, SeqEqual
<1> QED BY <1>7 DEF x, y, Slice

LEMMA CommittedIs ==
  ASSUME NEW bytes \in Seq(Byte)
  PROVE  /\ Within(bytes, ScanOf(bytes).blocks)
         /\ Committed(bytes) = Records(bytes, ScanOf(bytes).blocks)
         /\ Committed(bytes) \in Seq(Datas)
<1> DEFINE s == ScanOf(bytes).blocks
<1>1. s \in Seq(Block) /\ Placed(bytes, ScanOf(bytes)) /\ ScanOf(bytes).committed_end \in Nat
  BY ScanPlaced DEF Reader
<1>2. Within(bytes, s)
  <2>1. \A i \in 1 .. Len(s) : s[i] \in Block
    BY <1>1
  <2>2. \A i \in 1 .. Len(s) : s[i].stop \in Nat
    BY <2>1 DEF Block
  <2>3. Len(bytes) \in Nat
    OBVIOUS
  <2> QED BY <1>1, <2>2, <2>3 DEF Within, Placed
<1>3. Committed(bytes) = Records(bytes, s)
  BY <1>1 DEF Committed
<1> HIDE DEF s
<1>4. PICK u : Collects(u, bytes, s) /\ Records(bytes, s) = u[Len(s)]
  BY <1>2, RecordsCollect
<1>5. Len(s) \in 0 .. Len(s)
  BY <1>1 DEF s
<1>6. u[Len(s)] \in Seq(Datas)
  BY <1>4, <1>5 DEF Collects
<1> QED BY <1>2, <1>3, <1>4, <1>6 DEF s

\* A longer file holds the records of a shorter one, and no other if it has no
\* more blocks.
LEMMA CommittedGrows ==
  ASSUME NEW a \in Seq(Byte), NEW c \in Seq(Byte), Begins(a, c)
  PROVE  /\ IsPrefix(Committed(a), Committed(c))
         /\ ScanOf(a).blocks = ScanOf(c).blocks => Committed(a) = Committed(c)
<1> DEFINE s == ScanOf(a).blocks
           t == ScanOf(c).blocks
<1>1. Within(a, s) /\ Within(c, t) /\ IsPrefix(s, t)
  BY CommittedIs, PrefixScan
<1>2. Committed(a) = Records(a, s) /\ Committed(c) = Records(c, t)
  BY CommittedIs
<1> HIDE DEF s, t
<1>3. PICK u : Collects(u, a, s) /\ Records(a, s) = u[Len(s)]
  BY <1>1, RecordsCollect
<1>4. PICK v : Collects(v, c, t) /\ Records(c, t) = v[Len(t)]
  BY <1>1, RecordsCollect
<1>5. s \in Seq(Block) /\ t \in Seq(Block) /\ Len(s) <= Len(t)
      /\ \A i \in 1 .. Len(s) : s[i] = t[i]
  BY <1>1, PrefixMeans DEF Within
<1>6. ASSUME NEW i \in 1 .. Len(s)
      PROVE  s[i].damaged = t[i].damaged /\ DataAt(a, s, i) = DataAt(c, t, i)
  <2>1. s[i] = t[i] /\ s[i] \in Block
    BY <1>5
  <2>2. /\ s[i].start \in Nat /\ s[i].stop \in Nat
        /\ s[i].start <= s[i].stop /\ s[i].stop <= Len(a)
    BY <1>1, <2>1 DEF Within, Block
  <2>3. Slice(a, s[i].start, s[i].stop) = Slice(c, s[i].start, s[i].stop)
    BY <2>2, SliceSame
  <2> QED BY <2>1, <2>3 DEF DataAt, BlockBytes
<1>7. \A i \in 0 .. Len(s) : u[i] = v[i]
  BY <1>3, <1>4, <1>5, <1>6, CollectSame
<1>8. Len(s) \in 0 .. Len(s) /\ Len(s) \in 0 .. Len(t)
  BY <1>5
<1>9. u[Len(s)] = v[Len(s)] /\ IsPrefix(v[Len(s)], v[Len(t)])
  BY <1>4, <1>5, <1>7, <1>8, CollectGrows
<1> QED BY <1>2, <1>3, <1>4, <1>9 DEF s, t

LEMMA CommittedEmpty == Committed(<< >>) = << >>
<1> DEFINE none == << >>
<1>1. none \in Seq(Byte) /\ Len(none) = 0
  OBVIOUS
<1>2. ~Reading(none, NewReader)
  BY NewReaderTyped, <1>1 DEF Reading
<1>3. ScanOf(none) = NewReader
  BY <1>1, <1>2, NewReaderTyped, RunUnfolds
<1>4. ScanOf(none).blocks = << >>
  BY <1>3 DEF NewReader
<1>5. Within(none, << >>) /\ Committed(none) = Records(none, << >>)
  BY <1>1, <1>4, CommittedIs
<1>6. PICK u : Collects(u, none, << >>) /\ Records(none, << >>) = u[Len(<< >>)]
  BY <1>1, <1>5, RecordsCollect
<1>7. u[Len(<< >>)] = << >>
  BY <1>6 DEF Collects
<1> QED BY <1>5, <1>6, <1>7

\* A batch adds its record.
LEMMA CommittedAppend ==
  ASSUME NEW g, Settled(g), NEW b, OneCommit(b)
  PROVE  Committed(g \o b) = Append(Committed(g), Data(Front(b)))
<1> DEFINE h == g \o b
           s == ScanOf(g).blocks
           t == ScanOf(h).blocks
           n == Len(s)
           blk == [start |-> Len(g), stop |-> Len(g) + Len(b) - 1, damaged |-> FALSE]
<1>1. /\ g \in Seq(Byte) /\ b \in Seq(Byte) /\ h \in Seq(Byte)
      /\ Len(b) > 0 /\ Len(g) \in Nat /\ Len(b) \in Nat
  <2>1. b \in Seq(Byte) /\ b # << >>
    BY DEF OneCommit, Settled
  <2> QED BY <2>1 DEF Settled
<1>2. t = Append(s, blk)
  BY WholeLands
<1>3. BlockBytes(h, blk) = Front(b)
  <2>1. BlockBytes(h, blk) = SubSeq(h, Len(g) + 1, Len(g) + Len(b) - 1)
    BY DEF BlockBytes, Slice
  <2>2. Front(b) = SubSeq(b, 1, Len(b) - 1)
    BY DEF Front
  <2> DEFINE x == SubSeq(h, Len(g) + 1, Len(g) + Len(b) - 1)
             y == SubSeq(b, 1, Len(b) - 1)
  <2>3. /\ Len(h) = Len(g) + Len(b)
        /\ \A i \in 1 .. Len(b) : h[Len(g) + i] = b[i]
    BY <1>1
  <2> HIDE DEF h
  <2>4. /\ x \in Seq(Byte) /\ Len(x) = Len(b) - 1
        /\ \A i \in 1 .. Len(b) - 1 : x[i] = h[Len(g) + i]
    <3> DEFINE lo == Len(g) + 1
               hi == Len(g) + Len(b) - 1
    <3>1. lo \in Nat /\ hi \in Nat /\ lo >= 1 /\ lo <= hi + 1 /\ hi <= Len(h)
          /\ hi - lo + 1 = Len(b) - 1 /\ \A i \in Nat : lo + i - 1 = Len(g) + i
      BY <1>1, <2>3
    <3>2. h \in Seq(Byte)
      BY <1>1
    <3> HIDE DEF lo, hi
    <3>3. \A i \in lo .. hi : h[i] \in Byte
      BY <3>1, <3>2
    <3>4. /\ SubSeq(h, lo, hi) \in Seq(Byte)
          /\ Len(SubSeq(h, lo, hi)) = hi - lo + 1
          /\ \A i \in 1 .. hi - lo + 1 : SubSeq(h, lo, hi)[i] = h[lo + i - 1]
      BY <3>1, <3>3, SubSeqProperties
    <3>5. x = SubSeq(h, lo, hi)
      BY DEF lo, hi
    <3> HIDE DEF x
    <3>6. \A i \in 1 .. Len(b) - 1 : i \in Nat /\ i \in 1 .. hi - lo + 1
      BY <1>1, <3>1
    <3> QED BY <3>1, <3>4, <3>5, <3>6
  <2>7. /\ y \in Seq(Byte) /\ Len(y) = Len(b) - 1
        /\ \A i \in 1 .. Len(b) - 1 : y[i] = b[i]
    <3> DEFINE hi == Len(b) - 1
    <3>1. hi \in Nat /\ hi <= Len(b)
      BY <1>1
    <3> HIDE DEF hi
    <3>2. /\ SubSeq(b, 1, hi) \in Seq(Byte) /\ Len(SubSeq(b, 1, hi)) = hi
          /\ \A i \in 1 .. hi : SubSeq(b, 1, hi)[i] = b[i]
      BY <1>1, <3>1
    <3> QED BY <3>2 DEF hi
  <2>5. \A i \in 1 .. Len(x) : x[i] = y[i]
    BY <1>1, <2>3, <2>4, <2>7
  <2> HIDE DEF x, y
  <2>6. x = y
    BY <2>4, <2>5, <2>7, SeqEqual
  <2> QED BY <2>1, <2>2, <2>6 DEF x, y
<1>4. Begins(g, h)
  BY <1>1, AppendStands
<1> HIDE DEF h
<1>5. /\ Within(g, s) /\ Committed(g) = Records(g, s)
      /\ Within(h, t) /\ Committed(h) = Records(h, t) /\ Committed(g) \in Seq(Datas)
  BY <1>1, CommittedIs
<1>6. s \in Seq(Block) /\ t \in Seq(Block) /\ n \in Nat
  BY <1>5 DEF Within
<1> HIDE DEF s, t, blk
<1>7. Len(t) = n + 1 /\ t[n + 1] = blk
  BY <1>2, <1>6
<1>8. PICK u : Collects(u, g, s) /\ Records(g, s) = u[Len(s)]
  BY <1>1, <1>5, RecordsCollect
<1>9. PICK v : Collects(v, h, t) /\ Records(h, t) = v[Len(t)]
  BY <1>1, <1>5, RecordsCollect
<1>10. v[n + 1] = Append(v[n], Data(Front(b)))
  <2>1. n + 1 \in 1 .. Len(t) /\ (n + 1) - 1 = n /\ blk.damaged = FALSE
    BY <1>6, <1>7 DEF blk
  <2>2. v[n + 1] = Append(v[n], DataAt(h, t, n + 1))
    BY <1>7, <1>9, <2>1 DEF Collects
  <2> QED BY <1>3, <1>7, <2>2 DEF DataAt
<1>11. u[n] = v[n]
  <2>1. ASSUME NEW i \in 1 .. n
        PROVE  s[i].damaged = t[i].damaged /\ DataAt(g, s, i) = DataAt(h, t, i)
    <3>1. s[i] = t[i] /\ s[i] \in Block
      BY <1>2, <1>6
    <3>2. /\ s[i].start \in Nat /\ s[i].stop \in Nat
          /\ s[i].start <= s[i].stop /\ s[i].stop <= Len(g)
      BY <1>5, <3>1 DEF Within, Block
    <3>3. Slice(g, s[i].start, s[i].stop) = Slice(h, s[i].start, s[i].stop)
      BY <1>1, <1>4, <3>2, SliceSame
    <3> QED BY <3>1, <3>3 DEF DataAt, BlockBytes
  <2>2. n <= Len(t)
    BY <1>6, <1>7
  <2>3. \A i \in 0 .. Len(s) : u[i] = v[i]
    BY <1>6, <1>8, <1>9, <2>1, <2>2, CollectSame
  <2> QED BY <1>6, <2>3
<1>12. n + 1 = Len(t)
  BY <1>7
<1> QED BY <1>5, <1>8, <1>9, <1>10, <1>11, <1>12 DEF h

-----------------------------------------------------------------------------
(* What two files share. *)

LEMMA BeginsMeans ==
  ASSUME NEW a \in Seq(Byte), NEW c \in Seq(Byte)
  PROVE  /\ IsPrefix(a, c) <=> Begins(a, c)
         /\ Begins(a, c) <=> Len(a) <= Len(c) /\ \A i \in 1 .. Len(a) : a[i] = c[i]
<1>1. Begins(a, c) <=> Len(a) <= Len(c) /\ \A i \in 1 .. Len(a) : a[i] = c[i]
  <2>1. ASSUME \A p \in 0 .. Len(a) - 1 : a[p + 1] = c[p + 1], NEW i \in 1 .. Len(a)
        PROVE  a[i] = c[i]
    <3>1. i - 1 \in 0 .. Len(a) - 1 /\ (i - 1) + 1 = i
      OBVIOUS
    <3>2. a[(i - 1) + 1] = c[(i - 1) + 1]
      BY <2>1, <3>1
    <3> QED BY <3>1, <3>2
  <2>2. ASSUME \A i \in 1 .. Len(a) : a[i] = c[i], NEW p \in 0 .. Len(a) - 1
        PROVE  a[p + 1] = c[p + 1]
    BY <2>2
  <2> QED BY <2>1, <2>2 DEF Begins, At
<1> QED BY <1>1, PrefixMeans

\* The longest common prefix is one, and no other is longer.
LEMMA LongestPrefix ==
  ASSUME NEW a \in Seq(Byte), NEW c \in Seq(Byte)
  PROVE  /\ Len(LongestCommonPrefix({a, c})) \in Nat
         /\ \A p \in Seq(Byte) :
              Begins(p, a) /\ Begins(p, c) => Len(p) <= Len(LongestCommonPrefix({a, c}))
<1> DEFINE Common == CommonPrefixes({a, c})
           Longest(x) == \A other \in Common : Len(other) <= Len(x)
<1>1. \A x \in Common : x \in Seq(Byte) /\ Len(x) <= Len(a)
  <2> SUFFICES ASSUME NEW x \in Common
               PROVE  x \in Seq(Byte) /\ Len(x) <= Len(a)
    OBVIOUS
  <2>1. x \in Prefixes(a) \cup Prefixes(c) /\ IsPrefix(x, a)
    BY DEF CommonPrefixes
  <2>2. \A s \in Seq(Byte) : \A l \in 0 .. Len(s) : SubSeq(s, 1, l) \in Seq(Byte)
    OBVIOUS
  <2>3. x \in Seq(Byte)
    BY <2>1, <2>2 DEF Prefixes
  <2> QED BY <2>1, <2>3 DEF IsPrefix
<1>2. ASSUME NEW p \in Seq(Byte), Begins(p, a), Begins(p, c)
      PROVE  p \in Common
  <2>1. IsPrefix(p, a) /\ IsPrefix(p, c)
    BY <1>2, BeginsMeans
  <2>2. p = SubSeq(a, 1, Len(p)) /\ Len(p) \in 0 .. Len(a)
    <3>1. SubSeq(p, 1, Len(p)) = p
      BY SubSeqFull
    <3> QED BY <2>1, <3>1 DEF IsPrefix
  <2>3. p \in Prefixes(a)
    BY <2>2 DEF Prefixes
  <2> QED BY <2>1, <2>3 DEF CommonPrefixes
<1>3. << >> \in Common
  <2>1. << >> \in Seq(Byte) /\ Begins(<< >>, a) /\ Begins(<< >>, c)
    BY DEF Begins
  <2> HIDE DEF Common
  <2> QED BY <1>2, <2>1
<1>4. \E x \in Common : Longest(x)
  <2> DEFINE Short == {n \in Nat : \E x \in Common : n = Len(a) - Len(x)}
  <2> HIDE DEF Common
  <2>1. Len(a) \in Nat /\ \A x \in Common : Len(x) \in Nat /\ Len(a) - Len(x) \in Short
    BY <1>1
  <2>2. Short # {} /\ Short \in SUBSET Nat
    BY <1>3, <2>1
  <2>3. PICK m \in Short : \A n \in Short : m <= n
    <3> HIDE DEF Short
    <3> QED BY <2>2, LeastOffset
  <2>4. PICK x \in Common : m = Len(a) - Len(x)
    BY <2>3
  <2>5. \A other \in Common : Len(a) - Len(x) <= Len(a) - Len(other)
    BY <2>1, <2>3, <2>4
  <2>6. Longest(x)
    BY <2>1, <2>5
  <2> QED BY <2>6
<1>5. LongestCommonPrefix({a, c}) = CHOOSE x \in Common : Longest(x)
  BY DEF LongestCommonPrefix
<1> DEFINE l == LongestCommonPrefix({a, c})
<1> HIDE DEF Common, l
<1>6. l \in Common /\ Longest(l)
  <2> HIDE DEF Longest
  <2> QED BY <1>4, <1>5 DEF l
<1>7. l \in Seq(Byte) /\ Len(l) \in Nat
  BY <1>1, <1>6
<1>8. \A p \in Seq(Byte) : Begins(p, a) /\ Begins(p, c) => Len(p) <= Len(l)
  BY <1>2, <1>6
<1> QED BY <1>7, <1>8 DEF l

-----------------------------------------------------------------------------
(* What holds with one writer, whatever the batches are. *)

OneWriter == \E p \in Procs : Procs = {p}

\* The writer.
Me == proc[Writer]

Kept == UNCHANGED <<file, durable, acked, reader>> /\ env'.sync = env.sync

Types ==
  /\ file \in Seq(Byte)
  /\ durable \in Seq(Byte)
  /\ proc \in [Procs -> Process]
  /\ acked \in Seq(Batches)
  /\ reader \in [pc : {"none", "reading", "done"}, got : Seq(Byte),
                 base : Seq(Datas), mixed : BOOLEAN]
  /\ env \in [sync : BOOLEAN, calls : Nat, errors : Nat, crashes : Nat, reads : Nat]

\* A call has its batch, and what is left to write is the end of it.
CallInv ==
  /\ Me.pc \in {"writing", "written"} <=> Me.batch # << >>
  /\ Me.pc = "writing" =>
       /\ Len(Me.todo) \in 1 .. Len(Me.batch)
       /\ Me.todo = SubSeq(Me.batch, Len(Me.batch) - Len(Me.todo) + 1, Len(Me.batch))

\* Nobody changes the file between repair_log's read and its cut.
CutInv == Me.pc = "truncating" => Me.cut = CommittedEnd(file)

\* What was read is the start of the file, unless it was cut meanwhile.
ReadInv ==
  ~reader.mixed =>
    /\ reader.pc = "reading" => /\ Begins(reader.got, file)
                                /\ IsPrefix(reader.base, Committed(file))
    /\ reader.pc = "done" => /\ IsPrefix(reader.base, Committed(reader.got))
                             /\ IsPrefix(Committed(reader.got), Committed(file))

BaseInv == Types /\ CallInv /\ CutInv /\ ReadInv

-----------------------------------------------------------------------------
(* What a step does to the one writer, the file and the reader. *)

\* fs::read and the decision of open_log.
Looks ==
  /\ Me.pc = "closed"
  /\ Me'.batch = << >>
  /\ Torn(file) => Me'.pc = "truncating" /\ Me'.cut = CommittedEnd(file)
  /\ ~Torn(file) => Me'.pc = "opening"
  /\ UNCHANGED <<file, durable, acked, reader, env>>

Cuts ==
  /\ Me.pc = "truncating"
  /\ Me'.pc = "opening" /\ Me'.batch = << >>
  /\ file' = SetLen(file, Me.cut)
  /\ reader' = [reader EXCEPT !.mixed = @ \/ reader.pc = "reading"]
  /\ UNCHANGED <<durable, acked, env>>

Opens ==
  /\ Me.pc = "opening"
  /\ Me'.pc = "idle" /\ Me'.batch = << >>
  /\ Kept

Begins_(b) ==
  /\ Me.pc = "idle"
  /\ Me'.pc = "writing" /\ Me'.batch = b /\ Me'.todo = b
  /\ Kept

Writes(n) ==
  /\ Me.pc = "writing"
  /\ n \in 1 .. Len(Me.todo)
  /\ Me'.pc = IF n = Len(Me.todo) THEN "written" ELSE "writing"
  /\ Me'.batch = Me.batch
  /\ Me'.todo = SubSeq(Me.todo, n + 1, Len(Me.todo))
  /\ file' = file \o SubSeq(Me.todo, 1, n)
  /\ UNCHANGED <<durable, acked, reader, env>>

Answers ==
  /\ Me.pc = "written"
  /\ Me'.pc = "idle" /\ Me'.batch = << >>
  /\ durable' = IF env.sync THEN file ELSE durable
  /\ acked' = Append(acked, Me.batch)
  /\ UNCHANGED <<file, reader, env>>

\* A failed call, a close or a kill.
Leaves ==
  /\ Me.pc # "closed"
  /\ Me'.batch = << >>
  /\ \/ Me'.pc = "closed"
     \/ Me'.pc = "idle" /\ ~DropOnError /\ Me.pc \in {"writing", "written"}
  /\ Kept

LosesPower ==
  /\ Me'.pc = "closed" /\ Me'.batch = << >>
  /\ \E left \in AfterPowerLoss : file' = left /\ durable' = left
  /\ reader' = NotReading
  /\ acked' = acked
  /\ env'.sync = env.sync

Reads_ ==
  /\ ReadOpen \/ (\E n \in 1 .. Len(file) : ReadChunk(n)) \/ ReadEnd
  /\ Me' = Me
  /\ UNCHANGED <<file, durable, proc, acked>>
  /\ env'.sync = env.sync

\* The states a process is put in.
Waits(r, pc) == r \in Process /\ r.pc = pc /\ r.batch = << >>

LEMMA Processes ==
  /\ Waits(Closed, "closed")
  /\ Waits(Idle, "idle")
  /\ Waits([Closed EXCEPT !.pc = "opening"], "opening")
  /\ \A n \in Nat : /\ Waits([Closed EXCEPT !.pc = "truncating", !.cut = n], "truncating")
                     /\ [Closed EXCEPT !.pc = "truncating", !.cut = n].cut = n
  /\ \A b \in Batches :
       LET r == [Idle EXCEPT !.pc = "writing", !.batch = b, !.todo = b]
       IN  r \in Process /\ r.pc = "writing" /\ r.batch = b /\ r.todo = b
<1>0. << >> \in Seq(Byte) /\ Batches \subseteq Seq(Byte)
  BY FileLogAssumption
<1>1. Waits(Closed, "closed")
  BY <1>0 DEF Waits, Closed, Process
<1>2. Waits(Idle, "idle")
  BY <1>0 DEF Waits, Closed, Idle, Process
<1>3. Waits([Closed EXCEPT !.pc = "opening"], "opening")
  BY <1>0 DEF Waits, Closed, Process
<1>4. ASSUME NEW n \in Nat
      PROVE  /\ Waits([Closed EXCEPT !.pc = "truncating", !.cut = n], "truncating")
             /\ [Closed EXCEPT !.pc = "truncating", !.cut = n].cut = n
  BY <1>0 DEF Waits, Closed, Process
<1>5. ASSUME NEW b \in Batches
      PROVE  LET r == [Idle EXCEPT !.pc = "writing", !.batch = b, !.todo = b]
             IN  r \in Process /\ r.pc = "writing" /\ r.batch = b /\ r.todo = b
  BY <1>0 DEF Closed, Idle, Process
<1> QED BY <1>1, <1>2, <1>3, <1>4, <1>5

LEMMA StepDoes ==
  ASSUME OneWriter, Types, Next
  PROVE  /\ proc' \in [Procs -> Process] /\ env' \in [sync : BOOLEAN, calls : Nat, errors : Nat, crashes : Nat, reads : Nat]
         /\ \/ Looks \/ Cuts \/ Opens \/ Answers \/ Leaves \/ LosesPower \/ Reads_
            \/ \E b \in Batches : Begins_(b)
            \/ \E n \in 1 .. Len(Me.todo) : Writes(n)
<1> DEFINE E == [sync : BOOLEAN, calls : Nat, errors : Nat, crashes : Nat, reads : Nat]
           P == proc \in [Procs -> Process]
           w == Writer
           T == proc' \in [Procs -> Process] /\ env' \in E
<1>1. Writer \in Procs /\ \A p \in Procs : p = Writer
  BY DEF OneWriter, Writer
<1>2. /\ proc \in [Procs -> Process] /\ env \in E /\ Me \in Process
      /\ file \in Seq(Byte) /\ CommittedEnd(file) \in Nat
  BY <1>1, ScanPlaced DEF Types, Me
<1>3. ASSUME NEW x, proc' = [proc EXCEPT ![Writer] = x]
      PROVE  Me' = x /\ (x \in Process => proc' \in [Procs -> Process])
  BY <1>1, <1>2, <1>3 DEF Me
<1>4. CASE OpenRead(Writer)
  <2>1. /\ proc' = [proc EXCEPT ![Writer] =
              IF Torn(file) THEN [Closed EXCEPT !.pc = "truncating", !.cut = CommittedEnd(file)]
                            ELSE [Closed EXCEPT !.pc = "opening"]]
        /\ Me.pc = "closed"
        /\ UNCHANGED <<file, durable, acked, reader, env>>
    BY <1>4 DEF OpenRead, Me
  <2>2. CASE Torn(file)
    <3>1. Me' = [Closed EXCEPT !.pc = "truncating", !.cut = CommittedEnd(file)]
      BY <1>3, <2>1, <2>2
    <3>2. Looks /\ T
      BY <1>2, <1>3, <2>1, <2>2, <3>1, Processes DEF Waits, Looks
    <3> QED BY <3>2
  <2>3. CASE ~Torn(file)
    <3>1. Me' = [Closed EXCEPT !.pc = "opening"]
      BY <1>3, <2>1, <2>3
    <3>2. Looks /\ T
      BY <1>2, <1>3, <2>1, <2>3, <3>1, Processes DEF Waits, Looks
    <3> QED BY <3>2
  <2> QED BY <2>2, <2>3
<1>5. CASE Truncate(Writer)
  <2>1. /\ proc' = [proc EXCEPT ![Writer] = [Closed EXCEPT !.pc = "opening"]]
        /\ Me.pc = "truncating" /\ file' = SetLen(file, Me.cut)
        /\ reader' = [reader EXCEPT !.mixed = @ \/ reader.pc = "reading"]
        /\ UNCHANGED <<durable, acked, env>>
    BY <1>5 DEF Truncate, Me
  <2>2. Me' = [Closed EXCEPT !.pc = "opening"] /\ T
    BY <1>2, <1>3, <2>1, Processes DEF Waits
  <2>3. Cuts
    BY <2>1, <2>2, Processes DEF Waits, Cuts
  <2> QED BY <2>2, <2>3
<1>6. CASE OpenAppend(Writer)
  <2>1. /\ proc' = [proc EXCEPT ![Writer] = Idle]
        /\ Me.pc = "opening" /\ UNCHANGED <<file, durable, acked, reader, env>>
    BY <1>6 DEF OpenAppend, Me
  <2>2. Me' = Idle /\ T
    BY <1>2, <1>3, <2>1, Processes DEF Waits
  <2>3. Opens
    BY <2>1, <2>2, Processes DEF Waits, Opens, Kept
  <2> QED BY <2>2, <2>3
<1>7. ASSUME NEW b \in Batches, Begin(Writer, b)
      PROVE  Begins_(b) /\ T
  <2>1. /\ proc' = [proc EXCEPT ![Writer] = [Idle EXCEPT !.pc = "writing", !.batch = b, !.todo = b]]
        /\ Me.pc = "idle" /\ UNCHANGED <<file, durable, acked, reader>>
        /\ env.calls > 0 /\ env' = [env EXCEPT !.calls = @ - 1]
    BY <1>7 DEF Begin, Me
  <2>2. env' \in E /\ env'.sync = env.sync
    BY <1>2, <2>1
  <2>3. Me' = [Idle EXCEPT !.pc = "writing", !.batch = b, !.todo = b] /\ T
    BY <1>3, <2>1, <2>2, Processes
  <2>4. Begins_(b)
    BY <2>1, <2>2, <2>3, Processes DEF Begins_, Kept
  <2> QED BY <2>3, <2>4
<1>8. ASSUME NEW n, WriteSome(Writer, n)
      PROVE  n \in 1 .. Len(Me.todo) /\ Writes(n) /\ T
  <2> DEFINE todo == Me.todo
             rest == SubSeq(todo, n + 1, Len(todo))
             pc == IF n = Len(todo) THEN "written" ELSE "writing"
  <2>1. /\ Me.pc = "writing" /\ n \in 1 .. Len(todo)
        /\ file' = file \o SubSeq(todo, 1, n)
        /\ proc' = [proc EXCEPT ![Writer].todo = rest, ![Writer].pc = pc]
        /\ UNCHANGED <<durable, acked, reader, env>>
    BY <1>8 DEF WriteSome, Me
  <2>2. todo \in Seq(Byte) /\ rest \in Seq(Byte)
    <3>1. Me.todo \in Seq(Byte)
      BY <1>2 DEF Process
    <3> QED BY <2>1, <3>1
  <2> HIDE DEF rest, todo
  <2>3. Me' = [pc |-> pc, batch |-> Me.batch, todo |-> rest, cut |-> Me.cut]
    BY <1>1, <1>2, <2>1 DEF Me, Process
  <2>4. Me' \in Process
    BY <1>2, <2>2, <2>3 DEF Process
  <2>5. proc' \in [Procs -> Process]
    BY <1>1, <1>2, <2>1, <2>4 DEF Me
  <2> QED BY <1>2, <2>1, <2>3, <2>5 DEF Writes, rest, todo
<1>9. CASE WriteError(Writer) \/ SyncError(Writer)
  <2>1. /\ proc' = [proc EXCEPT ![Writer] = AfterError]
        /\ Me.pc \in {"writing", "written"} /\ UNCHANGED <<file, durable, acked, reader>>
        /\ env.errors > 0 /\ env' = [env EXCEPT !.errors = @ - 1]
    BY <1>9 DEF WriteError, SyncError, Me
  <2>2. env' \in E /\ env'.sync = env.sync
    BY <1>2, <2>1
  <2>3. AfterError \in Process /\ Waits(AfterError, AfterError.pc)
        /\ \/ AfterError.pc = "closed"
           \/ AfterError.pc = "idle" /\ ~DropOnError
    BY Processes DEF Waits, AfterError
  <2>4. Me' = AfterError /\ T
    BY <1>3, <2>1, <2>2, <2>3
  <2>5. Leaves
    BY <2>1, <2>2, <2>3, <2>4 DEF Waits, Leaves, Kept
  <2> QED BY <2>4, <2>5
<1>10. CASE Return(Writer)
  <2>1. /\ proc' = [proc EXCEPT ![Writer] = Idle]
        /\ Me.pc = "written" /\ durable' = IF env.sync THEN file ELSE durable
        /\ acked' = Append(acked, Me.batch)
        /\ UNCHANGED <<file, reader, env>>
    BY <1>10 DEF Return, Me
  <2>2. Me' = Idle /\ T
    BY <1>2, <1>3, <2>1, Processes DEF Waits
  <2>3. Answers
    BY <2>1, <2>2, Processes DEF Waits, Answers
  <2> QED BY <2>2, <2>3
<1>11. CASE Close(Writer)
  <2>1. /\ proc' = [proc EXCEPT ![Writer] = Closed]
        /\ Me.pc = "idle" /\ UNCHANGED <<file, durable, acked, reader, env>>
    BY <1>11 DEF Close, Me
  <2>2. Me' = Closed /\ T
    BY <1>2, <1>3, <2>1, Processes DEF Waits
  <2>3. Leaves
    BY <2>1, <2>2, Processes DEF Waits, Leaves, Kept
  <2> QED BY <2>2, <2>3
<1>12. CASE Kill(Writer)
  <2>1. /\ proc' = [proc EXCEPT ![Writer] = Closed]
        /\ Me.pc # "closed" /\ UNCHANGED <<file, durable, acked, reader>>
        /\ env.crashes > 0 /\ env' = [env EXCEPT !.crashes = @ - 1]
    BY <1>12 DEF Kill, Me
  <2>2. env' \in E /\ env'.sync = env.sync
    BY <1>2, <2>1
  <2>3. Me' = Closed /\ T
    BY <1>2, <1>3, <2>1, <2>2, Processes DEF Waits
  <2>4. Leaves
    BY <2>1, <2>2, <2>3, Processes DEF Waits, Leaves, Kept
  <2> QED BY <2>3, <2>4
<1>13. CASE PowerLoss
  <2>1. /\ proc' = [p \in Procs |-> Closed]
        /\ \E left \in AfterPowerLoss : file' = left /\ durable' = left
        /\ reader' = NotReading /\ acked' = acked
        /\ env.crashes > 0 /\ env' = [env EXCEPT !.crashes = @ - 1]
    BY <1>13 DEF PowerLoss
  <2>2. env' \in E /\ env'.sync = env.sync
    BY <1>2, <2>1
  <2>3. Me' = Closed /\ proc' \in [Procs -> Process]
    BY <1>1, <2>1, Processes DEF Waits, Me
  <2>4. LosesPower /\ T
    BY <2>1, <2>2, <2>3, Processes DEF Waits, LosesPower
  <2> QED BY <2>4
<1>14. CASE ReadOpen \/ (\E n \in 1 .. Len(file) : ReadChunk(n)) \/ ReadEnd
  <2>1. UNCHANGED <<file, durable, proc, acked>>
    BY <1>14 DEF ReadOpen, ReadChunk, ReadEnd
  <2>2. env' \in E /\ env'.sync = env.sync
    <3>1. CASE ReadOpen
      <4>1. env.reads > 0 /\ env' = [env EXCEPT !.reads = @ - 1]
        BY <3>1 DEF ReadOpen
      <4> QED BY <1>2, <4>1
    <3>2. CASE (\E n \in 1 .. Len(file) : ReadChunk(n)) \/ ReadEnd
      <4>1. env' = env
        BY <3>2 DEF ReadChunk, ReadEnd
      <4> QED BY <1>2, <4>1
    <3> QED BY <1>14, <3>1, <3>2
  <2>3. Reads_ /\ T
    BY <1>2, <1>14, <2>1, <2>2 DEF Reads_, Me
  <2> QED BY <2>3
<1>15. \/ OpenRead(Writer) \/ Truncate(Writer) \/ OpenAppend(Writer)
       \/ (\E b \in Batches : Begin(Writer, b))
       \/ (\E n \in 1 .. Len(Me.todo) : WriteSome(Writer, n))
       \/ WriteError(Writer) \/ SyncError(Writer) \/ Return(Writer)
       \/ Close(Writer) \/ Kill(Writer) \/ PowerLoss
       \/ ReadOpen \/ (\E n \in 1 .. Len(file) : ReadChunk(n)) \/ ReadEnd
  BY <1>1 DEF Next, Opening, Call, Me
<1> QED BY <1>4, <1>5, <1>6, <1>7, <1>8, <1>9, <1>10, <1>11, <1>12, <1>13, <1>14, <1>15

-----------------------------------------------------------------------------
(* The base invariant. *)

LEMMA SetLenCuts ==
  ASSUME NEW f \in Seq(Byte), NEW n \in 0 .. Len(f)
  PROVE  SetLen(f, n) = Slice(f, 0, n)
<1> DEFINE x == SetLen(f, n)
           y == Slice(f, 0, n)
<1>1. n \in Nat /\ n <= Len(f) /\ 0 \in Byte
  BY DEF Byte
<1>2. y \in Seq(Byte) /\ Len(y) = n /\ \A i \in 1 .. n : y[i] = f[i]
  BY <1>1 DEF Slice
<1>3. x = [i \in 1 .. n |-> f[i]]
  BY <1>1 DEF SetLen
<1>4. \A i \in 1 .. n : f[i] \in Byte
  BY <1>1
<1>5. x \in Seq(Byte) /\ Len(x) = n /\ \A i \in 1 .. n : x[i] = f[i]
  <2>1. x \in [1 .. n -> Byte]
    BY <1>3, <1>4
  <2> HIDE DEF x
  <2>2. x \in Seq(Byte) /\ Len(x) = n
    BY <1>1, <2>1
  <2> QED BY <1>3, <2>2 DEF x
<1> HIDE DEF x, y
<1>6. x = y
  BY <1>2, <1>5, SeqEqual
<1> QED BY <1>6 DEF x, y

\* What power loss leaves: what was durable, or a start of the file with all
\* that it shares with that.
LEMMA LeftOver ==
  ASSUME file \in Seq(Byte), durable \in Seq(Byte), NEW left \in AfterPowerLoss
  PROVE  \/ left = durable
         \/ \E n \in 0 .. Len(file) :
              /\ left = Slice(file, 0, n)
              /\ \A p \in Seq(Byte) : Begins(p, file) /\ Begins(p, durable) => Len(p) <= n
<1> DEFINE l == Len(LongestCommonPrefix({file, durable}))
<1>1. /\ l \in Nat
      /\ \A p \in Seq(Byte) : Begins(p, file) /\ Begins(p, durable) => Len(p) <= l
  BY LongestPrefix
<1>2. left = durable \/ \E n \in l .. Len(file) : left = SubSeq(file, 1, n)
  BY DEF AfterPowerLoss
<1> HIDE DEF l
<1>3. ASSUME NEW n \in l .. Len(file), left = SubSeq(file, 1, n)
      PROVE  /\ n \in 0 .. Len(file) /\ left = Slice(file, 0, n)
             /\ \A p \in Seq(Byte) : Begins(p, file) /\ Begins(p, durable) => Len(p) <= n
  <2>1. n \in 0 .. Len(file) /\ l <= n
    BY <1>1
  <2>2. left = Slice(file, 0, n)
    BY <1>3 DEF Slice
  <2>3. \A p \in Seq(Byte) : Len(p) \in Nat
    OBVIOUS
  <2> QED BY <1>1, <2>1, <2>2, <2>3
<1> QED BY <1>2, <1>3

LEMMA TypesKept ==
  ASSUME OneWriter, Types, CallInv, CutInv, Next
  PROVE  Types'
<1> DEFINE R == [pc : {"none", "reading", "done"}, got : Seq(Byte),
                 base : Seq(Datas), mixed : BOOLEAN]
           E == [sync : BOOLEAN, calls : Nat, errors : Nat, crashes : Nat, reads : Nat]
           T == file' \in Seq(Byte) /\ durable' \in Seq(Byte) /\ acked' \in Seq(Batches) /\ reader' \in R
<1>0. /\ file \in Seq(Byte) /\ durable \in Seq(Byte) /\ acked \in Seq(Batches) /\ reader \in R
      /\ env \in E /\ Me \in Process
  BY DEF Types, Me, OneWriter, Writer
<1>1. /\ proc' \in [Procs -> Process] /\ env' \in E
      /\ \/ Looks \/ Cuts \/ Opens \/ Answers \/ Leaves \/ LosesPower \/ Reads_
         \/ \E b \in Batches : Begins_(b)
         \/ \E n \in 1 .. Len(Me.todo) : Writes(n)
  BY StepDoes
<1> SUFFICES T
  BY <1>1 DEF Types
<1>2. CASE Looks \/ Opens \/ Leaves \/ \E b \in Batches : Begins_(b)
  BY <1>0, <1>2 DEF Looks, Opens, Leaves, Begins_, Kept
<1>3. CASE Cuts
  <2>1. CommittedEnd(file) \in 0 .. Len(file)
    BY <1>0, ScanPlaced
  <2>2. file' = Slice(file, 0, CommittedEnd(file))
    BY <1>0, <1>3, <2>1, SetLenCuts DEF Cuts, CutInv
  <2>3. file' \in Seq(Byte)
    BY <1>0, <2>1, <2>2, SliceBegins
  <2>4. reader' \in R
    BY <1>0, <1>3 DEF Cuts
  <2> QED BY <1>0, <1>3, <2>3, <2>4 DEF Cuts
<1>4. CASE Answers
  <2>1. Me.batch \in Batches
    BY <1>0, <1>4 DEF Answers, CallInv, Process
  <2>2. acked' \in Seq(Batches)
    BY <1>0, <1>4, <2>1 DEF Answers
  <2> QED BY <1>0, <1>4, <2>2 DEF Answers
<1>5. CASE LosesPower
  <2>1. PICK left \in AfterPowerLoss : file' = left /\ durable' = left
    BY <1>5 DEF LosesPower
  <2>2. left \in Seq(Byte)
    <3>1. CASE left = durable
      BY <1>0, <3>1
    <3>2. CASE \E n \in 0 .. Len(file) : left = Slice(file, 0, n)
      BY <1>0, <3>2, SliceBegins
    <3> QED BY <1>0, <3>1, <3>2, LeftOver
  <2>3. reader' \in R
    BY <1>5 DEF LosesPower, NotReading
  <2> QED BY <1>0, <1>5, <2>1, <2>2, <2>3 DEF LosesPower
<1>6. CASE Reads_
  <2>1. UNCHANGED <<file, durable, proc, acked>>
    BY <1>6 DEF Reads_
  <2>2. reader' \in R
    <3>1. CASE ReadOpen
      <4>1. Committed(file) \in Seq(Datas)
        BY <1>0, CommittedIs
      <4> QED BY <3>1, <4>1 DEF ReadOpen
    <3>2. ASSUME NEW n \in 1 .. Len(file), ReadChunk(n)
          PROVE  reader' \in R
      <4> DEFINE got == reader.got
      <4>1. n \in Len(got) + 1 .. Len(file) /\ reader' = [reader EXCEPT !.got = got \o SubSeq(file, Len(got) + 1, n)]
        BY <3>2 DEF ReadChunk
      <4>2. got \in Seq(Byte)
        BY <1>0
      <4> HIDE DEF got
      <4>3. got \o SubSeq(file, Len(got) + 1, n) \in Seq(Byte)
        BY <1>0, <4>1, <4>2
      <4> QED BY <1>0, <4>1, <4>3
    <3>3. CASE ReadEnd
      BY <1>0, <3>3 DEF ReadEnd
    <3> QED BY <1>6, <3>1, <3>2, <3>3 DEF Reads_
  <2> QED BY <1>0, <2>1, <2>2
<1>7. ASSUME NEW n \in 1 .. Len(Me.todo), Writes(n)
      PROVE  T
  <2> DEFINE todo == Me.todo
  <2>1. todo \in Seq(Byte)
    BY <1>0 DEF Process
  <2>2. n \in 1 .. Len(todo) /\ file' = file \o SubSeq(todo, 1, n)
    BY <1>7 DEF Writes
  <2> HIDE DEF todo
  <2>3. file' \in Seq(Byte)
    BY <1>0, <2>1, <2>2
  <2> QED BY <1>0, <1>7, <2>3 DEF Writes
<1> HIDE DEF T
<1> QED BY <1>1, <1>2, <1>3, <1>4, <1>5, <1>6, <1>7

LEMMA PrefixOrder ==
  ASSUME NEW S, NEW s \in Seq(S), NEW t \in Seq(S), NEW u \in Seq(S)
  PROVE  IsPrefix(s, s) /\ (IsPrefix(s, t) /\ IsPrefix(t, u) => IsPrefix(s, u))
<1>1. IsPrefix(s, s)
  BY PrefixMeans
<1>2. ASSUME IsPrefix(s, t), IsPrefix(t, u)
      PROVE  IsPrefix(s, u)
  <2>1. Len(s) <= Len(t) /\ \A i \in 1 .. Len(s) : s[i] = t[i]
    BY <1>2, PrefixMeans
  <2>2. Len(t) <= Len(u) /\ \A i \in 1 .. Len(t) : t[i] = u[i]
    BY <1>2, PrefixMeans
  <2>3. Len(s) <= Len(u) /\ \A i \in 1 .. Len(s) : s[i] = u[i]
    BY <2>1, <2>2
  <2> QED BY <2>3, PrefixMeans
<1> QED BY <1>1, <1>2

\* A repair keeps every record.
LEMMA RepairKeeps ==
  ASSUME NEW f \in Seq(Byte)
  PROVE  /\ SetLen(f, CommittedEnd(f)) = Slice(f, 0, CommittedEnd(f))
         /\ Slice(f, 0, CommittedEnd(f)) \in Seq(Byte)
         /\ Begins(Slice(f, 0, CommittedEnd(f)), f)
         /\ Committed(Slice(f, 0, CommittedEnd(f))) = Committed(f)
<1>1. CommittedEnd(f) \in 0 .. Len(f)
  BY ScanPlaced
<1>2. /\ Slice(f, 0, CommittedEnd(f)) \in Seq(Byte)
      /\ Begins(Slice(f, 0, CommittedEnd(f)), f)
  BY <1>1, SliceBegins
<1>3. ScanOf(Slice(f, 0, CommittedEnd(f))).blocks = ScanOf(f).blocks
  BY <1>1, CutAtCommit
<1>4. Committed(Slice(f, 0, CommittedEnd(f))) = Committed(f)
  BY <1>2, <1>3, CommittedGrows
<1> QED BY <1>1, <1>2, <1>4, SetLenCuts

\* The end of the end of a sequence.
LEMMA TailOfTail ==
  ASSUME NEW s \in Seq(Byte), NEW t \in Seq(Byte), NEW n \in 1 .. Len(t),
         Len(t) <= Len(s), t = SubSeq(s, Len(s) - Len(t) + 1, Len(s))
  PROVE  /\ SubSeq(t, n + 1, Len(t)) \in Seq(Byte)
         /\ Len(SubSeq(t, n + 1, Len(t))) = Len(t) - n
         /\ SubSeq(t, n + 1, Len(t)) = SubSeq(s, Len(s) - (Len(t) - n) + 1, Len(s))
<1> DEFINE x == SubSeq(t, n + 1, Len(t))
           lo == Len(s) - (Len(t) - n) + 1
           y == SubSeq(s, lo, Len(s))
<1>1. Len(s) \in Nat /\ Len(t) \in Nat /\ n \in Nat /\ n >= 1 /\ n <= Len(t)
  OBVIOUS
<1>2. \A i \in 1 .. Len(t) : t[i] = s[Len(s) - Len(t) + i]
  <2> DEFINE from == Len(s) - Len(t) + 1
             z == SubSeq(s, from, Len(s))
  <2>1. from \in Nat /\ from >= 1 /\ from <= Len(s) + 1 /\ Len(s) - from + 1 = Len(t)
    BY <1>1
  <2>2. t = z
    OBVIOUS
  <2>3. \A i \in 1 .. Len(t) : from + i - 1 = Len(s) - Len(t) + i
    BY <1>1
  <2> HIDE DEF from
  <2>4. \A i \in from .. Len(s) : s[i] \in Byte
    BY <1>1, <2>1
  <2>5. \A i \in 1 .. Len(s) - from + 1 : z[i] = s[from + i - 1]
    BY <1>1, <2>1, <2>4, SubSeqProperties
  <2> HIDE DEF z
  <2> QED BY <2>1, <2>2, <2>3, <2>5
<1>3. x \in Seq(Byte) /\ Len(x) = Len(t) - n /\ \A i \in 1 .. Len(t) - n : x[i] = t[n + i]
  <2> DEFINE from == n + 1
             hi == Len(t)
  <2>1. from \in Nat /\ hi \in Nat /\ from >= 1 /\ from <= hi + 1 /\ hi <= Len(t)
        /\ hi - from + 1 = Len(t) - n /\ \A i \in 1 .. Len(t) - n : from + i - 1 = n + i
    BY <1>1
  <2>2. x = SubSeq(t, from, hi)
    OBVIOUS
  <2> HIDE DEF from, hi, x
  <2>3. \A i \in from .. hi : t[i] \in Byte
    BY <1>1, <2>1
  <2>4. /\ SubSeq(t, from, hi) \in Seq(Byte)
        /\ Len(SubSeq(t, from, hi)) = hi - from + 1
        /\ \A i \in 1 .. hi - from + 1 : SubSeq(t, from, hi)[i] = t[from + i - 1]
    BY <2>1, <2>3, SubSeqProperties
  <2> QED BY <2>1, <2>2, <2>4
<1>4. y \in Seq(Byte) /\ Len(y) = Len(t) - n /\ \A i \in 1 .. Len(t) - n : y[i] = s[lo + i - 1]
  <2> DEFINE hi == Len(s)
  <2>1. lo \in Nat /\ hi \in Nat /\ lo >= 1 /\ lo <= hi + 1 /\ hi <= Len(s)
        /\ hi - lo + 1 = Len(t) - n
    BY <1>1
  <2>2. y = SubSeq(s, lo, hi)
    OBVIOUS
  <2> HIDE DEF lo, hi, y
  <2>3. \A i \in lo .. hi : s[i] \in Byte
    BY <1>1, <2>1
  <2>4. /\ SubSeq(s, lo, hi) \in Seq(Byte)
        /\ Len(SubSeq(s, lo, hi)) = hi - lo + 1
        /\ \A i \in 1 .. hi - lo + 1 : SubSeq(s, lo, hi)[i] = s[lo + i - 1]
    BY <2>1, <2>3, SubSeqProperties
  <2> QED BY <2>1, <2>2, <2>4
<1>5. ASSUME NEW i \in 1 .. Len(t) - n
      PROVE  x[i] = y[i]
  <2>1. n + i \in 1 .. Len(t) /\ lo + i - 1 = Len(s) - Len(t) + (n + i)
    BY <1>1
  <2> HIDE DEF lo, x, y
  <2> QED BY <1>2, <1>3, <1>4, <2>1
<1> HIDE DEF x, y, lo
<1>6. x = y
  BY <1>3, <1>4, <1>5, SeqEqual
<1> QED BY <1>3, <1>6 DEF x, y, lo

LEMMA CallKept ==
  ASSUME OneWriter, Types, CallInv, Next
  PROVE  CallInv'
<1>1. /\ \/ Looks \/ Cuts \/ Opens \/ Answers \/ Leaves \/ LosesPower \/ Reads_
         \/ \E b \in Batches : Begins_(b)
         \/ \E n \in 1 .. Len(Me.todo) : Writes(n)
  BY StepDoes
<1>2. Me \in Process /\ Me.batch \in Batches \cup {<< >>}
  BY DEF Types, Me, OneWriter, Writer, Process
<1>3. CASE Looks \/ Cuts \/ Opens \/ Answers \/ Leaves \/ LosesPower
  BY <1>3 DEF Looks, Cuts, Opens, Answers, Leaves, LosesPower, CallInv
<1>4. CASE Reads_
  BY <1>4 DEF Reads_, CallInv
<1>5. ASSUME NEW b \in Batches, Begins_(b)
      PROVE  CallInv'
  <2>1. b \in Seq(Byte) /\ b # << >>
    BY FileLogAssumption
  <2>2. Len(b) \in 1 .. Len(b) /\ SubSeq(b, Len(b) - Len(b) + 1, Len(b)) = b
    <3>1. Len(b) \in Nat /\ Len(b) >= 1
      BY <2>1
    <3>2. Len(b) - Len(b) + 1 = 1
      BY <3>1
    <3> QED BY <2>1, <3>1, <3>2, SubSeqFull
  <2> QED BY <1>5, <2>1, <2>2 DEF Begins_, CallInv
<1>6. ASSUME NEW n \in 1 .. Len(Me.todo), Writes(n)
      PROVE  CallInv'
  <2> DEFINE t == Me.todo
             s == Me.batch
  <2>1. t \in Seq(Byte) /\ s \in Batches /\ s \in Seq(Byte) /\ s # << >>
    BY <1>2, <1>6, FileLogAssumption DEF Writes, CallInv, Process
  <2>0. t \in Seq(Byte) /\ s \in Seq(Byte)
    BY <2>1
  <2>2. Len(t) \in 1 .. Len(s)
    BY <1>6 DEF Writes, CallInv
  <2>7. t = SubSeq(s, Len(s) - Len(t) + 1, Len(s))
    BY <1>6 DEF Writes, CallInv
  <2>3. Me'.batch = s /\ Me'.todo = SubSeq(t, n + 1, Len(t))
        /\ Me'.pc = IF n = Len(t) THEN "written" ELSE "writing"
    BY <1>6 DEF Writes
  <2>4. n \in 1 .. Len(t) /\ Len(t) <= Len(s) /\ Len(t) \in Nat /\ Len(s) \in Nat
    BY <2>0, <2>2
  <2> HIDE DEF s, t
  <2>5. /\ Len(SubSeq(t, n + 1, Len(t))) = Len(t) - n
        /\ SubSeq(t, n + 1, Len(t)) = SubSeq(s, Len(s) - (Len(t) - n) + 1, Len(s))
    BY <2>0, <2>4, <2>7, TailOfTail
  <2>6. n # Len(t) => Len(t) - n \in 1 .. Len(s)
    BY <2>4
  <2> QED BY <2>1, <2>3, <2>5, <2>6 DEF CallInv
<1> QED BY <1>1, <1>3, <1>4, <1>5, <1>6

LEMMA CutKept ==
  ASSUME OneWriter, Types, CutInv, Next
  PROVE  CutInv'
<1>1. /\ \/ Looks \/ Cuts \/ Opens \/ Answers \/ Leaves \/ LosesPower \/ Reads_
         \/ \E b \in Batches : Begins_(b)
         \/ \E n \in 1 .. Len(Me.todo) : Writes(n)
  BY StepDoes
<1>2. CASE Looks
  BY <1>2 DEF Looks, CutInv
<1>3. CASE Cuts \/ Opens \/ Answers \/ Leaves \/ LosesPower \/ \E b \in Batches : Begins_(b)
  BY <1>3 DEF Cuts, Opens, Answers, Leaves, LosesPower, Begins_, CutInv
<1>4. CASE \E n \in 1 .. Len(Me.todo) : Writes(n)
  BY <1>4 DEF Writes, CutInv
<1>5. CASE Reads_
  BY <1>5 DEF Reads_, CutInv
<1> QED BY <1>1, <1>2, <1>3, <1>4, <1>5

LEMMA ReadKept ==
  ASSUME OneWriter, Types, CutInv, ReadInv, Next
  PROVE  ReadInv'
<1>0. /\ file \in Seq(Byte) /\ reader.base \in Seq(Datas) /\ reader.got \in Seq(Byte)
      /\ Committed(file) \in Seq(Datas) /\ Committed(reader.got) \in Seq(Datas)
  <2>1. file \in Seq(Byte) /\ reader.base \in Seq(Datas) /\ reader.got \in Seq(Byte)
    BY DEF Types
  <2> QED BY <2>1, CommittedIs
<1>1. /\ \/ Looks \/ Cuts \/ Opens \/ Answers \/ Leaves \/ LosesPower \/ Reads_
         \/ \E b \in Batches : Begins_(b)
         \/ \E n \in 1 .. Len(Me.todo) : Writes(n)
  BY StepDoes
<1>2. CASE Looks \/ Opens \/ Answers \/ Leaves \/ \E b \in Batches : Begins_(b)
  <2>1. file' = file /\ reader' = reader
    BY <1>2 DEF Looks, Opens, Answers, Leaves, Begins_, Kept
  <2> QED BY <2>1 DEF ReadInv
<1>3. CASE Cuts
  <2>1. file' = SetLen(file, CommittedEnd(file))
    BY <1>3 DEF Cuts, CutInv
  <2>2. Committed(file') = Committed(file)
    BY <1>0, <2>1, RepairKeeps
  <2>3. /\ reader'.pc = reader.pc /\ reader'.got = reader.got /\ reader'.base = reader.base
        /\ reader'.mixed <=> reader.mixed \/ reader.pc = "reading"
    BY <1>3 DEF Cuts, Types
  <2> QED BY <2>2, <2>3 DEF ReadInv
<1>4. CASE LosesPower
  BY <1>4 DEF LosesPower, NotReading, ReadInv
<1>5. ASSUME NEW n \in 1 .. Len(Me.todo), Writes(n)
      PROVE  ReadInv'
  <2>1. Me.todo \in Seq(Byte) /\ reader' = reader
    BY <1>5 DEF Writes, Types, Me, OneWriter, Writer, Process
  <2> DEFINE more == SubSeq(Me.todo, 1, n)
  <2>2. more \in Seq(Byte) /\ file' = file \o more
    BY <1>5, <2>1 DEF Writes
  <2> HIDE DEF more
  <2>3. file' \in Seq(Byte) /\ Begins(file, file')
    BY <1>0, <2>2, AppendStands
  <2>4. IsPrefix(Committed(file), Committed(file')) /\ Committed(file') \in Seq(Datas)
    BY <1>0, <2>3, CommittedGrows, CommittedIs
  <2>5. ASSUME NEW s \in Seq(Datas), IsPrefix(s, Committed(file))
        PROVE  IsPrefix(s, Committed(file'))
    BY <1>0, <2>4, <2>5, PrefixOrder
  <2>6. Begins(reader.got, file) => Begins(reader.got, file')
    <3>1. IsPrefix(file, file')
      BY <1>0, <2>3, BeginsMeans
    <3> QED BY <1>0, <2>3, <3>1, BeginsMeans, PrefixOrder
  <2> QED BY <1>0, <2>1, <2>5, <2>6 DEF ReadInv
<1>6. CASE Reads_
  <2>1. file' = file
    BY <1>6 DEF Reads_
  <2>2. CASE ReadOpen
    <3>1. reader'.pc = "reading" /\ reader'.got = << >> /\ reader'.base = Committed(file)
      BY <2>2 DEF ReadOpen
    <3>2. Begins(<< >>, file) /\ IsPrefix(Committed(file), Committed(file))
      <4>1. Len(<< >>) = 0 /\ Len(file) \in Nat
        BY <1>0
      <4>2. Begins(<< >>, file)
        BY <4>1 DEF Begins
      <4> QED BY <1>0, <4>2, PrefixOrder
    <3> QED BY <2>1, <3>1, <3>2 DEF ReadInv
  <2>3. ASSUME NEW n \in 1 .. Len(file), ReadChunk(n)
        PROVE  ReadInv'
    <3> DEFINE got == reader.got
               more == SubSeq(file, Len(got) + 1, n)
    <3>1. /\ reader.pc = "reading" /\ n \in Len(got) + 1 .. Len(file)
          /\ reader'.pc = "reading" /\ reader'.base = reader.base
          /\ reader'.mixed = reader.mixed /\ reader'.got = got \o more
      BY <2>3 DEF ReadChunk, Types
    <3>2. ASSUME Begins(got, file)
          PROVE  Begins(got \o more, file)
      <4>1. got \in Seq(Byte) /\ Len(got) \in Nat /\ n \in Nat /\ Len(got) < n /\ n <= Len(file)
        BY <1>0, <3>1
      <4>2. \A i \in 1 .. Len(got) : got[i] = file[i]
        BY <1>0, <3>2, BeginsMeans
      <4> DEFINE lo == Len(got) + 1
      <4>3. lo \in Int /\ n - lo + 1 = n - Len(got) /\ lo <= n /\ lo >= 1
            /\ \A i \in 1 .. n - Len(got) : lo + i - 1 = Len(got) + i
        BY <4>1
      <4>4. more = SubSeq(file, lo, n)
        OBVIOUS
      <4> HIDE DEF more, lo, got
      <4>5. \A i \in lo .. n : file[i] \in Byte
        BY <1>0, <4>1, <4>3
      <4>6. /\ more \in Seq(Byte) /\ Len(more) = n - Len(got)
            /\ \A i \in 1 .. n - Len(got) : more[i] = file[Len(got) + i]
        BY <4>1, <4>3, <4>4, <4>5, SubSeqProperties
      <4> DEFINE all == got \o more
      <4>7. /\ all \in Seq(Byte) /\ Len(all) = n
            /\ \A i \in 1 .. Len(got) : all[i] = got[i]
            /\ \A i \in 1 .. n - Len(got) : all[Len(got) + i] = more[i]
        BY <4>1, <4>6
      <4> HIDE DEF all
      <4>8. ASSUME NEW i \in 1 .. n
            PROVE  all[i] = file[i]
        <5>1. CASE i <= Len(got)
          BY <4>1, <4>2, <4>7, <5>1
        <5>2. CASE i > Len(got)
          <6>1. i - Len(got) \in 1 .. n - Len(got) /\ Len(got) + (i - Len(got)) = i
            BY <4>1, <5>2
          <6>2. all[Len(got) + (i - Len(got))] = file[Len(got) + (i - Len(got))]
            BY <4>6, <4>7, <6>1
          <6> QED BY <6>1, <6>2
        <5> QED BY <4>1, <5>1, <5>2
      <4>9. Begins(all, file)
        BY <1>0, <4>1, <4>7, <4>8, BeginsMeans
      <4> QED BY <4>9 DEF all
    <3> HIDE DEF got, more
    <3> QED BY <2>1, <3>1, <3>2 DEF ReadInv, got
  <2>4. CASE ReadEnd
    <3>1. /\ reader.pc = "reading" /\ Len(reader.got) >= Len(file)
          /\ reader'.pc = "done" /\ reader'.base = reader.base
          /\ reader'.mixed = reader.mixed /\ reader'.got = reader.got
      BY <2>4 DEF ReadEnd, Types
    <3>2. ASSUME Begins(reader.got, file)
          PROVE  reader.got = file
      <4> DEFINE got == reader.got
      <4>1. Len(got) <= Len(file) /\ \A i \in 1 .. Len(got) : got[i] = file[i]
        BY <1>0, <3>2, BeginsMeans
      <4>2. got \in Seq(Byte) /\ Len(got) = Len(file)
        BY <1>0, <3>1, <4>1
      <4> HIDE DEF got
      <4>3. got = file
        BY <1>0, <4>1, <4>2, SeqEqual
      <4> QED BY <4>3 DEF got
    <3>3. IsPrefix(Committed(file), Committed(file))
      BY <1>0, PrefixOrder
    <3> QED BY <2>1, <3>1, <3>2, <3>3 DEF ReadInv
  <2> QED BY <1>6, <2>2, <2>3, <2>4 DEF Reads_
<1> QED BY <1>1, <1>2, <1>3, <1>4, <1>5, <1>6

LEMMA BaseInit ==
  ASSUME OneWriter, Init
  PROVE  BaseInv
<1>1. Writer \in Procs
  BY DEF OneWriter, Writer
<1>2. Me = Closed /\ Closed \in Process /\ Closed.pc = "closed" /\ Closed.batch = << >>
  <2>1. proc = [p \in Procs |-> Closed]
    BY DEF Init
  <2>2. Me = Closed
    BY <1>1, <2>1 DEF Me
  <2>3. Closed \in Process /\ Closed.pc = "closed" /\ Closed.batch = << >>
    BY DEF Closed, Process
  <2> QED BY <2>2, <2>3
<1>3. Types
  BY <1>2, FileLogAssumption DEF Init, Types, NotReading
<1>4. CallInv /\ CutInv
  BY <1>2 DEF CallInv, CutInv
<1>5. ReadInv
  BY DEF Init, NotReading, ReadInv
<1> QED BY <1>3, <1>4, <1>5 DEF BaseInv

LEMMA BaseStep ==
  ASSUME OneWriter, BaseInv, [Next]_vars
  PROVE  BaseInv'
<1>1. CASE Next
  <2>1. Types /\ CallInv /\ CutInv /\ ReadInv
    BY DEF BaseInv
  <2> QED BY <1>1, <2>1, TypesKept, CallKept, CutKept, ReadKept DEF BaseInv
<1>2. CASE UNCHANGED vars
  <2>1. UNCHANGED <<file, durable, proc, acked, reader, env>>
    BY <1>2 DEF vars
  <2> QED BY <2>1 DEF BaseInv, Types, CallInv, CutInv, ReadInv, Me
<1> QED BY <1>1, <1>2

LEMMA BaseHolds == OneWriter /\ Spec => []BaseInv
<1> SUFFICES ASSUME OneWriter PROVE Spec => []BaseInv
  OBVIOUS
<1>1. Init => BaseInv
  BY BaseInit
<1>2. BaseInv /\ [Next]_vars => BaseInv'
  BY BaseStep
<1> QED BY <1>1, <1>2, PTL DEF Spec

(***************************************************************************)
(* With one writer, what repair_log is about to cut is never committed,    *)
(* wherever writes stopped and whatever the batches are.                   *)
(***************************************************************************)
THEOREM RepairsCutTail == OneWriter /\ Spec => []RepairCutsTail
<1> SUFFICES ASSUME OneWriter PROVE Spec => []RepairCutsTail
  OBVIOUS
<1>1. ASSUME BaseInv
      PROVE  RepairCutsTail
  <2> SUFFICES ASSUME NEW p \in Procs, proc[p].pc = "truncating"
               PROVE  Committed(SetLen(file, proc[p].cut)) = Committed(file)
    BY DEF RepairCutsTail
  <2>1. proc[p] = Me
    BY <1>1 DEF OneWriter, Writer, Me
  <2>2. file \in Seq(Byte) /\ proc[p].cut = CommittedEnd(file)
    BY <1>1, <2>1 DEF BaseInv, Types, CutInv
  <2> QED BY <2>2, RepairKeeps
<1> QED BY <1>1, BaseHolds, PTL

(***************************************************************************)
(* A read_log beside one writer sees what was in the log when it began,    *)
(* and nothing that is not in it, if the file was not cut meanwhile.       *)
(***************************************************************************)
THEOREM ReadsAreConsistent == OneWriter /\ Spec => []ReadIsConsistent
<1>1. BaseInv => ReadIsConsistent
  BY DEF BaseInv, ReadInv, ReadIsConsistent
<1> QED BY <1>1, BaseHolds, PTL

-----------------------------------------------------------------------------
(* Parts of a file. *)

LEMMA SubIs ==
  ASSUME NEW s \in Seq(Byte), NEW lo \in Nat, NEW hi \in Nat,
         1 <= lo, lo <= hi + 1, hi <= Len(s)
  PROVE  /\ SubSeq(s, lo, hi) \in Seq(Byte)
         /\ Len(SubSeq(s, lo, hi)) = hi - lo + 1
         /\ \A i \in 1 .. hi - lo + 1 : SubSeq(s, lo, hi)[i] = s[lo + i - 1]
<1>1. \A i \in lo .. hi : s[i] \in Byte
  OBVIOUS
<1> QED BY <1>1, SubSeqProperties

LEMMA PrefixesAre ==
  ASSUME NEW f \in Seq(Byte), NEW p
  PROVE  p \in Prefixes(f) <=> p \in Seq(Byte) /\ Begins(p, f)
<1>1. ASSUME NEW l \in 0 .. Len(f), p = SubSeq(f, 1, l)
      PROVE  p \in Seq(Byte) /\ Begins(p, f)
  <2>1. Slice(f, 0, l) = SubSeq(f, 1, l)
    BY DEF Slice
  <2> QED BY <1>1, <2>1, SliceBegins
<1>2. ASSUME p \in Seq(Byte), Begins(p, f)
      PROVE  p \in Prefixes(f)
  <2>1. IsPrefix(p, f) /\ Len(p) \in Nat /\ Len(f) \in Nat
    BY <1>2, BeginsMeans
  <2>2. SubSeq(p, 1, Len(p)) = p
    BY <1>2, SubSeqFull
  <2> DEFINE l == Len(p)
  <2>3. p = SubSeq(f, 1, l) /\ l \in 0 .. Len(f)
    BY <2>1, <2>2 DEF IsPrefix
  <2> HIDE DEF l
  <2> QED BY <2>3 DEF Prefixes
<1> QED BY <1>1, <1>2 DEF Prefixes

\* A prefix of g \o c is one of g, or g and a prefix of c.
LEMMA AppendPrefixes ==
  ASSUME NEW g \in Seq(Byte), NEW c \in Seq(Byte)
  PROVE  /\ g \in Prefixes(g \o c)
         /\ \A p \in Prefixes(g \o c) :
              p \in Prefixes(g) \/ \E k \in 0 .. Len(c) : p = g \o SubSeq(c, 1, k)
<1> DEFINE h == g \o c
<1>1. /\ h \in Seq(Byte) /\ Len(h) = Len(g) + Len(c) /\ Len(g) \in Nat /\ Len(c) \in Nat
      /\ \A i \in 1 .. Len(g) : h[i] = g[i]
      /\ \A i \in 1 .. Len(c) : h[Len(g) + i] = c[i]
  OBVIOUS
<1>2. g \in Prefixes(h)
  BY AppendStands, PrefixesAre
<1> HIDE DEF h
<1>3. ASSUME NEW p \in Prefixes(h)
      PROVE  p \in Prefixes(g) \/ \E k \in 0 .. Len(c) : p = g \o SubSeq(c, 1, k)
  <2>1. p \in Seq(Byte) /\ Len(p) \in Nat /\ Len(p) <= Len(h) /\ \A i \in 1 .. Len(p) : p[i] = h[i]
    BY <1>1, PrefixesAre, BeginsMeans
  <2>2. CASE Len(p) <= Len(g)
    <3>1. \A i \in 1 .. Len(p) : p[i] = g[i]
      BY <1>1, <2>1, <2>2
    <3>2. Begins(p, g)
      BY <2>1, <2>2, <3>1, BeginsMeans
    <3> QED BY <2>1, <3>2, PrefixesAre
  <2>3. CASE Len(p) > Len(g)
    <3> DEFINE m == Len(p) - Len(g)
               d == SubSeq(c, 1, m)
               q == g \o d
    <3>1. m \in 0 .. Len(c) /\ m \in Nat /\ m <= Len(c) /\ 1 <= m + 1 /\ m - 1 + 1 = m
          /\ Len(p) = Len(g) + m
      BY <1>1, <2>1, <2>3
    <3> HIDE DEF m
    <3>2. d \in Seq(Byte) /\ Len(d) = m /\ \A i \in 1 .. m : d[i] = c[i]
      BY <3>1
    <3> HIDE DEF d
    <3>3. /\ q \in Seq(Byte) /\ Len(q) = Len(g) + m
          /\ \A i \in 1 .. Len(g) : q[i] = g[i]
          /\ \A i \in 1 .. m : q[Len(g) + i] = d[i]
      BY <3>2
    <3> HIDE DEF q
    <3>4. ASSUME NEW i \in 1 .. Len(p)
          PROVE  p[i] = q[i]
      <4>1. CASE i <= Len(g)
        BY <1>1, <2>1, <3>3, <4>1
      <4>2. CASE i > Len(g)
        <5>1. i - Len(g) \in 1 .. m /\ Len(g) + (i - Len(g)) = i /\ i - Len(g) \in 1 .. Len(c)
          BY <1>1, <3>1, <4>2
        <5>2. /\ h[Len(g) + (i - Len(g))] = c[i - Len(g)]
              /\ q[Len(g) + (i - Len(g))] = d[i - Len(g)] /\ d[i - Len(g)] = c[i - Len(g)]
          BY <1>1, <3>2, <3>3, <5>1
        <5>3. h[i] = q[i]
          BY <5>1, <5>2
        <5> QED BY <2>1, <5>3
      <4> QED BY <1>1, <2>1, <4>1, <4>2
    <3>5. p = q
      BY <2>1, <3>1, <3>3, <3>4, SeqEqual
    <3>6. p = g \o SubSeq(c, 1, m)
      BY <3>5 DEF q, d
    <3>7. m \in 0 .. Len(c)
      BY <3>1
    <3>8. \E k \in 0 .. Len(c) : p = g \o SubSeq(c, 1, k)
      BY <3>6, <3>7, Zenon
    <3> QED BY <3>8
  <2>4. Len(p) <= Len(g) \/ Len(p) > Len(g)
    BY <1>1, <2>1
  <2> QED BY <2>2, <2>3, <2>4, Zenon
<1> QED BY <1>2, <1>3 DEF h

\* The first n bytes, and k after them.
LEMMA PartAndMore ==
  ASSUME NEW b \in Seq(Byte), NEW n \in 0 .. Len(b), NEW k \in 0 .. Len(b) - n
  PROVE  /\ SubSeq(b, 1, n) \in Seq(Byte) /\ Len(SubSeq(b, 1, n)) = n
         /\ Begins(SubSeq(b, 1, n), b)
         /\ SubSeq(b, n + 1, n + k) \in Seq(Byte)
         /\ SubSeq(b, 1, n) \o SubSeq(b, n + 1, n + k) = SubSeq(b, 1, n + k)
<1>1. Slice(b, 0, n) = SubSeq(b, 1, n)
  BY DEF Slice
<1>2. /\ SubSeq(b, 1, n) \in Seq(Byte) /\ Len(SubSeq(b, 1, n)) = n
      /\ Begins(SubSeq(b, 1, n), b)
  BY <1>1, SliceBegins
<1>3. SubSeq(b, n + 1, n + k) \in Seq(Byte)
  <2>1. n + 1 \in Nat /\ n + k \in Nat /\ 1 <= n + 1 /\ n + 1 <= (n + k) + 1 /\ n + k <= Len(b)
    OBVIOUS
  <2> QED BY <2>1, SubIs
<1>4. SubSeq(b, 1, n) \o SubSeq(b, n + 1, n + k) = SubSeq(b, 1, n + k)
  <2>1. 1 \in 1 .. Len(b) + 1 /\ n \in 1 - 1 .. Len(b) /\ n + k \in n .. Len(b)
    OBVIOUS
  <2> QED BY <2>1, ConcatAdjacentSubSeq
<1> QED BY <1>2, <1>3, <1>4

\* The first m bytes of a part.
LEMMA PartOfPart ==
  ASSUME NEW b \in Seq(Byte), NEW n \in 0 .. Len(b), NEW k \in 0 .. Len(b) - n, NEW m \in 0 .. k
  PROVE  SubSeq(SubSeq(b, n + 1, n + k), 1, m) = SubSeq(b, n + 1, n + m)
<1> DEFINE s == SubSeq(b, n + 1, n + k)
           x == SubSeq(s, 1, m)
           y == SubSeq(b, n + 1, n + m)
<1>0. /\ n + 1 \in Nat /\ n + k \in Nat /\ 1 <= n + 1 /\ n + 1 <= (n + k) + 1 /\ n + k <= Len(b)
      /\ n + m \in Nat /\ n + 1 <= (n + m) + 1 /\ n + m <= Len(b)
      /\ (n + k) - (n + 1) + 1 = k /\ (n + m) - (n + 1) + 1 = m
      /\ \A i \in Nat : (n + 1) + i - 1 = n + i
  OBVIOUS
<1>1. s \in Seq(Byte) /\ Len(s) = k /\ \A i \in 1 .. k : s[i] = b[n + i]
  BY <1>0, SubIs
<1>2. y \in Seq(Byte) /\ Len(y) = m /\ \A i \in 1 .. m : y[i] = b[n + i]
  BY <1>0, SubIs
<1> HIDE DEF s, y
<1>3. x \in Seq(Byte) /\ Len(x) = m /\ \A i \in 1 .. m : x[i] = s[i]
  BY <1>1
<1> HIDE DEF x
<1>4. ASSUME NEW i \in 1 .. m
      PROVE  x[i] = y[i]
  <2>1. i \in 1 .. k
    OBVIOUS
  <2>2. x[i] = s[i] /\ s[i] = b[n + i] /\ y[i] = b[n + i]
    BY <1>1, <1>2, <1>3, <2>1
  <2> QED BY <2>2
<1>5. x = y
  BY <1>2, <1>3, <1>4, SeqEqual
<1> QED BY <1>5 DEF x, y, s

-----------------------------------------------------------------------------
(* What the file holds with one writer that drops its FileLog after an     *)
(* error, if every batch is one commit.                                    *)

RecordBatches == \A b \in Batches : OneCommit(b)

\* Whole batches and nothing else.
Whole(f) ==
  /\ Settled(f)
  /\ \A i \in 1 .. Len(Committed(f)) : \E b \in Batches : Committed(f)[i] = Contribution(b)

\* Whole batches, and the first n bytes of b.
InWrite(f, b, n) == \E g \in Prefixes(f) : Whole(g) /\ f = g \o SubSeq(b, 1, n)

\* Wherever it is cut, there are whole batches and a part of one.
LogFile(f) ==
  /\ f \in Seq(Byte)
  /\ \A p \in Prefixes(f) :
       Whole(p) \/ \E b \in Batches : \E n \in 0 .. Len(b) - 1 : InWrite(p, b, n)

\* The part of the disk's contents that is committed.
OnDisk == Slice(durable, 0, CommittedEnd(durable))

AckedInv ==
  env.sync => \A b \in Batches : Count(acked, b) <= Count(Committed(durable), Contribution(b))

LogInv ==
  /\ LogFile(file)
  /\ LogFile(durable)
  /\ Begins(OnDisk, file)
  /\ Me.pc \in {"opening", "idle", "written"} => Whole(file)
  /\ Me.pc = "writing" => InWrite(file, Me.batch, Len(Me.batch) - Len(Me.todo))
  /\ Me.pc = "written" =>
       /\ Len(Committed(durable)) < Len(Committed(file))
       /\ Committed(file)[Len(Committed(file))] = Contribution(Me.batch)
  /\ AckedInv

LEMMA BatchIs ==
  ASSUME RecordBatches, NEW b \in Batches
  PROVE  /\ b \in Seq(Byte) /\ OneCommit(b) /\ Len(b) \in Nat /\ Len(b) > 0
         /\ Contribution(b) = Data(Front(b)) /\ Contribution(b) \in Datas
<1>1. b \in Seq(Byte) /\ b # << >>
  BY FileLogAssumption
<1>2. Contribution(b) = Data(Front(b))
  BY <1>1 DEF Contribution, Contributions
<1>3. Front(b) \in Seq(Byte)
  <2> DEFINE hi == Len(b) - 1
  <2>1. hi \in Nat /\ hi <= Len(b) /\ 1 \in Nat /\ 1 <= hi + 1
    BY <1>1
  <2>2. Front(b) = SubSeq(b, 1, hi)
    BY DEF Front
  <2> HIDE DEF hi
  <2> QED BY <1>1, <2>1, <2>2, SubIs
<1> QED BY <1>1, <1>2, <1>3 DEF RecordBatches, Datas

\* While a batch is written nothing is committed, and what is there is torn.
LEMMA InWriteIs ==
  ASSUME RecordBatches, NEW b \in Batches, NEW n \in 0 .. Len(b) - 1, NEW f, InWrite(f, b, n)
  PROVE  /\ f \in Seq(Byte)
         /\ Torn(f) <=> n > 0
         /\ n = 0 => Whole(f)
<1>1. PICK g \in Prefixes(f) : Whole(g) /\ f = g \o SubSeq(b, 1, n)
  BY DEF InWrite
<1> DEFINE c == SubSeq(b, 1, n)
<1>2. b \in Seq(Byte) /\ OneCommit(b) /\ Len(b) \in Nat /\ Len(b) > 0
  BY BatchIs
<1>3. c \in Seq(Byte) /\ Len(c) = n /\ Begins(c, b) /\ Len(c) < Len(b)
  <2>1. n \in 0 .. Len(b) /\ n < Len(b) /\ 0 \in 0 .. Len(b) - n
    BY <1>2
  <2> QED BY <1>2, <2>1, PartAndMore
<1>4. Settled(g) /\ g \in Seq(Byte)
  BY <1>1 DEF Whole, Settled
<1> HIDE DEF c
<1>5. Torn(g \o c) <=> Len(c) > 0
  BY <1>2, <1>3, <1>4, PartLandsNot
<1>6. f = g \o c
  BY <1>1 DEF c
<1>7. f \in Seq(Byte) /\ (n = 0 => f = g)
  BY <1>3, <1>4, <1>6
<1>8. Torn(f) <=> n > 0
  BY <1>3, <1>5, <1>6
<1>9. n = 0 => Whole(f)
  BY <1>1, <1>7
<1> QED BY <1>7, <1>8, <1>9

\* More of the batch.
LEMMA WriteOn ==
  ASSUME RecordBatches, NEW b \in Batches, NEW n \in 0 .. Len(b) - 1,
         NEW k \in 0 .. Len(b) - n, NEW f, InWrite(f, b, n)
  PROVE  /\ f \o SubSeq(b, n + 1, n + k) \in Seq(Byte)
         /\ InWrite(f \o SubSeq(b, n + 1, n + k), b, n + k)
         /\ n + k = Len(b) =>
              /\ Whole(f \o SubSeq(b, n + 1, n + k))
              /\ Committed(f \o SubSeq(b, n + 1, n + k)) = Append(Committed(f), Contribution(b))
         /\ n + k # Len(b) => Committed(f \o SubSeq(b, n + 1, n + k)) = Committed(f)
<1>1. PICK g \in Prefixes(f) : Whole(g) /\ f = g \o SubSeq(b, 1, n)
  BY DEF InWrite
<1> DEFINE c == SubSeq(b, 1, n)
           d == SubSeq(b, n + 1, n + k)
           e == SubSeq(b, 1, n + k)
           h == f \o d
<1>2. b \in Seq(Byte) /\ OneCommit(b) /\ Len(b) \in Nat /\ Len(b) > 0
  BY BatchIs
<1>3. /\ c \in Seq(Byte) /\ Len(c) = n /\ Begins(c, b) /\ Len(c) < Len(b)
      /\ d \in Seq(Byte) /\ c \o d = e
  <2>1. n \in 0 .. Len(b) /\ n < Len(b)
    BY <1>2
  <2> QED BY <1>2, <2>1, PartAndMore
<1>4. Settled(g) /\ g \in Seq(Byte) /\ f = g \o c
  BY <1>1 DEF Whole, Settled
<1>5. e \in Seq(Byte) /\ Len(e) = n + k /\ Begins(e, b) /\ n + k <= Len(b) /\ n + k \in Nat
  <2>1. n + k \in 0 .. Len(b) /\ 0 \in 0 .. Len(b) - (n + k)
    BY <1>2
  <2> QED BY <1>2, <2>1, PartAndMore
<1>6. n + k = Len(b) => e = b
  BY <1>2, SubSeqFull
<1>7. ScanOf(g \o c).blocks = ScanOf(g).blocks
  <2> HIDE DEF c
  <2> QED BY <1>2, <1>3, <1>4, PartLandsNot
<1> HIDE DEF c, d
<1>8. h = g \o e /\ h \in Seq(Byte)
  <2>0. c \in Seq(Byte) /\ d \in Seq(Byte)
    BY <1>3
  <2>1. (g \o c) \o d = g \o (c \o d)
    BY <1>4, <2>0, ConcatAssociative
  <2> HIDE DEF e
  <2> QED BY <1>3, <1>4, <1>5, <2>1
<1>9. InWrite(h, b, n + k)
  <2>1. g \in Prefixes(g \o e)
    <3> HIDE DEF e
    <3> QED BY <1>4, <1>5, AppendPrefixes
  <2>2. g \in Prefixes(h) /\ Whole(g) /\ h = g \o SubSeq(b, 1, n + k)
    BY <1>1, <1>8, <2>1
  <2> HIDE DEF h, e
  <2> QED BY <2>2 DEF InWrite
<1>10. Committed(f) = Committed(g)
  <2>1. f \in Seq(Byte) /\ Begins(g, f)
    BY <1>3, <1>4, AppendStands
  <2> QED BY <1>4, <1>7, <2>1, CommittedGrows
<1> HIDE DEF h, e
<1>11. ASSUME n + k = Len(b)
       PROVE  Whole(h) /\ Committed(h) = Append(Committed(f), Contribution(b))
  <2>1. h = g \o b
    BY <1>6, <1>8, <1>11
  <2>2. Settled(h)
    BY <1>2, <1>4, <2>1, WholeLands
  <2>3. Committed(h) = Append(Committed(g), Contribution(b))
    BY <1>2, <1>4, <2>1, CommittedAppend, BatchIs
  <2> DEFINE s == Committed(g)
             t == Committed(h)
             x == Contribution(b)
  <2>4. s \in Seq(Datas) /\ x \in Datas /\ t = Append(s, x)
    BY <1>4, <2>3, CommittedIs, BatchIs
  <2>5. \A i \in 1 .. Len(s) : \E a \in Batches : s[i] = Contribution(a)
    BY <1>1 DEF Whole
  <2> HIDE DEF s, t
  <2>6. ASSUME NEW i \in 1 .. Len(t)
        PROVE  \E a \in Batches : t[i] = Contribution(a)
    <3>1. Len(t) = Len(s) + 1 /\ t[Len(s) + 1] = x /\ \A j \in 1 .. Len(s) : t[j] = s[j]
      <4> HIDE DEF x
      <4> QED BY <2>4
    <3>2. CASE i = Len(s) + 1
      BY <3>1, <3>2
    <3>3. CASE i # Len(s) + 1
      <4>1. i \in 1 .. Len(s)
        BY <2>4, <3>1, <3>3
      <4> QED BY <2>5, <3>1, <4>1
    <3> QED BY <3>2, <3>3
  <2> QED BY <1>10, <2>2, <2>3, <2>6 DEF Whole, t
<1>12. ASSUME n + k # Len(b)
       PROVE  Committed(h) = Committed(f)
  <2>1. e \in Seq(Byte) /\ Begins(e, b) /\ Len(e) < Len(b)
    BY <1>2, <1>5, <1>12
  <2>2. ScanOf(g \o e).blocks = ScanOf(g).blocks
    BY <1>2, <1>4, <2>1, PartLandsNot
  <2>3. Begins(g, h)
    BY <1>4, <1>8, <2>1, AppendStands
  <2> QED BY <1>4, <1>8, <1>10, <2>2, <2>3, CommittedGrows
<1> QED BY <1>8, <1>9, <1>11, <1>12 DEF h, d

LEMMA PrefixOfPrefix ==
  ASSUME NEW f \in Seq(Byte), NEW p \in Prefixes(f), NEW q \in Prefixes(p)
  PROVE  q \in Prefixes(f)
<1>1. p \in Seq(Byte) /\ Begins(p, f)
  BY PrefixesAre
<1>2. q \in Seq(Byte) /\ Begins(q, p)
  BY <1>1, PrefixesAre
<1>3. IsPrefix(q, p) /\ IsPrefix(p, f)
  BY <1>1, <1>2, BeginsMeans
<1>4. Begins(q, f)
  BY <1>1, <1>2, <1>3, BeginsMeans, PrefixOrder
<1> QED BY <1>2, <1>4, PrefixesAre

\* However it is cut, a log file is one.
LEMMA LogFileCut ==
  ASSUME NEW f, LogFile(f), NEW p \in Prefixes(f)
  PROVE  LogFile(p)
<1>1. f \in Seq(Byte) /\ p \in Seq(Byte)
  BY PrefixesAre DEF LogFile
<1>2. \A q \in Prefixes(p) : q \in Prefixes(f)
  BY <1>1, PrefixOfPrefix
<1> QED BY <1>1, <1>2 DEF LogFile

LEMMA LogFileGrows ==
  ASSUME RecordBatches, NEW b \in Batches, NEW n \in 0 .. Len(b) - 1,
         NEW k \in 0 .. Len(b) - n, NEW f, InWrite(f, b, n), LogFile(f)
  PROVE  LogFile(f \o SubSeq(b, n + 1, n + k))
<1> DEFINE d == SubSeq(b, n + 1, n + k)
<1>1. b \in Seq(Byte) /\ Len(b) \in Nat /\ f \in Seq(Byte) /\ f \o d \in Seq(Byte)
  BY BatchIs, WriteOn DEF LogFile
<1>2. d \in Seq(Byte) /\ Len(d) = k
  <2>1. n + 1 \in Nat /\ n + k \in Nat /\ 1 <= n + 1 /\ n + 1 <= (n + k) + 1 /\ n + k <= Len(b)
        /\ (n + k) - (n + 1) + 1 = k
    BY <1>1
  <2> QED BY <1>1, <2>1, SubIs
<1>3. ASSUME NEW m \in 0 .. k
      PROVE  \/ Whole(f \o SubSeq(d, 1, m))
             \/ \E a \in Batches : \E i \in 0 .. Len(a) - 1 : InWrite(f \o SubSeq(d, 1, m), a, i)
  <2>1. SubSeq(d, 1, m) = SubSeq(b, n + 1, n + m)
    <3>1. n \in 0 .. Len(b)
      BY <1>1
    <3> QED BY <1>1, <3>1, PartOfPart
  <2>2. m \in 0 .. Len(b) - n /\ (n + m = Len(b) \/ n + m \in 0 .. Len(b) - 1)
    BY <1>1
  <2>3. InWrite(f \o SubSeq(b, n + 1, n + m), b, n + m)
        /\ (n + m = Len(b) => Whole(f \o SubSeq(b, n + 1, n + m)))
    BY <2>2, WriteOn
  <2> HIDE DEF d
  <2> QED BY <2>1, <2>2, <2>3
<1> HIDE DEF d
<1>4. ASSUME NEW p \in Prefixes(f \o d)
      PROVE  Whole(p) \/ \E a \in Batches : \E i \in 0 .. Len(a) - 1 : InWrite(p, a, i)
  <2>1. CASE p \in Prefixes(f)
    BY <2>1 DEF LogFile
  <2>2. CASE \E m \in 0 .. Len(d) : p = f \o SubSeq(d, 1, m)
    <3>1. PICK m \in 0 .. k : p = f \o SubSeq(d, 1, m)
      BY <1>2, <2>2
    <3> QED BY <1>3, <3>1
  <2>3. p \in Prefixes(f) \/ \E m \in 0 .. Len(d) : p = f \o SubSeq(d, 1, m)
    BY <1>1, <1>2, AppendPrefixes
  <2> QED BY <2>1, <2>2, <2>3, Zenon
<1>5. LogFile(f \o d)
  BY <1>1, <1>4 DEF LogFile
<1> QED BY <1>5 DEF d

LEMMA Untorn ==
  ASSUME RecordBatches, NEW f, LogFile(f), ~Torn(f)
  PROVE  Whole(f)
<1>1. f \in Seq(Byte)
  BY DEF LogFile
<1>2. f \in Prefixes(f)
  <2>1. Begins(f, f)
    BY <1>1 DEF Begins
  <2> QED BY <1>1, <2>1, PrefixesAre
<1>3. ASSUME NEW b \in Batches, NEW n \in 0 .. Len(b) - 1, InWrite(f, b, n)
      PROVE  Whole(f)
  <2>1. Len(b) \in Nat /\ (Torn(f) <=> n > 0) /\ (n = 0 => Whole(f))
    BY <1>3, BatchIs, InWriteIs
  <2>2. n = 0
    BY <2>1
  <2> QED BY <2>1, <2>2
<1> QED BY <1>2, <1>3 DEF LogFile

\* What is left of a log file after a repair.
LEMMA RepairedFile ==
  ASSUME RecordBatches, NEW f, LogFile(f)
  PROVE  /\ LogFile(Slice(f, 0, CommittedEnd(f)))
         /\ Whole(Slice(f, 0, CommittedEnd(f)))
<1> DEFINE cut == Slice(f, 0, CommittedEnd(f))
<1>1. f \in Seq(Byte)
  BY DEF LogFile
<1>2. cut \in Prefixes(f)
  BY <1>1, RepairKeeps, PrefixesAre
<1>3. Torn(cut) = FALSE
  BY <1>1, ScanPlaced, CutAtCommit
<1> HIDE DEF cut
<1>4. LogFile(cut)
  BY <1>2, LogFileCut
<1>5. Whole(cut)
  BY <1>3, <1>4, Untorn
<1> QED BY <1>4, <1>5 DEF cut

\* A file that starts with what is committed on disk has its records first.
LEMMA DiskShared ==
  ASSUME NEW d \in Seq(Byte), NEW f \in Seq(Byte), Begins(Slice(d, 0, CommittedEnd(d)), f)
  PROVE  /\ IsPrefix(Committed(d), Committed(f))
         /\ Begins(Slice(d, 0, CommittedEnd(d)), Slice(f, 0, CommittedEnd(f)))
<1> DEFINE cut == Slice(d, 0, CommittedEnd(d))
           rest == Slice(f, 0, CommittedEnd(f))
<1>1. /\ cut \in Seq(Byte) /\ Committed(cut) = Committed(d)
      /\ rest \in Seq(Byte) /\ Begins(rest, f)
  BY RepairKeeps
<1>2. IsPrefix(Committed(cut), Committed(f)) /\ ScanOf(cut).committed_end <= ScanOf(f).committed_end
  BY <1>1, CommittedGrows, PrefixScan
<1>3. Len(cut) = CommittedEnd(d) /\ CommittedEnd(cut) = CommittedEnd(d) /\ Len(rest) = CommittedEnd(f)
      /\ CommittedEnd(d) \in Nat /\ CommittedEnd(f) \in Nat
  <2>1. CommittedEnd(d) \in 0 .. Len(d) /\ CommittedEnd(f) \in 0 .. Len(f)
    BY ScanPlaced
  <2>2. Len(cut) = CommittedEnd(d) /\ Len(rest) = CommittedEnd(f)
    BY <2>1, SliceBegins
  <2>3. CommittedEnd(cut) = CommittedEnd(d)
    BY <2>1, CutAtCommit
  <2>4. CommittedEnd(d) \in Nat /\ CommittedEnd(f) \in Nat
    BY <2>1
  <2> QED BY <2>2, <2>3, <2>4
<1>4. Len(cut) <= Len(rest)
  BY <1>2, <1>3 DEF CommittedEnd
<1> HIDE DEF cut, rest
<1>5. Begins(cut, rest)
  <2>1. Len(cut) <= Len(f) /\ \A i \in 1 .. Len(cut) : cut[i] = f[i]
    BY <1>1, BeginsMeans DEF cut
  <2>2. \A i \in 1 .. Len(rest) : rest[i] = f[i]
    BY <1>1, BeginsMeans
  <2>3. \A i \in 1 .. Len(cut) : cut[i] = rest[i]
    BY <1>1, <1>4, <2>1, <2>2
  <2> QED BY <1>1, <1>4, <2>3, BeginsMeans
<1> QED BY <1>1, <1>2, <1>5 DEF cut, rest

-----------------------------------------------------------------------------
(* How often a value is in a sequence. *)

LEMMA CountTyped ==
  ASSUME NEW S, NEW s \in Seq(S), NEW x
  PROVE  /\ IsFiniteSet({i \in DOMAIN s : s[i] = x})
         /\ Count(s, x) \in Nat
<1>1. IsFiniteSet(1 .. Len(s))
  <2>1. 1 \in Int /\ Len(s) \in Int
    OBVIOUS
  <2> QED BY <2>1, FS_Interval
<1>2. {i \in DOMAIN s : s[i] = x} \in SUBSET (1 .. Len(s))
  OBVIOUS
<1>3. IsFiniteSet({i \in DOMAIN s : s[i] = x})
  BY <1>1, <1>2, FS_Subset
<1> QED BY <1>3, FS_CardinalityType DEF Count

LEMMA CountGrows ==
  ASSUME NEW S, NEW s \in Seq(S), NEW t \in Seq(S), IsPrefix(s, t), NEW x
  PROVE  /\ Count(s, x) <= Count(t, x)
         /\ Len(s) < Len(t) /\ t[Len(t)] = x => Count(s, x) + 1 <= Count(t, x)
<1> DEFINE A == {i \in DOMAIN s : s[i] = x}
           B == {i \in DOMAIN t : t[i] = x}
<1>1. /\ IsFiniteSet(A) /\ Count(s, x) \in Nat /\ Count(s, x) = Cardinality(A)
      /\ IsFiniteSet(B) /\ Count(t, x) \in Nat /\ Count(t, x) = Cardinality(B)
  BY CountTyped DEF Count
<1>2. /\ Len(s) \in Nat /\ Len(t) \in Nat /\ DOMAIN s = 1 .. Len(s) /\ DOMAIN t = 1 .. Len(t)
      /\ Len(s) <= Len(t) /\ \A i \in 1 .. Len(s) : s[i] = t[i]
  BY PrefixMeans
<1>3. A \in SUBSET B
  BY <1>2
<1>4. Count(s, x) <= Count(t, x)
  <2> HIDE DEF A, B
  <2> QED BY <1>1, <1>3, FS_Subset
<1>5. ASSUME Len(s) < Len(t), t[Len(t)] = x
      PROVE  Count(s, x) + 1 <= Count(t, x)
  <2>1. Len(t) \in B /\ Len(t) \notin A
    BY <1>2, <1>5
  <2> HIDE DEF A, B
  <2>2. IsFiniteSet(B \ {Len(t)}) /\ Cardinality(B \ {Len(t)}) = Cardinality(B) - 1
    BY <1>1, <2>1, FS_RemoveElement
  <2>3. A \in SUBSET (B \ {Len(t)})
    BY <1>3, <2>1
  <2>4. Cardinality(A) <= Cardinality(B \ {Len(t)})
    BY <2>2, <2>3, FS_Subset
  <2> QED BY <1>1, <2>2, <2>4
<1> QED BY <1>4, <1>5

LEMMA CountAppend ==
  ASSUME NEW S, NEW s \in Seq(S), NEW y \in S, NEW x
  PROVE  Count(Append(s, y), x) <= Count(s, x) + (IF x = y THEN 1 ELSE 0)
<1> DEFINE t == Append(s, y)
           A == {i \in DOMAIN s : s[i] = x}
           B == {i \in DOMAIN t : t[i] = x}
           C == IF x = y THEN A \cup {Len(s) + 1} ELSE A
<1>1. /\ t \in Seq(S) /\ Len(t) = Len(s) + 1 /\ Len(s) \in Nat
      /\ t[Len(s) + 1] = y /\ \A i \in 1 .. Len(s) : t[i] = s[i]
  OBVIOUS
<1>2. /\ IsFiniteSet(A) /\ Count(s, x) \in Nat /\ Count(s, x) = Cardinality(A)
  BY CountTyped DEF Count
<1>3. Count(t, x) = Cardinality(B)
  BY DEF Count
<1> HIDE DEF t
<1>4. B \in SUBSET C
  <2>1. ASSUME NEW i \in B
        PROVE  i \in C
    <3>1. i \in 1 .. Len(s) + 1 /\ t[i] = x
      BY <1>1
    <3>2. CASE i = Len(s) + 1
      BY <1>1, <3>1, <3>2
    <3>3. CASE i # Len(s) + 1
      <4>1. i \in 1 .. Len(s)
        BY <1>1, <3>1, <3>3
      <4> QED BY <1>1, <3>1, <4>1
    <3> QED BY <3>2, <3>3
  <2> HIDE DEF B, C
  <2> QED BY <2>1
<1> HIDE DEF A, B
<1>5. IsFiniteSet(C) /\ Cardinality(C) <= Cardinality(A) + (IF x = y THEN 1 ELSE 0) /\ Cardinality(C) \in Nat
  <2>1. CASE x = y
    <3>1. IsFiniteSet(A \cup {Len(s) + 1}) /\ Cardinality(A \cup {Len(s) + 1}) =
             IF Len(s) + 1 \in A THEN Cardinality(A) ELSE Cardinality(A) + 1
      BY <1>2, FS_AddElement
    <3> QED BY <1>2, <2>1, <3>1
  <2>2. CASE x # y
    BY <1>2, <2>2
  <2> QED BY <2>1, <2>2
<1> HIDE DEF C
<1>6. IsFiniteSet(B) /\ Cardinality(B) <= Cardinality(C) /\ Cardinality(B) \in Nat
  BY <1>4, <1>5, FS_Subset, FS_CardinalityType
<1>7. Cardinality(B) <= Cardinality(A) + (IF x = y THEN 1 ELSE 0)
  BY <1>2, <1>5, <1>6
<1> QED BY <1>2, <1>3, <1>7 DEF t

-----------------------------------------------------------------------------
(* The invariant of the log. *)

LEMMA LogSame ==
  ASSUME LogInv, file' = file, durable' = durable, acked' = acked, env'.sync = env.sync
  PROVE  LogFile(file)' /\ LogFile(durable)' /\ Begins(OnDisk, file)' /\ AckedInv'
BY DEF LogInv, OnDisk, AckedInv

LEMMA LogAtRest ==
  ASSUME OneWriter, DropOnError, RecordBatches, BaseInv, LogInv,
         Looks \/ Opens \/ Leaves \/ Reads_
  PROVE  LogInv'
<1>1. file' = file /\ durable' = durable /\ acked' = acked /\ env'.sync = env.sync
  BY DEF Looks, Opens, Leaves, Reads_, Kept
<1>2. LogFile(file)' /\ LogFile(durable)' /\ Begins(OnDisk, file)' /\ AckedInv'
  BY <1>1, LogSame
<1>3. CASE Looks
  <2>1. ~Torn(file) => Whole(file)
    BY Untorn DEF LogInv
  <2>2. Me'.pc = "truncating" \/ (Me'.pc = "opening" /\ Whole(file))
    BY <1>3, <2>1 DEF Looks
  <2>3. Me'.pc = "opening" => Whole(file')
    BY <1>1, <2>2
  <2> QED BY <1>2, <2>2, <2>3 DEF LogInv
<1>4. CASE Opens
  <2>1. Me'.pc = "idle" /\ Whole(file)
    BY <1>4 DEF Opens, LogInv
  <2>2. Whole(file)'
    BY <1>1, <2>1
  <2> QED BY <1>2, <2>1, <2>2 DEF LogInv
<1>5. CASE Leaves
  <2>1. Me'.pc = "closed"
    BY <1>5 DEF Leaves
  <2> QED BY <1>2, <2>1 DEF LogInv
<1>6. CASE Reads_
  <2>1. Me' = Me
    BY <1>6 DEF Reads_
  <2> QED BY <1>1, <1>2, <2>1 DEF LogInv
<1> QED BY <1>3, <1>4, <1>5, <1>6

LEMMA LogBegins ==
  ASSUME RecordBatches, LogInv, NEW b \in Batches, Begins_(b)
  PROVE  LogInv'
<1>1. file' = file /\ durable' = durable /\ acked' = acked /\ env'.sync = env.sync
      /\ Me'.pc = "writing" /\ Me'.batch = b /\ Me'.todo = b
  BY DEF Begins_, Kept
<1>2. LogFile(file)' /\ LogFile(durable)' /\ Begins(OnDisk, file)' /\ AckedInv'
  BY <1>1, LogSame
<1>3. Whole(file) /\ file \in Seq(Byte)
  BY DEF Begins_, LogInv, LogFile
<1>4. InWrite(file, b, Len(b) - Len(b))
  <2>1. b \in Seq(Byte) /\ Len(b) \in Nat /\ Len(b) - Len(b) = 0
    BY BatchIs
  <2>2. file \in Prefixes(file)
    <3>1. Begins(file, file)
      BY <1>3 DEF Begins
    <3> QED BY <1>3, <3>1, PrefixesAre
  <2>3. SubSeq(b, 1, 0) = << >>
    BY SubSeqEmpty
  <2>4. file = file \o SubSeq(b, 1, 0)
    BY <1>3, <2>3
  <2>5. InWrite(file, b, 0)
    BY <1>3, <2>2, <2>4, Zenon DEF InWrite
  <2> QED BY <2>1, <2>5
<1>5. InWrite(file, Me.batch, Len(Me.batch) - Len(Me.todo))'
  BY <1>1, <1>4
<1> QED BY <1>1, <1>2, <1>5 DEF LogInv

LEMMA LogCut ==
  ASSUME RecordBatches, BaseInv, LogInv, Cuts
  PROVE  /\ LogInv'
         /\ Committed(file') = Committed(file)
<1>1. /\ file \in Seq(Byte) /\ durable \in Seq(Byte) /\ LogFile(file) /\ LogFile(durable)
      /\ Begins(OnDisk, file)
  BY DEF LogInv, LogFile
<1>2. file' = Slice(file, 0, CommittedEnd(file)) /\ Committed(file') = Committed(file)
  <2>1. file' = SetLen(file, CommittedEnd(file))
    BY DEF Cuts, BaseInv, CutInv
  <2> QED BY <1>1, <2>1, RepairKeeps
<1>3. durable' = durable /\ acked' = acked /\ env' = env /\ Me'.pc = "opening"
  BY DEF Cuts
<1>4. LogFile(file') /\ Whole(file')
  BY <1>1, <1>2, RepairedFile
<1>5. Begins(OnDisk, file')
  BY <1>1, <1>2, DiskShared DEF OnDisk
<1>6. LogFile(file)' /\ LogFile(durable)' /\ Begins(OnDisk, file)' /\ AckedInv' /\ Whole(file)'
  BY <1>1, <1>3, <1>4, <1>5 DEF LogInv, OnDisk, AckedInv
<1> QED BY <1>2, <1>3, <1>6 DEF LogInv

\* What a write adds is the next part of the batch.
LEMMA LogWrites ==
  ASSUME RecordBatches, BaseInv, LogInv, NEW n \in 1 .. Len(Me.todo), Writes(n), Me \in Process
  PROVE  /\ LogInv'
         /\ n = Len(Me.todo) =>
              Committed(file') = Append(Committed(file), Contribution(Me.batch))
         /\ n # Len(Me.todo) => Committed(file') = Committed(file)
<1> DEFINE b == Me.batch
           t == Me.todo
           w == Len(b) - Len(t)
<1>0. /\ Me.pc = "writing" /\ Me'.pc = (IF n = Len(t) THEN "written" ELSE "writing")
      /\ Me'.batch = b /\ Me'.todo = SubSeq(t, n + 1, Len(t))
      /\ file' = file \o SubSeq(t, 1, n) /\ durable' = durable /\ acked' = acked /\ env' = env
      /\ n \in 1 .. Len(t)
  BY DEF Writes
<1>1. b \in Batches /\ t \in Seq(Byte) /\ InWrite(file, b, w) /\ LogFile(file) /\ LogFile(durable)
      /\ Begins(OnDisk, file) /\ durable \in Seq(Byte) /\ file \in Seq(Byte)
  BY <1>0 DEF BaseInv, CallInv, LogInv, LogFile, Process
<1>2. Len(t) \in 1 .. Len(b)
  BY <1>0 DEF BaseInv, CallInv
<1>3. t = SubSeq(b, Len(b) - Len(t) + 1, Len(b))
  BY <1>0 DEF BaseInv, CallInv
<1>4. b \in Seq(Byte) /\ Len(b) \in Nat /\ Len(b) > 0 /\ Contribution(b) \in Datas
  BY <1>1, BatchIs
<1> HIDE DEF b, t
<1>5. /\ w \in 0 .. Len(b) - 1 /\ w \in 0 .. Len(b) /\ n \in 0 .. Len(b) - w
      /\ w + Len(t) = Len(b) /\ Len(t) \in 0 .. Len(b) - w /\ n \in 0 .. Len(t)
      /\ (n = Len(t) <=> w + n = Len(b)) /\ (n # Len(t) => w + n \in 0 .. Len(b) - 1)
      /\ Len(b) - (Len(t) - n) = w + n
  <2>1. n \in Nat /\ Len(t) \in Nat /\ Len(b) \in Nat /\ 1 <= n /\ n <= Len(t) /\ Len(t) <= Len(b)
    BY <1>0, <1>2, <1>4
  <2> DEFINE lb == Len(b)
             lt == Len(t)
  <2>2. n \in Nat /\ lt \in Nat /\ lb \in Nat /\ 1 <= n /\ n <= lt /\ lt <= lb
    BY <2>1
  <2>3. w = lb - lt
    OBVIOUS
  <2> HIDE DEF lb, lt, w
  <2>4. /\ w \in 0 .. lb - 1 /\ w \in 0 .. lb /\ n \in 0 .. lb - w
        /\ w + lt = lb /\ lt \in 0 .. lb - w /\ n \in 0 .. lt
        /\ (n = lt <=> w + n = lb) /\ (n # lt => w + n \in 0 .. lb - 1)
        /\ lb - (lt - n) = w + n
    BY <2>2, <2>3
  <2> QED BY <2>4 DEF lb, lt
<1>6. Len(SubSeq(t, n + 1, Len(t))) = Len(t) - n
  <2>1. Len(t) \in Nat /\ n + 1 \in Nat /\ 1 <= n + 1 /\ n + 1 <= Len(t) + 1 /\ Len(t) <= Len(t)
        /\ Len(t) - (n + 1) + 1 = Len(t) - n
    BY <1>0, <1>1
  <2> QED BY <1>1, <2>1, SubIs
<1> DEFINE d == SubSeq(b, w + 1, w + n)
<1>7. SubSeq(t, 1, n) = d
  <2> DEFINE l == Len(t)
  <2>1. t = SubSeq(b, w + 1, w + l)
    BY <1>3, <1>5
  <2>2. w \in 0 .. Len(b) /\ l \in 0 .. Len(b) - w /\ n \in 0 .. l
    BY <1>5
  <2> HIDE DEF l, w
  <2> QED BY <1>4, <2>1, <2>2, PartOfPart
<1> HIDE DEF w
<1>8. /\ file \o d \in Seq(Byte) /\ InWrite(file \o d, b, w + n)
      /\ w + n = Len(b) => /\ Whole(file \o d)
                           /\ Committed(file \o d) = Append(Committed(file), Contribution(b))
      /\ w + n # Len(b) => Committed(file \o d) = Committed(file)
  BY <1>1, <1>5, WriteOn
<1>9. LogFile(file \o d)
  BY <1>1, <1>5, LogFileGrows
<1>10. d \in Seq(Byte)
  BY <1>4, <1>5, PartAndMore
<1>11. Begins(file, file \o d)
  BY <1>1, <1>10, AppendStands
<1> HIDE DEF d
<1>12. file' = file \o d
  BY <1>0, <1>7
<1>13. LogFile(file)' /\ LogFile(durable)' /\ AckedInv'
  BY <1>0, <1>1, <1>9, <1>12 DEF LogInv, AckedInv
<1>14. OnDisk \in Seq(Byte) /\ IsPrefix(Committed(durable), Committed(file))
       /\ Committed(durable) \in Seq(Datas) /\ Committed(file) \in Seq(Datas)
  BY <1>1, RepairKeeps, DiskShared, CommittedIs DEF OnDisk
<1>15. Begins(OnDisk, file)'
  <2>1. IsPrefix(OnDisk, file) /\ IsPrefix(file, file \o d)
    BY <1>1, <1>8, <1>11, <1>14, BeginsMeans
  <2>2. IsPrefix(OnDisk, file \o d)
    BY <1>1, <1>8, <1>14, <2>1, PrefixOrder
  <2>3. Begins(OnDisk, file \o d)
    BY <1>8, <1>14, <2>2, BeginsMeans
  <2>4. OnDisk' = OnDisk
    BY <1>0 DEF OnDisk
  <2> QED BY <1>12, <2>3, <2>4
<1>16. CASE n = Len(t)
  <2>1. Me'.pc = "written" /\ Whole(file')
        /\ Committed(file') = Append(Committed(file), Contribution(b))
    BY <1>0, <1>5, <1>8, <1>12, <1>16
  <2> DEFINE s == Committed(file)
             u == Committed(file')
             v == Committed(durable)
             x == Contribution(b)
  <2>2. s \in Seq(Datas) /\ v \in Seq(Datas) /\ u = Append(s, x) /\ IsPrefix(v, s)
    BY <1>14, <2>1
  <2> HIDE DEF s, u, v, x
  <2>3. Len(v) < Len(u) /\ u[Len(u)] = x
    <3>1. Len(v) <= Len(s) /\ Len(v) \in Nat /\ Len(s) \in Nat
      BY <2>2, PrefixMeans
    <3>2. Len(u) = Len(s) + 1 /\ u[Len(s) + 1] = x
      BY <2>2
    <3> QED BY <3>1, <3>2
  <2>4. /\ Len(Committed(durable)) < Len(Committed(file'))
        /\ Committed(file')[Len(Committed(file'))] = Contribution(b)
    BY <2>3 DEF u, v, x
  <2>5. (/\ Len(Committed(durable)) < Len(Committed(file))
         /\ Committed(file)[Len(Committed(file))] = Contribution(Me.batch))'
    BY <1>0, <2>4
  <2>6. LogInv'
    BY <1>13, <1>15, <2>1, <2>5 DEF LogInv
  <2> QED BY <1>16, <2>1, <2>6 DEF b, t
<1>17. CASE n # Len(t)
  <2>1. Me'.pc = "writing"
    BY <1>0, <1>17
  <2>2. InWrite(file', b, Len(b) - Len(Me'.todo))
    BY <1>0, <1>5, <1>6, <1>8, <1>12
  <2>3. InWrite(file, Me.batch, Len(Me.batch) - Len(Me.todo))'
    BY <1>0, <2>2
  <2>4. LogInv'
    BY <1>13, <1>15, <2>1, <2>3 DEF LogInv
  <2>5. Committed(file') = Committed(file)
    <3>1. w + n # Len(b)
      BY <1>5, <1>17
    <3>2. Committed(file \o d) = Committed(file)
      BY <1>8, <3>1
    <3> QED BY <1>12, <3>2
  <2> QED BY <1>17, <2>4, <2>5 DEF t
<1> QED BY <1>16, <1>17

LEMMA LogAnswers ==
  ASSUME RecordBatches, BaseInv, LogInv, Answers, Me \in Process
  PROVE  LogInv'
<1>1. /\ file \in Seq(Byte) /\ durable \in Seq(Byte) /\ LogFile(file) /\ LogFile(durable)
      /\ Begins(OnDisk, file) /\ Whole(file) /\ acked \in Seq(Batches)
      /\ env.sync \in BOOLEAN
  BY DEF LogInv, LogFile, Answers, BaseInv, Types
<1>2. /\ Len(Committed(durable)) < Len(Committed(file))
      /\ Committed(file)[Len(Committed(file))] = Contribution(Me.batch)
      /\ Me.batch \in Batches
  BY DEF LogInv, Answers, BaseInv, CallInv, Process
<1>3. /\ Me'.pc = "idle" /\ file' = file /\ env' = env /\ acked' = Append(acked, Me.batch)
      /\ durable' = IF env.sync THEN file ELSE durable
  BY DEF Answers
<1>4. LogFile(file)' /\ LogFile(durable)' /\ Whole(file)'
  BY <1>1, <1>3
<1>5. Begins(OnDisk, file)'
  <2>1. Begins(Slice(file, 0, CommittedEnd(file)), file)
    BY <1>1, RepairKeeps
  <2> QED BY <1>1, <1>3, <2>1 DEF OnDisk
<1>6. AckedInv'
  <2> SUFFICES ASSUME env.sync, NEW b \in Batches
               PROVE  Count(acked', b) <= Count(Committed(file), Contribution(b))
    BY <1>3 DEF AckedInv
  <2>1. Count(acked, b) <= Count(Committed(durable), Contribution(b))
    BY DEF LogInv, AckedInv
  <2>2. Count(acked', b) <= Count(acked, b) + (IF b = Me.batch THEN 1 ELSE 0)
    BY <1>1, <1>2, <1>3, CountAppend
  <2> DEFINE s == Committed(durable)
             t == Committed(file)
             x == Contribution(b)
  <2>3. IsPrefix(s, t) /\ s \in Seq(Datas) /\ t \in Seq(Datas)
    BY <1>1, DiskShared, CommittedIs DEF OnDisk
  <2>4. Len(s) < Len(t) /\ (b = Me.batch => t[Len(t)] = x)
    BY <1>2
  <2>5. /\ Count(acked, b) \in Nat /\ Count(acked', b) \in Nat /\ Count(s, x) \in Nat /\ Count(t, x) \in Nat
    <3>1. acked' \in Seq(Batches)
      BY <1>1, <1>2, <1>3
    <3> HIDE DEF s, t, x
    <3> QED BY <1>1, <2>3, <3>1, CountTyped
  <2> HIDE DEF s, t, x
  <2>6. Count(s, x) <= Count(t, x) /\ (b = Me.batch => Count(s, x) + 1 <= Count(t, x))
    BY <2>3, <2>4, CountGrows
  <2>7. Count(acked, b) <= Count(s, x)
    BY <2>1 DEF s, x
  <2>8. Count(acked', b) <= Count(t, x)
    BY <2>2, <2>5, <2>6, <2>7
  <2> QED BY <2>8 DEF t, x
<1> QED BY <1>3, <1>4, <1>5, <1>6 DEF LogInv

\* What power loss leaves has the synced records and none that were not there.
LEMMA LossLeaves ==
  ASSUME RecordBatches, LogInv, NEW left \in AfterPowerLoss
  PROVE  /\ LogFile(left) /\ left \in Seq(Byte)
         /\ IsPrefix(Committed(durable), Committed(left))
         /\ IsPrefix(Committed(left), Committed(file))
<1>1. /\ file \in Seq(Byte) /\ durable \in Seq(Byte) /\ LogFile(file) /\ LogFile(durable)
      /\ Begins(OnDisk, file)
  BY DEF LogInv, LogFile
<1>2. OnDisk \in Seq(Byte) /\ Begins(OnDisk, durable)
  BY <1>1, RepairKeeps DEF OnDisk
<1>3. CASE left = durable
  <2>1. IsPrefix(Committed(durable), Committed(durable))
    BY <1>1, CommittedIs, PrefixOrder
  <2>2. IsPrefix(Committed(durable), Committed(file))
    BY <1>1, DiskShared DEF OnDisk
  <2> QED BY <1>1, <1>3, <2>1, <2>2
<1>4. ASSUME NEW n \in 0 .. Len(file), left = Slice(file, 0, n), Len(OnDisk) <= n
      PROVE  /\ LogFile(left) /\ left \in Seq(Byte)
             /\ IsPrefix(Committed(durable), Committed(left))
             /\ IsPrefix(Committed(left), Committed(file))
  <2>1. left \in Seq(Byte) /\ Len(left) = n /\ Begins(left, file)
    BY <1>1, <1>4, SliceBegins
  <2>2. LogFile(left)
    <3>1. left \in Prefixes(file)
      BY <1>1, <2>1, PrefixesAre
    <3> QED BY <1>1, <3>1, LogFileCut
  <2>3. Begins(OnDisk, left)
    <3>1. Len(OnDisk) <= Len(left) /\ Len(OnDisk) \in Nat /\ Len(left) \in Nat
      BY <1>2, <1>4, <2>1
    <3>2. \A i \in 1 .. Len(OnDisk) : OnDisk[i] = file[i]
      BY <1>1, <1>2, BeginsMeans
    <3>3. \A i \in 1 .. Len(left) : left[i] = file[i]
      BY <1>1, <2>1, BeginsMeans
    <3>4. \A i \in 1 .. Len(OnDisk) : OnDisk[i] = left[i]
      BY <3>1, <3>2, <3>3
    <3> QED BY <1>2, <2>1, <3>1, <3>4, BeginsMeans
  <2>4. IsPrefix(Committed(durable), Committed(left))
    BY <1>1, <2>1, <2>3, DiskShared DEF OnDisk
  <2>5. IsPrefix(Committed(left), Committed(file))
    BY <1>1, <2>1, CommittedGrows
  <2> QED BY <2>1, <2>2, <2>4, <2>5
<1>5. left = durable \/ \E n \in 0 .. Len(file) : left = Slice(file, 0, n) /\ Len(OnDisk) <= n
  BY <1>1, <1>2, LeftOver
<1> QED BY <1>3, <1>4, <1>5

LEMMA LogLoses ==
  ASSUME RecordBatches, BaseInv, LogInv, LosesPower
  PROVE  LogInv'
<1>1. PICK left \in AfterPowerLoss : file' = left /\ durable' = left
  BY DEF LosesPower
<1>2. Me'.pc = "closed" /\ acked' = acked /\ env'.sync = env.sync
  BY DEF LosesPower
<1>3. /\ LogFile(left) /\ left \in Seq(Byte) /\ durable \in Seq(Byte)
      /\ IsPrefix(Committed(durable), Committed(left))
  BY LossLeaves DEF LogInv, LogFile
<1>4. Begins(OnDisk, file)'
  <2>1. Begins(Slice(left, 0, CommittedEnd(left)), left)
    BY <1>3, RepairKeeps
  <2> QED BY <1>1, <2>1 DEF OnDisk
<1>5. AckedInv'
  <2> SUFFICES ASSUME env.sync, NEW b \in Batches
               PROVE  Count(acked, b) <= Count(Committed(left), Contribution(b))
    BY <1>1, <1>2 DEF AckedInv
  <2> DEFINE s == Committed(durable)
             t == Committed(left)
             x == Contribution(b)
  <2>1. Count(acked, b) <= Count(s, x)
    BY DEF LogInv, AckedInv
  <2>2. s \in Seq(Datas) /\ t \in Seq(Datas) /\ IsPrefix(s, t)
    BY <1>3, CommittedIs
  <2>3. acked \in Seq(Batches)
    BY DEF BaseInv, Types
  <2> HIDE DEF s, t, x
  <2>4. Count(s, x) <= Count(t, x)
    BY <2>2, CountGrows
  <2>5. Count(s, x) \in Nat /\ Count(t, x) \in Nat /\ Count(acked, b) \in Nat
    BY <2>2, <2>3, CountTyped
  <2>6. Count(acked, b) <= Count(t, x)
    BY <2>1, <2>4, <2>5
  <2> QED BY <2>6 DEF t, x
<1>6. LogFile(file)' /\ LogFile(durable)'
  BY <1>1, <1>3
<1> QED BY <1>2, <1>4, <1>5, <1>6 DEF LogInv

LEMMA LogInit ==
  ASSUME OneWriter, Init
  PROVE  LogInv
<1>1. file = << >> /\ durable = << >> /\ acked = << >>
  BY DEF Init
<1>2. Me.pc = "closed"
  BY DEF OneWriter, Writer, Me, Init, Closed
<1> DEFINE none == << >>
<1>3. none \in Seq(Byte) /\ Len(none) = 0
  OBVIOUS
<1>4. Whole(none)
  <2>1. CommittedEnd(none) = Len(none)
    <3>1. CommittedEnd(none) \in 0 .. Len(none)
      BY <1>3, ScanPlaced
    <3> QED BY <1>3, <3>1
  <2>2. Settled(none)
    BY <1>3, <2>1, CommittedIsSettled
  <2>3. Len(Committed(none)) = 0
    BY CommittedEmpty
  <2> QED BY <2>2, <2>3 DEF Whole
<1>5. LogFile(none)
  <2> SUFFICES ASSUME NEW p \in Prefixes(none) PROVE Whole(p)
    BY <1>3 DEF LogFile
  <2>1. p = none
    <3>1. p \in Seq(Byte) /\ Len(p) <= 0
      BY <1>3, PrefixesAre DEF Begins
    <3> QED BY <3>1
  <2> QED BY <1>4, <2>1
<1>6. Begins(OnDisk, file)
  <2>1. Begins(Slice(none, 0, CommittedEnd(none)), none)
    BY <1>3, RepairKeeps
  <2> QED BY <1>1, <2>1 DEF OnDisk
<1>7. AckedInv
  <2> SUFFICES ASSUME NEW b \in Batches
               PROVE  Count(acked, b) <= Count(Committed(durable), Contribution(b))
    BY DEF AckedInv
  <2>1. Count(acked, b) = Count(none, b) /\ Committed(durable) = none
    BY <1>1, CommittedEmpty
  <2>2. \A x : Count(none, x) = 0
    BY FS_EmptySet DEF Count
  <2> QED BY <2>1, <2>2
<1> QED BY <1>1, <1>2, <1>5, <1>6, <1>7 DEF LogInv

LEMMA LogStep ==
  ASSUME OneWriter, DropOnError, RecordBatches, BaseInv, LogInv, [Next]_vars
  PROVE  LogInv'
<1>1. CASE Next
  <2>1. Types /\ Me \in Process
    BY DEF BaseInv, Types, Me, OneWriter, Writer
  <2>2. \/ Looks \/ Opens \/ Leaves \/ Reads_
        \/ Cuts \/ Answers \/ LosesPower
        \/ \E b \in Batches : Begins_(b)
        \/ \E n \in 1 .. Len(Me.todo) : Writes(n)
    BY <1>1, <2>1, StepDoes
  <2> QED BY <2>1, <2>2, LogAtRest, LogCut, LogAnswers, LogLoses, LogBegins, LogWrites
<1>2. CASE UNCHANGED vars
  <2>1. UNCHANGED <<file, durable, proc, acked, reader, env>>
    BY <1>2 DEF vars
  <2>2. Me' = Me /\ OnDisk' = OnDisk /\ (AckedInv' <=> AckedInv)
    BY <2>1 DEF Me, OnDisk, AckedInv
  <2> QED BY <2>1, <2>2 DEF LogInv
<1> QED BY <1>1, <1>2

LEMMA LogHolds == OneWriter /\ DropOnError /\ RecordBatches /\ Spec => [](BaseInv /\ LogInv)
<1> SUFFICES ASSUME OneWriter, DropOnError, RecordBatches
             PROVE  Spec => [](BaseInv /\ LogInv)
  OBVIOUS
<1>1. Init => BaseInv /\ LogInv
  BY BaseInit, LogInit
<1>2. (BaseInv /\ LogInv) /\ [Next]_vars => (BaseInv /\ LogInv)'
  BY BaseStep, LogStep
<1> QED BY <1>1, <1>2, PTL DEF Spec

(***************************************************************************)
(* With one writer that drops its FileLog after an error, and batches that *)
(* are each one commit, a reader of the file finds whole batches in it,    *)
(* whatever crashes and errors came between.                               *)
(***************************************************************************)
THEOREM BatchesAreWhole == OneWriter /\ DropOnError /\ RecordBatches /\ Spec => []WholeBatches
<1> SUFFICES ASSUME RecordBatches
             PROVE  OneWriter /\ DropOnError /\ RecordBatches /\ Spec => []WholeBatches
  OBVIOUS
<1>1. ASSUME BaseInv, LogInv
      PROVE  WholeBatches
  <2> DEFINE cut == Slice(file, 0, CommittedEnd(file))
             found == Committed(file)
  <2>1. LogFile(file) /\ file \in Seq(Byte)
    BY <1>1 DEF LogInv, LogFile
  <2>2. Whole(cut) /\ Committed(cut) = found
    BY <2>1, RepairedFile, RepairKeeps
  <2>3. found \in Seq(Datas)
    BY <2>1, CommittedIs
  <2> HIDE DEF cut, found
  <2>4. \A i \in 1 .. Len(found) : \E b \in Batches : found[i] = Contribution(b)
    BY <2>2 DEF Whole
  <2>5. ToSet(found) \subseteq {Contribution(b) : b \in Batches}
    BY <2>3, <2>4 DEF ToSet
  <2> QED BY <2>5 DEF WholeBatches, found
<1> QED BY <1>1, LogHolds, PTL

(***************************************************************************)
(* And with sync, every batch that was answered Ok is in the file, as      *)
(* often as it was answered.                                               *)
(***************************************************************************)
THEOREM AckedAreInLog == OneWriter /\ DropOnError /\ RecordBatches /\ Spec => []AckedInLog
<1>1. ASSUME BaseInv, LogInv
      PROVE  AckedInLog
  <2> SUFFICES ASSUME env.sync, NEW b \in Batches
               PROVE  Count(acked, b) <= Count(Committed(file), Contribution(b))
    BY DEF AckedInLog
  <2>1. file \in Seq(Byte) /\ durable \in Seq(Byte) /\ acked \in Seq(Batches)
    BY <1>1 DEF BaseInv, Types
  <2> DEFINE s == Committed(durable)
             t == Committed(file)
             x == Contribution(b)
  <2>2. Count(acked, b) <= Count(s, x)
    BY <1>1 DEF LogInv, AckedInv
  <2>3. IsPrefix(s, t) /\ s \in Seq(Datas) /\ t \in Seq(Datas)
    BY <1>1, <2>1, DiskShared, CommittedIs DEF LogInv, OnDisk
  <2> HIDE DEF s, t, x
  <2>4. Count(s, x) <= Count(t, x)
    BY <2>3, CountGrows
  <2>5. Count(s, x) \in Nat /\ Count(t, x) \in Nat /\ Count(acked, b) \in Nat
    BY <2>1, <2>3, CountTyped
  <2>6. Count(acked, b) <= Count(t, x)
    BY <2>2, <2>4, <2>5
  <2> QED BY <2>6 DEF t, x
<1> QED BY <1>1, LogHolds, PTL

-----------------------------------------------------------------------------
(* What is on the disk. *)

\* Only a synced answer and a power loss change what is durable: the first makes
\* it the file, which holds what was durable before.
LEMMA DiskKept ==
  ASSUME OneWriter, RecordBatches, BaseInv, LogInv, [Next]_vars, durable' # durable
  PROVE  IsPrefix(Committed(durable), Committed(durable'))
<1>1. file \in Seq(Byte) /\ durable \in Seq(Byte) /\ Begins(OnDisk, file)
  BY DEF LogInv, LogFile
<1>2. CASE Next
  <2>1. Types /\ Me \in Process
    BY DEF BaseInv, Types, Me, OneWriter, Writer
  <2>2. \/ Looks \/ Opens \/ Reads_ \/ Cuts \/ Answers \/ Leaves \/ LosesPower
        \/ \E b \in Batches : Begins_(b)
        \/ \E n \in 1 .. Len(Me.todo) : Writes(n)
    BY <1>2, <2>1, StepDoes
  <2>3. Answers \/ LosesPower
    BY <2>2 DEF Looks, Opens, Reads_, Cuts, Leaves, Begins_, Writes, Kept
  <2>4. CASE Answers
    <3>1. durable' = file
      BY <2>4 DEF Answers
    <3> QED BY <1>1, <3>1, DiskShared DEF OnDisk
  <2>5. CASE LosesPower
    <3>1. PICK left \in AfterPowerLoss : durable' = left
      BY <2>5 DEF LosesPower
    <3> QED BY <3>1, LossLeaves
  <2> QED BY <2>3, <2>4, <2>5
<1>3. CASE UNCHANGED vars
  BY <1>3 DEF vars
<1> QED BY <1>2, <1>3

(***************************************************************************)
(* The repair cuts, and a later sync makes durable, nothing that takes     *)
(* back a record that was committed on the disk; nor does a power loss.    *)
(***************************************************************************)
THEOREM DiskStays ==
  OneWriter /\ DropOnError /\ RecordBatches /\ Spec => DurableStays
<1> SUFFICES ASSUME OneWriter, DropOnError, RecordBatches
             PROVE  Spec => DurableStays
  OBVIOUS
<1>1. BaseInv /\ LogInv /\ [Next]_vars =>
        [IsPrefix(Committed(durable), Committed(durable'))]_durable
  BY DiskKept
<1> QED BY <1>1, LogHolds, PTL DEF Spec, DurableStays

-----------------------------------------------------------------------------
(* The one-writer log implements CommitLog. *)

\* A batch without data would leave no record to tell.
RecordsHaveData == \A b \in Batches : Contribution(b) # << >>

LEMMA ContributionIs ==
  ASSUME RecordsHaveData
  PROVE  /\ Contribution(<< >>) = << >>
         /\ \A b \in Batches : Contribution(b) # << >> /\ Contribution(b) \in Range(Contributions)
<1>1. ASSUME NEW b \in Batches
      PROVE  Contribution(b) \in Range(Contributions)
  <2>1. b # << >>
    BY FileLogAssumption
  <2>2. b \in DOMAIN Contributions /\ Contribution(b) = Contributions[b]
    BY <2>1 DEF Contribution, Contributions
  <2> QED BY <2>2 DEF Range
<1> QED BY <1>1 DEF Contribution, RecordsHaveData

Stutters == UNCHANGED SyncedLog!vars

Moves_ == (env.sync /\ SyncedLog!Next) \/ (~env.sync /\ UnsyncedLog!Next)

LEMMA IdleStutters ==
  ASSUME OneWriter, BaseInv, Looks \/ Opens \/ Reads_
  PROVE  Stutters
<1>1. file' = file /\ durable' = durable /\ acked' = acked
  BY DEF Looks, Opens, Reads_, Kept
<1>2. Me'.batch = Me.batch /\ (Me'.pc = "written" <=> Me.pc = "written")
  BY DEF Looks, Opens, Reads_, BaseInv, CallInv
<1> QED BY <1>1, <1>2 DEF Stutters, SyncedLog!vars, Me

LEMMA CutStutters ==
  ASSUME RecordBatches, BaseInv, LogInv, Cuts
  PROVE  Stutters
<1>1. Committed(file') = Committed(file) /\ durable' = durable /\ acked' = acked
  BY LogCut DEF Cuts
<1>2. Me'.batch = Me.batch /\ (Me'.pc = "written" <=> Me.pc = "written")
  BY DEF Cuts, BaseInv, CallInv
<1> QED BY <1>1, <1>2 DEF Stutters, SyncedLog!vars, Me

LEMMA BeginSubmits ==
  ASSUME RecordsHaveData, BaseInv, NEW b \in Batches, Begins_(b)
  PROVE  SyncedLog!Submit(Contribution(b)) /\ UnsyncedLog!Submit(Contribution(b))
<1>1. file' = file /\ durable' = durable /\ acked' = acked
  BY DEF Begins_, Kept
<1>2. Me.batch = << >> /\ Me'.batch = b /\ Me.pc # "written" /\ Me'.pc # "written"
  BY DEF Begins_, BaseInv, CallInv
<1>3. Contribution(Me.batch) = << >> /\ Contribution(Me'.batch) = Contribution(b)
  BY <1>2, ContributionIs
<1> QED BY <1>1, <1>2, <1>3 DEF SyncedLog!Submit, UnsyncedLog!Submit, Me

LEMMA WriteLands ==
  ASSUME RecordBatches, RecordsHaveData, BaseInv, LogInv, Me \in Process,
         NEW n \in 1 .. Len(Me.todo), Writes(n)
  PROVE  Stutters \/ (SyncedLog!Land /\ UnsyncedLog!Land)
<1>1. /\ Me.pc = "writing" /\ Me'.batch = Me.batch /\ durable' = durable /\ acked' = acked
      /\ Me'.pc = IF n = Len(Me.todo) THEN "written" ELSE "writing"
  BY DEF Writes
<1>2. CASE n # Len(Me.todo)
  <2>1. Committed(file') = Committed(file)
    BY <1>2, LogWrites
  <2>2. Me'.pc # "written" /\ Me.pc # "written"
    BY <1>1, <1>2
  <2> QED BY <1>1, <2>1, <2>2 DEF Stutters, SyncedLog!vars, Me
<1>3. CASE n = Len(Me.todo)
  <2>1. Committed(file') = Append(Committed(file), Contribution(Me.batch))
    BY <1>3, LogWrites
  <2>2. Me'.pc = "written" /\ Me.pc # "written"
    BY <1>1, <1>3
  <2>3. Me.batch \in Batches
    BY <1>1 DEF BaseInv, CallInv, Process
  <2>4. Contribution(Me.batch) # << >>
    BY <2>3, ContributionIs
  <2> QED BY <1>1, <2>1, <2>2, <2>4 DEF SyncedLog!Land, UnsyncedLog!Land, Me
<1> QED BY <1>2, <1>3

LEMMA AnswerAcks ==
  ASSUME RecordsHaveData, BaseInv, LogInv, Me \in Process, Answers
  PROVE  (env.sync => SyncedLog!Ack) /\ (~env.sync => UnsyncedLog!Ack)
<1>1. /\ Me.pc = "written" /\ Me'.pc = "idle" /\ Me'.batch = << >> /\ file' = file
      /\ durable' = IF env.sync THEN file ELSE durable
      /\ acked' = Append(acked, Me.batch)
  BY DEF Answers
<1>2. Me.batch \in Batches /\ acked \in Seq(Batches)
  BY <1>1 DEF BaseInv, CallInv, Process, Types
<1>3. Len(acked') = Len(acked) + 1
  BY <1>1, <1>2
<1>4. Contribution(Me.batch) # << >> /\ Contribution(Me'.batch) = << >>
  BY <1>1, <1>2, ContributionIs
<1>5. ASSUME env.sync
      PROVE  SyncedLog!Ack
  <2>1. durable' = file
    BY <1>1, <1>5
  <2> QED BY <1>1, <1>3, <1>4, <2>1 DEF SyncedLog!Ack, Me
<1>6. ASSUME ~env.sync
      PROVE  UnsyncedLog!Ack
  <2>1. durable' = durable
    BY <1>1, <1>6
  <2> QED BY <1>1, <1>3, <1>4, <2>1 DEF UnsyncedLog!Ack, Me
<1> QED BY <1>5, <1>6

LEMMA LeaveFails ==
  ASSUME DropOnError, RecordsHaveData, BaseInv, Me \in Process, Leaves
  PROVE  Stutters \/ (SyncedLog!Fail /\ UnsyncedLog!Fail)
<1>1. /\ Me'.pc = "closed" /\ Me'.batch = << >>
      /\ file' = file /\ durable' = durable /\ acked' = acked
  BY DEF Leaves, Kept
<1>2. Contribution(Me'.batch) = << >>
  BY <1>1, ContributionIs
<1>3. CASE Me.batch = << >>
  <2>1. Me.pc # "written"
    BY <1>3 DEF BaseInv, CallInv
  <2>2. Contribution(Me.batch) = Contribution(Me'.batch)
    BY <1>1, <1>3
  <2> QED BY <1>1, <2>1, <2>2 DEF Stutters, SyncedLog!vars, Me
<1>4. CASE Me.batch # << >>
  <2>1. Contribution(Me.batch) # << >>
    BY <1>4, ContributionIs DEF Process
  <2> QED BY <1>1, <1>2, <2>1 DEF SyncedLog!Fail, UnsyncedLog!Fail, Me
<1> QED BY <1>3, <1>4

LEMMA PowerLoses ==
  ASSUME RecordBatches, RecordsHaveData, LogInv, LosesPower
  PROVE  SyncedLog!Lose /\ UnsyncedLog!Lose
<1>1. PICK left \in AfterPowerLoss : file' = left /\ durable' = left
  BY DEF LosesPower
<1>2. Me'.pc = "closed" /\ Me'.batch = << >> /\ acked' = acked
  BY DEF LosesPower
<1>3. Contribution(Me'.batch) = << >>
  BY <1>2, ContributionIs
<1> DEFINE old == Committed(file)
           new == Committed(left)
           sync == Committed(durable)
           n == Len(new)
<1>4. /\ old \in Seq(Datas) /\ new \in Seq(Datas) /\ sync \in Seq(Datas)
      /\ IsPrefix(sync, new) /\ IsPrefix(new, old)
  <2>1. file \in Seq(Byte) /\ durable \in Seq(Byte)
    BY DEF LogInv, LogFile
  <2> QED BY <2>1, LossLeaves, CommittedIs
<1>5. Committed(file') = new /\ Committed(durable') = new
  BY <1>1
<1> HIDE DEF new
<1>6. n \in Len(sync) .. Len(old) /\ new = SubSeq(old, 1, n)
  <2> HIDE DEF old, sync
  <2>1. Len(sync) <= n /\ n <= Len(old) /\ Len(sync) \in Nat /\ n \in Nat /\ Len(old) \in Nat
    BY <1>4, PrefixMeans
  <2>2. SubSeq(new, 1, Len(new)) = new
    BY <1>4, SubSeqFull
  <2> QED BY <1>4, <2>1, <2>2 DEF IsPrefix
<1>7. /\ Committed(file') = SubSeq(Committed(file), 1, n)
      /\ Len(Committed(durable')) = n
      /\ n \in Len(Committed(durable)) .. Len(Committed(file))
  BY <1>5, <1>6
<1> HIDE DEF n
<1>8. SyncedLog!Lose
  BY <1>2, <1>3, <1>7 DEF SyncedLog!Lose, Me
<1>9. UnsyncedLog!Lose
  BY <1>2, <1>3, <1>7 DEF UnsyncedLog!Lose, Me
<1> QED BY <1>8, <1>9

LEMMA StepImplements ==
  ASSUME OneWriter, DropOnError, RecordBatches, RecordsHaveData, BaseInv, LogInv, [Next]_vars
  PROVE  Moves_ \/ Stutters
<1>1. Me \in Process /\ Types /\ env.sync \in BOOLEAN
  BY DEF BaseInv, Types, Me, OneWriter, Writer
<1>2. CASE Next
  <2>1. \/ Looks \/ Opens \/ Reads_ \/ Cuts \/ Answers \/ Leaves \/ LosesPower
        \/ \E b \in Batches : Begins_(b)
        \/ \E n \in 1 .. Len(Me.todo) : Writes(n)
    BY <1>1, <1>2, StepDoes
  <2>2. CASE Looks \/ Opens \/ Reads_ \/ Cuts
    BY <2>2, IdleStutters, CutStutters
  <2>3. CASE Answers
    BY <1>1, <2>3, AnswerAcks DEF Moves_, SyncedLog!Next, UnsyncedLog!Next
  <2>4. CASE Leaves
    <3>1. Stutters \/ (SyncedLog!Fail /\ UnsyncedLog!Fail)
      BY <1>1, <2>4, LeaveFails
    <3> QED BY <1>1, <3>1 DEF Moves_, SyncedLog!Next, UnsyncedLog!Next
  <2>5. CASE LosesPower
    BY <1>1, <2>5, PowerLoses DEF Moves_, SyncedLog!Next, UnsyncedLog!Next
  <2>6. ASSUME NEW b \in Batches, Begins_(b)
        PROVE  Moves_
    <3>1. Contribution(b) \in Range(Contributions)
      BY ContributionIs
    <3>2. SyncedLog!Submit(Contribution(b)) /\ UnsyncedLog!Submit(Contribution(b))
      BY <2>6, BeginSubmits
    <3>3. SyncedLog!Next
      BY <3>1, <3>2 DEF SyncedLog!Next
    <3>4. UnsyncedLog!Next
      BY <3>1, <3>2 DEF UnsyncedLog!Next
    <3> QED BY <1>1, <3>3, <3>4 DEF Moves_
  <2>7. ASSUME NEW n \in 1 .. Len(Me.todo), Writes(n)
        PROVE  Moves_ \/ Stutters
    <3>1. Stutters \/ (SyncedLog!Land /\ UnsyncedLog!Land)
      BY <1>1, <2>7, WriteLands
    <3> QED BY <1>1, <3>1 DEF Moves_, SyncedLog!Next, UnsyncedLog!Next
  <2> QED BY <2>1, <2>2, <2>3, <2>4, <2>5, <2>6, <2>7
<1>3. CASE UNCHANGED vars
  BY <1>3 DEF vars, Stutters, SyncedLog!vars
<1> QED BY <1>2, <1>3

(***************************************************************************)
(* The file, its writer and the disk are a CommitLog: a call lands as a    *)
(* whole or not at all, a synced answer seals it, and a power loss takes   *)
(* an end of what is not sealed.                                           *)
(***************************************************************************)
THEOREM LogImplements ==
  OneWriter /\ DropOnError /\ RecordBatches /\ RecordsHaveData /\ Spec => Implements
<1> SUFFICES ASSUME OneWriter, DropOnError, RecordBatches, RecordsHaveData
             PROVE  Spec => Implements
  OBVIOUS
<1>1. Init => SyncedLog!Init
  <2> SUFFICES ASSUME Init PROVE SyncedLog!Init
    OBVIOUS
  <2>1. Committed(file) = << >> /\ Committed(durable) = << >> /\ acked = << >>
    BY CommittedEmpty DEF Init
  <2>2. proc[Writer].batch = << >> /\ proc[Writer].pc = "closed"
    BY DEF Init, OneWriter, Writer, Closed
  <2>3. Contribution(proc[Writer].batch) = << >>
    BY <2>2, ContributionIs
  <2> QED BY <2>1, <2>2, <2>3 DEF SyncedLog!Init
<1>2. BaseInv /\ LogInv /\ [Next]_vars =>
        [(env.sync /\ SyncedLog!Next) \/ (~env.sync /\ UnsyncedLog!Next)]_(SyncedLog!vars)
  BY StepImplements DEF Moves_, Stutters
<1> QED BY <1>1, <1>2, LogHolds, PTL DEF Spec, Implements

-----------------------------------------------------------------------------
(* The backward scan finds the last commit of such a file. *)

BatchesOneMark == \A b \in Batches : OneMark(b)

\* A longer buffer has the marks of a shorter one at their places.
LEMMA MarkBegins ==
  ASSUME NEW a \in Seq(Byte), NEW c \in Seq(Byte), Begins(a, c), NEW p \in 0 .. Len(a) - 1
  PROVE  Mark(a, p) <=> Mark(c, p)
<1>1. /\ p \in Nat /\ Len(a) <= Len(c) /\ p \in 0 .. Len(c) - 1
      /\ \A q \in 0 .. Len(a) - 1 : At(a, q) = At(c, q)
  BY DEF Begins
<1> DEFINE n == EscapesBefore(a, p)
<1>2. n \in 0 .. p /\ Escaped(a, p, n)
  BY <1>1, EscapesAre
<1> HIDE DEF n
<1>3. Escaped(c, p, n)
  <2>1. \A q \in (p - n) .. (p - 1) : q \in 0 .. Len(a) - 1
    BY <1>1, <1>2
  <2>2. n < p => p - n - 1 \in 0 .. Len(a) - 1
    BY <1>1, <1>2
  <2> QED BY <1>1, <1>2, <2>1, <2>2 DEF Escaped
<1>4. EscapesBefore(c, p) = n
  BY <1>1, <1>2, <1>3, EscapesAre
<1> QED BY <1>1, <1>4 DEF Mark, n

\* What is appended keeps its marks, if it does not start with one or an escape.
LEMMA MarkAppended ==
  ASSUME NEW g \in Seq(Byte), NEW c \in Seq(Byte), At(c, 0) \notin {DLE, ETB},
         NEW q \in 0 .. Len(c) - 1
  PROVE  Mark(c, q) <=> Mark(g \o c, Len(g) + q)
<1> DEFINE h == g \o c
           k == Len(g)
           n == EscapesBefore(c, q)
<1>1. /\ h \in Seq(Byte) /\ Len(h) = Len(c) + k /\ k \in Nat /\ Len(c) \in Nat /\ q \in Nat
      /\ \A p \in 0 .. Len(c) - 1 : At(h, p + k) = At(c, p)
  BY AppendStands DEF Stands
<1>2. k + q \in 0 .. Len(h) - 1 /\ At(h, k + q) = At(c, q) /\ k + q \in Nat
  BY <1>1
<1>3. CASE q = 0
  BY <1>2, <1>3 DEF Mark
<1>4. CASE q # 0
  <2>1. n \in 0 .. q /\ Escaped(c, q, n)
    BY <1>1, EscapesAre
  <2>2. n < q
    <3> SUFFICES ASSUME n = q PROVE FALSE
      BY <1>1, <2>1
    <3>1. 0 \in (q - n) .. (q - 1)
      BY <1>1, <1>4, <2>1
    <3> QED BY <2>1, <3>1 DEF Escaped
  <2> HIDE DEF n, h, k
  <2>3. Escaped(h, k + q, n)
    <3>1. ASSUME NEW p \in ((k + q) - n) .. ((k + q) - 1)
          PROVE  At(h, p) = DLE
      <4>1. p - k \in (q - n) .. (q - 1) /\ p - k \in 0 .. Len(c) - 1 /\ (p - k) + k = p
        BY <1>1, <2>1
      <4>2. At(h, (p - k) + k) = DLE
        BY <1>1, <2>1, <4>1 DEF Escaped
      <4> QED BY <4>1, <4>2
    <3>2. At(h, (k + q) - n - 1) # DLE
      <4>1. q - n - 1 \in 0 .. Len(c) - 1 /\ (q - n - 1) + k = (k + q) - n - 1
        BY <1>1, <2>1, <2>2
      <4>2. At(h, (q - n - 1) + k) # DLE
        BY <1>1, <2>1, <2>2, <4>1 DEF Escaped
      <4> QED BY <4>1, <4>2
    <3> QED BY <3>1, <3>2 DEF Escaped
  <2>4. n \in 0 .. k + q
    BY <1>1, <2>1
  <2>5. EscapesBefore(h, k + q) = n
    BY <1>2, <2>3, <2>4, EscapesAre
  <2>6. Mark(c, q) <=> Mark(h, k + q)
    BY <1>2, <2>5 DEF Mark, n
  <2> QED BY <2>6 DEF h, k
<1> QED BY <1>3, <1>4

LEMMA LastMark ==
  ASSUME NEW buf \in Seq(Byte)
  PROVE  /\ (\A p \in 0 .. Len(buf) - 1 : ~Mark(buf, p)) => LastCommitEnd(buf) = 0
         /\ \A m \in 0 .. Len(buf) - 1 :
              Mark(buf, m) /\ (\A p \in 0 .. Len(buf) - 1 : Mark(buf, p) => p <= m)
              => LastCommitEnd(buf) = Plain(buf, m + 1, Len(buf))
<1> DEFINE marks == {p \in 0 .. Len(buf) - 1 : At(buf, p) = ETB /\ EscapesBefore(buf, p) % 2 = 0}
           last == CHOOSE p \in marks : \A q \in marks : q <= p
<1>1. /\ marks = {} => LastCommitEnd(buf) = 0
      /\ marks # {} => LastCommitEnd(buf) = Plain(buf, last + 1, Len(buf))
  BY DEF LastCommitEnd
<1>2. \A p \in 0 .. Len(buf) - 1 : p \in marks <=> Mark(buf, p)
  BY DEF Mark
<1>3. marks \in SUBSET (0 .. Len(buf) - 1)
  OBVIOUS
<1>4. ASSUME NEW m \in marks, \A q \in marks : q <= m
      PROVE  last = m
  <2> HIDE DEF marks
  <2>1. last \in marks /\ \A q \in marks : q <= last
    BY <1>4
  <2> HIDE DEF last
  <2>2. last <= m /\ m <= last /\ last \in Int /\ m \in Int
    BY <1>3, <1>4, <2>1
  <2> QED BY <2>2
<1> HIDE DEF marks, last
<1>5. ASSUME \A p \in 0 .. Len(buf) - 1 : ~Mark(buf, p)
      PROVE  LastCommitEnd(buf) = 0
  BY <1>1, <1>2, <1>3, <1>5
<1>6. ASSUME NEW m \in 0 .. Len(buf) - 1, Mark(buf, m),
             \A p \in 0 .. Len(buf) - 1 : Mark(buf, p) => p <= m
      PROVE  LastCommitEnd(buf) = Plain(buf, m + 1, Len(buf))
  <2>1. m \in marks /\ \A q \in marks : q <= m
    BY <1>2, <1>3, <1>6
  <2> QED BY <1>1, <1>4, <2>1
<1> QED BY <1>5, <1>6

\* Behind a file that ends with its last mark, what has no mark does not count.
LEMMA LastCommitIs ==
  ASSUME NEW g \in Seq(Byte), NEW c \in Seq(Byte),
         g # << >> => Mark(g, Len(g) - 1),
         \A q \in 0 .. Len(c) - 1 : ~Mark(c, q),
         Len(c) > 0 => At(c, 0) \notin {DLE, ETB} /\ ~IsPlain(At(c, 0))
  PROVE  LastCommitEnd(g \o c) = Len(g)
<1> DEFINE h == g \o c
           k == Len(g)
<1>1. /\ h \in Seq(Byte) /\ Len(h) = Len(c) + k /\ k \in Nat /\ Len(c) \in Nat
      /\ Begins(g, h) /\ \A p \in 0 .. Len(c) - 1 : At(h, p + k) = At(c, p)
  BY AppendStands DEF Stands
<1>2. ASSUME NEW p \in 0 .. Len(h) - 1, Mark(h, p)
      PROVE  p < k
  <2> SUFFICES ASSUME p >= k PROVE FALSE
    BY <1>1
  <2>1. p - k \in 0 .. Len(c) - 1 /\ k + (p - k) = p /\ Len(c) > 0
    BY <1>1
  <2>2. Mark(c, p - k) <=> Mark(h, k + (p - k))
    BY <2>1, MarkAppended
  <2> QED BY <1>2, <2>1, <2>2
<1>3. CASE k = 0
  <2>1. \A p \in 0 .. Len(h) - 1 : ~Mark(h, p)
    BY <1>2, <1>3
  <2> QED BY <1>1, <1>3, <2>1, LastMark
<1>4. CASE k # 0
  <2> DEFINE m == k - 1
  <2>1. m \in 0 .. Len(g) - 1 /\ m \in 0 .. Len(h) - 1 /\ m + 1 = k /\ g # << >>
    BY <1>1, <1>4
  <2>2. Mark(h, m)
    <3>1. m = Len(g) - 1
      OBVIOUS
    <3> HIDE DEF m
    <3>2. Mark(g, m)
      BY <2>1, <3>1
    <3> QED BY <1>1, <2>1, <3>2, MarkBegins
  <2>3. \A p \in 0 .. Len(h) - 1 : Mark(h, p) => p <= m
    BY <1>1, <1>2
  <2> HIDE DEF m
  <2>4. LastCommitEnd(h) = Plain(h, m + 1, Len(h))
    BY <1>1, <2>1, <2>2, <2>3, LastMark
  <2>5. Plain(h, k, Len(h)) = k
    <3>1. k < Len(h) => ~IsPlain(At(h, k))
      <4> SUFFICES ASSUME k < Len(h) PROVE ~IsPlain(At(h, k))
        OBVIOUS
      <4>1. 0 \in 0 .. Len(c) - 1 /\ 0 + k = k /\ Len(c) > 0
        BY <1>1
      <4>2. At(h, 0 + k) = At(c, 0)
        BY <1>1, <4>1
      <4> QED BY <4>1, <4>2
    <3>2. Len(h) \in Nat /\ k \in 0 .. Len(h) /\ k \in k .. Len(h)
          /\ \A q \in k .. (k - 1) : IsPlain(At(h, q))
      BY <1>1
    <3> HIDE DEF h, k
    <3> QED BY <3>1, <3>2, PlainIs
  <2> QED BY <2>1, <2>4, <2>5
<1> QED BY <1>3, <1>4

LEMMA SettledUntorn ==
  ASSUME NEW g, Settled(g)
  PROVE  Torn(g) = FALSE /\ CommittedEnd(g) = Len(g)
<1>1. g \in Seq(Byte) /\ ScanOf(g).committed_end = Len(g) /\ Len(g) \in Nat
  BY DEF Settled, Ready
<1> DEFINE l == Len(g)
           p == Layout(g, l, Len(g))
<1>2. l = Len(g) /\ l \in Nat /\ l \in 0 .. l /\ l \in l .. l /\ ~(l < l)
      /\ \A q \in l .. (l - 1) : IsLayout(At(g, q))
  BY <1>1
<1> HIDE DEF l
<1>3. Layout(g, l, l) = l
  BY <1>2, LayoutIs
<1>4. p = Layout(g, l, Len(g)) /\ p >= Len(g) /\ l \in 0 .. Len(g)
  BY <1>2, <1>3
<1> HIDE DEF p
<1>5. TornTail(g, l) = FALSE
  BY <1>1, <1>4, TornTailIs
<1> QED BY <1>1, <1>5 DEF Torn, CommittedEnd, l

\* Wherever a file can be cut to end with a commit, its last byte is a mark.
Marked(f) == \A g \in Prefixes(f) : Settled(g) /\ g # << >> => Mark(g, Len(g) - 1)

MarkInv == Marked(file) /\ Marked(durable)

LEMMA MarkedCut ==
  ASSUME NEW f \in Seq(Byte), Marked(f), NEW p \in Prefixes(f)
  PROVE  Marked(p)
<1>1. \A q \in Prefixes(p) : q \in Prefixes(f)
  BY PrefixOfPrefix
<1> QED BY <1>1 DEF Marked

\* The end of a batch in the file is the end of the batch.
LEMMA BatchMark ==
  ASSUME RecordBatches, BatchesOneMark, NEW b \in Batches, NEW g \in Seq(Byte)
  PROVE  Mark(g \o b, Len(g \o b) - 1)
<1>1. b \in Seq(Byte) /\ Len(b) \in Nat /\ Len(b) > 0 /\ Len(g) \in Nat /\ OneMark(b)
  BY BatchIs DEF BatchesOneMark
<1>2. Len(b) - 1 \in 0 .. Len(b) - 1
  BY <1>1
<1>3. Mark(b, Len(b) - 1) /\ At(b, 0) \notin {DLE, ETB}
  BY <1>1, <1>2 DEF OneMark
<1>4. Mark(g \o b, Len(g) + (Len(b) - 1))
  BY <1>1, <1>2, <1>3, MarkAppended
<1>5. Len(g \o b) - 1 = Len(g) + (Len(b) - 1)
  BY <1>1
<1> QED BY <1>4, <1>5

LEMMA MarkedGrows ==
  ASSUME RecordBatches, BatchesOneMark, NEW b \in Batches, NEW n \in 0 .. Len(b) - 1,
         NEW k \in 0 .. Len(b) - n, NEW f, InWrite(f, b, n), Marked(f)
  PROVE  Marked(f \o SubSeq(b, n + 1, n + k))
<1> DEFINE d == SubSeq(b, n + 1, n + k)
<1>1. b \in Seq(Byte) /\ Len(b) \in Nat /\ f \in Seq(Byte) /\ f \o d \in Seq(Byte)
  BY BatchIs, InWriteIs, WriteOn
<1>2. d \in Seq(Byte) /\ Len(d) = k
  <2>1. n + 1 \in Nat /\ n + k \in Nat /\ 1 <= n + 1 /\ n + 1 <= (n + k) + 1 /\ n + k <= Len(b)
        /\ (n + k) - (n + 1) + 1 = k
    BY <1>1
  <2> QED BY <1>1, <2>1, SubIs
<1>3. ASSUME NEW m \in 0 .. k, Settled(f \o SubSeq(d, 1, m)), f \o SubSeq(d, 1, m) # << >>
      PROVE  Mark(f \o SubSeq(d, 1, m), Len(f \o SubSeq(d, 1, m)) - 1)
  <2> DEFINE p == f \o SubSeq(d, 1, m)
  <2>1. SubSeq(d, 1, m) = SubSeq(b, n + 1, n + m)
    <3>1. n \in 0 .. Len(b)
      BY <1>1
    <3> QED BY <1>1, <3>1, PartOfPart
  <2>2. m \in 0 .. Len(b) - n /\ (n + m = Len(b) \/ n + m \in 0 .. Len(b) - 1)
    BY <1>1
  <2>3. InWrite(p, b, n + m)
    <3>1. InWrite(f \o SubSeq(b, n + 1, n + m), b, n + m)
      BY <2>2, WriteOn
    <3> QED BY <2>1, <3>1
  <2>4. m = 0 => p = f
    <3>1. SubSeq(d, 1, 0) = << >>
      BY SubSeqEmpty
    <3>2. f \o << >> = f
      BY <1>1
    <3> HIDE DEF d
    <3> QED BY <3>1, <3>2
  <2>7. Settled(p) /\ p # << >>
    BY <1>3
  <2> HIDE DEF p, d
  <2>5. CASE n + m = Len(b)
    <3>1. InWrite(p, b, Len(b))
      BY <2>3, <2>5
    <3>2. PICK g \in Prefixes(p) : Whole(g) /\ p = g \o SubSeq(b, 1, Len(b))
      BY <3>1 DEF InWrite
    <3>3. g \in Seq(Byte) /\ p = g \o b
      BY <1>1, <3>2, SubSeqFull DEF Whole, Settled
    <3> QED BY <3>3, BatchMark DEF p
  <2>6. CASE n + m \in 0 .. Len(b) - 1
    <3>1. Torn(p) <=> n + m > 0
      BY <2>3, <2>6, InWriteIs
    <3>2. m = 0
      <4>1. ~(n + m > 0)
        BY <2>7, <3>1, SettledUntorn
      <4> QED BY <1>1, <4>1
    <3>3. p = f
      BY <2>4, <3>2
    <3>4. f \in Prefixes(f)
      <4>1. Begins(f, f)
        BY <1>1 DEF Begins
      <4> QED BY <1>1, <4>1, PrefixesAre
    <3>5. Mark(p, Len(p) - 1)
      BY <2>7, <3>3, <3>4 DEF Marked
    <3> QED BY <3>5 DEF p
  <2> QED BY <2>2, <2>5, <2>6
<1> HIDE DEF d
<1>4. ASSUME NEW p \in Prefixes(f \o d), Settled(p), p # << >>
      PROVE  Mark(p, Len(p) - 1)
  <2>1. CASE p \in Prefixes(f)
    BY <1>4, <2>1 DEF Marked
  <2>2. CASE \E m \in 0 .. Len(d) : p = f \o SubSeq(d, 1, m)
    <3>1. PICK m \in 0 .. k : p = f \o SubSeq(d, 1, m)
      BY <1>2, <2>2
    <3> QED BY <1>3, <1>4, <3>1
  <2>3. p \in Prefixes(f) \/ \E m \in 0 .. Len(d) : p = f \o SubSeq(d, 1, m)
    BY <1>1, <1>2, AppendPrefixes
  <2> QED BY <2>1, <2>2, <2>3, Zenon
<1>5. Marked(f \o d)
  BY <1>4 DEF Marked
<1> QED BY <1>5 DEF d

LEMMA MarkInit == ASSUME Init PROVE MarkInv
<1> DEFINE none == << >>
<1>1. none \in Seq(Byte) /\ Len(none) = 0
  OBVIOUS
<1>2. ASSUME NEW g \in Prefixes(none) PROVE g = << >>
  <2>1. g \in Seq(Byte) /\ Len(g) <= 0
    BY <1>1, PrefixesAre DEF Begins
  <2> QED BY <2>1
<1>3. Marked(none)
  BY <1>2 DEF Marked
<1>4. file = none /\ durable = none
  BY DEF Init
<1> HIDE DEF none
<1> QED BY <1>3, <1>4 DEF MarkInv

\* A step that leaves the disk alone, or cuts the file.
LEMMA MarkSame ==
  ASSUME BaseInv, LogInv, MarkInv,
         Looks \/ Opens \/ Leaves \/ Reads_ \/ Cuts \/ Answers \/ \E b \in Batches : Begins_(b)
  PROVE  MarkInv'
<1>1. file \in Seq(Byte)
  BY DEF LogInv, LogFile
<1>2. CASE Looks \/ Opens \/ Leaves \/ Reads_ \/ \E b \in Batches : Begins_(b)
  <2>1. file' = file /\ durable' = durable
    BY <1>2 DEF Looks, Opens, Leaves, Reads_, Begins_, Kept
  <2> QED BY <2>1 DEF MarkInv
<1>3. CASE Cuts
  <2>1. file' = SetLen(file, CommittedEnd(file)) /\ durable' = durable
    BY <1>3 DEF Cuts, BaseInv, CutInv
  <2>2. file' \in Prefixes(file)
    BY <1>1, <2>1, RepairKeeps, PrefixesAre
  <2>3. Marked(file')
    BY <1>1, <2>2, MarkedCut DEF MarkInv
  <2> QED BY <2>1, <2>3 DEF MarkInv
<1>4. CASE Answers
  <2>1. file' = file /\ (durable' = file \/ durable' = durable)
    BY <1>4 DEF Answers
  <2> QED BY <2>1 DEF MarkInv
<1> QED BY <1>2, <1>3, <1>4

LEMMA MarkWrites ==
  ASSUME RecordBatches, BatchesOneMark, BaseInv, LogInv, MarkInv,
         NEW n \in 1 .. Len(Me.todo), Writes(n), Me \in Process
  PROVE  MarkInv'
<1> DEFINE b == Me.batch
           t == Me.todo
           w == Len(b) - Len(t)
           d == SubSeq(b, w + 1, w + n)
<1>1. /\ Me.pc = "writing" /\ file' = file \o SubSeq(t, 1, n) /\ durable' = durable
      /\ n \in 1 .. Len(t)
  BY DEF Writes
<1>2. b \in Batches /\ InWrite(file, b, w) /\ t = SubSeq(b, w + 1, Len(b)) /\ Len(t) \in 1 .. Len(b)
  BY <1>1 DEF BaseInv, CallInv, LogInv, Process
<1>3. b \in Seq(Byte) /\ Len(b) \in Nat
  BY <1>2, RecordBatches, BatchIs
<1>4. /\ w \in 0 .. Len(b) - 1 /\ w \in 0 .. Len(b) /\ n \in 0 .. Len(b) - w
      /\ w + Len(t) = Len(b) /\ Len(t) \in 0 .. Len(b) - w /\ n \in 0 .. Len(t)
  <2> HIDE DEF b, t
  <2> QED BY <1>1, <1>2, <1>3
<1> HIDE DEF b, w
<1>5. SubSeq(t, 1, n) = d
  <2> DEFINE l == Len(t)
  <2>1. t = SubSeq(b, w + 1, w + l) /\ l \in 0 .. Len(b) - w /\ n \in 0 .. l
    BY <1>2, <1>4
  <2> HIDE DEF l, t
  <2> QED BY <1>3, <1>4, <2>1, PartOfPart
<1> HIDE DEF t
<1>6. Marked(file \o d)
  BY <1>2, <1>4, MarkedGrows DEF MarkInv
<1> HIDE DEF d
<1>7. file' = file \o d
  BY <1>1, <1>5
<1> QED BY <1>1, <1>6, <1>7 DEF MarkInv

LEMMA MarkLoses ==
  ASSUME LogInv, MarkInv, LosesPower
  PROVE  MarkInv'
<1>1. PICK left \in AfterPowerLoss : file' = left /\ durable' = left
  BY DEF LosesPower
<1>2. file \in Seq(Byte) /\ durable \in Seq(Byte)
  BY DEF LogInv, LogFile
<1>3. CASE left = durable
  BY <1>1, <1>3 DEF MarkInv
<1>4. CASE \E n \in 0 .. Len(file) : left = Slice(file, 0, n)
  <2>1. left \in Prefixes(file)
    BY <1>2, <1>4, SliceBegins, PrefixesAre
  <2>2. Marked(left)
    BY <1>2, <2>1, MarkedCut DEF MarkInv
  <2> QED BY <1>1, <2>2 DEF MarkInv
<1> QED BY <1>2, <1>3, <1>4, LeftOver

LEMMA MarkStep ==
  ASSUME OneWriter, RecordBatches, BatchesOneMark, BaseInv, LogInv, MarkInv, [Next]_vars
  PROVE  MarkInv'
<1>1. CASE Next
  <2>1. Types /\ Me \in Process
    BY DEF BaseInv, Types, Me, OneWriter, Writer
  <2>2. \/ Looks \/ Opens \/ Leaves \/ Reads_
        \/ Cuts \/ Answers \/ LosesPower
        \/ \E b \in Batches : Begins_(b)
        \/ \E n \in 1 .. Len(Me.todo) : Writes(n)
    BY <1>1, <2>1, StepDoes
  <2> QED BY <2>1, <2>2, MarkSame, MarkWrites, MarkLoses
<1>2. CASE UNCHANGED vars
  BY <1>2 DEF vars, MarkInv
<1> QED BY <1>1, <1>2

\* Where the scan's last commit ends, the backward scan's does.
LEMMA ShortcutOf ==
  ASSUME RecordBatches, BatchesOneMark, NEW f, LogFile(f), Marked(f)
  PROVE  LastCommitEnd(f) = CommittedEnd(f)
<1>1. f \in Seq(Byte)
  BY DEF LogFile
<1>2. f \in Prefixes(f)
  <2>1. Begins(f, f)
    BY <1>1 DEF Begins
  <2> QED BY <1>1, <2>1, PrefixesAre
<1>3. CASE Whole(f)
  <2> DEFINE none == << >>
  <2>1. Settled(f) /\ CommittedEnd(f) = Len(f)
    BY <1>3, SettledUntorn DEF Whole
  <2>2. f # << >> => Mark(f, Len(f) - 1)
    BY <1>2, <2>1 DEF Marked
  <2>3. none \in Seq(Byte) /\ Len(none) = 0 /\ f \o none = f
    BY <1>1
  <2> HIDE DEF none
  <2>4. LastCommitEnd(f \o none) = Len(f)
    <3>1. \A q \in 0 .. Len(none) - 1 : ~Mark(none, q)
      BY <2>3
    <3>2. ~(Len(none) > 0)
      BY <2>3
    <3> QED BY <1>1, <2>2, <2>3, <3>1, <3>2, LastCommitIs
  <2> QED BY <2>1, <2>3, <2>4
<1>4. ASSUME NEW b \in Batches, NEW n \in 0 .. Len(b) - 1, InWrite(f, b, n)
      PROVE  LastCommitEnd(f) = CommittedEnd(f)
  <2> DEFINE c == SubSeq(b, 1, n)
  <2>1. PICK g \in Prefixes(f) : Whole(g) /\ f = g \o c
    BY <1>4 DEF InWrite
  <2>2. b \in Seq(Byte) /\ OneCommit(b) /\ OneMark(b) /\ Len(b) \in Nat
    BY BatchIs DEF BatchesOneMark
  <2>3. c \in Seq(Byte) /\ Begins(c, b) /\ Len(c) = n /\ Len(c) < Len(b)
    <3>1. n \in 0 .. Len(b) /\ n < Len(b) /\ 0 \in 0 .. Len(b) - n
      BY <2>2
    <3> QED BY <2>2, <3>1, PartAndMore
  <2> HIDE DEF c
  <2>4. Settled(g) /\ g \in Seq(Byte)
    BY <2>1 DEF Whole, Settled
  <2>5. CommittedEnd(f) = Len(g)
    BY <2>1, <2>2, <2>3, <2>4, PartLandsNot
  <2>6. g # << >> => Mark(g, Len(g) - 1)
    BY <2>1, <2>4 DEF Marked
  <2>7. ASSUME NEW q \in 0 .. Len(c) - 1
        PROVE  ~Mark(c, q)
    <3>1. q \in 0 .. Len(b) - 1 /\ q # Len(b) - 1
      BY <2>2, <2>3
    <3>2. ~Mark(b, q)
      BY <2>2, <3>1 DEF OneMark
    <3> QED BY <2>2, <2>3, <3>2, MarkBegins
  <2>8. Len(c) > 0 => At(c, 0) \notin {DLE, ETB} /\ ~IsPlain(At(c, 0))
    <3>1. Len(c) > 0 => At(c, 0) = At(b, 0)
      BY <2>2, <2>3 DEF Begins
    <3> QED BY <2>2, <3>1 DEF OneMark, OneCommit, OpensElement
  <2>9. LastCommitEnd(g \o c) = Len(g)
    BY <2>3, <2>4, <2>6, <2>7, <2>8, LastCommitIs
  <2> QED BY <2>1, <2>5, <2>9
<1> QED BY <1>2, <1>3, <1>4 DEF LogFile

(***************************************************************************)
(* And if the only ETB of a batch that no DLE escapes is its last byte,    *)
(* last_commit_end finds in the file, torn or not, the commit that the     *)
(* scan finds.                                                             *)
(***************************************************************************)
THEOREM ShortcutIsSound ==
  OneWriter /\ DropOnError /\ RecordBatches /\ BatchesOneMark /\ Spec => []ShortcutAgrees
<1> SUFFICES ASSUME OneWriter, DropOnError, RecordBatches, BatchesOneMark
             PROVE  Spec => []ShortcutAgrees
  OBVIOUS
<1>1. Init => MarkInv
  BY MarkInit
<1>2. MarkInv /\ (BaseInv /\ LogInv) /\ [Next]_vars => MarkInv'
  BY MarkStep
<1>3. MarkInv /\ (BaseInv /\ LogInv) => ShortcutAgrees
  BY ShortcutOf DEF MarkInv, LogInv, ShortcutAgrees
<1> QED BY <1>1, <1>2, <1>3, LogHolds, PTL DEF Spec

-----------------------------------------------------------------------------
(* The log of a writer whose batches a Builder made.                       *)

\* The loop of Data ends, and data is a sequence.
LEMMA DataUnfolds ==
  ASSUME NEW bytes \in Seq(Byte)
  PROVE  /\ Data(bytes) \in Seq(Byte)
         /\ bytes # << >> /\ At(bytes, 0) \notin {BEL, STX} => Data(bytes) # << >>
<1> DEFINE len == Len(bytes)
           end(p) == PieceEnd(bytes, p)
           piece(p) == IF At(bytes, p) = BEL THEN << >> ELSE Slice(bytes, p, end(p))
           Next_(f, p) == IF p = len \/ end(p) = Err THEN << >>
                          ELSE IF At(bytes, p) = BEL THEN f[end(p)]
                          ELSE Slice(bytes, p, end(p)) \o f[end(p)]
           Right(f, k) == /\ f \in [k .. len -> Seq(Byte)]
                          /\ \A p \in k .. len : f[p] = Next_(f, p)
           from == CHOOSE f : f = [p \in 0 .. len |-> Next_(f, p)]
           G == {m \in 0 .. len : \E f : Right(f, len - m)}
<1>0. len \in Nat /\ \A p \in 0 .. len - 1 : At(bytes, p) \in Byte
  BY DEF At
<1>1. ASSUME NEW p \in 0 .. len, p # len
      PROVE  end(p) = Err \/ end(p) \in p + 1 .. len
  <2>1. CASE At(bytes, p) = BEL
    <3>1. Ranged("comment", p, len, ScanPrimitive(bytes, len)[<<"comment", p>>])
      BY <1>0, PrimitivesMove DEF RightFrom, Primitives
    <3> DEFINE c == ScanPrimitive(bytes, len)[<<"comment", p>>]
    <3>0. BEL # STX
      BY DEF BEL, STX
    <3>2. end(p) = c
      <4>1. At(bytes, p) = BEL /\ At(bytes, p) # STX
        BY <2>1, <3>0
      <4>2. PieceEnd(bytes, p) = Comment(bytes, p, Len(bytes))
        BY <4>1, Zenon DEF PieceEnd
      <4> QED BY <4>2, Zenon DEF Comment
    <3>3. "comment" \notin Passing
      BY DEF Passing
    <3> HIDE DEF end, c
    <3>4. Ranged("comment", p, len, c)
      BY <3>1 DEF c
    <3>5. c = Err \/ c \in p + 1 .. len
      BY <1>0, <3>3, <3>4 DEF Ranged
    <3> QED BY <3>2, <3>5
  <2>2. CASE At(bytes, p) = STX
    <3>1. BEL # STX
      BY DEF BEL, STX
    <3>2. At(bytes, p) # BEL
      BY <2>2, <3>1
    <3>3. end(p) = Text(bytes, p, len)
      BY <2>2, <3>2 DEF PieceEnd
    <3>4. Text(bytes, p, len) \in {Err} \cup (p + 2 .. len)
      <4> HIDE DEF len
      <4>1. p \in Nat /\ len \in Nat
        BY <1>0
      <4> QED BY <4>1, TextStops
    <3> HIDE DEF end
    <3> QED BY <1>0, <3>3, <3>4
  <2>3. CASE At(bytes, p) # BEL /\ At(bytes, p) # STX
    <3>1. end(p) = p + 1
      BY <2>3 DEF PieceEnd
    <3> HIDE DEF end
    <3> QED BY <1>0, <1>1, <3>1
  <2> QED BY <2>1, <2>2, <2>3
<1> HIDE DEF end, len
<1>a. ASSUME NEW p \in 0 .. len, p # len, end(p) # Err
      PROVE  Slice(bytes, p, end(p)) \in Seq(Byte)
  <2>1. end(p) \in p + 1 .. len
    BY <1>1, <1>a
  <2>2. \A i \in p + 1 .. end(p) : i \in 1 .. len
    BY <1>0, <2>1
  <2>3. SubSeq(bytes, p + 1, end(p)) \in Seq(Byte)
    BY <1>0, <2>1, <2>2 DEF len
  <2> QED BY <2>3 DEF Slice
<1>2. 0 \in G
  <2> DEFINE f == [p \in len .. len |-> << >>]
  <2>1. Right(f, len)
    BY <1>0
  <2>2. len - 0 = len
    BY <1>0
  <2> HIDE DEF Right, f
  <2> QED BY <1>0, <2>1, <2>2
<1>3. ASSUME NEW m \in 1 .. len, m - 1 \in G
      PROVE  m \in G
  <2> DEFINE k == len - m
  <2>1. k \in 0 .. len - 1 /\ k \in 0 .. len /\ k # len /\ len - (m - 1) = k + 1
    BY <1>0
  <2>2. PICK f : Right(f, k + 1)
    BY <1>3, <2>1
  <2> HIDE DEF k
  <2> DEFINE g == [p \in k .. len |-> IF p = k THEN Next_(f, k) ELSE f[p]]
  <2>3. Next_(f, k) \in Seq(Byte)
    <3>1. CASE end(k) = Err
      BY <3>1
    <3>2. CASE end(k) # Err
      <4> DEFINE t == f[end(k)]
                 x == Slice(bytes, k, end(k))
      <4>1. end(k) \in k + 1 .. len
        BY <1>1, <2>1, <3>2
      <4>2. t \in Seq(Byte)
        BY <2>2, <4>1
      <4>3. x \in Seq(Byte)
        BY <1>a, <2>1, <3>2
      <4>4. Next_(f, k) = IF At(bytes, k) = BEL THEN t ELSE x \o t
        BY <2>1, <3>2
      <4> HIDE DEF t, x, Next_
      <4>5. x \o t \in Seq(Byte)
        BY <4>2, <4>3
      <4> QED BY <4>2, <4>4, <4>5
    <3> QED BY <3>1, <3>2
  <2>4. g \in [k .. len -> Seq(Byte)]
    <3>1. \A p \in k .. len : p = k \/ p \in k + 1 .. len
      BY <1>0, <2>1
    <3> HIDE DEF Next_
    <3> QED BY <2>2, <2>3, <3>1
  <2>5. \A p \in k + 1 .. len : g[p] = f[p]
    BY <1>0, <2>1
  <2>6. ASSUME NEW p \in k .. len
        PROVE  g[p] = Next_(g, p)
    <3>1. p \in 0 .. len /\ \A q \in p + 1 .. len : q \in k + 1 .. len
      BY <1>0, <2>1
    <3>2. p = len \/ end(p) = Err \/ end(p) \in p + 1 .. len
      BY <1>1, <3>1
    <3> HIDE DEF g
    <3>3. Next_(g, p) = Next_(f, p)
      <4>1. CASE p = len \/ end(p) = Err
        BY <4>1
      <4>2. CASE p # len /\ end(p) # Err
        <5>1. g[end(p)] = f[end(p)]
          BY <2>5, <3>1, <3>2, <4>2
        <5> QED BY <4>2, <5>1
      <4> QED BY <4>1, <4>2
    <3>4. g[p] = Next_(f, p)
      <4> HIDE DEF Next_
      <4>1. CASE p = k
        BY <4>1 DEF g
      <4>2. CASE p # k
        <5>1. p \in k + 1 .. len
          BY <1>0, <2>1, <4>2
        <5> QED BY <2>2, <2>5, <5>1
      <4> QED BY <4>1, <4>2
    <3> HIDE DEF Next_
    <3> QED BY <3>3, <3>4
  <2>7. Right(g, k)
    BY <2>4, <2>6
  <2> HIDE DEF Right, g
  <2> QED BY <1>0, <2>7 DEF k
<1>4. PICK f : Right(f, 0)
  <2> HIDE DEF G
  <2>1. \A m \in 0 .. len : m \in G
    BY <1>0, <1>2, <1>3, UpTo
  <2>2. len \in G /\ len - len = 0
    BY <1>0, <2>1
  <2> QED BY <2>2 DEF G
<1>5. f = [p \in 0 .. len |-> Next_(f, p)]
  BY <1>4
<1>6. from = [p \in 0 .. len |-> Next_(from, p)]
  <2> HIDE DEF Next_
  <2> QED BY <1>5
<1>7. Data(bytes) = from[0]
  BY DEF Data, end, len
<1> HIDE DEF from
<1>8. from = f
  <2>1. \A p \in 0 .. len : from[p] = Next_(from, p) /\ f[p] = Next_(f, p)
    <3> HIDE DEF Next_
    <3> QED BY <1>5, <1>6
  <2> DEFINE E == {p \in 0 .. len : from[p] = f[p]}
  <2>2. len \in E
    <3>1. len \in 0 .. len /\ Next_(from, len) = << >> /\ Next_(f, len) = << >>
      BY <1>0
    <3> HIDE DEF Next_
    <3>2. from[len] = << >> /\ f[len] = << >>
      BY <2>1, <3>1
    <3> QED BY <3>1, <3>2
  <2>3. ASSUME NEW p \in 0 .. len - 1, \A q \in p + 1 .. len : q \in E
        PROVE  p \in E
    <3>1. p \in 0 .. len /\ p # len
      BY <1>0
    <3>2. Next_(from, p) = Next_(f, p)
      <4>1. CASE end(p) = Err
        BY <4>1
      <4>2. CASE end(p) # Err
        <5>1. end(p) \in p + 1 .. len
          BY <1>1, <3>1, <4>2
        <5>2. from[end(p)] = f[end(p)]
          BY <2>3, <5>1
        <5> QED BY <5>2
      <4> QED BY <4>1, <4>2
    <3> HIDE DEF Next_
    <3> QED BY <2>1, <3>1, <3>2
  <2>4. \A p \in 0 .. len : from[p] = f[p]
    <3> HIDE DEF E
    <3>1. \A p \in 0 .. len : p \in E
      BY <1>0, <2>2, <2>3, DownFrom
    <3> QED BY <3>1 DEF E
  <2> HIDE DEF Next_
  <2> QED BY <1>5, <1>6, <2>4
<1>9. from[0] \in Seq(Byte) /\ (len # 0 => from[1] \in Seq(Byte))
  BY <1>0, <1>4, <1>8
<1>10. ASSUME bytes # << >>, At(bytes, 0) \notin {BEL, STX}
       PROVE  from[0] # << >>
  <2>1. len # 0 /\ 0 # len /\ 0 \in 0 .. len
    BY <1>0, <1>10 DEF len
  <2>2. end(0) = 1 /\ Err # 1
    BY <1>10 DEF end, PieceEnd, Err
  <2>3. from[0] = Slice(bytes, 0, 1) \o from[1]
    BY <1>4, <1>8, <1>10, <2>1, <2>2
  <2> DEFINE t == from[1]
             x == Slice(bytes, 0, 1)
  <2>4. t \in Seq(Byte)
    BY <1>9, <2>1
  <2>5. x \in Seq(Byte) /\ Len(x) = 1
    <3>1. 1 \in 0 .. Len(bytes)
      BY <1>0, <2>1 DEF len
    <3> QED BY <3>1, SliceBegins
  <2> HIDE DEF t, x
  <2>6. x \o t # << >>
    <3>1. Len(x \o t) = Len(x) + Len(t) /\ Len(t) \in Nat
      BY <2>4, <2>5, JoinIs
    <3>2. Len(x \o t) # 0
      BY <2>5, <3>1
    <3> QED BY <3>2
  <2> QED BY <2>3, <2>6 DEF t, x
<1> QED BY <1>7, <1>9, <1>10

\* Every batch is what some calls on a new builder make: commit_bytes
\* (src/src/stream.rs), given a closure that closes its levels and says something
\* before it says a note.
BuiltBatches ==
  \A b \in Batches : \E n \in Nat : \E made :
    /\ Course(made, n)
    /\ made[n].stack = << >>
    /\ made[n].buf # << >>
    /\ At(made[n].buf, 0) # BEL
    /\ b = Bytes(made[n])

\* All that the theorems above ask of the batches is true of those.
LEMMA BuiltAre ==
  ASSUME BuiltBatches
  PROVE  RecordBatches /\ RecordsHaveData /\ BatchesOneMark
<1>1. ASSUME NEW b \in Batches
      PROVE  IsBatch(b) /\ Contribution(b) # << >>
  <2>1. PICK n \in Nat : \E made :
               /\ Course(made, n)
               /\ made[n].stack = << >>
               /\ made[n].buf # << >>
               /\ At(made[n].buf, 0) # BEL
               /\ b = Bytes(made[n])
    BY DEF BuiltBatches
  <2>2. PICK made : /\ Course(made, n)
                    /\ made[n].stack = << >>
                    /\ made[n].buf # << >>
                    /\ At(made[n].buf, 0) # BEL
                    /\ b = Bytes(made[n])
    BY <2>1
  <2>3. IsBatch(b)
    BY <2>2, BatchIsOne
  <2> DEFINE s == made[n].buf
  <2>4. s \in Seq(Byte) /\ b = s \o <<ETB>>
    BY <2>2, CourseBytes
  <2>5. s # << >> /\ At(s, 0) \notin {BEL, STX}
    <3>1. Made(made[n])
      BY <2>2, CourseMakes
    <3>2. At(s, 0) \in DataCodes \cup {BEL} /\ At(s, 0) # BEL
      BY <2>2, <3>1 DEF Made, OpensWith
    <3>3. STX \notin DataCodes
      BY DEF STX, DataCodes, FS, GS, RS, SOH
    <3> QED BY <2>2, <3>2, <3>3
  <2> HIDE DEF s
  <2>6. Front(b) = s
    BY <2>4 DEF Front, ETB, Byte
  <2>7. Data(s) # << >>
    BY <2>4, <2>5, DataUnfolds
  <2>8. b # << >>
    BY FileLogAssumption
  <2> HIDE DEF Data, Front
  <2>9. Contribution(b) = Data(s)
    BY <2>6, <2>8 DEF Contribution, Contributions
  <2> QED BY <2>3, <2>7, <2>9
<1> QED BY <1>1 DEF RecordBatches, RecordsHaveData, BatchesOneMark, IsBatch

\* One process appends to a log, drops its FileLog after an error, and its batches
\* are what a builder makes of any calls with any values.  Then whatever the power
\* loses and wherever the process is killed, the log keeps what CommitLog
\* promises, holds whole batches and the acknowledged ones, and the backward
\* search finds the end that the forward scan finds.
THEOREM BuiltLog ==
  OneWriter /\ DropOnError /\ BuiltBatches /\ Spec =>
    Implements /\ DurableStays /\ []WholeBatches /\ []AckedInLog /\ []ShortcutAgrees
<1> SUFFICES ASSUME OneWriter, DropOnError, BuiltBatches
             PROVE  Spec => /\ Implements /\ DurableStays
                            /\ []WholeBatches /\ []AckedInLog /\ []ShortcutAgrees
  OBVIOUS
<1>1. RecordBatches /\ RecordsHaveData /\ BatchesOneMark
  BY BuiltAre
<1>2. Spec => Implements
  BY <1>1, LogImplements
<1>3. Spec => []WholeBatches
  BY <1>1, BatchesAreWhole
<1>4. Spec => []AckedInLog
  BY <1>1, AckedAreInLog
<1>5. Spec => []ShortcutAgrees
  BY <1>1, ShortcutIsSound
<1>6. Spec => DurableStays
  BY <1>1, DiskStays
<1> QED BY <1>2, <1>3, <1>4, <1>5, <1>6

=============================================================================
