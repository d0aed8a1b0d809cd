--------------------------- MODULE DiffEditProofs ---------------------------
(***************************************************************************)
(* apply_file, for every file and every edit: where its sections are       *)
(* found, what each loop returns, what is written, and what the swapped    *)
(* edit makes of that.                                                     *)
(***************************************************************************)
EXTENDS DiffEdit, RecursionProofs, SequenceTheorems, FiniteSetTheorems

-----------------------------------------------------------------------------
(* Searching. *)

\* The places of a word behind an offset.
Places(hay, needle, from) == {p \in from .. Len(hay) : OccursAt(hay, needle, p)}

LEMMA FindIs ==
  ASSUME NEW hay \in Seq(Bytes), NEW needle \in Seq(Bytes), NEW from \in Nat
  PROVE  /\ needle = << >> \/ Places(hay, needle, from) = {} => Find(hay, needle, from) = None
         /\ needle # << >> /\ Places(hay, needle, from) # {} =>
              /\ Find(hay, needle, from) \in Places(hay, needle, from)
              /\ \A q \in Places(hay, needle, from) : Find(hay, needle, from) <= q
<1> DEFINE found == {p \in from .. Len(hay) - Len(needle) : OccursAt(hay, needle, p)}
<1>1. Len(hay) \in Nat /\ Len(needle) \in Nat
  OBVIOUS
<1>2. found = Places(hay, needle, from)
  BY <1>1 DEF Places, OccursAt
<1>3. Find(hay, needle, from) =
        IF needle = << >> \/ found = {} THEN None
        ELSE CHOOSE p \in found : \A q \in found : p <= q
  BY DEF Find
<1>4. found \in SUBSET Nat
  OBVIOUS
<1> HIDE DEF found
<1>5. ASSUME found # {}
      PROVE  \E p \in found : \A q \in found : p <= q
  BY <1>4, <1>5, LeastOffset
<1> QED BY <1>2, <1>3, <1>5

\* The errors of a section that cannot be placed.
Unplaced == {"EmptySearch", "PatternNotFound", "PatternAmbiguous"}

\* The only place of a section behind an offset.
IsPlace(bytes, section, cursor, p) ==
  Search(section) # << >> /\ Places(bytes, Search(section), cursor) = {p}

\* A section is found where it is to be placed, or not at all.
LEMMA SectionPlaced ==
  ASSUME NEW bytes \in Seq(Bytes), NEW section, Search(section) \in Seq(Bytes), NEW cursor \in Nat
  PROVE  \/ \E p \in cursor .. Len(bytes) :
              FindSection(bytes, section, cursor) = Ok(p) /\ IsPlace(bytes, section, cursor, p)
         \/ /\ \E why \in Unplaced : FindSection(bytes, section, cursor) = Error(why)
            /\ \A p : ~IsPlace(bytes, section, cursor, p)
<1> DEFINE search == Search(section)
           first  == Find(bytes, search, cursor)
           again  == Find(bytes, search, first + 1)
<1>1. Len(bytes) \in Nat
  OBVIOUS
<1>2. CASE search = << >>
  BY <1>2 DEF FindSection, Unplaced, IsPlace
<1>3. CASE search # << >> /\ Places(bytes, search, cursor) = {}
  <2>1. first = None
    BY <1>3, FindIs
  <2> QED BY <1>3, <2>1 DEF FindSection, Unplaced, IsPlace
<1>4. CASE search # << >> /\ Places(bytes, search, cursor) # {}
  <2>1. /\ first \in Places(bytes, search, cursor)
        /\ \A q \in Places(bytes, search, cursor) : first <= q
    BY <1>4, FindIs
  <2>2. first \in cursor .. Len(bytes) /\ first + 1 \in Nat /\ first # None
    BY <1>1, <2>1 DEF Places, None
  <2> HIDE DEF first
  <2>3. Places(bytes, search, first + 1) = Places(bytes, search, cursor) \ {first}
    <3>1. \A q \in cursor .. Len(bytes) :
            (q \in first + 1 .. Len(bytes)) <=> (first <= q /\ q # first)
      BY <1>1, <2>2
    <3>2. \A q \in first + 1 .. Len(bytes) : q \in cursor .. Len(bytes)
      BY <1>1, <2>2
    <3> QED BY <2>1, <3>1, <3>2 DEF Places
  <2>4. CASE Places(bytes, search, first + 1) = {}
    <3>1. again = None /\ Places(bytes, search, cursor) = {first}
      BY <2>1, <2>2, <2>3, <2>4, FindIs
    <3>2. FindSection(bytes, section, cursor) = Ok(first)
      BY <1>4, <2>2, <3>1 DEF FindSection, first
    <3> QED BY <1>4, <2>2, <3>1, <3>2 DEF IsPlace
  <2>5. CASE Places(bytes, search, first + 1) # {}
    <3>1. again # None
      <4>1. again \in Places(bytes, search, first + 1)
        BY <1>4, <2>2, <2>5, FindIs
      <4> QED BY <1>1, <2>2, <4>1 DEF Places, None
    <3>2. FindSection(bytes, section, cursor) = Error("PatternAmbiguous")
      BY <1>4, <2>2, <3>1 DEF FindSection, first
    <3>3. \A p : Places(bytes, search, cursor) # {p}
      BY <2>1, <2>3, <2>5
    <3> QED BY <3>2, <3>3 DEF IsPlace, Unplaced
  <2> QED BY <2>4, <2>5
<1> QED BY <1>2, <1>3, <1>4

-----------------------------------------------------------------------------
(* What a section searches for and writes. *)

LEMMA FlattenTyped ==
  ASSUME NEW s \in Seq(Seq(Bytes))
  PROVE  FlattenSeq(s) \in Seq(Bytes)
<1>1. Len(s) \in Nat /\ \A i \in 1 .. Len(s) : s[i] \in Seq(Bytes)
  OBVIOUS
<1>2. CASE Len(s) = 0
  <2>1. FlattenSeq(s) = s
    BY <1>2 DEF FlattenSeq
  <2>2. s = << >>
    BY <1>2
  <2> QED BY <2>1, <2>2
<1>3. CASE Len(s) # 0
  <2>1. PICK u : /\ FlattenSeq(s) = u[Len(s)] /\ u[1] = s[1]
                 /\ \A i \in 2 .. Len(s) : u[i] = u[i - 1] \o s[i]
    BY <1>1, <1>3, FlattenUnfolds
  <2> DEFINE G == {k \in 0 .. Len(s) : k = 0 \/ u[k] \in Seq(Bytes)}
  <2>2. 0 \in G
    BY <1>1
  <2>3. ASSUME NEW k \in 1 .. Len(s), k - 1 \in G
        PROVE  k \in G
    <3>1. CASE k = 1
      BY <1>1, <2>1, <3>1
    <3>2. CASE k # 1
      <4>1. k \in 2 .. Len(s) /\ u[k - 1] \in Seq(Bytes) /\ s[k] \in Seq(Bytes)
        BY <1>1, <2>3, <3>2
      <4>2. u[k] = u[k - 1] \o s[k]
        BY <2>1, <4>1
      <4>3. u[k - 1] \o s[k] \in Seq(Bytes)
        BY <4>1, ConcatProperties
      <4>4. u[k] \in Seq(Bytes) /\ k \in 0 .. Len(s)
        BY <1>1, <4>1, <4>2, <4>3
      <4> QED BY <4>4
    <3> QED BY <3>1, <3>2
  <2> HIDE DEF G
  <2>4. Len(s) \in G
    <3>1. \A i \in 0 .. Len(s) : i \in G
      BY <1>1, <2>2, <2>3, UpTo
    <3> QED BY <1>1, <3>1
  <2>5. u[Len(s)] \in Seq(Bytes)
    BY <1>3, <2>4 DEF G
  <2> QED BY <2>1, <2>5
<1> QED BY <1>2, <1>3

LEMMA SectionTyped ==
  ASSUME NEW section \in Section
  PROVE  Search(section) \in Seq(Bytes) /\ Replacement(section) \in Seq(Bytes)
<1> DEFINE us == section.units
           olds == [i \in DOMAIN us |-> us[i].old]
           news == [i \in DOMAIN us |-> us[i].new]
<1>1. us \in Seq(Change)
  BY DEF Section
<1>2. Search(section) = FlattenSeq(olds) /\ Replacement(section) = FlattenSeq(news)
  BY DEF Search, Replacement
<1> HIDE DEF us
<1>3. DOMAIN us = 1 .. Len(us) /\ Len(us) \in Nat /\ \A i \in 1 .. Len(us) : us[i] \in Change
  BY <1>1
<1>4. \A i \in 1 .. Len(us) : us[i].old \in Seq(Bytes) /\ us[i].new \in Seq(Bytes)
  BY <1>3 DEF Change
<1>5. olds \in Seq(Seq(Bytes)) /\ news \in Seq(Seq(Bytes))
  BY <1>3, <1>4
<1> HIDE DEF olds, news
<1> QED BY <1>2, <1>5, FlattenTyped

-----------------------------------------------------------------------------
(* The matches of the sections. *)

Cursor(sections, v, i) == IF i = 1 THEN 0 ELSE MatchEnd(sections[i - 1], v[i - 1])

Extended(bytes, sections, i, r) ==
  IF ~r.ok THEN r
  ELSE LET cursor == IF i = 1 THEN 0
                     ELSE MatchEnd(sections[i - 1], r.data[i - 1])
           found  == FindSection(bytes, sections[i], cursor)
       IN  IF found.ok THEN Ok(Append(r.data, found.data)) ELSE found

LEMMA MatchesUnfold ==
  ASSUME NEW bytes, NEW sections, Len(sections) \in Nat
  PROVE  \E u : /\ Matches(bytes, sections) = u[Len(sections)]
                /\ u[0] = Ok(<< >>)
                /\ \A i \in 1 .. Len(sections) : u[i] = Extended(bytes, sections, i, u[i - 1])
<1> DEFINE n == Len(sections)
           Body(f, k) == [i \in 0 .. k |-> IF i = 0 THEN Ok(<< >>)
                                           ELSE Extended(bytes, sections, i, f[i - 1])]
           G == {k \in 0 .. n : \E f : f = Body(f, k)}
           u == CHOOSE f : f = Body(f, n)
<1>1. Matches(bytes, sections) = u[n]
  BY DEF Matches, Extended
<1>2. 0 \in G
  <2> DEFINE f == [i \in 0 .. 0 |-> Ok(<< >>)]
  <2>1. f = Body(f, 0)
    OBVIOUS
  <2> HIDE DEF f, Body
  <2> QED BY <2>1
<1>3. ASSUME NEW k \in 1 .. n, k - 1 \in G
      PROVE  k \in G
  <2>1. PICK f : f = Body(f, k - 1)
    BY <1>3
  <2> DEFINE g == [i \in 0 .. k |-> IF i < k THEN f[i] ELSE Extended(bytes, sections, k, f[k - 1])]
  <2>2. ASSUME NEW i \in 0 .. k
        PROVE  g[i] = IF i = 0 THEN Ok(<< >>) ELSE Extended(bytes, sections, i, g[i - 1])
    <3>1. i # 0 => g[i - 1] = f[i - 1]
      OBVIOUS
    <3>2. CASE i < k
      <4>1. g[i] = f[i] /\ i \in 0 .. k - 1
        BY <3>2
      <4>2. f[i] = IF i = 0 THEN Ok(<< >>) ELSE Extended(bytes, sections, i, f[i - 1])
        BY <2>1, <4>1
      <4> QED BY <3>1, <4>1, <4>2
    <3>3. CASE ~(i < k)
      <4>1. g[i] = Extended(bytes, sections, i, f[i - 1]) /\ i # 0
        BY <3>3
      <4> QED BY <3>1, <4>1
    <3> QED BY <3>2, <3>3
  <2>3. g = Body(g, k)
    <3>1. g = [i \in 0 .. k |-> g[i]]
      OBVIOUS
    <3> HIDE DEF g
    <3> QED BY <2>2, <3>1
  <2> HIDE DEF Body, g
  <2> QED BY <2>3
<1>4. u = Body(u, n)
  <2>1. n \in G
    <3> HIDE DEF G
    <3>1. \A i \in 0 .. n : i \in G
      BY <1>2, <1>3, UpTo
    <3> QED BY <3>1
  <2> HIDE DEF Body
  <2> QED BY <2>1
<1> HIDE DEF u
<1>5. \A i \in 0 .. n : u[i] = IF i = 0 THEN Ok(<< >>) ELSE Extended(bytes, sections, i, u[i - 1])
  BY <1>4
<1>6. 0 \in 0 .. n /\ \A i \in 1 .. n : i \in 0 .. n /\ i # 0
  OBVIOUS
<1> QED BY <1>1, <1>5, <1>6

\* The vectors of places of the first k sections.
Vectors(bytes, sections, k) ==
  {v \in [1 .. k -> 0 .. Len(bytes)] :
     \A i \in 1 .. k : IsPlace(bytes, sections[i], Cursor(sections, v, i), v[i])}

LEMMA VectorsShorten ==
  ASSUME NEW bytes, NEW sections, NEW k \in Nat, k # 0, NEW w \in Vectors(bytes, sections, k)
  PROVE  [i \in 1 .. k - 1 |-> w[i]] \in Vectors(bytes, sections, k - 1)
<1> DEFINE v == [i \in 1 .. k - 1 |-> w[i]]
<1>1. w \in [1 .. k -> 0 .. Len(bytes)]
  BY DEF Vectors
<1>2. v \in [1 .. k - 1 -> 0 .. Len(bytes)]
  BY <1>1
<1>3. ASSUME NEW i \in 1 .. k - 1
      PROVE  IsPlace(bytes, sections[i], Cursor(sections, v, i), v[i])
  <2>1. i \in 1 .. k /\ v[i] = w[i] /\ (i # 1 => v[i - 1] = w[i - 1])
    OBVIOUS
  <2>2. IsPlace(bytes, sections[i], Cursor(sections, w, i), w[i])
    BY <2>1 DEF Vectors
  <2> QED BY <2>1, <2>2 DEF Cursor
<1> HIDE DEF v
<1>4. v \in Vectors(bytes, sections, k - 1)
  BY <1>2, <1>3 DEF Vectors
<1> QED BY <1>4 DEF v

\* What the first k sections come to: their only places, or an error.
Placed(bytes, sections, k, r) ==
  \/ \E v : r = Ok(v) /\ Vectors(bytes, sections, k) = {v}
  \/ (\E why \in Unplaced : r = Error(why)) /\ Vectors(bytes, sections, k) = {}

LEMMA PlacedNext ==
  ASSUME NEW bytes \in Seq(Bytes), NEW sections \in Seq(Section), NEW k \in 1 .. Len(sections),
         NEW r, Placed(bytes, sections, k - 1, r)
  PROVE  Placed(bytes, sections, k, Extended(bytes, sections, k, r))
<1>1. k \in Nat /\ k # 0 /\ Len(bytes) \in Nat /\ sections[k] \in Section
  OBVIOUS
<1>2. CASE Vectors(bytes, sections, k - 1) = {}
  <2>1. PICK why \in Unplaced : r = Error(why)
    BY <1>2 DEF Placed
  <2>2. Extended(bytes, sections, k, r) = r
    BY <2>1 DEF Extended, Error
  <2>3. Vectors(bytes, sections, k) = {}
    BY <1>1, <1>2, VectorsShorten
  <2> QED BY <2>1, <2>2, <2>3 DEF Placed
<1>3. CASE Vectors(bytes, sections, k - 1) # {}
  <2>1. PICK v : r = Ok(v) /\ Vectors(bytes, sections, k - 1) = {v}
    BY <1>3 DEF Placed
  <2>2. v \in [1 .. k - 1 -> 0 .. Len(bytes)]
    BY <2>1 DEF Vectors
  <2> DEFINE cursor == Cursor(sections, v, k)
             found == FindSection(bytes, sections[k], cursor)
  <2>3. cursor \in Nat
    <3>1. CASE k = 1
      BY <3>1 DEF Cursor
    <3>2. CASE k # 1
      <4>1. sections[k - 1] \in Section /\ v[k - 1] \in Nat
        BY <1>1, <2>2, <3>2
      <4>2. Len(Search(sections[k - 1])) \in Nat
        BY <4>1, SectionTyped
      <4> QED BY <3>2, <4>1, <4>2 DEF Cursor, MatchEnd
    <3> QED BY <3>1, <3>2
  <2>4. Extended(bytes, sections, k, r) = IF found.ok THEN Ok(Append(v, found.data)) ELSE found
    BY <2>1 DEF Extended, Ok, Cursor
  <2>5. Search(sections[k]) \in Seq(Bytes)
    BY <1>1, SectionTyped
  <2>6. ASSUME NEW w \in Vectors(bytes, sections, k)
        PROVE  /\ \A i \in 1 .. k - 1 : w[i] = v[i]
               /\ IsPlace(bytes, sections[k], cursor, w[k])
               /\ w \in [1 .. k -> 0 .. Len(bytes)]
    <3>1. [i \in 1 .. k - 1 |-> w[i]] = v
      BY <1>1, <2>1, VectorsShorten
    <3>2. \A i \in 1 .. k - 1 : w[i] = v[i]
      BY <3>1
    <3>3. Cursor(sections, w, k) = cursor
      BY <3>2 DEF Cursor
    <3>4. IsPlace(bytes, sections[k], Cursor(sections, w, k), w[k])
      BY DEF Vectors
    <3>5. w \in [1 .. k -> 0 .. Len(bytes)]
      BY DEF Vectors
    <3> QED BY <3>2, <3>3, <3>4, <3>5
  <2>7. CASE \E p \in cursor .. Len(bytes) :
               found = Ok(p) /\ IsPlace(bytes, sections[k], cursor, p)
    <3>1. PICK p \in cursor .. Len(bytes) :
            found = Ok(p) /\ IsPlace(bytes, sections[k], cursor, p)
      BY <2>7
    <3> DEFINE x == Append(v, p)
    <3>2. p \in 0 .. Len(bytes)
      BY <1>1, <2>3, <3>1
    <3>3. x \in [1 .. k -> 0 .. Len(bytes)] /\ x[k] = p /\ \A i \in 1 .. k - 1 : x[i] = v[i]
      <4>1. v \in Seq(0 .. Len(bytes)) /\ Len(v) = k - 1
        <5>1. PICK m \in Nat : m = k - 1
          BY <1>1
        <5>2. v \in [1 .. m -> 0 .. Len(bytes)]
          BY <2>2, <5>1
        <5>3. v \in Seq(0 .. Len(bytes)) /\ Len(v) = m
          BY <5>2
        <5> QED BY <5>1, <5>3
      <4>2. /\ x \in Seq(0 .. Len(bytes)) /\ Len(x) = k /\ x[k] = p
            /\ \A i \in 1 .. k - 1 : x[i] = v[i]
        BY <3>2, <4>1, AppendProperties
      <4> HIDE DEF x
      <4> QED BY <4>2
    <3>4. Extended(bytes, sections, k, r) = Ok(x)
      BY <2>4, <3>1 DEF Ok
    <3> HIDE DEF x
    <3>5. x \in Vectors(bytes, sections, k)
      <4>1. ASSUME NEW i \in 1 .. k
            PROVE  IsPlace(bytes, sections[i], Cursor(sections, x, i), x[i])
        <5>1. CASE i = k
          <6>1. Cursor(sections, x, k) = cursor
            BY <3>3 DEF Cursor
          <6> QED BY <3>1, <3>3, <5>1, <6>1
        <5>2. CASE i # k
          <6>1. i \in 1 .. k - 1 /\ (i # 1 => i - 1 \in 1 .. k - 1)
            BY <5>2
          <6>2. Cursor(sections, x, i) = Cursor(sections, v, i) /\ x[i] = v[i]
            BY <3>3, <6>1 DEF Cursor
          <6>3. IsPlace(bytes, sections[i], Cursor(sections, v, i), v[i])
            BY <2>1, <6>1 DEF Vectors
          <6> QED BY <6>2, <6>3
        <5> QED BY <5>1, <5>2
      <4> QED BY <3>3, <4>1 DEF Vectors
    <3>6. ASSUME NEW w \in Vectors(bytes, sections, k)
          PROVE  w = x
      <4>1. w[k] = p
        BY <2>6, <3>1 DEF IsPlace
      <4>2. \A i \in 1 .. k : w[i] = x[i]
        <5> SUFFICES ASSUME NEW i \in 1 .. k PROVE w[i] = x[i]
          OBVIOUS
        <5>1. i = k \/ i \in 1 .. k - 1
          OBVIOUS
        <5> QED BY <2>6, <3>3, <4>1, <5>1
      <4> QED BY <2>6, <3>3, <4>2
    <3>7. Vectors(bytes, sections, k) = {x}
      BY <3>5, <3>6
    <3> QED BY <3>4, <3>7 DEF Placed
  <2>8. CASE /\ \E why \in Unplaced : found = Error(why)
             /\ \A p : ~IsPlace(bytes, sections[k], cursor, p)
    <3>1. PICK why \in Unplaced : found = Error(why)
      BY <2>8
    <3>2. Extended(bytes, sections, k, r) = Error(why)
      BY <2>4, <3>1 DEF Error
    <3>3. Vectors(bytes, sections, k) = {}
      BY <2>6, <2>8
    <3> QED BY <3>2, <3>3 DEF Placed
  <2> HIDE DEF cursor, found
  <2>9. \/ \E p \in cursor .. Len(bytes) :
             found = Ok(p) /\ IsPlace(bytes, sections[k], cursor, p)
        \/ /\ \E why \in Unplaced : found = Error(why)
           /\ \A p : ~IsPlace(bytes, sections[k], cursor, p)
    BY <2>3, <2>5, SectionPlaced DEF found
  <2> QED BY <2>7, <2>8, <2>9
<1> QED BY <1>2, <1>3

LEMMA MatchesPlaced ==
  ASSUME NEW bytes \in Seq(Bytes), NEW sections \in Seq(Section)
  PROVE  Placed(bytes, sections, Len(sections), Matches(bytes, sections))
<1>1. Len(sections) \in Nat
  OBVIOUS
<1>2. PICK u : /\ Matches(bytes, sections) = u[Len(sections)]
               /\ u[0] = Ok(<< >>)
               /\ \A i \in 1 .. Len(sections) : u[i] = Extended(bytes, sections, i, u[i - 1])
  BY <1>1, MatchesUnfold
<1> DEFINE G == {k \in 0 .. Len(sections) : Placed(bytes, sections, k, u[k])}
<1>3. 0 \in G
  <2>1. Vectors(bytes, sections, 0) = {<< >>}
    <3>1. 1 .. 0 = {}
      OBVIOUS
    <3>2. << >> \in [1 .. 0 -> 0 .. Len(bytes)]
      BY <3>1
    <3>3. ASSUME NEW v \in [1 .. 0 -> 0 .. Len(bytes)]
          PROVE  v = << >>
      <4>1. v \in Seq(0 .. Len(bytes)) /\ Len(v) = 0
        OBVIOUS
      <4> QED BY <4>1, EmptySeq
    <3> QED BY <3>1, <3>2, <3>3 DEF Vectors
  <2>2. Placed(bytes, sections, 0, u[0])
    BY <1>2, <2>1 DEF Placed
  <2> QED BY <1>1, <2>2
<1>4. ASSUME NEW k \in 1 .. Len(sections), k - 1 \in G
      PROVE  k \in G
  <2>1. Placed(bytes, sections, k - 1, u[k - 1])
    BY <1>4
  <2>2. Placed(bytes, sections, k, u[k])
    BY <1>2, <2>1, PlacedNext
  <2> QED BY <1>1, <2>2
<1>5. Len(sections) \in G
  <2> HIDE DEF G
  <2>1. \A i \in 0 .. Len(sections) : i \in G
    BY <1>1, <1>3, <1>4, UpTo
  <2> QED BY <1>1, <2>1
<1> QED BY <1>2, <1>5

-----------------------------------------------------------------------------
(* The replace-alls. *)

\* What a scope can come to.
Replaced == {Ok(s) : s \in Seq(Bytes)} \cup {Error("ReplaceAllNothing")}

LEMMA PartTyped ==
  ASSUME NEW s \in Seq(Bytes), NEW from \in Nat, NEW to \in 0 .. Len(s)
  PROVE  SubSeq(s, from + 1, to) \in Seq(Bytes)
<1>1. Len(s) \in Nat /\ to \in Nat
  OBVIOUS
<1>2. CASE from + 1 <= to
  <2>1. from + 1 \in 1 .. Len(s) /\ to \in 1 .. Len(s)
    BY <1>1, <1>2
  <2>2. \A i \in from + 1 .. to : s[i] \in Bytes
    BY <2>1
  <2> QED BY <2>1, <2>2, SubSeqProperties
<1>3. CASE ~(from + 1 <= to)
  BY <1>1, <1>3, SubSeqProperties
<1> QED BY <1>2, <1>3

LEMMA ReplaceOneTyped ==
  ASSUME NEW segment \in Seq(Bytes), NEW r \in Change
  PROVE  ReplaceOne(segment, r) \in Replaced
<1> DEFINE n == Len(segment)
           old == r.old
           new == r.new
           at(pos) == Find(segment, old, pos)
           Step(f, pos) ==
             IF at(pos) = None THEN SubSeq(segment, pos + 1, n)
             ELSE SubSeq(segment, pos + 1, at(pos)) \o new \o f[at(pos) + Len(old)]
           Body(f, k) == [pos \in k .. n |-> Step(f, pos)]
           G == {k \in 0 .. n + 1 : \E f \in [n + 1 - k .. n -> Seq(Bytes)] : f = Body(f, n + 1 - k)}
           from == CHOOSE f : f = Body(f, 0)
<1>1. n \in Nat /\ old \in Seq(Bytes) /\ new \in Seq(Bytes) /\ Len(old) \in Nat
  BY DEF Change
<1>2. ReplaceOne(segment, r) = IF at(0) = None THEN Error("ReplaceAllNothing") ELSE Ok(from[0])
  BY DEF ReplaceOne
<1> HIDE DEF from
<1>3. ASSUME NEW pos \in 0 .. n, at(pos) # None
      PROVE  at(pos) \in 0 .. n /\ at(pos) + Len(old) \in pos + 1 .. n
  <2>1. pos \in Nat
    BY <1>1
  <2>2. old # << >> /\ at(pos) \in Places(segment, old, pos)
    BY <1>1, <1>3, <2>1, FindIs
  <2>3. Len(old) # 0
    BY <1>1, <2>2, EmptySeq
  <2>4. at(pos) \in pos .. n /\ at(pos) + Len(old) <= n
    BY <2>2 DEF Places, OccursAt
  <2> HIDE DEF n, old, at
  <2> QED BY <1>1, <2>1, <2>3, <2>4
<1> HIDE DEF n, old, new, at
<1>4. ASSUME NEW pos \in 0 .. n, NEW f, \A q \in pos + 1 .. n : f[q] \in Seq(Bytes)
      PROVE  Step(f, pos) \in Seq(Bytes)
  <2>1. pos \in Nat /\ n \in 0 .. Len(segment)
    BY <1>1 DEF n
  <2>2. SubSeq(segment, pos + 1, n) \in Seq(Bytes)
    BY <2>1, PartTyped
  <2>3. CASE at(pos) # None
    <3>1. at(pos) \in 0 .. Len(segment) /\ f[at(pos) + Len(old)] \in Seq(Bytes)
      BY <1>3, <1>4, <2>3 DEF n
    <3>2. SubSeq(segment, pos + 1, at(pos)) \in Seq(Bytes)
      BY <2>1, <3>1, PartTyped
    <3> QED BY <1>1, <2>3, <3>1, <3>2, ConcatProperties
  <2> QED BY <2>2, <2>3
<1>5. 0 \in G
  <2> DEFINE f == [pos \in n + 1 .. n |-> << >>]
  <2>1. n + 1 .. n = {} /\ n + 1 - 0 = n + 1
    BY <1>1
  <2>2. f \in [n + 1 .. n -> Seq(Bytes)] /\ f = Body(f, n + 1)
    BY <2>1
  <2> HIDE DEF f, Body
  <2> QED BY <1>1, <2>1, <2>2
<1>6. ASSUME NEW k \in 1 .. n + 1, k - 1 \in G
      PROVE  k \in G
  <2>1. PICK a \in 0 .. n : a = n + 1 - k /\ n + 1 - (k - 1) = a + 1
    BY <1>1
  <2>2. PICK f \in [a + 1 .. n -> Seq(Bytes)] : f = Body(f, a + 1)
    <3> HIDE DEF Body
    <3> QED BY <1>6, <2>1
  <2> DEFINE g == [pos \in a .. n |-> IF pos = a THEN Step(f, a) ELSE f[pos]]
  <2>3. Step(f, a) \in Seq(Bytes)
    BY <1>4, <2>1, <2>2
  <2>4. g \in [a .. n -> Seq(Bytes)] /\ \A q \in a + 1 .. n : g[q] = f[q]
    <3> HIDE DEF Step
    <3>1. \A q \in a .. n : q = a \/ q \in a + 1 .. n
      BY <1>1, <2>1
    <3>2. \A q \in a + 1 .. n : q \in a .. n /\ q # a
      BY <1>1, <2>1
    <3>3. \A q \in a + 1 .. n : g[q] = f[q]
      BY <3>2
    <3>4. \A q \in a .. n : (IF q = a THEN Step(f, a) ELSE f[q]) \in Seq(Bytes)
      BY <2>2, <2>3, <3>1
    <3> HIDE DEF Body
    <3>5. g \in [a .. n -> Seq(Bytes)]
      BY <3>4
    <3> QED BY <3>3, <3>5
  <2>5. ASSUME NEW pos \in a .. n
        PROVE  g[pos] = Step(g, pos)
    <3>1. at(pos) # None => at(pos) + Len(old) \in a + 1 .. n
      <4>1. pos \in 0 .. n
        BY <1>1, <2>1
      <4>2. pos + 1 .. n \subseteq a + 1 .. n
        BY <1>1, <2>1
      <4> QED BY <1>3, <4>1, <4>2
    <3>2. Step(g, pos) = Step(f, pos)
      <4> HIDE DEF g
      <4> QED BY <2>4, <3>1
    <3>3. CASE pos = a
      <4> HIDE DEF Step
      <4> QED BY <3>2, <3>3
    <3>4. CASE pos # a
      <4>1. pos \in a + 1 .. n
        BY <1>1, <2>1, <3>4
      <4>2. f[pos] = Step(f, pos)
        <5> HIDE DEF Step
        <5> QED BY <2>2, <4>1
      <4> HIDE DEF Step, g
      <4> QED BY <2>4, <3>2, <4>1, <4>2
    <3> QED BY <3>3, <3>4
  <2>6. g = Body(g, a)
    <3>1. g = [pos \in a .. n |-> g[pos]]
      OBVIOUS
    <3> HIDE DEF g, Step
    <3> QED BY <2>5, <3>1
  <2> HIDE DEF Body, g
  <2> QED BY <2>1, <2>4, <2>6
<1>7. PICK f \in [0 .. n -> Seq(Bytes)] : f = Body(f, 0)
  <2>1. n + 1 \in G
    <3> HIDE DEF G
    <3>1. n + 1 \in Nat /\ n + 1 \in 0 .. n + 1
      BY <1>1
    <3>2. \A i \in 0 .. n + 1 : i \in G
      BY <1>5, <1>6, <3>1, UpTo
    <3> QED BY <3>1, <3>2
  <2>2. n + 1 - (n + 1) = 0
    BY <1>1
  <2> HIDE DEF Body
  <2> QED BY <2>1, <2>2
<1>8. from = Body(from, 0)
  <2> HIDE DEF Body
  <2> QED BY <1>7 DEF from
<1>9. ASSUME NEW g, g = Body(g, 0)
      PROVE  g[0] \in Seq(Bytes)
  <2> DEFINE H == {k \in 0 .. n + 1 : \A q \in n + 1 - k .. n : g[q] \in Seq(Bytes)}
  <2>1. 0 \in H
    <3>1. n + 1 - 0 .. n = {}
      BY <1>1
    <3> QED BY <1>1, <3>1
  <2>2. ASSUME NEW k \in 1 .. n + 1, k - 1 \in H
        PROVE  k \in H
    <3>1. PICK a \in 0 .. n : a = n + 1 - k /\ n + 1 - (k - 1) = a + 1
      BY <1>1
    <3>2. \A q \in a + 1 .. n : g[q] \in Seq(Bytes)
      BY <2>2, <3>1
    <3>3. Step(g, a) \in Seq(Bytes)
      BY <1>4, <3>2
    <3>4. g[a] = Step(g, a)
      <4> HIDE DEF Step
      <4> QED BY <1>9
    <3>5. \A q \in a .. n : q = a \/ q \in a + 1 .. n
      BY <1>1, <3>1
    <3> HIDE DEF Step
    <3>6. \A q \in n + 1 - k .. n : g[q] \in Seq(Bytes)
      BY <3>1, <3>2, <3>3, <3>4, <3>5
    <3> QED BY <1>1, <3>6
  <2>3. n + 1 \in H
    <3> HIDE DEF H
    <3>1. n + 1 \in Nat /\ n + 1 \in 0 .. n + 1
      BY <1>1
    <3>2. \A i \in 0 .. n + 1 : i \in H
      BY <2>1, <2>2, <3>1, UpTo
    <3> QED BY <3>1, <3>2
  <2>4. n + 1 - (n + 1) = 0 /\ 0 \in 0 .. n
    BY <1>1
  <2> QED BY <2>3, <2>4
<1>10. from[0] \in Seq(Bytes)
  <2> HIDE DEF Body
  <2> QED BY <1>8, <1>9
<1> QED BY <1>2, <1>10 DEF Replaced

LEMMA ReplaceAllsTyped ==
  ASSUME NEW segment \in Seq(Bytes), NEW replaces \in Seq(Change)
  PROVE  /\ ReplaceAlls(segment, replaces) \in Replaced
         /\ replaces = << >> => ReplaceAlls(segment, replaces) = Ok(segment)
<1> DEFINE m == Len(replaces)
           One(i, r) == IF r.ok THEN ReplaceOne(r.data, replaces[i]) ELSE r
           step == [x \in (1 .. m) \X Replaced |-> One(x[1], x[2])]
           Body(f) == [i \in 0 .. m |-> IF i = 0 THEN Ok(segment)
                                        ELSE IF f[i - 1].ok THEN ReplaceOne(f[i - 1].data, replaces[i])
                                        ELSE f[i - 1]]
           after == CHOOSE f : f = Body(f)
<1>1. ReplaceAlls(segment, replaces) = after[m]
  BY DEF ReplaceAlls
<1>2. m \in Nat /\ (replaces = << >> => m = 0)
  OBVIOUS
<1>3. ASSUME NEW i \in 1 .. m, NEW r \in Replaced
      PROVE  One(i, r) \in Replaced
  <2>1. CASE r.ok
    <3>1. r.data \in Seq(Bytes) /\ replaces[i] \in Change
      BY <2>1 DEF Replaced, Ok, Error
    <3> QED BY <2>1, <3>1, ReplaceOneTyped
  <2>2. CASE ~r.ok
    BY <2>2
  <2> QED BY <2>1, <2>2
<1>4. Ok(segment) \in Replaced
  BY DEF Replaced
<1>5. step \in [(1 .. m) \X Replaced -> Replaced]
  <2> HIDE DEF One, m
  <2>1. \A x \in (1 .. m) \X Replaced : One(x[1], x[2]) \in Replaced
    BY <1>3
  <2> QED BY <2>1
<1>6. PICK g : Steps(g, m, Replaced, Ok(segment), step)
  <2> HIDE DEF step, m
  <2> QED BY <1>2, <1>4, <1>5, StepByStep
<1>7. g = Body(g)
  <2>1. g = [i \in 0 .. m |-> g[i]] /\ g[0] = Ok(segment)
    BY <1>6 DEF Steps
  <2>2. ASSUME NEW i \in 1 .. m
        PROVE  g[i] = One(i, g[i - 1])
    <3>1. i - 1 \in 0 .. m /\ g \in [0 .. m -> Replaced]
      BY <1>2, <1>6 DEF Steps
    <3>2. g[i] = step[<<i, g[i - 1]>>] /\ <<i, g[i - 1]>> \in (1 .. m) \X Replaced
      BY <1>6, <3>1 DEF Steps
    <3> HIDE DEF One
    <3> QED BY <3>2
  <2>3. \A i \in 0 .. m : i = 0 \/ i \in 1 .. m
    BY <1>2
  <2> HIDE DEF m
  <2> QED BY <2>1, <2>2, <2>3
<1>8. after = Body(after)
  <2> HIDE DEF Body
  <2> QED BY <1>7
<1> HIDE DEF after
<1> DEFINE H == {i \in 0 .. m : after[i] \in Replaced}
<1>9. after[0] = Ok(segment) /\ \A i \in 1 .. m : after[i] = One(i, after[i - 1])
  <2> HIDE DEF m
  <2>1. 0 \in 0 .. m /\ \A i \in 1 .. m : i \in 0 .. m /\ i # 0
    BY <1>2
  <2> QED BY <1>8, <2>1
<1>10. 0 \in H
  BY <1>2, <1>4, <1>9
<1>11. ASSUME NEW k \in 1 .. m, k - 1 \in H
       PROVE  k \in H
  <2> HIDE DEF One, m
  <2> QED BY <1>2, <1>3, <1>9, <1>11
<1>12. m \in H
  <2> HIDE DEF H, m
  <2>1. \A i \in 0 .. m : i \in H
    BY <1>2, <1>10, <1>11, UpTo
  <2> QED BY <1>2, <2>1
<1> QED BY <1>1, <1>2, <1>9, <1>12

-----------------------------------------------------------------------------
(* What is written. *)

NextStart(bytes, starts, i) == IF i < Len(starts) THEN starts[i + 1] ELSE Len(bytes)

Scope(bytes, file_edit, starts, i) ==
  IF i = 0 THEN ReplaceAlls(SubSeq(bytes, 1, NextStart(bytes, starts, 0)), file_edit.leading)
  ELSE LET section == file_edit.sections[i]
       IN  ReplaceAlls(SubSeq(bytes, MatchEnd(section, starts[i]) + 1, NextStart(bytes, starts, i)),
                       section.replaces)

Repl(file_edit, i) == IF i = 0 THEN << >> ELSE Replacement(file_edit.sections[i])

\* One stage of the output.
Stage(bytes, file_edit, starts, i, done) ==
  CASE ~done.ok -> done
    [] done.ok /\ ~Scope(bytes, file_edit, starts, i).ok -> Scope(bytes, file_edit, starts, i)
    [] OTHER -> Ok(done.data \o Repl(file_edit, i) \o Scope(bytes, file_edit, starts, i).data)

LEMMA SpliceUnfolds ==
  ASSUME NEW bytes \in Seq(Bytes), NEW file_edit \in FileEdit,
         NEW starts \in Vectors(bytes, file_edit.sections, Len(file_edit.sections))
  PROVE  \E u \in [0 .. Len(starts) -> Replaced] :
           /\ Splice(bytes, file_edit, starts) = u[Len(starts)]
           /\ u[0] = Stage(bytes, file_edit, starts, 0, Ok(<< >>))
           /\ \A i \in 1 .. Len(starts) : u[i] = Stage(bytes, file_edit, starts, i, u[i - 1])
<1> DEFINE n == Len(starts)
           St(i, done) == Stage(bytes, file_edit, starts, i, done)
           Body(f) == [i \in 0 .. n |-> IF i = 0 THEN St(0, Ok(<< >>)) ELSE St(i, f[i - 1])]
           Code(f) ==
             [i \in 0 .. n |->
                LET done == IF i = 0 THEN Ok(<< >>) ELSE f[i - 1]
                    repl == IF i = 0 THEN << >> ELSE Replacement(file_edit.sections[i])
                IN  CASE ~done.ok    -> done
                      [] done.ok /\ ~Scope(bytes, file_edit, starts, i).ok ->
                           Scope(bytes, file_edit, starts, i)
                      [] OTHER       ->
                           Ok(done.data \o repl \o Scope(bytes, file_edit, starts, i).data)]
           written == CHOOSE f : f = Code(f)
           step == [x \in (1 .. n) \X Replaced |-> St(x[1], x[2])]
<1>1. Splice(bytes, file_edit, starts) = written[n]
  BY DEF Splice, Scope, NextStart
<1>2. \A f : Code(f) = Body(f)
  BY DEF Stage, Repl
<1> HIDE DEF Code
<1>3. /\ file_edit.sections \in Seq(Section) /\ file_edit.leading \in Seq(Change)
      /\ n = Len(file_edit.sections) /\ n \in Nat /\ Len(bytes) \in Nat
  <2>1. file_edit.sections \in Seq(Section) /\ file_edit.leading \in Seq(Change)
    BY DEF FileEdit
  <2>2. PICK m \in Nat : m = Len(file_edit.sections)
    BY <2>1
  <2>3. starts \in [1 .. m -> 0 .. Len(bytes)]
    BY <2>2 DEF Vectors
  <2>4. Len(starts) = m
    BY <2>3
  <2> QED BY <2>1, <2>2, <2>4
<1>4. \A i \in 1 .. n : starts[i] \in 0 .. Len(bytes) /\ file_edit.sections[i] \in Section
  BY <1>3 DEF Vectors
<1> HIDE DEF n
<1>5. ASSUME NEW i \in 0 .. n
      PROVE  Scope(bytes, file_edit, starts, i) \in Replaced
  <2>1. NextStart(bytes, starts, i) \in 0 .. Len(bytes)
    <3>1. i < n => i + 1 \in 1 .. n
      BY <1>3
    <3> QED BY <1>3, <1>4, <3>1 DEF NextStart, n
  <2>2. CASE i = 0
    <3>1. SubSeq(bytes, 1, NextStart(bytes, starts, 0)) \in Seq(Bytes)
      <4>1. 0 \in Nat /\ 0 + 1 = 1
        OBVIOUS
      <4>2. SubSeq(bytes, 0 + 1, NextStart(bytes, starts, 0)) \in Seq(Bytes)
        BY <2>1, <2>2, <4>1, PartTyped
      <4> QED BY <4>1, <4>2
    <3> QED BY <1>3, <2>2, <3>1, ReplaceAllsTyped DEF Scope
  <2>3. CASE i # 0
    <3> DEFINE section == file_edit.sections[i]
               end == MatchEnd(section, starts[i])
    <3>1. section \in Section /\ starts[i] \in Nat /\ section.replaces \in Seq(Change)
      BY <1>3, <1>4, <2>3 DEF Section
    <3>2. end \in Nat
      <4>1. Len(Search(section)) \in Nat
        BY <3>1, SectionTyped
      <4> QED BY <3>1, <4>1 DEF MatchEnd
    <3> HIDE DEF end
    <3>3. SubSeq(bytes, end + 1, NextStart(bytes, starts, i)) \in Seq(Bytes)
      BY <2>1, <3>2, PartTyped
    <3>4. Scope(bytes, file_edit, starts, i) =
            ReplaceAlls(SubSeq(bytes, end + 1, NextStart(bytes, starts, i)), section.replaces)
      BY <2>3 DEF Scope, end
    <3> QED BY <3>1, <3>3, <3>4, ReplaceAllsTyped
  <2> QED BY <2>2, <2>3
<1>6. ASSUME NEW i \in 0 .. n
      PROVE  Repl(file_edit, i) \in Seq(Bytes)
  <2>1. CASE i = 0
    BY <2>1 DEF Repl
  <2>2. CASE i # 0
    <3>1. file_edit.sections[i] \in Section
      BY <1>3, <1>4, <2>2
    <3> QED BY <2>2, <3>1, SectionTyped DEF Repl
  <2> QED BY <2>1, <2>2
<1>7. ASSUME NEW i \in 0 .. n, NEW done \in Replaced
      PROVE  St(i, done) \in Replaced
  <2> DEFINE scope == Scope(bytes, file_edit, starts, i)
             repl == Repl(file_edit, i)
  <2>1. scope \in Replaced /\ repl \in Seq(Bytes)
    BY <1>5, <1>6
  <2>2. St(i, done) = CASE ~done.ok -> done
                        [] done.ok /\ ~scope.ok -> scope
                        [] OTHER -> Ok(done.data \o repl \o scope.data)
    BY DEF Stage
  <2> HIDE DEF scope, repl
  <2>3. CASE ~done.ok \/ ~scope.ok
    BY <2>1, <2>2, <2>3
  <2>4. CASE done.ok /\ scope.ok
    <3>1. done.data \in Seq(Bytes) /\ scope.data \in Seq(Bytes)
      BY <2>1, <2>4 DEF Replaced, Ok, Error
    <3>2. done.data \o repl \o scope.data \in Seq(Bytes)
      BY <2>1, <3>1, ConcatProperties
    <3>3. Ok(done.data \o repl \o scope.data) \in Replaced
      BY <3>2 DEF Replaced
    <3> QED BY <2>2, <2>4, <3>3
  <2> QED BY <2>3, <2>4
<1> HIDE DEF St
<1>8. Ok(<< >>) \in Replaced
  <2>1. << >> \in Seq(Bytes)
    OBVIOUS
  <2> QED BY <2>1 DEF Replaced
<1>9. step \in [(1 .. n) \X Replaced -> Replaced]
  <2>1. \A x \in (1 .. n) \X Replaced : St(x[1], x[2]) \in Replaced
    BY <1>3, <1>7
  <2> QED BY <2>1
<1>10. St(0, Ok(<< >>)) \in Replaced
  BY <1>3, <1>7, <1>8
<1>11. PICK g : Steps(g, n, Replaced, St(0, Ok(<< >>)), step)
  <2> HIDE DEF step
  <2> QED BY <1>3, <1>9, <1>10, StepByStep
<1>12. g = Body(g)
  <2>1. g = [i \in 0 .. n |-> g[i]] /\ g[0] = St(0, Ok(<< >>))
    BY <1>11 DEF Steps
  <2>2. ASSUME NEW i \in 1 .. n
        PROVE  g[i] = St(i, g[i - 1])
    <3>1. i - 1 \in 0 .. n /\ g \in [0 .. n -> Replaced]
      BY <1>3, <1>11 DEF Steps
    <3>2. g[i] = step[<<i, g[i - 1]>>] /\ <<i, g[i - 1]>> \in (1 .. n) \X Replaced
      BY <1>11, <3>1 DEF Steps
    <3> QED BY <3>2
  <2>3. \A i \in 0 .. n : i = 0 \/ i \in 1 .. n
    BY <1>3
  <2> QED BY <2>1, <2>2, <2>3
<1>13. written = Body(written)
  <2> HIDE DEF Body
  <2> QED BY <1>2, <1>12
<1> HIDE DEF written
<1> DEFINE H == {i \in 0 .. n : written[i] \in Replaced}
<1>14. written[0] = St(0, Ok(<< >>)) /\ \A i \in 1 .. n : written[i] = St(i, written[i - 1])
  <2>1. 0 \in 0 .. n /\ \A i \in 1 .. n : i \in 0 .. n /\ i # 0
    BY <1>3
  <2> QED BY <1>13, <2>1
<1>15. 0 \in H
  BY <1>3, <1>10, <1>14
<1>16. ASSUME NEW k \in 1 .. n, k - 1 \in H
       PROVE  k \in H
  BY <1>3, <1>7, <1>14, <1>16
<1>17. \A i \in 0 .. n : i \in H
  <2> HIDE DEF H
  <2> QED BY <1>3, <1>15, <1>16, UpTo
<1>18. written \in [0 .. n -> Replaced]
  BY <1>13, <1>17
<1> QED BY <1>1, <1>14, <1>18 DEF n, St

-----------------------------------------------------------------------------
(* The answer. *)

\* A file and an edit of the run, and nothing or what apply_file answers.
AnswerInv ==
  /\ data \in Inputs
  /\ edit \in Edits
  /\ result \in {Unanswered, ApplyFile(data, edit)}

LEMMA Answers == Spec => []AnswerInv
<1>1. Init => AnswerInv
  BY DEF Init, AnswerInv
<1>2. AnswerInv /\ [Next]_vars => AnswerInv'
  BY DEF AnswerInv, Next, Apply, vars
<1> QED BY <1>1, <1>2, PTL DEF Spec

LEMMA Typed ==
  ASSUME AnswerInv
  PROVE  /\ data \in Seq(Bytes)
         /\ edit \in FileEdit
         /\ edit.sections \in Seq(Section)
         /\ edit.leading \in Seq(Change)
<1>1. data \in Seq(Bytes) /\ edit \in FileEdit
  BY DiffEditAssumption DEF AnswerInv
<1> QED BY <1>1 DEF FileEdit

\* What apply_file comes to: an error of the sections, if they have no
\* places, or what is written at their only places.
LEMMA AppliedAt ==
  ASSUME NEW bytes \in Seq(Bytes), NEW file_edit \in FileEdit
  PROVE  LET P == Vectors(bytes, file_edit.sections, Len(file_edit.sections))
         IN  \/ P = {} /\ \E why \in Unplaced : ApplyFile(bytes, file_edit) = Error(why)
             \/ \E v : /\ P = {v}
                       /\ ApplyFile(bytes, file_edit) = Splice(bytes, file_edit, v)
                       /\ ApplyFile(bytes, file_edit) \in Replaced
<1> DEFINE sections == file_edit.sections
           found == Matches(bytes, sections)
           P == Vectors(bytes, sections, Len(sections))
<1>1. sections \in Seq(Section) /\ Len(sections) \in Nat
  BY DEF FileEdit
<1>2. Placed(bytes, sections, Len(sections), found)
  BY <1>1, MatchesPlaced
<1>3. ApplyFile(bytes, file_edit) = IF found.ok THEN Splice(bytes, file_edit, found.data) ELSE found
  BY DEF ApplyFile
<1> HIDE DEF found
<1>4. CASE \E v : found = Ok(v) /\ P = {v}
  <2>1. PICK v : found = Ok(v) /\ P = {v}
    BY <1>4
  <2>2. ApplyFile(bytes, file_edit) = Splice(bytes, file_edit, v)
    BY <1>3, <2>1 DEF Ok
  <2>3. v \in P
    BY <2>1
  <2>4. PICK u \in [0 .. Len(v) -> Replaced] : Splice(bytes, file_edit, v) = u[Len(v)]
    BY <2>3, SpliceUnfolds
  <2>5. Len(v) \in Nat
    <3>1. PICK m \in Nat : m = Len(sections)
      BY <1>1
    <3>2. v \in [1 .. m -> 0 .. Len(bytes)]
      BY <2>3, <3>1 DEF Vectors
    <3>3. Len(v) = m
      BY <3>2
    <3> QED BY <3>3
  <2>6. Splice(bytes, file_edit, v) \in Replaced
    BY <2>4, <2>5
  <2> QED BY <2>1, <2>2, <2>6
<1>5. CASE (\E why \in Unplaced : found = Error(why)) /\ P = {}
  <2>1. PICK why \in Unplaced : found = Error(why)
    BY <1>5
  <2>2. ~found.ok
    BY <2>1 DEF Error
  <2>3. ApplyFile(bytes, file_edit) = Error(why)
    BY <1>3, <2>1, <2>2
  <2> QED BY <1>5, <2>3
<1> QED BY <1>2, <1>4, <1>5 DEF Placed

LEMMA PlacementsAre ==
  ASSUME AnswerInv
  PROVE  Placements = Vectors(data, edit.sections, Len(edit.sections))
<1> DEFINE sections == edit.sections
<1>1. DOMAIN sections = 1 .. Len(sections)
  BY Typed
<1> QED BY <1>1 DEF Placements, Vectors, IsPlace, Places, Cursor

(***************************************************************************)
(* apply_file refuses a file for its sections when they cannot be placed   *)
(* beyond doubt, and only then: find and the second find for               *)
(* PatternAmbiguous decide whether there is one vector of places in order. *)
(***************************************************************************)
THEOREM PlacedOrRefused == Spec => []FoundIffPlaced
<1>1. AnswerInv => FoundIffPlaced
  <2> SUFFICES ASSUME AnswerInv, Answered
               PROVE  /\ Cardinality(Placements) <= 1
                      /\ (Placements = {}) <=> (~result.ok /\ result.error \in Unplaced)
    BY DEF FoundIffPlaced, Unplaced
  <2>1. result = ApplyFile(data, edit)
    BY DEF AnswerInv, Answered
  <2>2. Placements = Vectors(data, edit.sections, Len(edit.sections))
    BY PlacementsAre
  <2>3. CASE /\ Placements = {}
             /\ \E why \in Unplaced : result = Error(why)
    <3>1. Cardinality(Placements) = 0
      BY <2>3, FS_EmptySet
    <3>2. ~result.ok /\ result.error \in Unplaced
      BY <2>3 DEF Error
    <3> QED BY <2>3, <3>1, <3>2
  <2>4. CASE (\E v : Placements = {v}) /\ result \in Replaced
    <3>1. Cardinality(Placements) = 1 /\ Placements # {}
      BY <2>4, FS_Singleton
    <3>2. ~(~result.ok /\ result.error \in Unplaced)
      BY <2>4 DEF Replaced, Ok, Error, Unplaced
    <3> QED BY <3>1, <3>2
  <2>5. data \in Seq(Bytes) /\ edit \in FileEdit
    BY Typed
  <2> QED BY <2>1, <2>2, <2>3, <2>4, <2>5, AppliedAt
<1> QED BY <1>1, Answers, PTL

-----------------------------------------------------------------------------
(* Parts of a file. *)

\* The bytes from an offset up to another one.
Part(s, a, b) == SubSeq(s, a + 1, b)

LEMMA PartIs ==
  ASSUME NEW s \in Seq(Bytes), NEW a \in Nat, NEW b \in a .. Len(s)
  PROVE  /\ Part(s, a, b) \in Seq(Bytes)
         /\ Len(Part(s, a, b)) = b - a
         /\ \A i \in 1 .. b - a : Part(s, a, b)[i] = s[a + i]
<1>1. Len(s) \in Nat /\ b \in Nat /\ a <= b /\ b <= Len(s)
  OBVIOUS
<1>2. Part(s, a, b) \in Seq(Bytes)
  BY <1>1, PartTyped DEF Part
<1>3. CASE a = b
  BY <1>1, <1>2, <1>3, SubSeqProperties DEF Part
<1>4. CASE a # b
  <2>1. a + 1 \in 1 .. Len(s) /\ b \in 1 .. Len(s) /\ a + 1 <= b
    BY <1>1, <1>4
  <2>2. \A i \in a + 1 .. b : s[i] \in Bytes
    BY <1>1, <2>1
  <2>3. /\ Len(SubSeq(s, a + 1, b)) = b - (a + 1) + 1
        /\ \A i \in 1 .. b - (a + 1) + 1 : SubSeq(s, a + 1, b)[i] = s[a + 1 + i - 1]
    BY <2>1, <2>2, SubSeqProperties
  <2>4. b - (a + 1) + 1 = b - a /\ \A i \in 1 .. b - a : a + 1 + i - 1 = a + i
    BY <1>1
  <2> QED BY <1>2, <2>3, <2>4 DEF Part
<1> QED BY <1>3, <1>4

LEMMA PartsJoin ==
  ASSUME NEW s \in Seq(Bytes), NEW a \in Nat, NEW b \in a .. Len(s), NEW c \in b .. Len(s)
  PROVE  Part(s, a, b) \o Part(s, b, c) = Part(s, a, c)
<1> DEFINE x == Part(s, a, b)
           y == Part(s, b, c)
           z == Part(s, a, c)
<1>1. Len(s) \in Nat /\ b \in Nat /\ c \in Nat /\ a <= b /\ b <= c /\ c <= Len(s)
  OBVIOUS
<1>2. c \in a .. Len(s)
  BY <1>1
<1>3. /\ x \in Seq(Bytes) /\ Len(x) = b - a
      /\ \A i \in 1 .. b - a : x[i] = s[a + i]
  BY PartIs
<1>4. /\ y \in Seq(Bytes) /\ Len(y) = c - b
      /\ \A i \in 1 .. c - b : y[i] = s[b + i]
  BY <1>1, PartIs
<1>5. /\ z \in Seq(Bytes) /\ Len(z) = c - a
      /\ \A i \in 1 .. c - a : z[i] = s[a + i]
  BY <1>2, PartIs
<1> HIDE DEF x, y, z
<1>6. /\ x \o y \in Seq(Bytes) /\ Len(x \o y) = Len(x) + Len(y)
      /\ \A i \in 1 .. Len(x) + Len(y) :
           (x \o y)[i] = IF i <= Len(x) THEN x[i] ELSE y[i - Len(x)]
  BY <1>3, <1>4, ConcatProperties
<1>7. Len(x \o y) = Len(z)
  BY <1>1, <1>3, <1>4, <1>5, <1>6
<1>8. ASSUME NEW i \in 1 .. c - a
      PROVE  (x \o y)[i] = z[i]
  <2>1. i \in 1 .. Len(x) + Len(y) /\ i \in Nat
    BY <1>1, <1>3, <1>4
  <2>2. CASE i <= b - a
    <3>1. i \in 1 .. b - a /\ i <= Len(x)
      BY <1>1, <1>3, <2>1, <2>2
    <3> QED BY <1>3, <1>5, <1>6, <2>1, <3>1
  <2>3. CASE ~(i <= b - a)
    <3>1. i - (b - a) \in 1 .. c - b /\ ~(i <= Len(x)) /\ b + (i - (b - a)) = a + i
      BY <1>1, <1>3, <2>1, <2>3
    <3>2. (x \o y)[i] = y[i - (b - a)]
      BY <1>3, <1>6, <2>1, <3>1
    <3> QED BY <1>4, <1>5, <3>1, <3>2
  <2> QED BY <2>2, <2>3
<1>9. x \o y = z
  BY <1>5, <1>6, <1>7, <1>8, SeqEqual
<1> QED BY <1>9 DEF x, y, z

\* One file is the start of another.
Leads(x, z) ==
  /\ x \in Seq(Bytes) /\ z \in Seq(Bytes)
  /\ Len(x) <= Len(z)
  /\ \A i \in 1 .. Len(x) : z[i] = x[i]

LEMMA LeadsPart ==
  ASSUME NEW x, NEW z, Leads(x, z), NEW a \in Nat, NEW b \in a .. Len(x)
  PROVE  b \in a .. Len(z) /\ Part(z, a, b) = Part(x, a, b)
<1>1. /\ x \in Seq(Bytes) /\ z \in Seq(Bytes) /\ Len(x) \in Nat /\ Len(z) \in Nat
      /\ Len(x) <= Len(z)
  BY DEF Leads
<1>2. b \in a .. Len(z) /\ b \in Nat
  BY <1>1
<1>3. /\ Part(x, a, b) \in Seq(Bytes) /\ Len(Part(x, a, b)) = b - a
      /\ \A i \in 1 .. b - a : Part(x, a, b)[i] = x[a + i]
  BY <1>1, PartIs
<1>4. /\ Part(z, a, b) \in Seq(Bytes) /\ Len(Part(z, a, b)) = b - a
      /\ \A i \in 1 .. b - a : Part(z, a, b)[i] = z[a + i]
  BY <1>1, <1>2, PartIs
<1>5. \A i \in 1 .. b - a : a + i \in 1 .. Len(x)
  BY <1>1, <1>2
<1>6. \A i \in 1 .. b - a : z[a + i] = x[a + i]
  BY <1>5 DEF Leads
<1>7. \A i \in 1 .. b - a : Part(z, a, b)[i] = Part(x, a, b)[i]
  BY <1>3, <1>4, <1>6
<1> QED BY <1>2, <1>3, <1>4, <1>7, SeqEqual

\* What is written behind a file stands there.
LEMMA ConcatParts ==
  ASSUME NEW x \in Seq(Bytes), NEW y \in Seq(Bytes)
  PROVE  /\ Leads(x, x \o y)
         /\ Len(x) \in Nat /\ Len(y) \in Nat /\ Len(x \o y) = Len(x) + Len(y)
         /\ Part(x \o y, Len(x), Len(x) + Len(y)) = y
<1> DEFINE z == x \o y
<1>1. /\ z \in Seq(Bytes) /\ Len(z) = Len(x) + Len(y)
      /\ \A i \in 1 .. Len(x) + Len(y) : z[i] = IF i <= Len(x) THEN x[i] ELSE y[i - Len(x)]
  BY ConcatProperties
<1>2. Len(x) \in Nat /\ Len(y) \in Nat
  OBVIOUS
<1> HIDE DEF z
<1>3. Leads(x, z)
  <2>1. \A i \in 1 .. Len(x) : i \in 1 .. Len(x) + Len(y) /\ i <= Len(x)
    BY <1>2
  <2> QED BY <1>1, <1>2, <2>1 DEF Leads
<1> DEFINE p == Part(z, Len(x), Len(x) + Len(y))
<1>4. Len(x) + Len(y) \in Len(x) .. Len(z)
  BY <1>1, <1>2
<1>5. /\ p \in Seq(Bytes) /\ Len(p) = (Len(x) + Len(y)) - Len(x)
      /\ \A i \in 1 .. (Len(x) + Len(y)) - Len(x) : p[i] = z[Len(x) + i]
  BY <1>1, <1>2, <1>4, PartIs
<1> HIDE DEF p
<1>6. (Len(x) + Len(y)) - Len(x) = Len(y)
  BY <1>2
<1>7. ASSUME NEW i \in 1 .. Len(y)
      PROVE  p[i] = y[i]
  <2>1. /\ Len(x) + i \in 1 .. Len(x) + Len(y) /\ ~(Len(x) + i <= Len(x))
        /\ Len(x) + i - Len(x) = i
    BY <1>2
  <2>2. p[i] = z[Len(x) + i]
    BY <1>5, <1>6
  <2>3. z[Len(x) + i] = y[Len(x) + i - Len(x)]
    BY <1>1, <2>1
  <2> QED BY <2>1, <2>2, <2>3
<1>8. p = y
  BY <1>5, <1>6, <1>7, SeqEqual
<1> QED BY <1>1, <1>2, <1>3, <1>8 DEF z, p

LEMMA LeadsTransitive ==
  ASSUME NEW x, NEW y, NEW z, Leads(x, y), Leads(y, z)
  PROVE  Leads(x, z)
<1>1. Len(x) \in Nat /\ Len(y) \in Nat /\ Len(z) \in Nat
  BY DEF Leads
<1>2. \A i \in 1 .. Len(x) : i \in 1 .. Len(y)
  BY <1>1 DEF Leads
<1> QED BY <1>1, <1>2 DEF Leads

-----------------------------------------------------------------------------
(* Edits of sections, and back. *)

\* W are the outputs up to each section, if nothing is replaced in between.
Writes(bytes, sections, starts, W) ==
  /\ W \in [0 .. Len(sections) -> Seq(Bytes)]
  /\ W[0] = Part(bytes, 0, NextStart(bytes, starts, 0))
  /\ \A i \in 1 .. Len(sections) :
       W[i] = (W[i - 1] \o Replacement(sections[i]))
                \o Part(bytes, MatchEnd(sections[i], starts[i]), NextStart(bytes, starts, i))

LEMMA PlacedInOrder ==
  ASSUME NEW bytes \in Seq(Bytes), NEW sections \in Seq(Section),
         NEW v \in Vectors(bytes, sections, Len(sections))
  PROVE  /\ Len(v) = Len(sections)
         /\ NextStart(bytes, v, 0) \in 0 .. Len(bytes)
         /\ \A i \in 1 .. Len(sections) :
              /\ v[i] \in 0 .. Len(bytes) /\ NextStart(bytes, v, i - 1) = v[i]
              /\ MatchEnd(sections[i], v[i]) \in v[i] .. Len(bytes)
              /\ NextStart(bytes, v, i) \in MatchEnd(sections[i], v[i]) .. Len(bytes)
              /\ Part(bytes, v[i], MatchEnd(sections[i], v[i])) = Search(sections[i])
         /\ NextStart(bytes, v, Len(sections)) = Len(bytes)
<1>1. PICK n \in Nat : n = Len(sections)
  OBVIOUS
<1>2. v \in [1 .. n -> 0 .. Len(bytes)]
  BY <1>1 DEF Vectors
<1>3. Len(v) = n
  BY <1>2
<1>4. Len(bytes) \in Nat
  OBVIOUS
<1>5. ASSUME NEW i \in 1 .. n
      PROVE  /\ v[i] \in 0 .. Len(bytes) /\ NextStart(bytes, v, i - 1) = v[i]
             /\ MatchEnd(sections[i], v[i]) \in v[i] .. Len(bytes)
             /\ v[i] \in Cursor(sections, v, i) .. Len(bytes)
             /\ Part(bytes, v[i], MatchEnd(sections[i], v[i])) = Search(sections[i])
  <2> DEFINE search == Search(sections[i])
  <2>1. v[i] \in 0 .. Len(bytes)
    BY <1>2
  <2>2. search \in Seq(Bytes)
    BY <1>1, SectionTyped
  <2>3. Len(search) \in Nat
    BY <2>2
  <2>4. v[i] \in Places(bytes, search, Cursor(sections, v, i))
    BY <1>1 DEF Vectors, IsPlace
  <2>5. /\ v[i] \in Cursor(sections, v, i) .. Len(bytes)
        /\ v[i] + Len(search) <= Len(bytes)
        /\ SubSeq(bytes, v[i] + 1, v[i] + Len(search)) = search
    BY <2>4 DEF Places, OccursAt
  <2>6. NextStart(bytes, v, i - 1) = v[i]
    <3>1. i - 1 < n /\ i - 1 + 1 = i
      BY <1>1
    <3> QED BY <1>3, <3>1 DEF NextStart
  <2>7. MatchEnd(sections[i], v[i]) = v[i] + Len(search)
    BY DEF MatchEnd
  <2> HIDE DEF search
  <2>8. v[i] + Len(search) \in v[i] .. Len(bytes)
    BY <1>4, <2>1, <2>3, <2>5
  <2> QED BY <2>1, <2>5, <2>6, <2>7, <2>8 DEF Part, search
<1>6. NextStart(bytes, v, n) = Len(bytes)
  BY <1>1, <1>3 DEF NextStart
<1>7. NextStart(bytes, v, 0) \in 0 .. Len(bytes)
  BY <1>1, <1>2, <1>3, <1>4 DEF NextStart
<1>8. ASSUME NEW i \in 1 .. n
      PROVE  NextStart(bytes, v, i) \in MatchEnd(sections[i], v[i]) .. Len(bytes)
  <2> DEFINE end == MatchEnd(sections[i], v[i])
  <2>1. end \in v[i] .. Len(bytes) /\ v[i] \in 0 .. Len(bytes)
    BY <1>5
  <2>2. CASE i = n
    <3> HIDE DEF end
    <3>1. Len(bytes) \in end .. Len(bytes)
      BY <1>4, <2>1
    <3> QED BY <1>6, <2>2, <3>1 DEF end
  <2>3. CASE i # n
    <3>1. i + 1 \in 1 .. n /\ i + 1 # 1 /\ i + 1 - 1 = i /\ i < n
      BY <1>1, <2>3
    <3>2. Cursor(sections, v, i + 1) = end
      BY <3>1 DEF Cursor
    <3>3. v[i + 1] \in Cursor(sections, v, i + 1) .. Len(bytes)
      BY <1>5, <3>1
    <3>4. NextStart(bytes, v, i) = v[i + 1]
      BY <1>3, <3>1 DEF NextStart
    <3> QED BY <3>2, <3>3, <3>4
  <2> QED BY <2>2, <2>3
<1> QED BY <1>1, <1>3, <1>5, <1>6, <1>7, <1>8

LEMMA OkIs == \A a, b : Ok(a).ok = TRUE /\ Ok(a).data = a /\ (Ok(a) = Ok(b) => a = b)
<1>1. \A a : Ok(a).ok = TRUE /\ Ok(a).data = a
  BY DEF Ok
<1> QED BY <1>1

LEMMA ErrorIs == \A why : Error(why).ok = FALSE
BY DEF Error

LEMMA WrittenAre ==
  ASSUME NEW bytes \in Seq(Bytes), NEW file_edit \in FileEdit, file_edit.leading = << >>,
         \A i \in 1 .. Len(file_edit.sections) : file_edit.sections[i].replaces = << >>,
         NEW v \in Vectors(bytes, file_edit.sections, Len(file_edit.sections))
  PROVE  \E W : /\ Writes(bytes, file_edit.sections, v, W)
                /\ Splice(bytes, file_edit, v) = Ok(W[Len(file_edit.sections)])
<1> DEFINE sections == file_edit.sections
           end(i) == MatchEnd(sections[i], v[i])
           next(i) == NextStart(bytes, v, i)
<1>1. sections \in Seq(Section) /\ << >> \in Seq(Change)
  BY DEF FileEdit
<1>2. PICK n \in Nat : n = Len(sections)
  BY <1>1
<1>3. /\ Len(v) = n /\ next(0) \in 0 .. Len(bytes)
      /\ \A i \in 1 .. n : /\ v[i] \in 0 .. Len(bytes) /\ end(i) \in v[i] .. Len(bytes)
                           /\ next(i) \in end(i) .. Len(bytes)
  BY <1>1, <1>2, PlacedInOrder
<1>4. PICK u \in [0 .. n -> Replaced] :
        /\ Splice(bytes, file_edit, v) = u[n]
        /\ u[0] = Stage(bytes, file_edit, v, 0, Ok(<< >>))
        /\ \A i \in 1 .. n : u[i] = Stage(bytes, file_edit, v, i, u[i - 1])
  BY <1>3, SpliceUnfolds
<1>5. Scope(bytes, file_edit, v, 0) = Ok(Part(bytes, 0, next(0))) /\ Part(bytes, 0, next(0)) \in Seq(Bytes)
  <2>1. Part(bytes, 0, next(0)) \in Seq(Bytes)
    BY <1>3, PartIs
  <2>2. Part(bytes, 0, next(0)) = SubSeq(bytes, 1, next(0))
    BY DEF Part
  <2>3. ReplaceAlls(Part(bytes, 0, next(0)), << >>) = Ok(Part(bytes, 0, next(0)))
    BY <1>1, <2>1, ReplaceAllsTyped
  <2> QED BY <2>1, <2>2, <2>3 DEF Scope
<1>6. ASSUME NEW i \in 1 .. n
      PROVE  /\ Scope(bytes, file_edit, v, i) = Ok(Part(bytes, end(i), next(i)))
             /\ Part(bytes, end(i), next(i)) \in Seq(Bytes)
             /\ Replacement(sections[i]) \in Seq(Bytes)
  <2>1. /\ end(i) \in v[i] .. Len(bytes) /\ v[i] \in 0 .. Len(bytes)
        /\ next(i) \in end(i) .. Len(bytes)
    BY <1>3
  <2> HIDE DEF end, next
  <2>2. end(i) \in Nat
    BY <2>1
  <2>3. Part(bytes, end(i), next(i)) \in Seq(Bytes)
    BY <2>1, <2>2, PartIs
  <2>4. ReplaceAlls(Part(bytes, end(i), next(i)), << >>) = Ok(Part(bytes, end(i), next(i)))
    BY <1>1, <2>3, ReplaceAllsTyped
  <2>5. i # 0 /\ sections[i].replaces = << >> /\ sections[i] \in Section
    BY <1>1, <1>2
  <2>6. Scope(bytes, file_edit, v, i) = ReplaceAlls(Part(bytes, end(i), next(i)), << >>)
    BY <2>5 DEF Scope, Part, end, next
  <2> QED BY <2>3, <2>4, <2>5, <2>6, SectionTyped
<1> HIDE DEF sections, end, next
<1>7. ASSUME NEW i \in 1 .. n, NEW w \in Seq(Bytes), u[i - 1] = Ok(w)
      PROVE  u[i] = Ok((w \o Replacement(sections[i])) \o Part(bytes, end(i), next(i)))
  <2>1. u[i] = Stage(bytes, file_edit, v, i, Ok(w))
    BY <1>4, <1>7
  <2>2. Repl(file_edit, i) = Replacement(sections[i])
    BY <1>2 DEF Repl, sections
  <2>3. Scope(bytes, file_edit, v, i) = Ok(Part(bytes, end(i), next(i)))
    BY <1>6
  <2> QED BY <2>1, <2>2, <2>3 DEF Stage, Ok
<1>8. u[0] = Ok(Part(bytes, 0, next(0)))
  <2> DEFINE first == Part(bytes, 0, next(0))
  <2>1. u[0] = Ok((<< >> \o << >>) \o first)
    <3>1. Scope(bytes, file_edit, v, 0) = Ok(first) /\ Repl(file_edit, 0) = << >>
      BY <1>5 DEF Repl
    <3>2. u[0] = Stage(bytes, file_edit, v, 0, Ok(<< >>))
      BY <1>4
    <3> HIDE DEF first
    <3> QED BY <3>1, <3>2, OkIs DEF Stage
  <2>2. first \in Seq(Bytes) /\ << >> \in Seq(Bytes)
    BY <1>5
  <2> HIDE DEF first
  <2>3. << >> \o << >> = << >> /\ << >> \o first = first
    BY <2>2, ConcatEmptySeq
  <2> QED BY <2>1, <2>3 DEF first
<1> DEFINE H == {i \in 0 .. n : u[i].ok /\ u[i].data \in Seq(Bytes) /\ u[i] = Ok(u[i].data)}
<1>9. 0 \in H
  BY <1>2, <1>5, <1>8 DEF Ok
<1>10. ASSUME NEW k \in 1 .. n, k - 1 \in H
       PROVE  k \in H
  <2> DEFINE w == u[k - 1].data
             x == (w \o Replacement(sections[k])) \o Part(bytes, end(k), next(k))
  <2>1. w \in Seq(Bytes) /\ u[k - 1] = Ok(w)
    BY <1>10
  <2>2. x \in Seq(Bytes)
    <3> HIDE DEF w
    <3> QED BY <1>6, <2>1, ConcatProperties
  <2>3. u[k] = Ok(x)
    <3> HIDE DEF w
    <3> QED BY <1>7, <2>1
  <2> HIDE DEF x
  <2>4. u[k].data = x /\ u[k].ok
    BY <2>3, OkIs
  <2>5. k \in 0 .. n
    BY <1>2
  <2> QED BY <2>2, <2>3, <2>4, <2>5
<1>11. \A i \in 0 .. n : i \in H
  <2> HIDE DEF H
  <2> QED BY <1>2, <1>9, <1>10, UpTo
<1> DEFINE W == [i \in 0 .. n |-> u[i].data]
<1>12. W \in [0 .. n -> Seq(Bytes)] /\ \A i \in 0 .. n : u[i] = Ok(W[i])
  BY <1>11
<1> HIDE DEF W, H
<1>13. W[0] = Part(bytes, 0, next(0))
  <2>1. u[0] = Ok(W[0])
    BY <1>2, <1>12
  <2> QED BY <1>8, <2>1 DEF Ok
<1>14. ASSUME NEW i \in 1 .. n
       PROVE  W[i] = (W[i - 1] \o Replacement(sections[i])) \o Part(bytes, end(i), next(i))
  <2>0. i \in 0 .. n /\ i - 1 \in 0 .. n
    BY <1>2
  <2>1. u[i] = Ok(W[i]) /\ u[i - 1] = Ok(W[i - 1]) /\ W[i - 1] \in Seq(Bytes)
    BY <1>12, <2>0
  <2>2. u[i] = Ok((W[i - 1] \o Replacement(sections[i])) \o Part(bytes, end(i), next(i)))
    BY <1>7, <2>1
  <2> QED BY <2>1, <2>2, OkIs
<1>15. Splice(bytes, file_edit, v) = Ok(W[n])
  BY <1>2, <1>4, <1>12
<1>16. Writes(bytes, sections, v, W)
  BY <1>2, <1>12, <1>13, <1>14 DEF Writes, end, next
<1> QED BY <1>2, <1>15, <1>16 DEF sections

LEMMA WrittenLeads ==
  ASSUME NEW bytes \in Seq(Bytes), NEW sections \in Seq(Section),
         NEW v \in Vectors(bytes, sections, Len(sections)),
         NEW W, Writes(bytes, sections, v, W)
  PROVE  \A i \in 0 .. Len(sections) : Leads(W[i], W[Len(sections)])
<1>1. PICK n \in Nat : n = Len(sections)
  OBVIOUS
<1>2. \A i \in 0 .. n : W[i] \in Seq(Bytes)
  BY <1>1 DEF Writes
<1>3. ASSUME NEW i \in 1 .. n
      PROVE  Leads(W[i - 1], W[i])
  <2> DEFINE old == W[i - 1]
             new == Replacement(sections[i])
             kept == Part(bytes, MatchEnd(sections[i], v[i]), NextStart(bytes, v, i))
  <2>1. /\ v[i] \in 0 .. Len(bytes) /\ MatchEnd(sections[i], v[i]) \in v[i] .. Len(bytes)
        /\ NextStart(bytes, v, i) \in MatchEnd(sections[i], v[i]) .. Len(bytes)
    BY <1>1, PlacedInOrder
  <2>2. MatchEnd(sections[i], v[i]) \in Nat
    BY <2>1
  <2>3. kept \in Seq(Bytes)
    BY <2>1, <2>2, PartIs
  <2>4. old \in Seq(Bytes) /\ new \in Seq(Bytes)
    <3>1. i - 1 \in 0 .. n /\ sections[i] \in Section
      BY <1>1
    <3> QED BY <1>2, <3>1, SectionTyped
  <2>5. W[i] = (old \o new) \o kept
    BY <1>1 DEF Writes
  <2> HIDE DEF old, new, kept
  <2>6. old \o new \in Seq(Bytes)
    BY <2>4, ConcatProperties
  <2>7. Leads(old, old \o new) /\ Leads(old \o new, (old \o new) \o kept)
    BY <2>3, <2>4, <2>6, ConcatParts
  <2>8. Leads(old, W[i])
    BY <2>5, <2>7, LeadsTransitive
  <2> QED BY <2>8 DEF old
<1> DEFINE G == {k \in 0 .. n : Leads(W[n - k], W[n])}
<1>4. 0 \in G
  <2>1. W[n] \in Seq(Bytes) /\ n - 0 = n /\ 0 \in 0 .. n
    BY <1>1, <1>2
  <2>2. Leads(W[n], W[n])
    <3>1. Len(W[n]) \in Nat
      BY <2>1
    <3> QED BY <2>1, <3>1 DEF Leads
  <2> QED BY <2>1, <2>2
<1>5. ASSUME NEW k \in 1 .. n, k - 1 \in G
      PROVE  k \in G
  <2>0. n - (k - 1) \in 1 .. n /\ n - k = (n - (k - 1)) - 1
    BY <1>1
  <2>1. PICK j \in 1 .. n : j = n - (k - 1) /\ n - k = j - 1
    BY <2>0
  <2>2. Leads(W[j], W[n])
    BY <1>5, <2>1
  <2>3. Leads(W[j - 1], W[n])
    BY <1>3, <2>2, LeadsTransitive
  <2> QED BY <1>1, <2>1, <2>3
<1>6. \A k \in 0 .. n : k \in G
  <2> HIDE DEF G
  <2> QED BY <1>1, <1>4, <1>5, UpTo
<1>7. ASSUME NEW i \in 0 .. n
      PROVE  Leads(W[i], W[n])
  <2>1. n - i \in 0 .. n /\ n - (n - i) = i
    BY <1>1
  <2> QED BY <1>6, <2>1
<1> QED BY <1>1, <1>7

LEMMA SwapIs ==
  ASSUME NEW section \in Section
  PROVE  /\ Swap(section) \in Section
         /\ Search(Swap(section)) = Replacement(section)
         /\ Replacement(Swap(section)) = Search(section)
         /\ Swap(section).replaces = << >>
<1> DEFINE us == section.units
           sw == [i \in DOMAIN us |-> [old |-> us[i].new, new |-> us[i].old]]
<1>1. us \in Seq(Change)
  BY DEF Section
<1>2. Swap(section).units = sw /\ Swap(section).replaces = << >> /\ Swap(section) = [units |-> sw, replaces |-> << >>]
  BY DEF Swap
<1>3. Search(section) = FlattenSeq([i \in DOMAIN us |-> us[i].old])
      /\ Replacement(section) = FlattenSeq([i \in DOMAIN us |-> us[i].new])
  BY DEF Search, Replacement
<1>4. Search(Swap(section)) = FlattenSeq([i \in DOMAIN sw |-> sw[i].old])
      /\ Replacement(Swap(section)) = FlattenSeq([i \in DOMAIN sw |-> sw[i].new])
  BY <1>2 DEF Search, Replacement
<1> HIDE DEF us
<1>5. DOMAIN us = 1 .. Len(us) /\ Len(us) \in Nat /\ \A i \in 1 .. Len(us) : us[i] \in Change
  BY <1>1
<1>6. \A i \in DOMAIN us : [old |-> us[i].new, new |-> us[i].old] \in Change
  BY <1>5 DEF Change
<1>7. sw \in Seq(Change)
  BY <1>5, <1>6
<1>8. [i \in DOMAIN sw |-> sw[i].old] = [i \in DOMAIN us |-> us[i].new]
      /\ [i \in DOMAIN sw |-> sw[i].new] = [i \in DOMAIN us |-> us[i].old]
  OBVIOUS
<1> HIDE DEF sw
<1>9. << >> \in Seq(Change)
  OBVIOUS
<1>10. Swap(section) \in Section
  BY <1>2, <1>7, <1>9 DEF Section
<1> QED BY <1>2, <1>3, <1>4, <1>8, <1>10

\* Sections that search for what the others write, and write what they search for.
Opposite(sections, swapped) ==
  /\ Len(swapped) = Len(sections)
  /\ \A i \in 1 .. Len(sections) : /\ Search(swapped[i]) = Replacement(sections[i])
                                   /\ Replacement(swapped[i]) = Search(sections[i])

\* Where the way back finds what was written, and what it writes.
LEMMA BackWrites ==
  ASSUME NEW bytes, NEW sections, NEW v, NEW W, NEW swapped, NEW w, NEW Z,
         bytes \in Seq(Bytes), sections \in Seq(Section), swapped \in Seq(Section),
         Opposite(sections, swapped),
         v \in Vectors(bytes, sections, Len(sections)),
         Writes(bytes, sections, v, W),
         w \in Vectors(W[Len(sections)], swapped, Len(sections)),
         Writes(W[Len(sections)], swapped, w, Z)
  PROVE  Z[Len(sections)] = bytes
<1> USE DEF Opposite
<1>1. PICK n \in Nat : n = Len(sections)
  OBVIOUS
<1> DEFINE out == W[n]
           end(i) == MatchEnd(sections[i], v[i])
           next(i) == NextStart(bytes, v, i)
           new(i) == Replacement(sections[i])
           kept(i) == Part(bytes, end(i), next(i))
<1>2. /\ \A i \in 0 .. n : W[i] \in Seq(Bytes) /\ Leads(W[i], out)
      /\ W[0] = Part(bytes, 0, next(0))
      /\ \A i \in 1 .. n : W[i] = (W[i - 1] \o new(i)) \o kept(i)
      /\ out \in Seq(Bytes)
  <2>1. /\ W \in [0 .. n -> Seq(Bytes)]
        /\ W[0] = Part(bytes, 0, next(0))
        /\ \A i \in 1 .. n : W[i] = (W[i - 1] \o new(i)) \o kept(i)
    BY <1>1 DEF Writes
  <2>2. \A i \in 0 .. n : Leads(W[i], out)
    BY <1>1, WrittenLeads
  <2>3. n \in 0 .. n
    BY <1>1
  <2> QED BY <2>1, <2>2, <2>3
<1>3. /\ next(0) \in 0 .. Len(bytes) /\ next(n) = Len(bytes)
      /\ \A i \in 1 .. n :
           /\ v[i] \in 0 .. Len(bytes) /\ next(i - 1) = v[i]
           /\ end(i) \in v[i] .. Len(bytes) /\ next(i) \in end(i) .. Len(bytes)
           /\ Part(bytes, v[i], end(i)) = Search(sections[i])
  BY <1>1, PlacedInOrder
<1>4. \A i \in 1 .. n : new(i) \in Seq(Bytes) /\ kept(i) \in Seq(Bytes)
  <2> SUFFICES ASSUME NEW i \in 1 .. n
               PROVE  new(i) \in Seq(Bytes) /\ kept(i) \in Seq(Bytes)
    OBVIOUS
  <2>1. sections[i] \in Section
    BY <1>1
  <2>2. /\ end(i) \in v[i] .. Len(bytes) /\ v[i] \in 0 .. Len(bytes)
        /\ next(i) \in end(i) .. Len(bytes)
    BY <1>3
  <2> HIDE DEF end, next
  <2>3. end(i) \in Nat
    BY <2>2
  <2> QED BY <2>1, <2>2, <2>3, PartIs, SectionTyped
<1> HIDE DEF out, end, next, new, kept
<1>5. w \in [1 .. n -> 0 .. Len(out)] /\ Len(w) = n
      /\ \A i \in 1 .. n : IsPlace(out, swapped[i], Cursor(swapped, w, i), w[i])
  <2>1. w \in [1 .. n -> 0 .. Len(out)]
        /\ \A i \in 1 .. n : IsPlace(out, swapped[i], Cursor(swapped, w, i), w[i])
    BY <1>1 DEF Vectors, out
  <2>2. Len(w) = n
    BY <1>1, <2>1
  <2> QED BY <2>1, <2>2
\* What is written for a section stands behind what is written before it.
<1>6. ASSUME NEW i \in 1 .. n
      PROVE  /\ Len(W[i - 1]) \in Nat /\ Len(new(i)) \in Nat /\ Len(W[i]) \in Nat
             /\ Len(W[i - 1]) + Len(new(i)) \in Len(W[i - 1]) .. Len(W[i])
             /\ Len(W[i]) <= Len(out)
             /\ Part(out, Len(W[i - 1]), Len(W[i - 1]) + Len(new(i))) = new(i)
             /\ Part(out, Len(W[i - 1]) + Len(new(i)), Len(W[i])) = kept(i)
  <2> DEFINE old == W[i - 1]
             x == old \o new(i)
             y == W[i]
  <2>1. old \in Seq(Bytes) /\ y \in Seq(Bytes) /\ y = x \o kept(i) /\ Leads(y, out)
    <3>1. i - 1 \in 0 .. n /\ i \in 0 .. n
      BY <1>1
    <3> QED BY <1>2, <3>1
  <2>2. new(i) \in Seq(Bytes) /\ kept(i) \in Seq(Bytes)
    BY <1>4
  <2> HIDE DEF old, y
  <2>3. /\ Len(old) \in Nat /\ Len(new(i)) \in Nat /\ Len(x) = Len(old) + Len(new(i))
        /\ Part(x, Len(old), Len(old) + Len(new(i))) = new(i)
    BY <2>1, <2>2, ConcatParts
  <2>4. x \in Seq(Bytes)
    BY <2>1, <2>2, ConcatProperties
  <2> HIDE DEF x
  <2>5. /\ Len(x) \in Nat /\ Len(kept(i)) \in Nat /\ Len(y) = Len(x) + Len(kept(i))
        /\ Part(y, Len(x), Len(y)) = kept(i) /\ Leads(x, y)
    BY <2>1, <2>2, <2>4, ConcatParts
  <2>6. Leads(x, out)
    BY <2>1, <2>5, LeadsTransitive
  <2>7. Part(out, Len(old), Len(x)) = new(i)
    <3>1. Len(x) \in Len(old) .. Len(x)
      BY <2>3
    <3> QED BY <2>3, <2>6, <3>1, LeadsPart
  <2>8. Part(out, Len(x), Len(y)) = kept(i)
    <3>1. Len(y) \in Len(x) .. Len(y)
      BY <2>5
    <3> QED BY <2>1, <2>5, <3>1, LeadsPart
  <2>9. Len(y) <= Len(out)
    BY <2>1 DEF Leads
  <2>10. Len(y) \in Nat /\ Len(x) \in Len(old) .. Len(y)
    BY <2>3, <2>5
  <2> QED BY <2>3, <2>7, <2>8, <2>9, <2>10 DEF old, y
\* So the way back finds it there, and nowhere else.
<1>7. ASSUME NEW i \in 1 .. n, i # 1 => w[i - 1] = Len(W[i - 2])
      PROVE  w[i] = Len(W[i - 1])
  <2> DEFINE at == Len(W[i - 1])
             cursor == Cursor(swapped, w, i)
  <2>1. Search(swapped[i]) = new(i)
    BY <1>1 DEF new
  <2>2. OccursAt(out, new(i), at) /\ at \in 0 .. Len(out) /\ at \in Nat
    <3>1. /\ at \in Nat /\ Len(new(i)) \in Nat /\ Len(W[i]) \in Nat /\ Len(W[i]) <= Len(out)
          /\ at + Len(new(i)) \in at .. Len(W[i])
          /\ Part(out, at, at + Len(new(i))) = new(i)
      BY <1>6
    <3>2. Len(out) \in Nat
      BY <1>2
    <3> HIDE DEF at
    <3>3. at + Len(new(i)) <= Len(out) /\ at \in 0 .. Len(out)
      BY <3>1, <3>2
    <3> QED BY <3>1, <3>3 DEF OccursAt, Part
  <2>3. cursor \in 0 .. at
    <3>1. CASE i = 1
      BY <2>2, <3>1 DEF Cursor
    <3>2. CASE i # 1
      <4>1. PICK j \in 1 .. n : j = i - 1 /\ i - 2 = j - 1
        BY <1>1, <3>2
      <4>2. cursor = w[j] + Len(Search(swapped[j]))
        BY <3>2, <4>1 DEF Cursor, MatchEnd
      <4>3. Search(swapped[j]) = new(j)
        BY <1>1 DEF new
      <4>4. w[j] = Len(W[j - 1])
        BY <1>7, <3>2, <4>1
      <4>5. Len(W[j - 1]) + Len(new(j)) \in Len(W[j - 1]) .. Len(W[j]) /\ Len(W[j - 1]) \in Nat
            /\ Len(new(j)) \in Nat /\ Len(W[j]) \in Nat
        BY <1>6
      <4>6. at = Len(W[j])
        BY <4>1
      <4> HIDE DEF cursor, at
      <4>7. cursor = Len(W[j - 1]) + Len(new(j))
        BY <4>2, <4>3, <4>4
      <4> QED BY <4>5, <4>6, <4>7
    <3> QED BY <3>1, <3>2
  <2>4. Places(out, new(i), cursor) = {w[i]}
    BY <1>5, <2>1 DEF IsPlace
  <2>5. at \in Places(out, new(i), cursor)
    <3>1. at \in cursor .. Len(out)
      <4>1. Len(out) \in Nat
        BY <1>2
      <4> HIDE DEF at, cursor
      <4> QED BY <2>2, <2>3, <4>1
    <3> QED BY <2>2, <3>1 DEF Places
  <2> QED BY <2>4, <2>5
<1> DEFINE G == {i \in 0 .. n : i # 0 => w[i] = Len(W[i - 1])}
<1>8. \A i \in 1 .. n : w[i] = Len(W[i - 1])
  <2>1. 0 \in G
    BY <1>1
  <2>2. ASSUME NEW i \in 1 .. n, i - 1 \in G
        PROVE  i \in G
    <3>1. i # 1 => w[i - 1] = Len(W[(i - 1) - 1])
      BY <2>2
    <3>2. (i - 1) - 1 = i - 2 /\ i \in 0 .. n
      BY <1>1
    <3>3. w[i] = Len(W[i - 1])
      BY <1>7, <3>1, <3>2
    <3> QED BY <3>2, <3>3
  <2>3. \A i \in 0 .. n : i \in G
    <3> HIDE DEF G
    <3> QED BY <1>1, <2>1, <2>2, UpTo
  <2>4. \A i \in 1 .. n : i \in 0 .. n /\ i # 0
    BY <1>1
  <2> QED BY <2>3, <2>4
<1>9. \A i \in 0 .. n : NextStart(out, w, i) = Len(W[i])
  <2> SUFFICES ASSUME NEW i \in 0 .. n
               PROVE  NextStart(out, w, i) = Len(W[i])
    OBVIOUS
  <2>1. CASE i = n
    BY <1>1, <1>5, <2>1 DEF NextStart, out
  <2>2. CASE i # n
    <3>1. i < n /\ i + 1 \in 1 .. n /\ (i + 1) - 1 = i
      BY <1>1, <2>2
    <3>2. w[i + 1] = Len(W[i])
      BY <1>8, <3>1
    <3> QED BY <1>5, <3>1, <3>2 DEF NextStart
  <2> QED BY <2>1, <2>2
<1>10. Z[0] = Part(bytes, 0, next(0))
  <2>1. Z[0] = Part(out, 0, Len(W[0]))
    <3>1. Z[0] = Part(out, 0, NextStart(out, w, 0))
      BY <1>1 DEF Writes, out
    <3>2. 0 \in 0 .. n
      BY <1>1
    <3> QED BY <1>9, <3>1, <3>2
  <2>2. W[0] \in Seq(Bytes) /\ Leads(W[0], out)
    <3>1. 0 \in 0 .. n
      BY <1>1
    <3> QED BY <1>2, <3>1
  <2>3. Len(W[0]) \in Nat /\ Len(W[0]) \in 0 .. Len(W[0])
    BY <2>2
  <2>4. Part(out, 0, Len(W[0])) = Part(W[0], 0, Len(W[0]))
    BY <2>2, <2>3, LeadsPart
  <2>5. Part(W[0], 0, Len(W[0])) = W[0]
    <3> DEFINE z == W[0]
               p == Part(z, 0, Len(z))
    <3>1. z \in Seq(Bytes) /\ Len(z) \in Nat /\ Len(z) \in 0 .. Len(z) /\ Len(z) - 0 = Len(z)
      BY <2>2, <2>3
    <3> HIDE DEF z
    <3>2. p \in Seq(Bytes) /\ Len(p) = Len(z) /\ \A i \in 1 .. Len(z) : p[i] = z[0 + i]
      BY <3>1, PartIs
    <3>3. \A i \in 1 .. Len(z) : 0 + i = i
      BY <3>1
    <3> HIDE DEF p
    <3>4. p = z
      BY <3>1, <3>2, <3>3, SeqEqual
    <3> QED BY <3>4 DEF p, z
  <2> QED BY <1>2, <2>1, <2>4, <2>5
<1>11. ASSUME NEW i \in 1 .. n, Z[i - 1] = Part(bytes, 0, next(i - 1))
       PROVE  Z[i] = Part(bytes, 0, next(i))
  <2>1. Z[i] = (Z[i - 1] \o Replacement(swapped[i]))
                 \o Part(out, MatchEnd(swapped[i], w[i]), NextStart(out, w, i))
    BY <1>1 DEF Writes, out
  <2>2. Replacement(swapped[i]) = Part(bytes, v[i], end(i))
    BY <1>1, <1>3
  <2>3. MatchEnd(swapped[i], w[i]) = Len(W[i - 1]) + Len(new(i)) /\ NextStart(out, w, i) = Len(W[i])
    <3>1. Search(swapped[i]) = new(i) /\ w[i] = Len(W[i - 1])
      BY <1>1, <1>8 DEF new
    <3>2. NextStart(out, w, i) = Len(W[i])
      BY <1>1, <1>9
    <3> QED BY <3>1, <3>2 DEF MatchEnd
  <2>4. Part(out, MatchEnd(swapped[i], w[i]), NextStart(out, w, i)) = Part(bytes, end(i), next(i))
    BY <1>6, <2>3 DEF kept
  <2>5. /\ v[i] \in 0 .. Len(bytes) /\ next(i - 1) = v[i]
        /\ end(i) \in v[i] .. Len(bytes) /\ next(i) \in end(i) .. Len(bytes)
    BY <1>3
  <2>6. v[i] \in Nat /\ end(i) \in 0 .. Len(bytes)
    BY <2>5
  <2>7. Part(bytes, 0, v[i]) \o Part(bytes, v[i], end(i)) = Part(bytes, 0, end(i))
    BY <2>5, PartsJoin
  <2>8. Part(bytes, 0, end(i)) \o Part(bytes, end(i), next(i)) = Part(bytes, 0, next(i))
    BY <2>5, <2>6, PartsJoin
  <2> QED BY <1>11, <2>1, <2>2, <2>4, <2>5, <2>7, <2>8
<1> DEFINE H == {i \in 0 .. n : Z[i] = Part(bytes, 0, next(i))}
<1>12. \A i \in 0 .. n : i \in H
  <2>1. 0 \in H
    BY <1>1, <1>10
  <2>2. ASSUME NEW i \in 1 .. n, i - 1 \in H
        PROVE  i \in H
    BY <1>1, <1>11, <2>2
  <2> HIDE DEF H
  <2> QED BY <1>1, <2>1, <2>2, UpTo
<1>13. Z[n] = Part(bytes, 0, Len(bytes))
  <2>1. n \in 0 .. n
    BY <1>1
  <2> QED BY <1>3, <1>12, <2>1
<1>14. Part(bytes, 0, Len(bytes)) = bytes
  <2> DEFINE p == Part(bytes, 0, Len(bytes))
  <2>1. Len(bytes) \in Nat /\ Len(bytes) \in 0 .. Len(bytes) /\ Len(bytes) - 0 = Len(bytes)
    OBVIOUS
  <2>2. p \in Seq(Bytes) /\ Len(p) = Len(bytes) /\ \A i \in 1 .. Len(bytes) : p[i] = bytes[0 + i]
    BY <2>1, PartIs
  <2>3. \A i \in 1 .. Len(bytes) : 0 + i = i
    BY <2>1
  <2> HIDE DEF p
  <2>4. p = bytes
    BY <2>1, <2>2, <2>3, SeqEqual
  <2> QED BY <2>4 DEF p
<1> QED BY <1>1, <1>13, <1>14


(***************************************************************************)
(* A diff of sections can be taken back: whenever the swapped diff applies *)
(* to the result at all, apply_file gives the file as it was.              *)
(***************************************************************************)
THEOREM BackAndForth == Spec => []SwapRestores
<1>1. AnswerInv => SwapRestores
  <2> DEFINE ss == edit.sections
             swapped == [i \in DOMAIN ss |-> Swap(ss[i])]
             back_edit == [leading |-> << >>, sections |-> swapped]
             back == ApplyFile(result.data, back_edit)
  <2> SUFFICES ASSUME AnswerInv, Answered, result.ok, ~HasReplaces, back.ok
               PROVE  back.data = data
    BY DEF SwapRestores
  <2>1. /\ result = ApplyFile(data, edit) /\ data \in Seq(Bytes) /\ edit \in FileEdit
        /\ ss \in Seq(Section) /\ edit.leading \in Seq(Change)
    BY Typed DEF AnswerInv, Answered
  <2>2. edit.leading = << >> /\ \A i \in 1 .. Len(ss) : ss[i].replaces = << >>
    <3>1. DOMAIN ss = 1 .. Len(ss)
      BY <2>1
    <3> QED BY <3>1 DEF HasReplaces
  <2>3. PICK n \in Nat : n = Len(ss)
    BY <2>1
  <2>4. PICK v : Vectors(data, ss, n) = {v} /\ result = Splice(data, edit, v)
    <3>1. ~\E why \in Unplaced : result = Error(why)
      BY DEF Error
    <3> QED BY <2>1, <2>3, <3>1, AppliedAt
  <2>5. v \in Vectors(data, ss, n)
    BY <2>4
  <2>6. PICK W : Writes(data, ss, v, W) /\ Splice(data, edit, v) = Ok(W[n])
    BY <2>1, <2>2, <2>3, <2>5, WrittenAre
  <2>7. result.data = W[n] /\ W[n] \in Seq(Bytes)
    <3>1. n \in 0 .. n
      BY <2>3
    <3>2. W[n] \in Seq(Bytes)
      BY <2>3, <2>6, <3>1 DEF Writes
    <3> QED BY <2>4, <2>6, <3>2, OkIs
  <2>8. /\ swapped \in Seq(Section) /\ Len(swapped) = n
        /\ \A i \in 1 .. n : /\ Search(swapped[i]) = Replacement(ss[i])
                             /\ Replacement(swapped[i]) = Search(ss[i])
                             /\ swapped[i].replaces = << >>
    <3> HIDE DEF ss
    <3>1. DOMAIN ss = 1 .. n /\ \A i \in 1 .. n : ss[i] \in Section
      BY <2>1, <2>3
    <3>2. \A i \in 1 .. n : Swap(ss[i]) \in Section
      BY <3>1, SwapIs
    <3>3. swapped \in [1 .. n -> Section]
      BY <3>1, <3>2
    <3>4. \A i \in 1 .. n : swapped[i] = Swap(ss[i])
      BY <3>1
    <3> HIDE DEF swapped
    <3>5. swapped \in Seq(Section) /\ Len(swapped) = n
      BY <2>3, <3>3
    <3> QED BY <3>1, <3>4, <3>5, SwapIs
  <2> HIDE DEF swapped
  <2>9. back_edit \in FileEdit /\ back_edit.leading = << >> /\ back_edit.sections = swapped
    <3>1. << >> \in Seq(Change)
      OBVIOUS
    <3> QED BY <2>8, <3>1 DEF FileEdit
  <2>10. back = ApplyFile(W[n], back_edit) /\ back.ok
    BY <2>7
  <2> HIDE DEF back, back_edit
  <2>11. PICK w : Vectors(W[n], swapped, n) = {w} /\ back = Splice(W[n], back_edit, w)
    <3>1. ~\E why \in Unplaced : back = Error(why)
      BY <2>10, ErrorIs
    <3> QED BY <2>7, <2>8, <2>9, <2>10, <3>1, AppliedAt
  <2>12. w \in Vectors(W[n], swapped, n)
    BY <2>11
  <2>13. PICK Z : Writes(W[n], swapped, w, Z) /\ Splice(W[n], back_edit, w) = Ok(Z[n])
    BY <2>7, <2>8, <2>9, <2>12, WrittenAre
  <2>14. Z[n] = data
    <3> HIDE DEF ss
    <3>1. /\ data \in Seq(Bytes) /\ ss \in Seq(Section) /\ v \in Vectors(data, ss, Len(ss))
          /\ Writes(data, ss, v, W)
      BY <2>1, <2>3, <2>5, <2>6
    <3>2. swapped \in Seq(Section) /\ Opposite(ss, swapped)
      BY <2>3, <2>8 DEF Opposite
    <3>3. w \in Vectors(W[Len(ss)], swapped, Len(ss)) /\ Writes(W[Len(ss)], swapped, w, Z)
      BY <2>3, <2>8, <2>12, <2>13
    <3>4. Z[Len(ss)] = data
      BY <3>1, <3>2, <3>3, BackWrites
    <3> QED BY <2>3, <3>4
  <2> QED BY <2>11, <2>13, <2>14, OkIs
<1> QED BY <1>1, Answers, PTL

=============================================================================
