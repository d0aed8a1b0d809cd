----------------------------- MODULE ScanProofs -----------------------------
(***************************************************************************)
(* The scanning primitives of scan.rs, for every buffer: that each returns *)
(* Err or an offset behind the one it starts from and not past the stop,   *)
(* and what it returns, byte by byte.  Then the scan of stream.rs as a     *)
(* function: what payload_end returns, what one iteration of the loop      *)
(* does, what the loop's result is, and how the results for a buffer, for  *)
(* a prefix of it and for what is appended to it are related.              *)
(***************************************************************************)
EXTENDS StreamScan, RecursionProofs, SequenceTheorems, TLAPS

-----------------------------------------------------------------------------
(* Scanning to the first byte of another class. *)

\* layout moves over layout only, as far as it goes, and not past the stop.
LEMMA LayoutStops ==
  ASSUME NEW bytes, NEW stop \in Nat, NEW pos \in 0 .. stop
  PROVE  /\ Layout(bytes, pos, stop) \in pos .. stop
         /\ \A q \in pos .. (Layout(bytes, pos, stop) - 1) : IsLayout(At(bytes, q))
         /\ Layout(bytes, pos, stop) < stop => ~IsLayout(At(bytes, Layout(bytes, pos, stop)))
<1> DEFINE Found(p) == /\ \A q \in pos .. (p - 1) : IsLayout(At(bytes, q))
                       /\ p < stop => ~IsLayout(At(bytes, p))
           Ends == {p \in pos .. stop : p < stop => ~IsLayout(At(bytes, p))}
<1>1. CASE pos < stop
  <2>1. Ends \in SUBSET Nat /\ stop \in Ends
    BY <1>1
  <2>2. PICK m \in Ends : \A n \in Ends : m <= n
    BY <2>1, LeastOffset
  <2>3. \A q \in pos .. (m - 1) : IsLayout(At(bytes, q))
    <3> SUFFICES ASSUME NEW q \in pos .. (m - 1), ~IsLayout(At(bytes, q))
                 PROVE  FALSE
      OBVIOUS
    <3>1. q \in Ends
      BY <2>1, <2>2
    <3> QED BY <2>1, <2>2, <3>1
  <2>4. \E p \in pos .. stop : Found(p)
    BY <2>2, <2>3
  <2>5. Layout(bytes, pos, stop) = CHOOSE p \in pos .. stop : Found(p)
    BY <1>1 DEF Layout
  <2> HIDE DEF Found
  <2>6. Layout(bytes, pos, stop) \in pos .. stop /\ Found(Layout(bytes, pos, stop))
    BY <2>4, <2>5
  <2> QED BY <2>6 DEF Found
<1>2. CASE pos = stop
  BY <1>2 DEF Layout
<1> QED BY <1>1, <1>2

\* plain moves over plain bytes only, as far as they go, and not past the stop.
LEMMA PlainStops ==
  ASSUME NEW bytes, NEW stop \in Nat, NEW pos \in 0 .. stop
  PROVE  /\ Plain(bytes, pos, stop) \in pos .. stop
         /\ \A q \in pos .. (Plain(bytes, pos, stop) - 1) : IsPlain(At(bytes, q))
         /\ Plain(bytes, pos, stop) < stop => ~IsPlain(At(bytes, Plain(bytes, pos, stop)))
<1> DEFINE Found(p) == /\ \A q \in pos .. (p - 1) : IsPlain(At(bytes, q))
                       /\ p < stop => ~IsPlain(At(bytes, p))
           Ends == {p \in pos .. stop : p < stop => ~IsPlain(At(bytes, p))}
<1>1. CASE pos < stop
  <2>1. Ends \in SUBSET Nat /\ stop \in Ends
    BY <1>1
  <2>2. PICK m \in Ends : \A n \in Ends : m <= n
    BY <2>1, LeastOffset
  <2>3. \A q \in pos .. (m - 1) : IsPlain(At(bytes, q))
    <3> SUFFICES ASSUME NEW q \in pos .. (m - 1), ~IsPlain(At(bytes, q))
                 PROVE  FALSE
      OBVIOUS
    <3>1. q \in Ends
      BY <2>1, <2>2
    <3> QED BY <2>1, <2>2, <3>1
  <2>4. \E p \in pos .. stop : Found(p)
    BY <2>2, <2>3
  <2>5. Plain(bytes, pos, stop) = CHOOSE p \in pos .. stop : Found(p)
    BY <1>1 DEF Plain
  <2> HIDE DEF Found
  <2>6. Plain(bytes, pos, stop) \in pos .. stop /\ Found(Plain(bytes, pos, stop))
    BY <2>4, <2>5
  <2> QED BY <2>6 DEF Found
<1>2. CASE pos = stop
  BY <1>2 DEF Plain
<1> QED BY <1>1, <1>2

\* Both stop at the only place where it can.
LEMMA LayoutIs ==
  ASSUME NEW bytes, NEW stop \in Nat, NEW pos \in 0 .. stop, NEW p \in pos .. stop,
         \A q \in pos .. (p - 1) : IsLayout(At(bytes, q)),
         p < stop => ~IsLayout(At(bytes, p))
  PROVE  Layout(bytes, pos, stop) = p
<1>1. /\ Layout(bytes, pos, stop) \in pos .. stop
      /\ \A q \in pos .. (Layout(bytes, pos, stop) - 1) : IsLayout(At(bytes, q))
      /\ Layout(bytes, pos, stop) < stop => ~IsLayout(At(bytes, Layout(bytes, pos, stop)))
  BY LayoutStops
<1> QED BY <1>1

LEMMA PlainIs ==
  ASSUME NEW bytes, NEW stop \in Nat, NEW pos \in 0 .. stop, NEW p \in pos .. stop,
         \A q \in pos .. (p - 1) : IsPlain(At(bytes, q)),
         p < stop => ~IsPlain(At(bytes, p))
  PROVE  Plain(bytes, pos, stop) = p
<1>1. /\ Plain(bytes, pos, stop) \in pos .. stop
      /\ \A q \in pos .. (Plain(bytes, pos, stop) - 1) : IsPlain(At(bytes, q))
      /\ Plain(bytes, pos, stop) < stop => ~IsPlain(At(bytes, Plain(bytes, pos, stop)))
  BY PlainStops
<1> QED BY <1>1

-----------------------------------------------------------------------------
(* text. *)

\* The loop of text, from every offset.
TextRest(buf, stop) ==
  LET rest[p \in 0 .. stop] ==
        IF p = stop THEN Err
        ELSE CASE At(buf, p) = DLE ->
                    IF p + 1 < stop /\ IsTextEscaped(At(buf, p + 1))
                    THEN rest[p + 2] ELSE Err
               [] At(buf, p) = ETX -> p + 1
               [] At(buf, p) = STX \/ IsFraming(At(buf, p)) -> Err
               [] OTHER -> rest[p + 1]
  IN  rest

\* A DLE and the byte it escapes.
EscapeAt(buf, p, stop) ==
  At(buf, p) = DLE /\ p + 1 < stop /\ IsTextEscaped(At(buf, p + 1))

\* A byte that stands for itself in a text.
PlainInText(b) == b \notin {DLE, ETX, STX, ETB, EOT, SYN, EM}

LEMMA TextUnfolds ==
  ASSUME NEW buf, NEW stop \in Nat
  PROVE  /\ \A pos \in Nat : Text(buf, pos, stop) =
              IF pos + 1 > stop THEN Err ELSE TextRest(buf, stop)[pos + 1]
         /\ TextRest(buf, stop)[stop] = Err
         /\ \A p \in 0 .. stop - 1 :
              /\ EscapeAt(buf, p, stop) => TextRest(buf, stop)[p] = TextRest(buf, stop)[p + 2]
              /\ At(buf, p) = ETX => TextRest(buf, stop)[p] = p + 1
              /\ PlainInText(At(buf, p)) => TextRest(buf, stop)[p] = TextRest(buf, stop)[p + 1]
              /\ ~EscapeAt(buf, p, stop) /\ At(buf, p) # ETX /\ ~PlainInText(At(buf, p))
                   => TextRest(buf, stop)[p] = Err
<1> DEFINE Value(f, p) ==
             IF p = stop THEN Err
             ELSE CASE At(buf, p) = DLE ->
                         IF p + 1 < stop /\ IsTextEscaped(At(buf, p + 1))
                         THEN f[p + 2] ELSE Err
                    [] At(buf, p) = ETX -> p + 1
                    [] At(buf, p) = STX \/ IsFraming(At(buf, p)) -> Err
                    [] OTHER -> f[p + 1]
           Body(f) == [p \in 0 .. stop |-> Value(f, p)]
           rest == CHOOSE h : h = Body(h)
           go   == [p \in 0 .. stop |-> p < stop /\ (EscapeAt(buf, p, stop) \/ PlainInText(At(buf, p)))]
           next == [p \in 0 .. stop |-> IF EscapeAt(buf, p, stop) THEN p + 2
                                        ELSE IF p < stop THEN p + 1 ELSE p]
           out  == [p \in 0 .. stop |-> IF p < stop /\ At(buf, p) = ETX THEN p + 1 ELSE Err]
<1>1. /\ TextRest(buf, stop) = rest
      /\ \A pos \in Nat : Text(buf, pos, stop) = IF pos + 1 > stop THEN Err ELSE rest[pos + 1]
  BY DEF Text, TextRest
<1>2. ASSUME NEW f, NEW p \in 0 .. stop - 1
      PROVE  /\ EscapeAt(buf, p, stop) => Value(f, p) = f[p + 2]
             /\ At(buf, p) = ETX => Value(f, p) = p + 1
             /\ PlainInText(At(buf, p)) => Value(f, p) = f[p + 1]
             /\ ~EscapeAt(buf, p, stop) /\ At(buf, p) # ETX /\ ~PlainInText(At(buf, p))
                  => Value(f, p) = Err
  BY DEF EscapeAt, PlainInText, IsFraming, STX, ETX, EOT, DLE, SYN, ETB, EM
<1>3. \A f : Value(f, stop) = Err
  OBVIOUS
<1>4. PICK g : Follows(g, 0 .. stop, go, next, out)
  <2>1. next \in [0 .. stop -> 0 .. stop]
    BY DEF EscapeAt
  <2> HIDE DEF go, next, out
  <2> QED BY <2>1, TailRecursion
<1>5. ASSUME NEW p \in 0 .. stop
      PROVE  g[p] = Value(g, p)
  <2>0. g[p] = IF go[p] THEN g[next[p]] ELSE out[p]
    BY <1>4 DEF Follows
  <2>1. /\ EscapeAt(buf, p, stop) => At(buf, p) = DLE /\ p < stop
        /\ PlainInText(At(buf, p)) => At(buf, p) # DLE /\ At(buf, p) # ETX
    BY DEF EscapeAt, PlainInText
  <2>2. ETX # DLE
    BY DEF ETX, DLE
  <2>3. EscapeAt(buf, p, stop) => go[p] /\ next[p] = p + 2
    BY <2>1
  <2>4. p < stop /\ PlainInText(At(buf, p)) => go[p] /\ next[p] = p + 1
    BY <2>1
  <2>5. p < stop /\ At(buf, p) = ETX => ~go[p] /\ out[p] = p + 1
    BY <2>1, <2>2
  <2>6. p < stop /\ ~EscapeAt(buf, p, stop) /\ At(buf, p) # ETX /\ ~PlainInText(At(buf, p))
          => ~go[p] /\ out[p] = Err
    OBVIOUS
  <2>7. ASSUME p = stop
        PROVE  ~go[p] /\ out[p] = Err
    <3>1. go[p] = (p < stop /\ (EscapeAt(buf, p, stop) \/ PlainInText(At(buf, p))))
      OBVIOUS
    <3>2. out[p] = IF p < stop /\ At(buf, p) = ETX THEN p + 1 ELSE Err
      OBVIOUS
    <3>3. ~(p < stop)
      BY <2>7
    <3> HIDE DEF go, out
    <3> QED BY <3>1, <3>2, <3>3
  <2> HIDE DEF go, next, out, Value
  <2>8. CASE p = stop
    BY <1>3, <2>0, <2>7, <2>8
  <2>9. CASE p # stop
    <3>1. p \in 0 .. stop - 1 /\ p < stop
      BY <2>9
    <3> QED BY <1>2, <2>0, <2>3, <2>4, <2>5, <2>6, <3>1
  <2> QED BY <2>8, <2>9
<1>6. rest = Body(rest)
  <2>1. g = Body(g)
    <3> HIDE DEF Value
    <3> QED BY <1>4, <1>5 DEF Follows
  <2> HIDE DEF Body
  <2> QED BY <2>1
<1> HIDE DEF rest
<1>7. \A p \in 0 .. stop : rest[p] = Value(rest, p)
  <2> HIDE DEF Value
  <2> QED BY <1>6
<1> HIDE DEF Value, Body
<1> QED BY <1>1, <1>2, <1>3, <1>7

\* text returns Err or an offset behind the one it starts from.
LEMMA TextStops ==
  ASSUME NEW buf, NEW stop \in Nat
  PROVE  /\ \A p \in 0 .. stop : TextRest(buf, stop)[p] \in {Err} \cup (p + 1 .. stop)
         /\ \A pos \in Nat : Text(buf, pos, stop) \in {Err} \cup (pos + 2 .. stop)
<1> DEFINE t == TextRest(buf, stop)
           G == {p \in 0 .. stop : t[p] \in {Err} \cup (p + 1 .. stop)}
<1> HIDE DEF t
<1>1. stop \in G
  BY TextUnfolds DEF t
<1>2. ASSUME NEW i \in 0 .. stop - 1, \A j \in i + 1 .. stop : j \in G
      PROVE  i \in G
  <2>1. CASE EscapeAt(buf, i, stop)
    <3>1. t[i] = t[i + 2] /\ i + 2 \in i + 1 .. stop
      BY <2>1, TextUnfolds DEF t, EscapeAt
    <3> QED BY <1>2, <3>1
  <2>2. CASE At(buf, i) = ETX
    <3>1. t[i] = i + 1
      BY <2>2, TextUnfolds DEF t
    <3> QED BY <3>1
  <2>3. CASE PlainInText(At(buf, i))
    <3>1. t[i] = t[i + 1] /\ i + 1 \in i + 1 .. stop
      BY <2>3, TextUnfolds DEF t
    <3> QED BY <1>2, <3>1
  <2>4. CASE ~EscapeAt(buf, i, stop) /\ At(buf, i) # ETX /\ ~PlainInText(At(buf, i))
    <3>1. t[i] = Err
      BY <2>4, TextUnfolds DEF t
    <3> QED BY <3>1
  <2> QED BY <2>1, <2>2, <2>3, <2>4
<1>3. \A i \in 0 .. stop : i \in G
  <2> HIDE DEF G
  <2> QED BY <1>1, <1>2, DownFrom
<1>4. \A p \in 0 .. stop : t[p] \in {Err} \cup (p + 1 .. stop)
  BY <1>3
<1>5. ASSUME NEW pos \in Nat
      PROVE  Text(buf, pos, stop) \in {Err} \cup (pos + 2 .. stop)
  <2>1. Text(buf, pos, stop) = IF pos + 1 > stop THEN Err ELSE t[pos + 1]
    BY TextUnfolds DEF t
  <2> QED BY <1>4, <2>1
<1> QED BY <1>4, <1>5 DEF t

-----------------------------------------------------------------------------
(* level. *)

\* The loop of level, from every offset at every depth.
LevelRest(buf, stop) ==
  LET rest[at \in (0 .. stop) \X (Nat \ {0})] ==
        LET p     == at[1]
            depth == at[2]
        IN  IF p = stop THEN Err
            ELSE CASE At(buf, p) = STX ->
                        InLevel(Text(buf, p, stop), depth, rest)
                   [] At(buf, p) = DLE -> rest[<<p + 1, depth + 1>>]
                   [] At(buf, p) = CAN ->
                        IF depth = 1 THEN p + 1 ELSE rest[<<p + 1, depth - 1>>]
                   [] IsFraming(At(buf, p)) -> Err
                   [] OTHER -> rest[<<p + 1, depth>>]
  IN  rest

\* A byte that a level passes over.
PlainInLevel(b) == b \notin {STX, DLE, CAN, ETB, EOT, SYN, EM}

\* Where the loop of level goes on, or where it is at its end.
LevelGoesOn(buf, stop, p, depth) ==
  /\ p < stop
  /\ \/ At(buf, p) = STX /\ Text(buf, p, stop) # Err
     \/ At(buf, p) = DLE
     \/ At(buf, p) = CAN /\ depth # 1
     \/ PlainInLevel(At(buf, p))

LevelNext(buf, stop, p, depth) ==
  <<IF At(buf, p) = STX THEN Text(buf, p, stop) ELSE p + 1,
    IF At(buf, p) = DLE THEN depth + 1
    ELSE IF At(buf, p) = CAN THEN depth - 1
    ELSE depth>>

LevelUnfolded(buf, stop, rest, p, depth) ==
  rest[<<p, depth>>] =
    IF LevelGoesOn(buf, stop, p, depth) THEN rest[LevelNext(buf, stop, p, depth)]
    ELSE IF p < stop /\ At(buf, p) = CAN THEN p + 1
    ELSE Err

LEMMA LevelUnfolds ==
  ASSUME NEW buf, NEW stop \in Nat
  PROVE  /\ \A pos \in Nat : Level(buf, pos, stop) =
              IF pos + 1 > stop THEN Err ELSE LevelRest(buf, stop)[<<pos + 1, 1>>]
         /\ \A p \in 0 .. stop, depth \in Nat \ {0} :
              LevelUnfolded(buf, stop, LevelRest(buf, stop), p, depth)
<1> DEFINE S == (0 .. stop) \X (Nat \ {0})
           Value(f, at) ==
             IF at[1] = stop THEN Err
             ELSE CASE At(buf, at[1]) = STX ->
                         InLevel(Text(buf, at[1], stop), at[2], f)
                    [] At(buf, at[1]) = DLE -> f[<<at[1] + 1, at[2] + 1>>]
                    [] At(buf, at[1]) = CAN ->
                         IF at[2] = 1 THEN at[1] + 1 ELSE f[<<at[1] + 1, at[2] - 1>>]
                    [] IsFraming(At(buf, at[1])) -> Err
                    [] OTHER -> f[<<at[1] + 1, at[2]>>]
           Body(f) == [at \in (0 .. stop) \X (Nat \ {0}) |-> Value(f, at)]
           rest == CHOOSE h : h = Body(h)
           go   == [at \in S |-> LevelGoesOn(buf, stop, at[1], at[2])]
           next == [at \in S |-> IF LevelGoesOn(buf, stop, at[1], at[2])
                                 THEN LevelNext(buf, stop, at[1], at[2]) ELSE at]
           out  == [at \in S |-> IF at[1] < stop /\ At(buf, at[1]) = CAN THEN at[1] + 1 ELSE Err]
<1>1. /\ LevelRest(buf, stop) = rest
      /\ \A pos \in Nat : Level(buf, pos, stop) = IF pos + 1 > stop THEN Err ELSE rest[<<pos + 1, 1>>]
  BY DEF Level, LevelRest
<1>2. ASSUME NEW f, NEW p \in 0 .. stop, NEW depth \in Nat \ {0}
      PROVE  Value(f, <<p, depth>>) =
               IF LevelGoesOn(buf, stop, p, depth) THEN f[LevelNext(buf, stop, p, depth)]
               ELSE IF p < stop /\ At(buf, p) = CAN THEN p + 1
               ELSE Err
  <2> DEFINE b == At(buf, p)
  <2>0. b # STX /\ b # DLE /\ b # CAN /\ ~IsFraming(b) <=> PlainInLevel(b)
    BY DEF PlainInLevel, IsFraming
  <2>1. STX # DLE /\ STX # CAN /\ DLE # CAN
    BY DEF STX, DLE, CAN
  <2>2. ~IsFraming(STX) /\ ~IsFraming(DLE) /\ ~IsFraming(CAN)
    BY DEF IsFraming, ETB, EOT, SYN, EM, STX, DLE, CAN
  <2>3. ~PlainInLevel(STX) /\ ~PlainInLevel(DLE) /\ ~PlainInLevel(CAN)
    BY DEF PlainInLevel
  <2>4. Value(f, <<p, depth>>) =
          IF p = stop THEN Err
          ELSE CASE b = STX -> InLevel(Text(buf, p, stop), depth, f)
                 [] b = DLE -> f[<<p + 1, depth + 1>>]
                 [] b = CAN -> IF depth = 1 THEN p + 1 ELSE f[<<p + 1, depth - 1>>]
                 [] IsFraming(b) -> Err
                 [] OTHER -> f[<<p + 1, depth>>]
    OBVIOUS
  <2> HIDE DEF Value, b
  <2>5. p = stop \/ p < stop
    OBVIOUS
  <2> DEFINE e == Text(buf, p, stop)
             goes == LevelGoesOn(buf, stop, p, depth)
             to   == LevelNext(buf, stop, p, depth)
             v == Value(f, <<p, depth>>)
             in == InLevel(e, depth, f)
  <2>6. /\ goes => p < stop
        /\ p < stop /\ b = STX => (goes <=> e # Err)
        /\ p < stop /\ b = DLE => goes
        /\ p < stop /\ b = CAN => (goes <=> depth # 1)
        /\ p < stop /\ IsFraming(b) => ~goes
        /\ p < stop /\ PlainInLevel(b) => goes
    <3> QED BY DEF LevelGoesOn, b, PlainInLevel, IsFraming, ETB, EOT, SYN, EM, STX, DLE, CAN
  <2>7. /\ b = STX => to = <<e, depth>>
        /\ b = DLE => to = <<p + 1, depth + 1>>
        /\ b = CAN => to = <<p + 1, depth - 1>>
        /\ PlainInLevel(b) => to = <<p + 1, depth>>
    <3> QED BY DEF LevelNext, b, PlainInLevel, STX, DLE, CAN
  <2>8. p = stop => v = Err
    BY <2>4
  <2>9. v = IF p = stop THEN Err
          ELSE CASE b = STX -> in
                 [] b = DLE -> f[<<p + 1, depth + 1>>]
                 [] b = CAN -> IF depth = 1 THEN p + 1 ELSE f[<<p + 1, depth - 1>>]
                 [] IsFraming(b) -> Err
                 [] OTHER -> f[<<p + 1, depth>>]
    BY <2>4
  <2> HIDE DEF v, in
  <2>10. /\ p < stop /\ b = STX => v = in
         /\ p < stop /\ b = DLE => v = f[<<p + 1, depth + 1>>]
         /\ p < stop /\ b = CAN => v = IF depth = 1 THEN p + 1 ELSE f[<<p + 1, depth - 1>>]
         /\ p < stop /\ IsFraming(b) => v = Err
         /\ p < stop /\ PlainInLevel(b) => v = f[<<p + 1, depth>>]
    <3> USE DEF PlainInLevel, IsFraming, ETB, EOT, SYN, EM, STX, DLE, CAN
    <3>1. p < stop => p # stop
      OBVIOUS
    <3> QED BY <2>9, <3>1
  <2> HIDE DEF v
  <2> HIDE DEF goes, to, e
  <2>14. CASE p = stop
    BY <2>6, <2>8, <2>14 DEF v, goes
  <2>15. CASE p < stop /\ b = STX
    BY <2>1, <2>6, <2>7, <2>10, <2>15 DEF InLevel, in, v, b, goes, to
  <2>16. CASE p < stop /\ b = DLE
    BY <2>6, <2>7, <2>10, <2>16 DEF v, goes, to
  <2>17. CASE p < stop /\ b = CAN
    BY <2>6, <2>7, <2>10, <2>17 DEF v, goes, to, b
  <2>18. CASE p < stop /\ IsFraming(b)
    BY <2>2, <2>6, <2>10, <2>18 DEF v, goes, to, b
  <2>19. CASE p < stop /\ PlainInLevel(b)
    BY <2>6, <2>7, <2>10, <2>19 DEF v, goes, to
  <2> QED BY <2>0, <2>5, <2>14, <2>15, <2>16, <2>17, <2>18, <2>19
<1>3. next \in [S -> S]
  <2>1. ASSUME NEW at \in S, LevelGoesOn(buf, stop, at[1], at[2])
        PROVE  LevelNext(buf, stop, at[1], at[2]) \in S
    <3>1. Text(buf, at[1], stop) \in {Err} \cup (at[1] + 2 .. stop)
      BY TextStops
    <3> DEFINE p == at[1]
               depth == at[2]
               e == Text(buf, p, stop)
    <3>2. p \in 0 .. stop /\ depth \in Nat \ {0} /\ p < stop
      BY <2>1 DEF LevelGoesOn
    <3>3. At(buf, p) = STX => e # Err
      BY <2>1 DEF LevelGoesOn, STX, DLE, CAN, PlainInLevel
    <3>4. At(buf, p) = CAN => depth # 1
      BY <2>1 DEF LevelGoesOn, STX, DLE, CAN, PlainInLevel
    <3>5. e \in {Err} \cup (p + 2 .. stop)
      BY <3>1
    <3> HIDE DEF p, depth, e
    <3>6. (IF At(buf, p) = STX THEN e ELSE p + 1) \in 0 .. stop
      BY <3>2, <3>3, <3>5
    <3>7. (IF At(buf, p) = DLE THEN depth + 1
           ELSE IF At(buf, p) = CAN THEN depth - 1 ELSE depth) \in Nat \ {0}
      BY <3>2, <3>4
    <3> QED BY <3>6, <3>7 DEF LevelNext, p, depth, e
  <2> QED BY <2>1
<1>4. PICK g : Follows(g, S, go, next, out)
  <2> HIDE DEF go, next, out, S
  <2> QED BY <1>3, TailRecursion
<1>5. ASSUME NEW at \in S
      PROVE  g[at] = Value(g, at)
  <2>1. g[at] = IF go[at] THEN g[next[at]] ELSE out[at]
    BY <1>4 DEF Follows
  <2>2. at = <<at[1], at[2]>> /\ at[1] \in 0 .. stop /\ at[2] \in Nat \ {0}
    OBVIOUS
  <2>3. /\ go[at] <=> LevelGoesOn(buf, stop, at[1], at[2])
        /\ LevelGoesOn(buf, stop, at[1], at[2]) => next[at] = LevelNext(buf, stop, at[1], at[2])
        /\ out[at] = IF at[1] < stop /\ At(buf, at[1]) = CAN THEN at[1] + 1 ELSE Err
    OBVIOUS
  <2> HIDE DEF go, next, out, S, Value
  <2> QED BY <1>2, <2>1, <2>2, <2>3
<1>6. rest = Body(rest)
  <2>1. g = Body(g)
    <3> HIDE DEF Value
    <3> QED BY <1>4, <1>5 DEF Follows
  <2> HIDE DEF Body
  <2> QED BY <2>1
<1> HIDE DEF rest
<1>7. \A at \in S : rest[at] = Value(rest, at)
  <2> HIDE DEF Value
  <2> QED BY <1>6
<1>8. ASSUME NEW p \in 0 .. stop, NEW depth \in Nat \ {0}
      PROVE  LevelUnfolded(buf, stop, rest, p, depth)
  <2>1. <<p, depth>> \in S
    OBVIOUS
  <2> HIDE DEF Value, Body, S
  <2>2. rest[<<p, depth>>] = Value(rest, <<p, depth>>)
    BY <1>7, <2>1
  <2> QED BY <1>2, <2>2 DEF LevelUnfolded
<1> HIDE DEF Value, Body
<1> QED BY <1>1, <1>8

\* level returns Err or an offset behind the one it starts from.
LEMMA LevelStops ==
  ASSUME NEW buf, NEW stop \in Nat
  PROVE  /\ \A p \in 0 .. stop, depth \in Nat \ {0} :
              LevelRest(buf, stop)[<<p, depth>>] \in {Err} \cup (p + 1 .. stop)
         /\ \A pos \in Nat : Level(buf, pos, stop) \in {Err} \cup (pos + 2 .. stop)
<1> DEFINE rest == LevelRest(buf, stop)
           G == {p \in 0 .. stop : \A depth \in Nat \ {0} :
                                     rest[<<p, depth>>] \in {Err} \cup (p + 1 .. stop)}
<1>0. /\ \A p \in 0 .. stop, depth \in Nat \ {0} : LevelUnfolded(buf, stop, rest, p, depth)
      /\ \A pos \in Nat : Level(buf, pos, stop) = IF pos + 1 > stop THEN Err ELSE rest[<<pos + 1, 1>>]
  BY LevelUnfolds
<1> HIDE DEF rest
<1>1. ASSUME NEW depth \in Nat \ {0}
      PROVE  rest[<<stop, depth>>] = Err
  <2>1. LevelUnfolded(buf, stop, rest, stop, depth)
    BY <1>0
  <2>2. ~(stop < stop)
    OBVIOUS
  <2> QED BY <2>1, <2>2 DEF LevelUnfolded, LevelGoesOn
<1>2. stop \in G
  BY <1>1
<1>3. ASSUME NEW i \in 0 .. stop - 1, \A j \in i + 1 .. stop : j \in G
      PROVE  i \in G
  <2> SUFFICES ASSUME NEW depth \in Nat \ {0}
               PROVE  rest[<<i, depth>>] \in {Err} \cup (i + 1 .. stop)
    OBVIOUS
  <2> HIDE DEF G
  <2>1. LevelUnfolded(buf, stop, rest, i, depth)
    BY <1>0
  <2>2. CASE LevelGoesOn(buf, stop, i, depth)
    <3> DEFINE q == IF At(buf, i) = STX THEN Text(buf, i, stop) ELSE i + 1
               d == IF At(buf, i) = DLE THEN depth + 1
                    ELSE IF At(buf, i) = CAN THEN depth - 1 ELSE depth
    <3>1. rest[<<i, depth>>] = rest[<<q, d>>]
      BY <2>1, <2>2 DEF LevelUnfolded, LevelNext
    <3>2. q \in i + 1 .. stop
      <4>1. Text(buf, i, stop) \in {Err} \cup (i + 2 .. stop)
        BY TextStops
      <4>2. At(buf, i) = STX => Text(buf, i, stop) # Err
        BY <2>2 DEF LevelGoesOn, STX, DLE, CAN, PlainInLevel
      <4> QED BY <4>1, <4>2
    <3>3. d \in Nat \ {0}
      <4>1. At(buf, i) = CAN => depth # 1
        BY <2>2 DEF LevelGoesOn, STX, DLE, CAN, PlainInLevel
      <4> QED BY <4>1
    <3> HIDE DEF q, d
    <3>4. rest[<<q, d>>] \in {Err} \cup (q + 1 .. stop)
      BY <1>3, <3>2, <3>3 DEF G
    <3> QED BY <3>1, <3>2, <3>4
  <2>3. CASE ~LevelGoesOn(buf, stop, i, depth)
    <3>1. rest[<<i, depth>>] = Err \/ rest[<<i, depth>>] = i + 1
      BY <2>1, <2>3 DEF LevelUnfolded
    <3> QED BY <3>1
  <2> QED BY <2>2, <2>3
<1>4. \A i \in 0 .. stop : i \in G
  <2> HIDE DEF G
  <2> QED BY <1>2, <1>3, DownFrom
<1>5. ASSUME NEW p \in 0 .. stop, NEW depth \in Nat \ {0}
      PROVE  rest[<<p, depth>>] \in {Err} \cup (p + 1 .. stop)
  <2>1. p \in G
    BY <1>4
  <2> QED BY <2>1
<1>6. ASSUME NEW pos \in Nat
      PROVE  Level(buf, pos, stop) \in {Err} \cup (pos + 2 .. stop)
  <2>1. CASE pos + 1 > stop
    BY <1>0, <2>1
  <2>2. CASE ~(pos + 1 > stop)
    <3>1. rest[<<pos + 1, 1>>] \in {Err} \cup ((pos + 1) + 1 .. stop)
      BY <1>5, <2>2
    <3> QED BY <1>0, <2>2, <3>1
  <2> QED BY <2>1, <2>2
<1> QED BY <1>5, <1>6 DEF rest

-----------------------------------------------------------------------------
(* comment, record_end, unit and keyed_unit_end. *)

Passing == {"record_end", "unit"}

\* What a primitive may return: comment and keyed_unit_end move, the others may
\* stop where they start.
Ranged(op, pos, stop, v) ==
  v \in {Err} \cup ((IF op \in Passing THEN pos ELSE pos + 1) .. stop)

LEMMA GroupMarksStop ==
  ASSUME NEW buf, NEW stop \in Nat, NEW pos \in 0 .. stop
  PROVE  GroupMarks(buf, pos, stop) \in pos .. stop
<1> DEFINE Found(p) == /\ \A q \in pos .. (p - 1) : At(buf, q) = GS \/ IsLayout(At(buf, q))
                       /\ p < stop => ~(At(buf, p) = GS \/ IsLayout(At(buf, p)))
           Ends == {p \in pos .. stop : p < stop => ~(At(buf, p) = GS \/ IsLayout(At(buf, p)))}
<1>1. Ends \in SUBSET Nat /\ stop \in Ends
  OBVIOUS
<1>2. PICK m \in Ends : \A n \in Ends : m <= n
  BY <1>1, LeastOffset
<1>3. \A q \in pos .. (m - 1) : At(buf, q) = GS \/ IsLayout(At(buf, q))
  <2> SUFFICES ASSUME NEW q \in pos .. (m - 1), ~(At(buf, q) = GS \/ IsLayout(At(buf, q)))
               PROVE  FALSE
    OBVIOUS
  <2>1. q \in Ends
    BY <1>1, <1>2
  <2> QED BY <1>1, <1>2, <2>1
<1>4. \E p \in pos .. stop : Found(p)
  BY <1>2, <1>3
<1>5. GroupMarks(buf, pos, stop) = CHOOSE p \in pos .. stop : Found(p)
  BY DEF GroupMarks
<1> HIDE DEF Found
<1> QED BY <1>4, <1>5

\* The branches of comment exclude one another.
CommentIs(buf, stop, q, skip, v) ==
  LET b == At(buf, q)
  IN  /\ q >= stop => v = Err
      /\ q < stop =>
           /\ b = STX => v = Text(buf, q, stop)
           /\ b = DLE => v = Level(buf, q, stop)
           /\ b = RS  => v = skip[<<"record_end", q + 1>>]
           /\ b = SOH => v = IF HeaderRowAt(buf, q, stop)
                             THEN skip[<<"record_end", Layout(buf, q + 1, stop) + 1>>]
                             ELSE skip[<<"keyed_unit_end", q + 1>>]
           /\ b = GS  => v = Plain(buf, GroupMarks(buf, q, stop), stop)
           /\ b = FS  => v = Plain(buf, q + 1, stop)
           /\ IsPlain(b) => v = Plain(buf, q, stop)
           /\ b \notin {STX, DLE, RS, SOH, GS, FS} /\ ~IsPlain(b) => v = Err

LEMMA CommentEndIs ==
  ASSUME NEW buf, NEW stop \in Nat, NEW q \in Nat, NEW skip
  PROVE  CommentIs(buf, stop, q, skip, CommentEnd(buf, q, stop, skip))
<1> DEFINE b == At(buf, q)
           v == CommentEnd(buf, q, stop, skip)
           H == HeaderRowAt(buf, q, stop)
           text == Text(buf, q, stop)
           level == Level(buf, q, stop)
           record == skip[<<"record_end", q + 1>>]
           header == skip[<<"record_end", Layout(buf, q + 1, stop) + 1>>]
           keyed  == skip[<<"keyed_unit_end", q + 1>>]
           group  == Plain(buf, GroupMarks(buf, q, stop), stop)
           file   == Plain(buf, q + 1, stop)
           run    == Plain(buf, q, stop)
<1>1. v = CASE CodeAt(buf, q, stop, {STX}) -> text
            [] CodeAt(buf, q, stop, {DLE}) -> level
            [] CodeAt(buf, q, stop, {RS})  -> record
            [] H   -> header
            [] CodeAt(buf, q, stop, {SOH}) /\ ~H -> keyed
            [] CodeAt(buf, q, stop, {GS})  -> group
            [] CodeAt(buf, q, stop, {FS})  -> file
            [] OTHER -> IF q < stop /\ IsPlain(At(buf, q)) THEN run ELSE Err
  BY DEF CommentEnd
<1>2. H => q < stop /\ b = SOH
  BY DEF HeaderRowAt, CodeAt
<1>3. H \in BOOLEAN
  BY DEF HeaderRowAt, CodeAt
<1> HIDE DEF H, text, level, record, header, keyed, group, file, run, v
<1> USE DEF CodeAt, STX, DLE, RS, SOH, GS, FS
<1>4. q >= stop => v = Err
  BY <1>1, <1>2
<1>5. q < stop /\ b = STX => v = text
  BY <1>1, <1>2
<1>6. q < stop /\ b = DLE => v = level
  BY <1>1, <1>2
<1>7. q < stop /\ b = RS => v = record
  BY <1>1, <1>2
<1>8. q < stop /\ b = SOH => v = IF H THEN header ELSE keyed
  BY <1>1, <1>3
<1>9. q < stop /\ b = GS => v = group
  BY <1>1, <1>2
<1>10. q < stop /\ b = FS => v = file
  BY <1>1, <1>2
<1>11. q < stop /\ IsPlain(b) => v = run
  <2>1. IsPlain(b) => b \notin {STX, DLE, RS, SOH, GS, FS}
    BY DEF IsPlain
  <2> QED BY <1>1, <1>2, <2>1
<1>12. q < stop /\ b \notin {STX, DLE, RS, SOH, GS, FS} /\ ~IsPlain(b) => v = Err
  BY <1>1, <1>2
<1> QED BY <1>4, <1>5, <1>6, <1>7, <1>8, <1>9, <1>10, <1>11, <1>12
        DEF CommentIs, H, text, level, record, header, keyed, group, file, run, v

\* The branches of record_end and unit.
PassesOn(op, buf, pos, stop, skip, v) ==
  LET b == At(buf, pos)
  IN  /\ pos = stop \/ EndsAt(op, buf, pos, stop) => v = pos
      /\ pos < stop /\ ~EndsAt(op, buf, pos, stop) =>
           /\ PassesOver(op, b) => v = skip[<<op, pos + 1>>]
           /\ ~PassesOver(op, b) =>
                /\ b \in {STX, DLE, BEL}
                /\ b = STX => v = Follow(skip, op, Text(buf, pos, stop))
                /\ b = DLE => v = Follow(skip, op, Level(buf, pos, stop))
                /\ b = BEL => v = Follow(skip, op, skip[<<"comment", pos>>])

LEMMA PassIs ==
  ASSUME NEW buf, NEW stop \in Nat, NEW pos \in 0 .. stop, NEW op \in Passing, NEW skip
  PROVE  PassesOn(op, buf, pos, stop, skip, PrimitiveEnd(op, buf, pos, stop, skip))
<1> DEFINE b == At(buf, pos)
           v == PrimitiveEnd(op, buf, pos, stop, skip)
           ends  == EndsAt(op, buf, pos, stop)
           over  == PassesOver(op, b)
           inner == NestedEnd(buf, pos, stop, skip)
<1>1. v = IF pos >= stop \/ ends THEN pos
          ELSE IF over THEN skip[<<op, pos + 1>>]
          ELSE Follow(skip, op, inner)
  <2>1. op # "comment" /\ op # "keyed_unit_end"
    BY DEF Passing
  <2> HIDE DEF ends, over, inner
  <2> QED BY <2>1 DEF PrimitiveEnd, ends, over, inner
<1>2. ~ends /\ ~over => b \in {STX, DLE, BEL}
  BY DEF EndsAt
<1>3. /\ b = STX => inner = Text(buf, pos, stop)
      /\ b = DLE => inner = Level(buf, pos, stop)
      /\ b = BEL => inner = skip[<<"comment", pos>>]
  BY DEF NestedEnd, STX, DLE, BEL
<1> HIDE DEF ends, over, inner, b, v
<1> QED BY <1>1, <1>2, <1>3 DEF PassesOn, ends, over, inner, b, v

\* What a primitive returns depends on what is behind it, and is in its range
\* when that is.
Agreeing(f, g, op, pos, stop) ==
  /\ Ranged(op, pos, stop, f[<<op, pos>>])
  /\ g[<<op, pos>>] = f[<<op, pos>>]

LEMMA CommentDepends ==
  ASSUME NEW buf, NEW stop \in Nat, NEW f, NEW g, NEW q \in Nat,
         \A op \in Primitives, r \in q + 1 .. stop : Agreeing(f, g, op, r, stop)
  PROVE  /\ CommentEnd(buf, q, stop, f) = CommentEnd(buf, q, stop, g)
         /\ CommentEnd(buf, q, stop, f) \in {Err} \cup (q .. stop)
<1> DEFINE v == CommentEnd(buf, q, stop, f)
           w == CommentEnd(buf, q, stop, g)
           b == At(buf, q)
           Good == v = w /\ v \in {Err} \cup (q .. stop)
<1> HIDE DEF v, w, b
<1> SUFFICES Good
  BY DEF v, w
<1>a. CommentIs(buf, stop, q, f, v) /\ CommentIs(buf, stop, q, g, w)
  BY CommentEndIs DEF v, w
<1>0. /\ "record_end" \in Primitives /\ "keyed_unit_end" \in Primitives
      /\ "record_end" \in Passing
  BY DEF Primitives, Passing
<1>1. ASSUME NEW r \in q + 1 .. stop
      PROVE  /\ f[<<"record_end", r>>] = g[<<"record_end", r>>]
             /\ f[<<"keyed_unit_end", r>>] = g[<<"keyed_unit_end", r>>]
             /\ f[<<"record_end", r>>] \in {Err} \cup (q .. stop)
             /\ f[<<"keyed_unit_end", r>>] \in {Err} \cup (q .. stop)
  <2>1. Agreeing(f, g, "record_end", r, stop) /\ Agreeing(f, g, "keyed_unit_end", r, stop)
    BY <1>0
  <2> QED BY <2>1 DEF Agreeing, Ranged
<1>2. CASE q >= stop
  BY <1>2, <1>a DEF CommentIs
<1>3. CASE q < stop
  <2>1. CASE b = STX
    <3>1. v = Text(buf, q, stop) /\ w = Text(buf, q, stop)
      BY <1>3, <2>1, <1>a DEF CommentIs, b
    <3>2. Text(buf, q, stop) \in {Err} \cup (q + 2 .. stop)
      BY TextStops
    <3> QED BY <3>1, <3>2
  <2>2. CASE b = DLE
    <3>1. v = Level(buf, q, stop) /\ w = Level(buf, q, stop)
      BY <1>3, <2>2, <1>a DEF CommentIs, b
    <3>2. Level(buf, q, stop) \in {Err} \cup (q + 2 .. stop)
      BY LevelStops
    <3> QED BY <3>1, <3>2
  <2>3. CASE b = RS
    <3>1. v = f[<<"record_end", q + 1>>] /\ w = g[<<"record_end", q + 1>>]
      BY <1>3, <2>3, <1>a DEF CommentIs, b
    <3>2. q + 1 \in q + 1 .. stop
      BY <1>3
    <3> QED BY <1>1, <3>1, <3>2
  <2>4. CASE b = SOH
    <3> DEFINE h == Layout(buf, q + 1, stop)
    <3>1. /\ HeaderRowAt(buf, q, stop) =>
               v = f[<<"record_end", h + 1>>] /\ w = g[<<"record_end", h + 1>>]
          /\ ~HeaderRowAt(buf, q, stop) =>
               v = f[<<"keyed_unit_end", q + 1>>] /\ w = g[<<"keyed_unit_end", q + 1>>]
      BY <1>3, <2>4, <1>a DEF CommentIs, b
    <3>2. q + 1 \in q + 1 .. stop /\ q + 1 \in 0 .. stop
      BY <1>3
    <3>3. h \in q + 1 .. stop
      BY <3>2, LayoutStops
    <3>4. HeaderRowAt(buf, q, stop) => h < stop
      BY DEF HeaderRowAt, CodeAt
    <3> HIDE DEF h
    <3>5. HeaderRowAt(buf, q, stop) => h + 1 \in q + 1 .. stop
      BY <3>3, <3>4
    <3> QED BY <1>1, <3>1, <3>2, <3>5
  <2>5. CASE b = GS
    <3> DEFINE m == GroupMarks(buf, q, stop)
    <3>1. v = Plain(buf, m, stop) /\ w = Plain(buf, m, stop)
      BY <1>3, <2>5, <1>a DEF CommentIs, b
    <3>2. m \in q .. stop
      BY <1>3, GroupMarksStop
    <3> HIDE DEF m
    <3>3. m \in 0 .. stop
      BY <3>2
    <3>4. Plain(buf, m, stop) \in m .. stop
      BY <3>3, PlainStops
    <3> QED BY <3>1, <3>2, <3>4
  <2>6. CASE b = FS
    <3>1. v = Plain(buf, q + 1, stop) /\ w = Plain(buf, q + 1, stop)
      BY <1>3, <2>6, <1>a DEF CommentIs, b
    <3>2. q + 1 \in 0 .. stop
      BY <1>3
    <3>3. Plain(buf, q + 1, stop) \in q + 1 .. stop
      BY <3>2, PlainStops
    <3> QED BY <3>1, <3>3
  <2>7. CASE IsPlain(b)
    <3>1. v = Plain(buf, q, stop) /\ w = Plain(buf, q, stop)
      BY <1>3, <2>7, <1>a DEF CommentIs, b
    <3>2. q \in 0 .. stop
      BY <1>3
    <3>3. Plain(buf, q, stop) \in q .. stop
      BY <3>2, PlainStops
    <3> QED BY <3>1, <3>3
  <2>8. CASE b \notin {STX, DLE, RS, SOH, GS, FS} /\ ~IsPlain(b)
    <3>1. v = Err /\ w = Err
      BY <1>3, <2>8, <1>a DEF CommentIs, b
    <3> QED BY <3>1
  <2> QED BY <2>1, <2>2, <2>3, <2>4, <2>5, <2>6, <2>7, <2>8
<1> QED BY <1>2, <1>3

LEMMA KeyedDepends ==
  ASSUME NEW buf, NEW stop \in Nat, NEW f, NEW g, NEW pos \in 0 .. stop,
         \A op \in Primitives, r \in pos + 1 .. stop : Agreeing(f, g, op, r, stop)
  PROVE  LET us == Plain(buf, Layout(buf, pos, stop), stop)
         IN  /\ KeyedValue(buf, us, stop, f) = KeyedValue(buf, us, stop, g)
             /\ KeyedValue(buf, us, stop, f) \in {Err} \cup (pos + 1 .. stop)
<1> DEFINE name == Layout(buf, pos, stop)
           us == Plain(buf, name, stop)
<1>1. name \in pos .. stop
  BY LayoutStops
<1>2. us \in pos .. stop
  <2> HIDE DEF name
  <2>1. name \in 0 .. stop
    BY <1>1
  <2> QED BY <1>1, <2>1, PlainStops
<1> HIDE DEF us
<1>3. CASE CodeAt(buf, us, stop, {US})
  <2>1. us + 1 \in pos + 1 .. stop
    BY <1>2, <1>3 DEF CodeAt
  <2>2. Agreeing(f, g, "unit", us + 1, stop)
    BY <2>1 DEF Primitives
  <2>3. f[<<"unit", us + 1>>] = g[<<"unit", us + 1>>]
    BY <2>2 DEF Agreeing
  <2>4. f[<<"unit", us + 1>>] \in {Err} \cup (us + 1 .. stop)
    BY <2>2 DEF Agreeing, Ranged, Passing
  <2>5. /\ KeyedValue(buf, us, stop, f) = f[<<"unit", us + 1>>]
        /\ KeyedValue(buf, us, stop, g) = g[<<"unit", us + 1>>]
    BY <1>3 DEF KeyedValue
  <2> QED BY <1>2, <2>3, <2>4, <2>5 DEF us
<1>4. CASE ~CodeAt(buf, us, stop, {US})
  <2>1. KeyedValue(buf, us, stop, f) = Err /\ KeyedValue(buf, us, stop, g) = Err
    BY <1>4 DEF KeyedValue
  <2> QED BY <2>1 DEF us
<1> QED BY <1>3, <1>4

LEMMA PassDepends ==
  ASSUME NEW buf, NEW stop \in Nat, NEW f, NEW g, NEW pos \in 0 .. stop, NEW op \in Passing,
         \A o \in Primitives, r \in pos + 1 .. stop : Agreeing(f, g, o, r, stop),
         Agreeing(f, g, "comment", pos, stop)
  PROVE  /\ PrimitiveEnd(op, buf, pos, stop, f) = PrimitiveEnd(op, buf, pos, stop, g)
         /\ PrimitiveEnd(op, buf, pos, stop, f) \in {Err} \cup (pos .. stop)
<1> DEFINE v == PrimitiveEnd(op, buf, pos, stop, f)
           w == PrimitiveEnd(op, buf, pos, stop, g)
           b == At(buf, pos)
           Good == v = w /\ v \in {Err} \cup (pos .. stop)
<1>1. PassesOn(op, buf, pos, stop, f, v) /\ PassesOn(op, buf, pos, stop, g, w)
  BY PassIs
<1> HIDE DEF v, w
<1> SUFFICES Good
  BY DEF v, w
<1>2. ASSUME NEW r \in {Err} \cup (pos + 1 .. stop)
      PROVE  /\ Follow(f, op, r) = Follow(g, op, r)
             /\ Follow(f, op, r) \in {Err} \cup (pos .. stop)
  <2>1. CASE r = Err
    BY <2>1 DEF Follow
  <2>2. CASE r # Err
    <3>1. r \in pos + 1 .. stop /\ op \in Primitives
      BY <2>2 DEF Passing, Primitives
    <3>2. Agreeing(f, g, op, r, stop)
      BY <3>1
    <3>3. f[<<op, r>>] = g[<<op, r>>] /\ f[<<op, r>>] \in {Err} \cup (r .. stop)
      BY <3>2 DEF Agreeing, Ranged
    <3>4. Follow(f, op, r) = f[<<op, r>>] /\ Follow(g, op, r) = g[<<op, r>>]
      BY <2>2 DEF Follow
    <3> QED BY <3>1, <3>3, <3>4
  <2> QED BY <2>1, <2>2
<1>3. CASE pos = stop \/ EndsAt(op, buf, pos, stop)
  <2>1. v = pos /\ w = pos
    BY <1>1, <1>3 DEF PassesOn
  <2> QED BY <2>1
<1>4. CASE pos < stop /\ ~EndsAt(op, buf, pos, stop)
  <2>1. CASE PassesOver(op, b)
    <3>1. v = f[<<op, pos + 1>>] /\ w = g[<<op, pos + 1>>]
      BY <1>1, <1>4, <2>1 DEF PassesOn
    <3>2. pos + 1 \in pos + 1 .. stop /\ op \in Primitives
      BY <1>4 DEF Passing, Primitives
    <3>3. Agreeing(f, g, op, pos + 1, stop)
      BY <3>2
    <3>4. f[<<op, pos + 1>>] = g[<<op, pos + 1>>]
          /\ f[<<op, pos + 1>>] \in {Err} \cup (pos + 1 .. stop)
      BY <3>3 DEF Agreeing, Ranged
    <3> QED BY <3>1, <3>4
  <2>2. CASE ~PassesOver(op, b)
    <3> DEFINE text == Text(buf, pos, stop)
               level == Level(buf, pos, stop)
               note == f[<<"comment", pos>>]
    <3>1. text \in {Err} \cup (pos + 1 .. stop)
      <4>1. text \in {Err} \cup (pos + 2 .. stop)
        BY TextStops
      <4> HIDE DEF text
      <4> QED BY <4>1
    <3>2. level \in {Err} \cup (pos + 1 .. stop)
      <4>1. level \in {Err} \cup (pos + 2 .. stop)
        BY LevelStops
      <4> HIDE DEF level
      <4> QED BY <4>1
    <3>3. note \in {Err} \cup (pos + 1 .. stop) /\ g[<<"comment", pos>>] = note
      BY DEF Agreeing, Ranged, Passing
    <3>4. /\ b \in {STX, DLE, BEL}
          /\ b = STX => v = Follow(f, op, text) /\ w = Follow(g, op, text)
          /\ b = DLE => v = Follow(f, op, level) /\ w = Follow(g, op, level)
          /\ b = BEL => v = Follow(f, op, note) /\ w = Follow(g, op, g[<<"comment", pos>>])
      <4> HIDE DEF text, level
      <4> QED BY <1>1, <1>4, <2>2 DEF PassesOn, text, level
    <3> HIDE DEF text, level, note, b
    <3> QED BY <1>2, <3>1, <3>2, <3>3, <3>4
  <2> QED BY <2>1, <2>2
<1> QED BY <1>3, <1>4

LEMMA PrimitiveDepends ==
  ASSUME NEW buf, NEW stop \in Nat, NEW f, NEW g, NEW pos \in 0 .. stop, NEW op \in Primitives,
         \A o \in Primitives, r \in pos + 1 .. stop : Agreeing(f, g, o, r, stop),
         op \in Passing => Agreeing(f, g, "comment", pos, stop)
  PROVE  /\ PrimitiveEnd(op, buf, pos, stop, f) = PrimitiveEnd(op, buf, pos, stop, g)
         /\ Ranged(op, pos, stop, PrimitiveEnd(op, buf, pos, stop, f))
<1>1. CASE op \in Passing
  BY <1>1, PassDepends DEF Ranged
<1>2. CASE op = "comment"
  <2> DEFINE q == Layout(buf, pos + 1, stop)
             v == CommentEnd(buf, q, stop, f)
             w == CommentEnd(buf, q, stop, g)
  <2>1. PrimitiveEnd(op, buf, pos, stop, f) = v /\ PrimitiveEnd(op, buf, pos, stop, g) = w
    BY <1>2 DEF PrimitiveEnd
  <2>2. q \in pos + 1 .. stop + 1 /\ q \in Nat
    <3>1. CASE pos = stop
      BY <3>1 DEF Layout
    <3>2. CASE pos # stop
      <4>1. pos + 1 \in 0 .. stop
        BY <3>2
      <4> QED BY <4>1, LayoutStops
    <3> QED BY <3>1, <3>2
  <2> HIDE DEF q
  <2>3. \A o \in Primitives, r \in q + 1 .. stop : Agreeing(f, g, o, r, stop)
    BY <2>2
  <2>4. v = w /\ v \in {Err} \cup (q .. stop)
    BY <2>2, <2>3, CommentDepends
  <2> HIDE DEF v, w
  <2>5. v \in {Err} \cup (pos + 1 .. stop)
    BY <2>2, <2>4
  <2> QED BY <1>2, <2>1, <2>4, <2>5 DEF Ranged, Passing
<1>3. CASE op = "keyed_unit_end"
  <2> DEFINE us == Plain(buf, Layout(buf, pos, stop), stop)
             v == KeyedValue(buf, us, stop, f)
             w == KeyedValue(buf, us, stop, g)
  <2>1. PrimitiveEnd(op, buf, pos, stop, f) = v /\ PrimitiveEnd(op, buf, pos, stop, g) = w
    BY <1>3 DEF PrimitiveEnd
  <2>2. v = w /\ v \in {Err} \cup (pos + 1 .. stop)
    BY KeyedDepends
  <2> HIDE DEF v, w
  <2> QED BY <1>3, <2>1, <2>2 DEF Ranged, Passing
<1> QED BY <1>1, <1>2, <1>3 DEF Primitives, Passing

\* skip is right from offset k on.
RightFrom(skip, buf, stop, k) ==
  \A op \in Primitives, pos \in k .. stop :
    /\ skip[<<op, pos>>] = PrimitiveEnd(op, buf, pos, stop, skip)
    /\ Ranged(op, pos, stop, skip[<<op, pos>>])

\* A function that is right behind k can be made right at k.
LEMMA RightAtOneMore ==
  ASSUME NEW buf, NEW stop \in Nat, NEW k \in 0 .. stop, NEW f,
         RightFrom(f, buf, stop, k + 1)
  PROVE  \E g : RightFrom(g, buf, stop, k)
<1> DEFINE D == Primitives \X (0 .. stop)
           h == [at \in D |-> IF at[2] = k THEN PrimitiveEnd(at[1], buf, k, stop, f) ELSE f[at]]
           g == [at \in D |-> IF at[2] = k THEN PrimitiveEnd(at[1], buf, k, stop, h) ELSE f[at]]
<1>1. ASSUME NEW op \in Primitives, NEW r \in 0 .. stop
      PROVE  /\ r = k => h[<<op, r>>] = PrimitiveEnd(op, buf, k, stop, f)
             /\ r # k => h[<<op, r>>] = f[<<op, r>>]
  BY Zenon
<1> HIDE DEF h
<1>2. ASSUME NEW op \in Primitives, NEW r \in 0 .. stop
      PROVE  /\ r = k => g[<<op, r>>] = PrimitiveEnd(op, buf, k, stop, h)
             /\ r # k => g[<<op, r>>] = f[<<op, r>>]
  BY Zenon
<1> HIDE DEF g
<1>3. ASSUME NEW op \in Primitives, NEW r \in k + 1 .. stop
      PROVE  /\ Ranged(op, r, stop, f[<<op, r>>])
             /\ h[<<op, r>>] = f[<<op, r>>] /\ g[<<op, r>>] = f[<<op, r>>]
             /\ f[<<op, r>>] = PrimitiveEnd(op, buf, r, stop, f)
  <2>1. r \in 0 .. stop /\ r # k
    OBVIOUS
  <2> QED BY <1>1, <1>2, <2>1 DEF RightFrom
<1>4. /\ \A op \in Primitives, r \in k + 1 .. stop : Agreeing(f, h, op, r, stop)
      /\ \A op \in Primitives, r \in k + 1 .. stop : Agreeing(f, g, op, r, stop)
      /\ \A op \in Primitives, r \in k + 1 .. stop : Agreeing(h, g, op, r, stop)
  BY <1>3 DEF Agreeing
<1>5. ASSUME NEW op \in Primitives, op \notin Passing
      PROVE  /\ h[<<op, k>>] = g[<<op, k>>]
             /\ g[<<op, k>>] = PrimitiveEnd(op, buf, k, stop, g)
             /\ Ranged(op, k, stop, g[<<op, k>>])
  <2>1. /\ PrimitiveEnd(op, buf, k, stop, f) = PrimitiveEnd(op, buf, k, stop, h)
        /\ PrimitiveEnd(op, buf, k, stop, f) = PrimitiveEnd(op, buf, k, stop, g)
        /\ Ranged(op, k, stop, PrimitiveEnd(op, buf, k, stop, f))
    BY <1>4, <1>5, PrimitiveDepends
  <2> QED BY <1>1, <1>2, <2>1
<1>6. "comment" \in Primitives /\ "comment" \notin Passing
  BY DEF Primitives, Passing
<1>7. Agreeing(h, g, "comment", k, stop)
  BY <1>5, <1>6 DEF Agreeing
<1>8. ASSUME NEW op \in Passing
      PROVE  /\ g[<<op, k>>] = PrimitiveEnd(op, buf, k, stop, g)
             /\ Ranged(op, k, stop, g[<<op, k>>])
  <2>1. op \in Primitives
    BY DEF Passing, Primitives
  <2>2. /\ PrimitiveEnd(op, buf, k, stop, h) = PrimitiveEnd(op, buf, k, stop, g)
        /\ Ranged(op, k, stop, PrimitiveEnd(op, buf, k, stop, h))
    BY <1>4, <1>7, <2>1, PrimitiveDepends
  <2> QED BY <1>2, <2>1, <2>2
<1>9. ASSUME NEW op \in Primitives, NEW pos \in k + 1 .. stop
      PROVE  /\ g[<<op, pos>>] = PrimitiveEnd(op, buf, pos, stop, g)
             /\ Ranged(op, pos, stop, g[<<op, pos>>])
  <2>1. pos \in 0 .. stop /\ \A r \in pos + 1 .. stop : r \in k + 1 .. stop
    OBVIOUS
  <2>2. \A o \in Primitives, r \in pos + 1 .. stop : Agreeing(f, g, o, r, stop)
    BY <1>4, <2>1
  <2>3. Agreeing(f, g, "comment", pos, stop)
    BY <1>4, <1>6
  <2>4. PrimitiveEnd(op, buf, pos, stop, f) = PrimitiveEnd(op, buf, pos, stop, g)
    BY <2>1, <2>2, <2>3, PrimitiveDepends
  <2> QED BY <1>3, <2>4
<1>10. RightFrom(g, buf, stop, k)
  <2> SUFFICES ASSUME NEW op \in Primitives, NEW pos \in k .. stop
               PROVE  /\ g[<<op, pos>>] = PrimitiveEnd(op, buf, pos, stop, g)
                      /\ Ranged(op, pos, stop, g[<<op, pos>>])
    BY Zenon DEF RightFrom
  <2>1. pos = k \/ pos \in k + 1 .. stop
    OBVIOUS
  <2> QED BY <1>5, <1>8, <1>9, <2>1
<1> QED BY <1>10

(***************************************************************************)
(* The four primitives call one another as the code does, and each returns *)
(* Err or an offset that is not past the stop; comment and keyed_unit_end  *)
(* move, so that a walk over notes ends.                                   *)
(***************************************************************************)
THEOREM PrimitivesMove ==
  ASSUME NEW buf, NEW stop \in Nat
  PROVE  RightFrom(ScanPrimitive(buf, stop), buf, stop, 0)
<1> DEFINE D == Primitives \X (0 .. stop)
           Body(f) == [at \in D |-> PrimitiveEnd(at[1], buf, at[2], stop, f)]
           skip == CHOOSE f : f = Body(f)
           G == {m \in 0 .. stop + 1 : \E f : RightFrom(f, buf, stop, (stop + 1) - m)}
<1>1. 0 \in G
  <2>1. \A f : RightFrom(f, buf, stop, stop + 1)
    BY DEF RightFrom
  <2>2. (stop + 1) - 0 = stop + 1
    OBVIOUS
  <2> QED BY <2>1, <2>2
<1>2. ASSUME NEW m \in 1 .. stop + 1, m - 1 \in G
      PROVE  m \in G
  <2> DEFINE k == (stop + 1) - m
  <2>1. k \in 0 .. stop /\ (stop + 1) - (m - 1) = k + 1
    OBVIOUS
  <2>2. PICK f : RightFrom(f, buf, stop, k + 1)
    BY <1>2, <2>1
  <2> HIDE DEF k
  <2>3. \E g : RightFrom(g, buf, stop, k)
    BY <2>1, <2>2, RightAtOneMore
  <2> QED BY <2>3 DEF k
<1>3. PICK f : RightFrom(f, buf, stop, 0)
  <2>1. stop + 1 \in Nat /\ stop + 1 \in 0 .. stop + 1 /\ (stop + 1) - (stop + 1) = 0
    OBVIOUS
  <2>2. \A m \in 0 .. stop + 1 : m \in G
    <3> HIDE DEF G
    <3> QED BY <1>1, <1>2, <2>1, UpTo
  <2>3. stop + 1 \in G
    BY <2>1, <2>2
  <2> QED BY <2>1, <2>3
<1>4. PICK g : /\ g = [at \in D |-> g[at]]
               /\ RightFrom(g, buf, stop, 0)
  <2> DEFINE h == [at \in D |-> f[at]]
  <2>1. ASSUME NEW op \in Primitives, NEW pos \in 0 .. stop
        PROVE  /\ h[<<op, pos>>] = f[<<op, pos>>]
               /\ Ranged(op, pos, stop, f[<<op, pos>>])
               /\ f[<<op, pos>>] = PrimitiveEnd(op, buf, pos, stop, f)
    BY <1>3 DEF RightFrom
  <2>2. h = [at \in D |-> h[at]]
    OBVIOUS
  <2> HIDE DEF h
  <2>3. \A op \in Primitives, pos \in 0 .. stop : Agreeing(f, h, op, pos, stop)
    BY <2>1, Zenon DEF Agreeing
  <2>4. ASSUME NEW op \in Primitives, NEW pos \in 0 .. stop
        PROVE  PrimitiveEnd(op, buf, pos, stop, f) = PrimitiveEnd(op, buf, pos, stop, h)
    <3>1. \A o \in Primitives, r \in pos + 1 .. stop : Agreeing(f, h, o, r, stop)
      BY <2>3
    <3>2. Agreeing(f, h, "comment", pos, stop)
      BY <2>3 DEF Primitives
    <3> QED BY <3>1, <3>2, PrimitiveDepends
  <2>5. RightFrom(h, buf, stop, 0)
    BY <2>1, <2>4, Zenon DEF RightFrom
  <2> QED BY <2>2, <2>5
<1>5. ScanPrimitive(buf, stop) = skip
  BY DEF ScanPrimitive
<1>6. skip = Body(skip)
  <2>1. ASSUME NEW at \in D
        PROVE  g[at] = PrimitiveEnd(at[1], buf, at[2], stop, g)
    <3>1. at = <<at[1], at[2]>> /\ at[1] \in Primitives /\ at[2] \in 0 .. stop
      OBVIOUS
    <3> HIDE DEF D
    <3>2. g[<<at[1], at[2]>>] = PrimitiveEnd(at[1], buf, at[2], stop, g)
      BY <1>4, <3>1 DEF RightFrom
    <3> QED BY <3>1, <3>2
  <2>2. g = Body(g)
    BY <1>4, <2>1
  <2> HIDE DEF Body
  <2> QED BY <2>2
<1> HIDE DEF skip
<1>7. ASSUME NEW op \in Primitives, NEW pos \in 0 .. stop
      PROVE  skip[<<op, pos>>] = PrimitiveEnd(op, buf, pos, stop, skip)
  <2>1. <<op, pos>> \in D
    OBVIOUS
  <2>2. skip[<<op, pos>>] = Body(skip)[<<op, pos>>]
    BY <1>6
  <2>3. Body(skip)[<<op, pos>>] = PrimitiveEnd(op, buf, pos, stop, skip)
    BY <2>1, Zenon
  <2> QED BY <2>2, <2>3
<1> DEFINE In == {pos \in 0 .. stop : \A op \in Primitives : Ranged(op, pos, stop, skip[<<op, pos>>])}
<1>8. ASSUME NEW pos \in 0 .. stop, \A r \in pos + 1 .. stop : r \in In
      PROVE  pos \in In
  <2>1. \A o \in Primitives, r \in pos + 1 .. stop : Agreeing(skip, skip, o, r, stop)
    BY <1>8 DEF Agreeing
  <2>2. Ranged("comment", pos, stop, skip[<<"comment", pos>>])
    <3>1. "comment" \in Primitives /\ "comment" \notin Passing
      BY DEF Primitives, Passing
    <3> QED BY <1>7, <2>1, <3>1, PrimitiveDepends
  <2>3. Agreeing(skip, skip, "comment", pos, stop)
    BY <2>2 DEF Agreeing
  <2>4. ASSUME NEW op \in Primitives
        PROVE  Ranged(op, pos, stop, skip[<<op, pos>>])
    BY <1>7, <2>1, <2>3, PrimitiveDepends
  <2> QED BY <2>4
<1>9. \A pos \in 0 .. stop : pos \in In
  <2>1. stop \in In
    <3>1. \A r \in stop + 1 .. stop : r \in In
      OBVIOUS
    <3> HIDE DEF In
    <3> QED BY <1>8, <3>1
  <2> HIDE DEF In
  <2> QED BY <1>8, <2>1, DownFrom
<1>10. ASSUME NEW op \in Primitives, NEW pos \in 0 .. stop
       PROVE  Ranged(op, pos, stop, skip[<<op, pos>>])
  <2>1. pos \in In
    BY <1>9
  <2> QED BY <2>1
<1> HIDE DEF In, Body
<1> QED BY <1>5, <1>7, <1>10, Zenon DEF RightFrom

-----------------------------------------------------------------------------
(* Scanning to the first byte of another class. *)

\* Trimming a payload takes the spaces at its end off, all of them.
LEMMA TrimStops ==
  ASSUME NEW bytes, NEW to \in Nat, NEW from \in 0 .. to
  PROVE  /\ TrimSpaces(bytes, from, to) \in from .. to
         /\ \A q \in TrimSpaces(bytes, from, to) .. (to - 1) : At(bytes, q) = SP
         /\ TrimSpaces(bytes, from, to) > from =>
              At(bytes, TrimSpaces(bytes, from, to) - 1) # SP
<1> DEFINE Found(p) == /\ \A q \in p .. (to - 1) : At(bytes, q) = SP
                       /\ p > from => At(bytes, p - 1) # SP
           Trims == {p \in from .. to : \A q \in p .. (to - 1) : At(bytes, q) = SP}
<1>1. Trims \in SUBSET Nat /\ to \in Trims
  OBVIOUS
<1>2. PICK m \in Trims : \A n \in Trims : m <= n
  BY <1>1, LeastOffset
<1>3. m > from => At(bytes, m - 1) # SP
  <2> SUFFICES ASSUME m > from, At(bytes, m - 1) = SP
               PROVE  FALSE
    OBVIOUS
  <2>1. \A q \in m - 1 .. (to - 1) : q = m - 1 \/ q \in m .. (to - 1)
    BY <1>1, <1>2
  <2>2. m - 1 \in Trims
    BY <1>1, <1>2, <2>1
  <2> QED BY <1>1, <1>2, <2>2
<1>4. \E p \in from .. to : Found(p)
  BY <1>2, <1>3
<1>5. TrimSpaces(bytes, from, to) = CHOOSE p \in from .. to : Found(p)
  BY DEF TrimSpaces
<1> HIDE DEF Found
<1>6. TrimSpaces(bytes, from, to) \in from .. to /\ Found(TrimSpaces(bytes, from, to))
  BY <1>4, <1>5
<1> QED BY <1>6 DEF Found

\* It stops at the only place where it can.
LEMMA TrimIs ==
  ASSUME NEW bytes, NEW stop \in Nat, NEW pos \in 0 .. stop, NEW p \in pos .. stop,
         \A q \in p .. (stop - 1) : At(bytes, q) = SP,
         p > pos => At(bytes, p - 1) # SP
  PROVE  TrimSpaces(bytes, pos, stop) = p
<1> DEFINE t == TrimSpaces(bytes, pos, stop)
<1>1. /\ t \in pos .. stop
      /\ \A q \in t .. (stop - 1) : At(bytes, q) = SP
      /\ t > pos => At(bytes, t - 1) # SP
  BY TrimStops
<1> HIDE DEF t
<1>2. ~(t < p)
  <2> SUFFICES ASSUME t < p PROVE FALSE
    OBVIOUS
  <2>1. p - 1 \in t .. stop - 1
    BY <1>1
  <2> QED BY <1>1, <2>1
<1>3. ~(t > p)
  <2> SUFFICES ASSUME t > p PROVE FALSE
    OBVIOUS
  <2>1. t - 1 \in p .. stop - 1 /\ t > pos
    BY <1>1
  <2> QED BY <1>1, <2>1
<1> QED BY <1>1, <1>2, <1>3 DEF t

\* A payload ends inside the buffer and holds no control code but layout: no
\* later commit can hide in it.
LEMMA PayloadStops ==
  ASSUME NEW bytes \in Seq(Byte), NEW pos \in 0 .. Len(bytes)
  PROVE  /\ PayloadEnd(bytes, pos) \in pos .. Len(bytes)
         /\ \A q \in pos .. (PayloadEnd(bytes, pos) - 1) :
              At(bytes, q) # ETB /\ (IsLayout(At(bytes, q)) \/ IsPlain(At(bytes, q)))
<1> DEFINE len == Len(bytes)
           p   == Layout(bytes, pos, len)
           r   == Plain(bytes, p, len)
<1>1. len \in Nat
  OBVIOUS
<1>2. p \in pos .. len /\ \A q \in pos .. (p - 1) : IsLayout(At(bytes, q))
  BY <1>1, LayoutStops
<1>3. CASE p < len /\ IsPlain(At(bytes, p))
  <2>1. p \in 0 .. len
    BY <1>1, <1>2
  <2>2. r \in p .. len /\ \A q \in p .. (r - 1) : IsPlain(At(bytes, q))
    BY <1>1, <2>1, PlainStops
  <2>3. r \in Nat /\ pos \in 0 .. r
    BY <1>1, <1>2, <2>2
  <2>4. TrimSpaces(bytes, pos, r) \in pos .. r
    BY <2>3, TrimStops
  <2>5. PayloadEnd(bytes, pos) = TrimSpaces(bytes, pos, r)
    BY <1>3 DEF PayloadEnd
  <2>6. \A q \in pos .. (r - 1) : q \in pos .. (p - 1) \/ q \in p .. (r - 1)
    BY <1>1, <1>2, <2>2
  <2>7. \A q \in pos .. (r - 1) : IsLayout(At(bytes, q)) \/ IsPlain(At(bytes, q))
    BY <1>2, <2>2, <2>6
  <2>8. \A q \in pos .. (r - 1) : At(bytes, q) # ETB
    BY <2>7 DEF IsLayout, IsPlain, SP, HT, LF, CR, ETB
  <2> QED BY <1>1, <2>3, <2>2, <2>4, <2>5, <2>7, <2>8
<1>4. CASE ~(p < len /\ IsPlain(At(bytes, p)))
  <2>1. PayloadEnd(bytes, pos) = pos
    BY <1>4 DEF PayloadEnd
  <2> QED BY <1>1, <2>1
<1> QED BY <1>3, <1>4

-----------------------------------------------------------------------------
(* One iteration of the loop. *)

\* Opening and closing a text leaves a reader a reader.
LEMMA FlagTyped ==
  ASSUME NEW r \in Reader, NEW t \in BOOLEAN
  PROVE  [r EXCEPT !.in_text = t] \in Reader
<1>1. [r EXCEPT !.in_text = t] =
        [pos |-> r.pos, block_start |-> r.block_start, in_text |-> t,
         depth |-> r.depth, blocks |-> r.blocks, committed_end |-> r.committed_end]
  BY DEF Reader
<1> QED BY <1>1 DEF Reader

\* The branches exclude one another: inside a text ...
LEMMA StepInText ==
  ASSUME NEW bytes, NEW r \in Reader, Reading(bytes, r), NEW b, b = At(bytes, r.pos),
         r.in_text
  PROVE  /\ b = DLE => Step(bytes, r) = SkipEscaped(r)
         /\ b = ETX => Step(bytes, r) = CloseText(r)
         /\ b = ETB => Step(bytes, r) = CommitBlock(bytes, r, TRUE)
         /\ b = SYN \/ b = EOT \/ b = EM => Step(bytes, r) = CutText(bytes, r)
         /\ b # DLE /\ b # ETX /\ b # ETB /\ b # SYN /\ b # EOT /\ b # EM
              => Step(bytes, r) = Skip(r)
<1>1. /\ ETX = 3 /\ EOT = 4 /\ DLE = 16 /\ SYN = 22 /\ ETB = 23 /\ EM = 25
  BY DEF ETX, EOT, DLE, SYN, ETB, EM
<1>2. /\ InText(bytes, r, {DLE}) <=> b = DLE
      /\ InText(bytes, r, {ETX}) <=> b = ETX
      /\ InText(bytes, r, {ETB}) <=> b = ETB
      /\ InText(bytes, r, {SYN, EOT, EM}) <=> (b = SYN \/ b = EOT \/ b = EM)
      /\ TextByte(bytes, r) <=>
           (b # DLE /\ b # ETX /\ b # ETB /\ b # SYN /\ b # EOT /\ b # EM)
  BY DEF InText, TextByte
<1>3. /\ ~Outside(bytes, r, {STX}) /\ ~Outside(bytes, r, {DLE})
      /\ ~Outside(bytes, r, {CAN}) /\ ~Outside(bytes, r, {ETB})
      /\ ~NewDocument(bytes, r) /\ ~OtherByte(bytes, r)
  BY DEF Outside, NewDocument, OtherByte
<1>4. CASE b = DLE
  <2>1. /\ InText(bytes, r, {DLE})
        /\ ~InText(bytes, r, {ETX})
        /\ ~InText(bytes, r, {ETB})
        /\ ~InText(bytes, r, {SYN, EOT, EM})
        /\ ~TextByte(bytes, r)
    BY <1>1, <1>2, <1>4
  <2>2. Step(bytes, r) = SkipEscaped(r)
    BY <1>3, <2>1 DEF Step
  <2> QED BY <1>1, <1>4, <2>2
<1>5. CASE b = ETX
  <2>1. /\ InText(bytes, r, {ETX})
        /\ ~InText(bytes, r, {DLE})
        /\ ~InText(bytes, r, {ETB})
        /\ ~InText(bytes, r, {SYN, EOT, EM})
        /\ ~TextByte(bytes, r)
    BY <1>1, <1>2, <1>5
  <2>2. Step(bytes, r) = CloseText(r)
    BY <1>3, <2>1 DEF Step
  <2> QED BY <1>1, <1>5, <2>2
<1>6. CASE b = ETB
  <2>1. /\ InText(bytes, r, {ETB})
        /\ ~InText(bytes, r, {DLE})
        /\ ~InText(bytes, r, {ETX})
        /\ ~InText(bytes, r, {SYN, EOT, EM})
        /\ ~TextByte(bytes, r)
    BY <1>1, <1>2, <1>6
  <2>2. Step(bytes, r) = CommitBlock(bytes, r, TRUE)
    BY <1>3, <2>1 DEF Step
  <2> QED BY <1>1, <1>6, <2>2
<1>7. CASE b = SYN \/ b = EOT \/ b = EM
  <2>1. /\ InText(bytes, r, {SYN, EOT, EM})
        /\ ~InText(bytes, r, {DLE})
        /\ ~InText(bytes, r, {ETX})
        /\ ~InText(bytes, r, {ETB})
        /\ ~TextByte(bytes, r)
    BY <1>1, <1>2, <1>7
  <2>2. Step(bytes, r) = CutText(bytes, r)
    BY <1>3, <2>1 DEF Step
  <2>3. b # DLE /\ b # ETX /\ b # ETB
    BY <1>1, <1>7
  <2> QED BY <1>7, <2>2, <2>3, Zenon
<1>8. CASE b # DLE /\ b # ETX /\ b # ETB /\ b # SYN /\ b # EOT /\ b # EM
  <2>1. /\ TextByte(bytes, r)
        /\ ~InText(bytes, r, {DLE})
        /\ ~InText(bytes, r, {ETX})
        /\ ~InText(bytes, r, {ETB})
        /\ ~InText(bytes, r, {SYN, EOT, EM})
    BY <1>1, <1>2, <1>8
  <2>2. Step(bytes, r) = Skip(r)
    BY <1>3, <2>1 DEF Step
  <2> QED BY <1>1, <1>8, <2>2
<1> QED BY <1>4, <1>5, <1>6, <1>7, <1>8

\* ... and outside one.
LEMMA StepOutside ==
  ASSUME NEW bytes, NEW r \in Reader, Reading(bytes, r), NEW b, b = At(bytes, r.pos),
         ~r.in_text
  PROVE  /\ b = STX => Step(bytes, r) = OpenText(r)
         /\ b = DLE => Step(bytes, r) = EnterLevel(r)
         /\ b = CAN => Step(bytes, r) = CloseLevel(r)
         /\ b = ETB => Step(bytes, r) = CommitBlock(bytes, r, r.depth > 0)
         /\ b = SYN /\ r.pos > 0 => Step(bytes, r) = StartDocument(r)
         /\ b = SYN /\ ~(r.pos > 0) => Step(bytes, r) = Skip(r)
         /\ b # STX /\ b # DLE /\ b # CAN /\ b # ETB /\ b # SYN
              => Step(bytes, r) = Skip(r)
<1>1. r.pos \in Nat
  BY DEF Reader
<1>2. STX = 2 /\ DLE = 16 /\ SYN = 22 /\ ETB = 23 /\ CAN = 24
  BY DEF STX, DLE, SYN, ETB, CAN
<1>3. /\ ~InText(bytes, r, {DLE}) /\ ~InText(bytes, r, {ETX}) /\ ~InText(bytes, r, {ETB})
      /\ ~InText(bytes, r, {SYN, EOT, EM}) /\ ~TextByte(bytes, r)
  BY DEF InText, TextByte
<1>4. /\ Outside(bytes, r, {STX}) <=> b = STX
      /\ Outside(bytes, r, {DLE}) <=> b = DLE
      /\ Outside(bytes, r, {CAN}) <=> b = CAN
      /\ Outside(bytes, r, {ETB}) <=> b = ETB
      /\ NewDocument(bytes, r) <=> (b = SYN /\ r.pos > 0)
      /\ OtherByte(bytes, r) <=>
           (b # STX /\ b # DLE /\ b # CAN /\ b # ETB /\ (b = SYN => ~(r.pos > 0)))
  BY <1>1 DEF Outside, OtherByte, NewDocument
<1>5. Step(bytes, r) =
        CASE b = STX               -> OpenText(r)
          [] b = DLE               -> EnterLevel(r)
          [] b = CAN               -> CloseLevel(r)
          [] b = ETB               -> CommitBlock(bytes, r, r.depth > 0)
          [] b = SYN /\ r.pos > 0  -> StartDocument(r)
          [] OTHER                 -> Skip(r)
  BY <1>1, <1>2, <1>3, <1>4 DEF Step
<1>6. b = STX => Step(bytes, r) = OpenText(r)
  BY <1>2, <1>5
<1>7. b = DLE => Step(bytes, r) = EnterLevel(r)
  BY <1>2, <1>5
<1>8. b = CAN => Step(bytes, r) = CloseLevel(r)
  BY <1>2, <1>5
<1>9. b = ETB => Step(bytes, r) = CommitBlock(bytes, r, r.depth > 0)
  BY <1>2, <1>5
<1>10. b = SYN /\ r.pos > 0 => Step(bytes, r) = StartDocument(r)
  BY <1>2, <1>5
<1>11. b = SYN /\ ~(r.pos > 0) => Step(bytes, r) = Skip(r)
  BY <1>2, <1>5
<1>12. b # STX /\ b # DLE /\ b # CAN /\ b # ETB /\ b # SYN => Step(bytes, r) = Skip(r)
  BY <1>2, <1>5
<1> QED BY <1>6, <1>7, <1>8, <1>9, <1>10, <1>11, <1>12

\* A step moves over one byte (two for an escape) that is no commit, or
\* commits; what it does to the rest of the reader does not matter to the
\* blocks.
Moves(bytes, r, s) ==
  /\ s.blocks = r.blocks
  /\ s.committed_end = r.committed_end
  /\ At(bytes, r.pos) # ETB
  /\ \/ s.pos = r.pos + 1
     \/ s.pos = r.pos + 2 /\ At(bytes, r.pos) = DLE
  /\ \/ s.block_start = r.block_start
     \/ s.block_start = r.pos /\ At(bytes, r.pos) = SYN

LEMMA StepMoves ==
  ASSUME NEW bytes, NEW r \in Reader, Reading(bytes, r), At(bytes, r.pos) # ETB
  PROVE  Step(bytes, r) \in Reader /\ Moves(bytes, r, Step(bytes, r))
<1>0. /\ r.pos \in Nat /\ r.depth \in Nat /\ r.block_start \in Nat
      /\ r.in_text \in BOOLEAN /\ r.blocks \in Seq(Block) /\ r.committed_end \in Nat
  BY DEF Reader
<1> DEFINE Forward(s, k) == /\ s \in Reader /\ s.pos = r.pos + k
                            /\ s.block_start = r.block_start
                            /\ s.blocks = r.blocks /\ s.committed_end = r.committed_end
<1>1. Forward(Skip(r), 1) /\ Skip(r).depth = r.depth
  BY <1>0 DEF Reader, Skip
<1>2. Forward(SkipEscaped(r), 2)
  BY <1>0 DEF Reader, SkipEscaped
<1>3. Forward(CloseText(r), 1) /\ Forward(OpenText(r), 1)
  <2>1. CloseText(r) \in Reader /\ OpenText(r) \in Reader
    BY <1>1, FlagTyped DEF CloseText, OpenText
  <2> QED BY <1>1, <2>1 DEF CloseText, OpenText, Reader
<1>4. Forward(EnterLevel(r), 1)
  BY <1>0, <1>1 DEF Reader, EnterLevel
<1>5. Forward(CloseLevel(r), 1)
  BY <1>0, <1>1 DEF Reader, CloseLevel
<1>6. \A start \in Nat : /\ Restart(r, start) \in Reader /\ Restart(r, start).pos = r.pos + 1
                         /\ Restart(r, start).block_start = start
                         /\ Restart(r, start).blocks = r.blocks
                         /\ Restart(r, start).committed_end = r.committed_end
  BY <1>0 DEF Restart, Reader
<1> DEFINE s == Step(bytes, r)
<1>7. \/ Forward(s, 1)
      \/ Forward(s, 2) /\ At(bytes, r.pos) = DLE
      \/ s = Restart(r, r.block_start)
      \/ s = Restart(r, r.pos) /\ At(bytes, r.pos) = SYN
  <2> HIDE DEF Forward
  <2> DEFINE b == At(bytes, r.pos)
  <2>1. CASE r.in_text
    <3>1. /\ b = DLE => s = SkipEscaped(r)
          /\ b = ETX => s = CloseText(r)
          /\ b = SYN \/ b = EOT \/ b = EM => s = CutText(bytes, r)
          /\ b # DLE /\ b # ETX /\ b # ETB /\ b # SYN /\ b # EOT /\ b # EM => s = Skip(r)
      BY <2>1, StepInText
    <3>2. CutText(bytes, r) = IF b = SYN THEN Restart(r, r.pos) ELSE Restart(r, r.block_start)
      BY DEF CutText
    <3> HIDE DEF s
    <3> QED BY <1>1, <1>2, <1>3, <3>1, <3>2
  <2>2. CASE ~r.in_text
    <3>1. /\ b = STX => s = OpenText(r)
          /\ b = DLE => s = EnterLevel(r)
          /\ b = CAN => s = CloseLevel(r)
          /\ b = SYN /\ r.pos > 0 => s = StartDocument(r)
          /\ b = SYN /\ ~(r.pos > 0) => s = Skip(r)
          /\ b # STX /\ b # DLE /\ b # CAN /\ b # ETB /\ b # SYN => s = Skip(r)
      BY <2>2, StepOutside
    <3>2. StartDocument(r) = Restart(r, r.pos)
      BY DEF StartDocument
    <3> HIDE DEF s
    <3> QED BY <1>1, <1>3, <1>4, <1>5, <3>1, <3>2
  <2> QED BY <1>0, <2>1, <2>2
<1> HIDE DEF s
<1> QED BY <1>0, <1>6, <1>7 DEF Moves, s

LEMMA StepCommits ==
  ASSUME NEW bytes \in Seq(Byte), NEW r \in Reader, Reading(bytes, r),
         At(bytes, r.pos) = ETB
  PROVE  /\ Step(bytes, r) \in Reader
         /\ Step(bytes, r) = CommitBlock(bytes, r, r.in_text \/ r.depth > 0)
         /\ PayloadEnd(bytes, r.pos + 1) \in r.pos + 1 .. Len(bytes)
         /\ \A q \in r.pos + 1 .. PayloadEnd(bytes, r.pos + 1) - 1 : At(bytes, q) # ETB
<1>1. /\ r.pos \in 0 .. Len(bytes) - 1 /\ Len(bytes) \in Nat
      /\ r.depth \in Nat /\ r.in_text \in BOOLEAN
      /\ r.block_start \in Nat /\ r.blocks \in Seq(Block)
  BY DEF Reader, Reading
<1> DEFINE end == PayloadEnd(bytes, r.pos + 1)
           damaged == r.in_text \/ r.depth > 0
           block == [start |-> r.block_start, stop |-> r.pos, damaged |-> damaged]
<1>2. end \in r.pos + 1 .. Len(bytes) /\ \A q \in r.pos + 1 .. end - 1 : At(bytes, q) # ETB
  <2>1. r.pos + 1 \in 0 .. Len(bytes)
    BY <1>1
  <2> QED BY <2>1, PayloadStops
<1>3. Step(bytes, r) = CommitBlock(bytes, r, damaged)
  <2>1. CASE r.in_text
    <3>1. damaged = TRUE
      BY <2>1
    <3> HIDE DEF damaged
    <3> QED BY <2>1, <3>1, StepInText
  <2>2. CASE ~r.in_text
    <3>1. damaged = (r.depth > 0)
      BY <2>2
    <3> HIDE DEF damaged
    <3> QED BY <2>2, <3>1, StepOutside
  <2> QED BY <2>1, <2>2
<1>4. damaged \in BOOLEAN
  BY <1>1
<1>5. block \in Block
  <2> HIDE DEF damaged
  <2> QED BY <1>1, <1>4 DEF Block
<1>6. Append(r.blocks, block) \in Seq(Block)
  <2> HIDE DEF block
  <2> QED BY <1>1, <1>5
<1>7. CommitBlock(bytes, r, damaged) \in Reader
  <2> HIDE DEF end, damaged
  <2> QED BY <1>1, <1>2, <1>6 DEF CommitBlock, Reader, end
<1> QED BY <1>2, <1>3, <1>7

-----------------------------------------------------------------------------
(* The loop run to its end. *)

\* Every iteration of the loop moves forward.
LEMMA StepForward ==
  ASSUME NEW bytes \in Seq(Byte), NEW r \in Reader, Reading(bytes, r)
  PROVE  Step(bytes, r) \in Reader /\ Step(bytes, r).pos > r.pos
<1>1. r.pos \in Nat
  BY DEF Reader
<1>2. CASE At(bytes, r.pos) # ETB
  BY <1>1, <1>2, StepMoves DEF Moves
<1>3. CASE At(bytes, r.pos) = ETB
  <2>1. /\ Step(bytes, r) \in Reader
        /\ Step(bytes, r) = CommitBlock(bytes, r, r.in_text \/ r.depth > 0)
        /\ PayloadEnd(bytes, r.pos + 1) \in r.pos + 1 .. Len(bytes)
    BY <1>3, StepCommits
  <2>2. Step(bytes, r).pos = PayloadEnd(bytes, r.pos + 1)
    BY <2>1 DEF CommitBlock
  <2> QED BY <1>1, <2>1, <2>2
<1> QED BY <1>2, <1>3

\* The loop from any of its states on.
RunOf(bytes) ==
  CHOOSE run : run = [r \in Reader |-> IF Reading(bytes, r) THEN run[Step(bytes, r)] ELSE r]

LEMMA RunUnfolds ==
  ASSUME NEW bytes \in Seq(Byte)
  PROVE  /\ ScanOf(bytes) = RunOf(bytes)[NewReader]
         /\ \A r \in Reader : ~Reading(bytes, r) => RunOf(bytes)[r] = r
         /\ \A r \in Reader : Reading(bytes, r) => RunOf(bytes)[r] = RunOf(bytes)[Step(bytes, r)]
<1> DEFINE go   == [r \in Reader |-> Reading(bytes, r)]
           next == [r \in Reader |-> IF Reading(bytes, r) THEN Step(bytes, r) ELSE r]
           out  == [r \in Reader |-> r]
           Body(run) == [r \in Reader |-> IF Reading(bytes, r) THEN run[Step(bytes, r)] ELSE r]
<1>1. ScanOf(bytes) = RunOf(bytes)[NewReader]
  BY DEF ScanOf, RunOf
<1>2. next \in [Reader -> Reader]
  BY StepForward
<1>3. PICK g : Follows(g, Reader, go, next, out)
  <2> HIDE DEF go, next, out
  <2> QED BY <1>2, TailRecursion
<1>4. g = Body(g)
  BY <1>3 DEF Follows
<1>5. RunOf(bytes) = Body(RunOf(bytes))
  <2> HIDE DEF Body
  <2>1. RunOf(bytes) = CHOOSE run : run = Body(run)
    BY DEF RunOf, Body
  <2> QED BY <1>4, <2>1
<1> DEFINE run == RunOf(bytes)
<1> HIDE DEF run
<1>6. run = [r \in Reader |-> IF Reading(bytes, r) THEN run[Step(bytes, r)] ELSE r]
  BY <1>5 DEF run
<1>7. \A r \in Reader : run[r] = IF Reading(bytes, r) THEN run[Step(bytes, r)] ELSE r
  BY <1>6
<1> QED BY <1>1, <1>7 DEF run

\* What holds where the loop ends, and before an iteration if it holds
\* behind it, holds everywhere.
LEMMA ScanInduction ==
  ASSUME NEW bytes \in Seq(Byte), NEW G \in SUBSET Reader,
         \A r \in Reader : ~Reading(bytes, r) => r \in G,
         \A r \in Reader : Reading(bytes, r) /\ Step(bytes, r) \in G => r \in G
  PROVE  G = Reader
<1> DEFINE Left(r) == IF Reading(bytes, r) THEN Len(bytes) - r.pos ELSE 0
           Bad == {n \in Nat : \E r \in Reader : r \notin G /\ n = Left(r)}
<1>1. \A r \in Reader : Left(r) \in Nat
  BY DEF Reader, Reading
<1> SUFFICES ASSUME NEW x \in Reader, x \notin G
             PROVE  FALSE
  OBVIOUS
<1>2. Left(x) \in Bad /\ Bad \in SUBSET Nat
  BY <1>1
<1>3. PICK n \in Bad : \A m \in Bad : n <= m
  <2> HIDE DEF Bad
  <2> QED BY <1>2, LeastOffset
<1>4. PICK r \in Reader : r \notin G /\ n = Left(r)
  BY <1>3
<1>5. Reading(bytes, r) /\ Step(bytes, r) \notin G
  BY <1>4
<1>6. Step(bytes, r) \in Reader /\ Step(bytes, r).pos > r.pos
  BY <1>5, StepForward
<1>7. Left(Step(bytes, r)) \in Bad
  <2>1. Left(Step(bytes, r)) \in Nat
    BY <1>1, <1>6
  <2> HIDE DEF Left
  <2> QED BY <1>5, <1>6, <2>1
<1>8. Left(Step(bytes, r)) < Left(r)
  <2> DEFINE s == Step(bytes, r)
  <2> HIDE DEF s
  <2>1. r.pos \in Nat /\ s.pos \in Nat /\ s.pos > r.pos /\ Len(bytes) \in Nat
    BY <1>6 DEF Reader, s
  <2>2. Left(s) < Left(r)
    BY <1>5, <2>1 DEF Reading
  <2> QED BY <2>2 DEF s
<1>9. Left(Step(bytes, r)) \in Nat /\ Left(r) \in Nat /\ n <= Left(Step(bytes, r))
  BY <1>1, <1>3, <1>6, <1>7
<1> HIDE DEF Left
<1> QED BY <1>4, <1>8, <1>9

-----------------------------------------------------------------------------
(* What the rest of the loop does to a reader. *)

\* s comes from r by reading on: its blocks are those of r and more, and if
\* there is more then an ETB has been met behind r.
Extends(bytes, r, s) ==
  /\ IsPrefix(r.blocks, s.blocks)
  /\ r.committed_end <= s.committed_end
  /\ s.committed_end = r.committed_end => s.blocks = r.blocks
  /\ s.committed_end # r.committed_end =>
       /\ s.committed_end <= Len(bytes)
       /\ \E p \in r.pos .. s.committed_end - 1 : At(bytes, p) = ETB

\* A prefix, index by index.
LEMMA PrefixMeans ==
  ASSUME NEW S, NEW s \in Seq(S), NEW t \in Seq(S)
  PROVE  IsPrefix(s, t) <=> Len(s) <= Len(t) /\ \A i \in 1 .. Len(s) : s[i] = t[i]
BY DEF IsPrefix

\* A commit adds a block, behind everything before it.
LEMMA CommitIs ==
  ASSUME NEW bytes \in Seq(Byte), NEW r \in Reader, Reading(bytes, r),
         At(bytes, r.pos) = ETB
  PROVE  /\ Step(bytes, r) \in Reader
         /\ Step(bytes, r).pos = PayloadEnd(bytes, r.pos + 1)
         /\ Step(bytes, r).block_start = PayloadEnd(bytes, r.pos + 1)
         /\ Step(bytes, r).committed_end = PayloadEnd(bytes, r.pos + 1)
         /\ ~Step(bytes, r).in_text /\ Step(bytes, r).depth = 0
         /\ Step(bytes, r).blocks =
              Append(r.blocks, [start |-> r.block_start, stop |-> r.pos,
                                damaged |-> r.in_text \/ r.depth > 0])
         /\ PayloadEnd(bytes, r.pos + 1) \in r.pos + 1 .. Len(bytes)
<1>1. /\ Step(bytes, r) \in Reader
      /\ Step(bytes, r) = CommitBlock(bytes, r, r.in_text \/ r.depth > 0)
      /\ PayloadEnd(bytes, r.pos + 1) \in r.pos + 1 .. Len(bytes)
  BY StepCommits
<1> QED BY <1>1 DEF CommitBlock

LEMMA RunExtends ==
  ASSUME NEW bytes \in Seq(Byte), NEW r \in Reader, r.committed_end <= r.pos
  PROVE  RunOf(bytes)[r] \in Reader /\ Extends(bytes, r, RunOf(bytes)[r])
<1> DEFINE Good(x) == x.committed_end <= x.pos =>
                        RunOf(bytes)[x] \in Reader /\ Extends(bytes, x, RunOf(bytes)[x])
           G == {x \in Reader : Good(x)}
<1>0. \A x \in Reader : /\ x.pos \in Nat /\ x.committed_end \in Nat /\ x.blocks \in Seq(Block)
                        /\ x.block_start \in Nat /\ x.depth \in Nat /\ x.in_text \in BOOLEAN
  BY DEF Reader
<1>1. ASSUME NEW x \in Reader, ~Reading(bytes, x)
      PROVE  Good(x)
  <2>1. RunOf(bytes)[x] = x
    BY <1>1, RunUnfolds
  <2>2. IsPrefix(x.blocks, x.blocks)
    BY <1>0, PrefixMeans
  <2> QED BY <1>0, <2>1, <2>2 DEF Extends
<1>2. ASSUME NEW x \in Reader, Reading(bytes, x), Good(Step(bytes, x))
      PROVE  Good(x)
  <2> SUFFICES ASSUME x.committed_end <= x.pos
               PROVE  RunOf(bytes)[x] \in Reader /\ Extends(bytes, x, RunOf(bytes)[x])
    OBVIOUS
  <2> DEFINE s == Step(bytes, x)
             f == RunOf(bytes)[s]
  <2>1. RunOf(bytes)[x] = f
    BY <1>2, RunUnfolds
  <2>2. Len(bytes) \in Nat
    OBVIOUS
  <2>3. CASE At(bytes, x.pos) # ETB
    <3>1. s \in Reader /\ Moves(bytes, x, s)
      BY <1>2, <2>3, StepMoves
    <3>2. s.blocks = x.blocks /\ s.committed_end = x.committed_end /\ s.pos > x.pos
      BY <1>0, <3>1 DEF Moves
    <3>3. s.committed_end <= s.pos
      BY <1>0, <3>1, <3>2
    <3>4. f \in Reader /\ Extends(bytes, s, f)
      BY <1>2, <3>3
    <3> HIDE DEF s, f
    <3>5. f.committed_end \in Nat /\ s.pos \in Nat /\ x.pos \in Nat
      BY <1>0, <3>1, <3>4
    <3>6. Extends(bytes, x, f)
      BY <3>2, <3>4, <3>5 DEF Extends
    <3> QED BY <2>1, <3>4, <3>6
  <2>4. CASE At(bytes, x.pos) = ETB
    <3> DEFINE blk == [start |-> x.block_start, stop |-> x.pos,
                       damaged |-> x.in_text \/ x.depth > 0]
    <3>1. /\ s \in Reader
          /\ s.pos \in x.pos + 1 .. Len(bytes) /\ s.committed_end = s.pos
          /\ s.blocks = Append(x.blocks, blk)
      BY <1>2, <2>4, CommitIs
    <3>2. f \in Reader /\ Extends(bytes, s, f)
      BY <1>2, <1>0, <3>1
    <3> HIDE DEF s, f, blk
    <3>3. /\ f.committed_end \in Nat /\ s.pos \in Nat /\ x.pos \in Nat /\ x.committed_end \in Nat
          /\ s.committed_end \in Nat
      BY <1>0, <3>1, <3>2
    <3>4. f.committed_end >= s.pos /\ f.committed_end <= Len(bytes)
      BY <2>2, <3>1, <3>2, <3>3 DEF Extends
    <3>5. x.pos \in x.pos .. f.committed_end - 1 /\ f.committed_end # x.committed_end
          /\ x.committed_end <= f.committed_end
      BY <3>1, <3>3, <3>4
    <3>6. IsPrefix(x.blocks, f.blocks)
      <4>1. /\ x.blocks \in Seq(Block) /\ s.blocks \in Seq(Block) /\ f.blocks \in Seq(Block)
        BY <1>0, <3>1, <3>2
      <4>2. /\ Len(s.blocks) = Len(x.blocks) + 1
            /\ \A i \in 1 .. Len(x.blocks) : s.blocks[i] = x.blocks[i]
        BY <3>1, <4>1
      <4>3. Len(s.blocks) <= Len(f.blocks) /\ \A i \in 1 .. Len(s.blocks) : s.blocks[i] = f.blocks[i]
        BY <3>2, <4>1, PrefixMeans DEF Extends
      <4>4. Len(x.blocks) <= Len(f.blocks) /\ \A i \in 1 .. Len(x.blocks) : x.blocks[i] = f.blocks[i]
        BY <4>1, <4>2, <4>3
      <4> QED BY <4>1, <4>4, PrefixMeans
    <3>7. Extends(bytes, x, f)
      BY <2>4, <3>4, <3>5, <3>6 DEF Extends
    <3> QED BY <2>1, <3>2, <3>7
  <2> QED BY <2>3, <2>4
<1> HIDE DEF Good
<1>3. G = Reader
  <2>1. /\ G \in SUBSET Reader
        /\ \A x \in Reader : ~Reading(bytes, x) => x \in G
        /\ \A x \in Reader : Reading(bytes, x) /\ Step(bytes, x) \in G => x \in G
    BY <1>1, <1>2
  <2> HIDE DEF G
  <2> QED BY <2>1, ScanInduction
<1> QED BY <1>3 DEF Good

-----------------------------------------------------------------------------
(* A buffer and a longer one. *)

Begins(a, c) ==
  /\ Len(a) <= Len(c)
  /\ \A p \in 0 .. Len(a) - 1 : At(a, p) = At(c, p)

\* A slice of a buffer from its start.
LEMMA SliceBegins ==
  ASSUME NEW c \in Seq(Byte), NEW n \in 0 .. Len(c)
  PROVE  /\ Slice(c, 0, n) \in Seq(Byte)
         /\ Len(Slice(c, 0, n)) = n
         /\ Begins(Slice(c, 0, n), c)
<1>1. Slice(c, 0, n) = SubSeq(c, 1, n)
  BY DEF Slice
<1>2. /\ SubSeq(c, 1, n) \in Seq(Byte) /\ Len(SubSeq(c, 1, n)) = n
      /\ \A i \in 1 .. n : SubSeq(c, 1, n)[i] = c[i]
  OBVIOUS
<1> DEFINE s == Slice(c, 0, n)
<1>3. s \in Seq(Byte) /\ Len(s) = n /\ \A i \in 1 .. n : s[i] = c[i]
  BY <1>1, <1>2
<1> HIDE DEF s
<1>4. n <= Len(c) /\ \A p \in 0 .. n - 1 : p + 1 \in 1 .. n
  OBVIOUS
<1>5. Begins(s, c)
  BY <1>3, <1>4 DEF Begins, At
<1> QED BY <1>3, <1>5 DEF s

\* An iteration looks at one byte, and behind an ETB at its payload.
LEMMA SameStep ==
  ASSUME NEW a, NEW c, NEW r \in Reader, Reading(a, r), Reading(c, r),
         At(a, r.pos) = At(c, r.pos),
         At(a, r.pos) = ETB => PayloadEnd(a, r.pos + 1) = PayloadEnd(c, r.pos + 1)
  PROVE  Step(a, r) = Step(c, r)
<1> DEFINE b == At(a, r.pos)
<1>0. b = At(c, r.pos)
  OBVIOUS
<1>1. CutText(a, r) = CutText(c, r)
  BY DEF CutText
<1>2. b = ETB => \A damaged : CommitBlock(a, r, damaged) = CommitBlock(c, r, damaged)
  BY DEF CommitBlock
<1>3. CASE r.in_text
  <2>1. /\ b = DLE => Step(a, r) = SkipEscaped(r)
        /\ b = ETX => Step(a, r) = CloseText(r)
        /\ b = ETB => Step(a, r) = CommitBlock(a, r, TRUE)
        /\ b = SYN \/ b = EOT \/ b = EM => Step(a, r) = CutText(a, r)
        /\ b # DLE /\ b # ETX /\ b # ETB /\ b # SYN /\ b # EOT /\ b # EM
             => Step(a, r) = Skip(r)
    BY <1>3, StepInText
  <2>2. /\ b = DLE => Step(c, r) = SkipEscaped(r)
        /\ b = ETX => Step(c, r) = CloseText(r)
        /\ b = ETB => Step(c, r) = CommitBlock(c, r, TRUE)
        /\ b = SYN \/ b = EOT \/ b = EM => Step(c, r) = CutText(c, r)
        /\ b # DLE /\ b # ETX /\ b # ETB /\ b # SYN /\ b # EOT /\ b # EM
             => Step(c, r) = Skip(r)
    BY <1>0, <1>3, StepInText
  <2> HIDE DEF b
  <2> QED BY <1>1, <1>2, <2>1, <2>2
<1>4. CASE ~r.in_text
  <2>1. /\ b = STX => Step(a, r) = OpenText(r)
        /\ b = DLE => Step(a, r) = EnterLevel(r)
        /\ b = CAN => Step(a, r) = CloseLevel(r)
        /\ b = ETB => Step(a, r) = CommitBlock(a, r, r.depth > 0)
        /\ b = SYN /\ r.pos > 0 => Step(a, r) = StartDocument(r)
        /\ b = SYN /\ ~(r.pos > 0) => Step(a, r) = Skip(r)
        /\ b # STX /\ b # DLE /\ b # CAN /\ b # ETB /\ b # SYN => Step(a, r) = Skip(r)
    BY <1>4, StepOutside
  <2>2. /\ b = STX => Step(c, r) = OpenText(r)
        /\ b = DLE => Step(c, r) = EnterLevel(r)
        /\ b = CAN => Step(c, r) = CloseLevel(r)
        /\ b = ETB => Step(c, r) = CommitBlock(c, r, r.depth > 0)
        /\ b = SYN /\ r.pos > 0 => Step(c, r) = StartDocument(r)
        /\ b = SYN /\ ~(r.pos > 0) => Step(c, r) = Skip(r)
        /\ b # STX /\ b # DLE /\ b # CAN /\ b # ETB /\ b # SYN => Step(c, r) = Skip(r)
    BY <1>0, <1>4, StepOutside
  <2> HIDE DEF b
  <2> QED BY <1>2, <2>1, <2>2
<1> QED BY <1>3, <1>4

\* A payload that the end of a buffer cuts short: nothing but layout is left
\* behind what the shorter buffer takes for it.
LEMMA PayloadCut ==
  ASSUME NEW a \in Seq(Byte), NEW c \in Seq(Byte), Begins(a, c), NEW q \in 0 .. Len(a)
  PROVE  /\ PayloadEnd(a, q) <= PayloadEnd(c, q)
         /\ PayloadEnd(a, q) # PayloadEnd(c, q) =>
              /\ PayloadEnd(c, q) > Len(a)
              /\ \A p \in PayloadEnd(a, q) .. Len(a) - 1 : IsLayout(At(a, p))
<1> DEFINE la == Len(a)
           lc == Len(c)
           pa == Layout(a, q, la)
           pc == Layout(c, q, lc)
<1>1. /\ la \in Nat /\ lc \in Nat /\ la <= lc /\ q \in 0 .. lc
      /\ \A p \in 0 .. la - 1 : At(a, p) = At(c, p)
  BY DEF Begins
<1>2. /\ pa \in q .. la /\ \A x \in q .. pa - 1 : IsLayout(At(a, x))
      /\ pa < la => ~IsLayout(At(a, pa))
  BY <1>1, LayoutStops
<1>3. /\ pc \in q .. lc /\ \A x \in q .. pc - 1 : IsLayout(At(c, x))
      /\ pc < lc => ~IsLayout(At(c, pc))
  BY <1>1, LayoutStops
<1> HIDE DEF la, lc, pa, pc
<1>4. CASE pa = la
  <2>1. PayloadEnd(a, q) = q
    BY <1>1, <1>4 DEF PayloadEnd, pa, la
  <2>2. CASE PayloadEnd(c, q) = q
    BY <2>1, <2>2, <1>1
  <2>3. CASE PayloadEnd(c, q) # q
    <3> DEFINE rc == Plain(c, pc, lc)
    <3>1. pc < lc /\ IsPlain(At(c, pc)) /\ PayloadEnd(c, q) = TrimSpaces(c, q, rc)
      BY <2>3 DEF PayloadEnd, pc, lc
    <3>2. pc >= la
      <4> SUFFICES ASSUME pc < la PROVE FALSE
        BY <1>1, <1>2, <1>3
      <4>1. pc \in q .. pa - 1 /\ At(a, pc) = At(c, pc)
        BY <1>1, <1>3, <1>4
      <4> QED BY <1>2, <1>3, <3>1, <4>1
    <3>3. pc \in 0 .. lc
      BY <1>1, <1>3
    <3>4. rc \in pc .. lc /\ rc # pc
      <4>1. /\ Plain(c, pc, lc) \in pc .. lc
            /\ Plain(c, pc, lc) < lc => ~IsPlain(At(c, Plain(c, pc, lc)))
        BY <1>1, <3>3, PlainStops
      <4> QED BY <3>1, <4>1
    <3> HIDE DEF rc
    <3>5. rc \in Nat /\ q \in 0 .. rc
      BY <1>1, <1>3, <3>4
    <3>6. /\ TrimSpaces(c, q, rc) \in q .. rc
          /\ \A x \in TrimSpaces(c, q, rc) .. rc - 1 : At(c, x) = SP
      BY <3>5, TrimStops
    <3>7. ~(TrimSpaces(c, q, rc) <= pc)
      <4> SUFFICES ASSUME TrimSpaces(c, q, rc) <= pc PROVE FALSE
        OBVIOUS
      <4>1. pc \in TrimSpaces(c, q, rc) .. rc - 1
        BY <3>3, <3>4, <3>5, <3>6
      <4>2. At(c, pc) = SP
        BY <3>6, <4>1
      <4> QED BY <1>3, <3>1, <4>2 DEF IsLayout
    <3>8. PayloadEnd(c, q) \in Nat /\ PayloadEnd(c, q) > la /\ PayloadEnd(c, q) > q
      BY <1>1, <1>3, <3>1, <3>2, <3>5, <3>6, <3>7
    <3>9. \A x \in q .. la - 1 : IsLayout(At(a, x))
      BY <1>2, <1>4
    <3> QED BY <1>1, <2>1, <3>8, <3>9 DEF la
  <2> QED BY <2>2, <2>3
<1>5. CASE pa < la
  <2>1. pc = pa
    <3>1. \A x \in q .. pa - 1 : IsLayout(At(c, x))
      BY <1>1, <1>2
    <3>2. ~IsLayout(At(c, pa)) /\ pa \in q .. lc
      BY <1>1, <1>2, <1>5
    <3>3. Layout(c, q, lc) = pa
      BY <1>1, <3>1, <3>2, LayoutIs
    <3> QED BY <3>3 DEF pc
  <2>2. At(a, pa) = At(c, pa)
    BY <1>1, <1>2, <1>5
  <2>3. CASE ~IsPlain(At(a, pa))
    <3>1. PayloadEnd(a, q) = q /\ PayloadEnd(c, q) = q
      BY <1>1, <1>5, <2>1, <2>2, <2>3 DEF PayloadEnd, pa, pc, la, lc
    <3> QED BY <1>1, <3>1
  <2>4. CASE IsPlain(At(a, pa))
    <3> DEFINE ra == Plain(a, pa, la)
               rc == Plain(c, pa, lc)
               ta == TrimSpaces(a, q, ra)
               tc == TrimSpaces(c, q, rc)
    <3>1. pa < lc /\ pa \in 0 .. la /\ pa \in 0 .. lc
      BY <1>1, <1>2, <1>5
    <3>2. PayloadEnd(a, q) = ta
      BY <1>5, <2>4 DEF PayloadEnd, pa, la
    <3>3. PayloadEnd(c, q) = tc
      BY <2>1, <2>2, <2>4, <3>1 DEF PayloadEnd, pc, lc
    <3>4. /\ ra \in pa .. la /\ \A x \in pa .. ra - 1 : IsPlain(At(a, x))
          /\ ra < la => ~IsPlain(At(a, ra))
      BY <1>1, <3>1, PlainStops
    <3>5. /\ rc \in pa .. lc /\ \A x \in pa .. rc - 1 : IsPlain(At(c, x))
          /\ rc < lc => ~IsPlain(At(c, rc))
      BY <1>1, <3>1, PlainStops
    <3> HIDE DEF ra, rc
    <3>6. /\ ra \in Nat /\ rc \in Nat /\ q \in 0 .. ra /\ q \in 0 .. rc
      BY <1>1, <1>2, <3>4, <3>5
    <3>7. /\ ta \in q .. ra /\ \A x \in ta .. ra - 1 : At(a, x) = SP
          /\ ta > q => At(a, ta - 1) # SP
      BY <3>6, TrimStops
    <3>8. /\ tc \in q .. rc /\ \A x \in tc .. rc - 1 : At(c, x) = SP
          /\ tc > q => At(c, tc - 1) # SP
      BY <3>6, TrimStops
    <3>9. ra <= rc /\ (ra < rc => ra = la)
      <4>1. ~(rc < ra)
        <5> SUFFICES ASSUME rc < ra PROVE FALSE
          OBVIOUS
        <5>1. rc \in pa .. ra - 1 /\ rc < la /\ rc < lc /\ At(a, rc) = At(c, rc)
          BY <1>1, <3>1, <3>4, <3>5, <3>6
        <5> QED BY <3>4, <3>5, <5>1
      <4>2. ra < rc => ra = la
        <5> SUFFICES ASSUME ra < rc, ra < la PROVE FALSE
          BY <1>1, <3>4, <3>6
        <5>1. ra \in pa .. rc - 1 /\ At(a, ra) = At(c, ra)
          BY <1>1, <3>1, <3>4, <3>5, <3>6
        <5> QED BY <3>4, <3>5, <5>1
      <4> QED BY <3>6, <4>1, <4>2
    <3>10. \A x \in 0 .. ra - 1 : At(a, x) = At(c, x)
      BY <1>1, <3>4, <3>6
    <3> HIDE DEF ta, tc
    <3>11. ta \in Nat /\ tc \in Nat /\ q \in Nat
      BY <3>6, <3>7, <3>8
    <3>12. ~(tc < ta)
      <4> SUFFICES ASSUME tc < ta PROVE FALSE
        OBVIOUS
      <4>1. ta - 1 \in tc .. rc - 1 /\ ta > q /\ ta - 1 \in 0 .. ra - 1
        BY <3>6, <3>7, <3>8, <3>9, <3>11
      <4> QED BY <3>7, <3>8, <3>10, <4>1
    <3>13. ASSUME ta < tc
           PROVE  tc > la /\ \A x \in ta .. la - 1 : IsLayout(At(a, x))
      <4>1. tc > ra
        <5> SUFFICES ASSUME tc <= ra PROVE FALSE
          BY <3>6, <3>11
        <5>1. tc - 1 \in ta .. ra - 1 /\ tc > q /\ tc - 1 \in 0 .. ra - 1
          BY <3>6, <3>7, <3>11, <3>13
        <5> QED BY <3>7, <3>8, <3>10, <5>1
      <4>2. ra = la
        BY <3>6, <3>8, <3>9, <3>11, <4>1
      <4> QED BY <3>7, <4>1, <4>2 DEF IsLayout
    <3> QED BY <3>2, <3>3, <3>11, <3>12, <3>13 DEF la
  <2> QED BY <2>3, <2>4
<1> QED BY <1>1, <1>2, <1>4, <1>5

\* Reading on in a prefix of a buffer finds the first of the blocks that
\* reading on in the whole finds, and all of them if they end in the prefix.
LEMMA PrefixRun ==
  ASSUME NEW a \in Seq(Byte), NEW c \in Seq(Byte), Begins(a, c),
         NEW r \in Reader, r.committed_end <= r.pos
  PROVE  /\ IsPrefix(RunOf(a)[r].blocks, RunOf(c)[r].blocks)
         /\ RunOf(a)[r].committed_end <= RunOf(c)[r].committed_end
         /\ RunOf(c)[r].committed_end <= Len(a) =>
              /\ RunOf(a)[r].blocks = RunOf(c)[r].blocks
              /\ RunOf(a)[r].committed_end = RunOf(c)[r].committed_end
<1> DEFINE Agree(f, g) == /\ IsPrefix(f.blocks, g.blocks)
                          /\ f.committed_end <= g.committed_end
                          /\ g.committed_end <= Len(a) =>
                               /\ f.blocks = g.blocks
                               /\ f.committed_end = g.committed_end
           Good(x) == x.committed_end <= x.pos => Agree(RunOf(a)[x], RunOf(c)[x])
           G == {x \in Reader : Good(x)}
<1>0. \A x \in Reader : /\ x.pos \in Nat /\ x.committed_end \in Nat /\ x.blocks \in Seq(Block)
                        /\ x.block_start \in Nat /\ x.depth \in Nat /\ x.in_text \in BOOLEAN
  BY DEF Reader
<1>1. ASSUME NEW x \in Reader, ~Reading(a, x)
      PROVE  Good(x)
  <2> SUFFICES ASSUME x.committed_end <= x.pos
               PROVE  Agree(RunOf(a)[x], RunOf(c)[x])
    OBVIOUS
  <2> DEFINE g == RunOf(c)[x]
  <2>1. RunOf(a)[x] = x
    BY <1>1, RunUnfolds
  <2>2. g \in Reader /\ Extends(c, x, g)
    BY RunExtends
  <2> HIDE DEF g
  <2>3. g.committed_end \in Nat /\ x.pos \in Nat /\ x.committed_end \in Nat /\ x.pos >= Len(a)
    BY <1>0, <1>1, <2>2 DEF Reading
  <2>4. g.committed_end <= Len(a) => g.committed_end = x.committed_end
    BY <2>2, <2>3 DEF Extends
  <2>5. Agree(x, g)
    BY <2>2, <2>4 DEF Extends
  <2> QED BY <2>1, <2>5 DEF g
<1>2. ASSUME NEW x \in Reader, Reading(a, x), Good(Step(a, x))
      PROVE  Good(x)
  <2> SUFFICES ASSUME x.committed_end <= x.pos
               PROVE  Agree(RunOf(a)[x], RunOf(c)[x])
    OBVIOUS
  <2> HIDE DEF Agree
  <2>1. /\ Len(a) \in Nat /\ Len(c) \in Nat /\ Len(a) <= Len(c)
        /\ x.pos \in Nat /\ x.pos < Len(a) /\ At(a, x.pos) = At(c, x.pos)
        /\ Reading(c, x)
    BY <1>0, <1>2 DEF Begins, Reading
  <2>2. /\ RunOf(a)[x] = RunOf(a)[Step(a, x)]
        /\ RunOf(c)[x] = RunOf(c)[Step(c, x)]
    BY <1>2, <2>1, RunUnfolds
  <2> DEFINE s == Step(a, x)
             t == Step(c, x)
  <2>3. CASE s = t
    <3>1. s \in Reader /\ s.committed_end <= s.pos
      <4>1. CASE At(a, x.pos) # ETB
        <5>1. s \in Reader /\ Moves(a, x, s)
          BY <1>2, <4>1, StepMoves
        <5> HIDE DEF s
        <5> QED BY <1>0, <5>1 DEF Moves
      <4>2. CASE At(a, x.pos) = ETB
        <5>1. /\ s \in Reader /\ s.committed_end = PayloadEnd(a, x.pos + 1)
              /\ s.pos = PayloadEnd(a, x.pos + 1)
          BY <1>2, <4>2, CommitIs
        <5> HIDE DEF s
        <5> QED BY <1>0, <5>1
      <4> QED BY <4>1, <4>2
    <3>2. Agree(RunOf(a)[s], RunOf(c)[s])
      BY <1>2, <3>1
    <3> QED BY <2>2, <2>3, <3>2
  <2>4. CASE s # t
    <3> DEFINE ea == PayloadEnd(a, x.pos + 1)
               ec == PayloadEnd(c, x.pos + 1)
               blk == [start |-> x.block_start, stop |-> x.pos,
                       damaged |-> x.in_text \/ x.depth > 0]
    <3>1. At(a, x.pos) = ETB /\ At(c, x.pos) = ETB /\ ea # ec
      BY <1>2, <2>1, <2>4, SameStep
    <3>2. /\ s \in Reader /\ s.pos = ea /\ s.committed_end = ea
          /\ s.blocks = Append(x.blocks, blk)
          /\ ea \in x.pos + 1 .. Len(a)
      BY <1>2, <3>1, CommitIs
    <3>3. /\ t \in Reader /\ t.pos = ec /\ t.committed_end = ec
          /\ t.blocks = Append(x.blocks, blk)
          /\ ec \in x.pos + 1 .. Len(c)
      BY <2>1, <3>1, CommitIs
    <3>4. /\ ea <= ec /\ ec > Len(a) /\ \A p \in ea .. Len(a) - 1 : IsLayout(At(a, p))
      <4>1. x.pos + 1 \in 0 .. Len(a)
        BY <2>1
      <4> QED BY <3>1, <4>1, PayloadCut
    <3> HIDE DEF s, t, ea, ec, blk
    <3> DEFINE f == RunOf(a)[s]
               g == RunOf(c)[t]
    <3>5. f \in Reader /\ Extends(a, s, f)
      BY <1>0, <3>2, RunExtends
    <3>6. g \in Reader /\ Extends(c, t, g)
      BY <1>0, <3>3, RunExtends
    <3> HIDE DEF f, g
    <3>7. ea \in Nat /\ ec \in Nat /\ f.committed_end \in Nat /\ g.committed_end \in Nat
      BY <1>0, <2>1, <3>2, <3>3, <3>5, <3>6
    <3>8. f.committed_end = ea /\ f.blocks = s.blocks
      <4> SUFFICES ASSUME f.committed_end # s.committed_end
                   PROVE  FALSE
        BY <3>2, <3>5 DEF Extends
      <4>1. PICK p \in s.pos .. f.committed_end - 1 : At(a, p) = ETB
        BY <3>5 DEF Extends
      <4>2. p \in ea .. Len(a) - 1
        BY <2>1, <3>2, <3>5, <3>7 DEF Extends
      <4>3. IsLayout(At(a, p))
        BY <3>4, <4>2
      <4> QED BY <4>1, <4>3 DEF IsLayout, ETB, SP, HT, LF, CR
    <3>9. IsPrefix(f.blocks, g.blocks)
      BY <3>2, <3>3, <3>6, <3>8 DEF Extends
    <3>10. g.committed_end >= ec
      BY <3>3, <3>6, <3>7 DEF Extends
    <3>11. Agree(f, g)
      BY <2>1, <3>4, <3>7, <3>8, <3>9, <3>10 DEF Agree
    <3> QED BY <2>2, <3>11 DEF f, g, s, t
  <2> QED BY <2>3, <2>4
<1> HIDE DEF Good
<1>3. G = Reader
  <2>1. /\ G \in SUBSET Reader
        /\ \A x \in Reader : ~Reading(a, x) => x \in G
        /\ \A x \in Reader : Reading(a, x) /\ Step(a, x) \in G => x \in G
    BY <1>1, <1>2
  <2> HIDE DEF G
  <2> QED BY <2>1, ScanInduction
<1> QED BY <1>3 DEF Good

LEMMA NewReaderTyped ==
  /\ NewReader \in Reader
  /\ NewReader.committed_end = 0 /\ NewReader.pos = 0 /\ NewReader.blocks = << >>
  /\ NewReader.block_start = 0 /\ NewReader.depth = 0 /\ ~NewReader.in_text
BY DEF NewReader, Reader

\* The result for a prefix of a buffer, and for what is committed of it.
LEMMA PrefixScan ==
  ASSUME NEW a \in Seq(Byte), NEW c \in Seq(Byte), Begins(a, c)
  PROVE  /\ ScanOf(a) \in Reader /\ ScanOf(c) \in Reader
         /\ IsPrefix(ScanOf(a).blocks, ScanOf(c).blocks)
         /\ ScanOf(a).committed_end <= ScanOf(c).committed_end
         /\ ScanOf(c).committed_end <= Len(a) =>
              /\ ScanOf(a).blocks = ScanOf(c).blocks
              /\ ScanOf(a).committed_end = ScanOf(c).committed_end
<1>1. ScanOf(a) = RunOf(a)[NewReader] /\ ScanOf(c) = RunOf(c)[NewReader]
  BY RunUnfolds
<1>2. NewReader \in Reader /\ NewReader.committed_end <= NewReader.pos
  BY NewReaderTyped
<1>3. RunOf(a)[NewReader] \in Reader /\ RunOf(c)[NewReader] \in Reader
  BY <1>2, RunExtends
<1> QED BY <1>1, <1>2, <1>3, PrefixRun

-----------------------------------------------------------------------------
(* The tail behind the last commit. *)

\* Nothing but layout is no torn tail; a byte that starts neither a note nor
\* the end of the document is one.
LEMMA TornTailIs ==
  ASSUME NEW bytes \in Seq(Byte), NEW pos \in 0 .. Len(bytes),
         NEW p, p = Layout(bytes, pos, Len(bytes))
  PROVE  /\ p >= Len(bytes) => TornTail(bytes, pos) = FALSE
         /\ p < Len(bytes) /\ At(bytes, p) = EOT => TornTail(bytes, pos) = TornTail(bytes, p + 1)
         /\ p < Len(bytes) /\ At(bytes, p) = BEL =>
              LET body == Layout(bytes, p + 1, Len(bytes))
                  note == Comment(bytes, p, Len(bytes))
              IN  TornTail(bytes, pos) =
                    IF /\ body < Len(bytes) => IsPlain(At(bytes, body)) \/ At(bytes, body) = STX
                       /\ note \in 0 .. Len(bytes)
                    THEN TornTail(bytes, note) ELSE TRUE
         /\ p < Len(bytes) /\ At(bytes, p) # EOT /\ At(bytes, p) # EM /\ At(bytes, p) # BEL
              => TornTail(bytes, pos) = TRUE
<1> DEFINE len == Len(bytes)
           P(x) == Layout(bytes, x, len)
           L(x) == Layout(bytes, P(x) + 1, len)
           Note(x) == Comment(bytes, P(x), len)
           IsNote(x) == /\ L(x) < len => IsPlain(At(bytes, L(x))) \/ At(bytes, L(x)) = STX
                        /\ Note(x) \in 0 .. len
           Ends(x) == P(x) < len /\ At(bytes, P(x)) # EM
           Value(torn, x) ==
             IF P(x) < len /\ At(bytes, P(x)) = EOT THEN torn[P(x) + 1]
             ELSE IF P(x) < len /\ At(bytes, P(x)) = BEL /\ IsNote(x) THEN torn[Note(x)]
             ELSE Ends(x)
           Body(torn) == [x \in 0 .. len |-> Value(torn, x)]
           go   == [x \in 0 .. len |->
                      \/ P(x) < len /\ At(bytes, P(x)) = EOT
                      \/ P(x) < len /\ At(bytes, P(x)) = BEL /\ IsNote(x)]
           next == [x \in 0 .. len |->
                      IF P(x) < len /\ At(bytes, P(x)) = EOT THEN P(x) + 1
                      ELSE IF Note(x) \in 0 .. len THEN Note(x) ELSE x]
           out  == [x \in 0 .. len |-> Ends(x)]
           torn == CHOOSE h : h = Body(h)
<1>0. EOT = 4 /\ EM = 25 /\ BEL = 7
  BY DEF EOT, EM, BEL
<1>1. len \in Nat /\ \A x \in 0 .. len : P(x) \in x .. len
  BY LayoutStops
<1>2. next \in [0 .. len -> 0 .. len]
  <2> HIDE DEF P, Note, len
  <2> QED BY <1>1
<1>3. PICK g : Follows(g, 0 .. len, go, next, out)
  <2> HIDE DEF go, next, out
  <2> QED BY <1>2, TailRecursion
<1>4. ASSUME NEW x \in 0 .. len
      PROVE  g[x] = Value(g, x)
  <2>1. g[x] = IF go[x] THEN g[next[x]] ELSE out[x]
    BY <1>3 DEF Follows
  <2>2. P(x) \in Nat
    BY <1>1
  <2>3. IsNote(x) => Note(x) \in 0 .. len
    OBVIOUS
  <2> HIDE DEF P, Note, IsNote, len
  <2>4. CASE P(x) < len /\ At(bytes, P(x)) = EOT
    <3>1. go[x]
      BY <2>4
    <3>2. next[x] = P(x) + 1
      BY <2>4
    <3>3. Value(g, x) = g[P(x) + 1]
      BY <2>4
    <3> HIDE DEF go, next, out, Value
    <3> QED BY <2>1, <3>1, <3>2, <3>3
  <2>5. CASE P(x) < len /\ At(bytes, P(x)) = BEL /\ IsNote(x)
    <3>1. At(bytes, P(x)) # EOT
      BY <1>0, <2>5
    <3>2. go[x] /\ next[x] = Note(x) /\ Value(g, x) = g[Note(x)]
      BY <2>2, <2>3, <2>5, <3>1
    <3> HIDE DEF go, next, out, Value
    <3> QED BY <2>1, <3>2
  <2>6. CASE /\ ~(P(x) < len /\ At(bytes, P(x)) = EOT)
             /\ ~(P(x) < len /\ At(bytes, P(x)) = BEL /\ IsNote(x))
    <3>1. ~go[x]
      BY <2>6
    <3>2. out[x] = Ends(x)
      <4> HIDE DEF Ends
      <4> QED OBVIOUS
    <3>3. Value(g, x) = Ends(x)
      <4> HIDE DEF Ends
      <4> QED BY <2>6
    <3> HIDE DEF go, next, out, Value, Ends
    <3> QED BY <2>1, <3>1, <3>2, <3>3
  <2> HIDE DEF go, next, out, Value
  <2> QED BY <2>4, <2>5, <2>6
<1>5. \A x : TornTail(bytes, x) = torn[x]
  BY DEF TornTail
<1>6. torn = Body(torn)
  <2>1. g = Body(g)
    <3> HIDE DEF Value
    <3> QED BY <1>3, <1>4 DEF Follows
  <2> HIDE DEF Body
  <2> QED BY <2>1
<1> HIDE DEF torn
<1>7. torn[pos] = Value(torn, pos)
  <2> HIDE DEF Value
  <2> QED BY <1>6
<1>8. p = P(pos) /\ p \in Nat
  BY <1>1
<1>9. /\ L(pos) = Layout(bytes, p + 1, len) /\ Note(pos) = Comment(bytes, p, len)
      /\ IsNote(pos) = (/\ L(pos) < len => IsPlain(At(bytes, L(pos))) \/ At(bytes, L(pos)) = STX
                        /\ Note(pos) \in 0 .. len)
  BY <1>8
<1> HIDE DEF P, Note, IsNote, L, len
<1>10. p >= len => Value(torn, pos) = FALSE
  BY <1>1, <1>8
<1>11. p < len /\ At(bytes, p) # EOT /\ At(bytes, p) # EM /\ At(bytes, p) # BEL
         => Value(torn, pos) = TRUE
  BY <1>0, <1>1, <1>8
<1>12. p < len /\ At(bytes, p) = EOT => Value(torn, pos) = torn[p + 1]
  BY <1>8
<1>13. p < len /\ At(bytes, p) = BEL =>
         Value(torn, pos) = IF IsNote(pos) THEN torn[Note(pos)] ELSE TRUE
  <2> SUFFICES ASSUME p < len, At(bytes, p) = BEL
               PROVE  Value(torn, pos) = IF IsNote(pos) THEN torn[Note(pos)] ELSE TRUE
    OBVIOUS
  <2>1. /\ P(pos) < len /\ At(bytes, P(pos)) = BEL
        /\ At(bytes, P(pos)) # EOT /\ At(bytes, P(pos)) # EM
    BY <1>0, <1>8
  <2>2. CASE IsNote(pos)
    BY <2>1, <2>2, Zenon
  <2>3. CASE ~IsNote(pos)
    <3>1. Value(torn, pos) = Ends(pos)
      <4> HIDE DEF Ends
      <4> QED BY <2>1, <2>3, Zenon
    <3>2. Ends(pos) = TRUE
      BY <2>1
    <3> HIDE DEF Value, Ends
    <3> QED BY <2>3, <3>1, <3>2, Zenon
  <2> HIDE DEF Value
  <2> QED BY <2>2, <2>3
<1> HIDE DEF Value
<1> QED BY <1>5, <1>7, <1>9, <1>10, <1>11, <1>12, <1>13 DEF len

\* A buffer cut at its last commit.
LEMMA CutAtCommit ==
  ASSUME NEW bytes \in Seq(Byte), CommittedEnd(bytes) \in 0 .. Len(bytes)
  PROVE  /\ ScanOf(Slice(bytes, 0, CommittedEnd(bytes))).blocks = ScanOf(bytes).blocks
         /\ CommittedEnd(Slice(bytes, 0, CommittedEnd(bytes))) = CommittedEnd(bytes)
         /\ Torn(Slice(bytes, 0, CommittedEnd(bytes))) = FALSE
<1> DEFINE end == CommittedEnd(bytes)
           cut == Slice(bytes, 0, end)
<1>0. end = ScanOf(bytes).committed_end
  BY DEF CommittedEnd
<1> HIDE DEF end
<1>1. cut \in Seq(Byte) /\ Len(cut) = end /\ Begins(cut, bytes)
  BY SliceBegins DEF end
<1> HIDE DEF cut
<1>2. ScanOf(cut).blocks = ScanOf(bytes).blocks /\ ScanOf(cut).committed_end = end
  BY <1>0, <1>1, PrefixScan
<1>3. TornTail(cut, end) = FALSE
  <2>1. Len(cut) \in Nat /\ end \in 0 .. Len(cut)
    BY <1>1
  <2>2. Layout(cut, end, Len(cut)) \in end .. Len(cut)
    BY <2>1, LayoutStops
  <2>3. Layout(cut, end, Len(cut)) >= Len(cut)
    BY <1>1, <2>1, <2>2
  <2> QED BY <1>1, <2>1, <2>3, TornTailIs
<1> QED BY <1>2, <1>3 DEF Torn, CommittedEnd, cut, end

-----------------------------------------------------------------------------
(* A file that ends at a commit, and what is appended to it. *)

\* A file whose last commit is its end is ready for the next block.
LEMMA CommittedIsSettled ==
  ASSUME NEW bytes \in Seq(Byte), CommittedEnd(bytes) = Len(bytes)
  PROVE  Settled(bytes)
<1> DEFINE Good(x) == /\ x.committed_end <= x.pos
                      /\ x.committed_end = Len(bytes) => Ready(bytes, x)
                      /\ RunOf(bytes)[x].committed_end = Len(bytes)
                      => Ready(bytes, RunOf(bytes)[x])
           G == {x \in Reader : Good(x)}
<1>0. Len(bytes) \in Nat /\ \A x \in Reader : x.pos \in Nat /\ x.committed_end \in Nat
  BY DEF Reader
<1>1. ASSUME NEW x \in Reader, ~Reading(bytes, x)
      PROVE  Good(x)
  BY <1>1, RunUnfolds
<1>2. ASSUME NEW x \in Reader, Reading(bytes, x), Good(Step(bytes, x))
      PROVE  Good(x)
  <2> DEFINE s == Step(bytes, x)
             f == RunOf(bytes)[s]
  <2> SUFFICES ASSUME x.committed_end <= x.pos, RunOf(bytes)[x].committed_end = Len(bytes)
               PROVE  Ready(bytes, RunOf(bytes)[x])
    OBVIOUS
  <2>1. RunOf(bytes)[x] = f
    BY <1>2, RunUnfolds
  <2>2. x.pos < Len(bytes)
    BY <1>2 DEF Reading
  <2>3. CASE At(bytes, x.pos) # ETB
    <3>1. s \in Reader /\ Moves(bytes, x, s)
      BY <1>2, <2>3, StepMoves
    <3> HIDE DEF s
    <3>2. s.committed_end <= s.pos /\ s.committed_end # Len(bytes)
      BY <1>0, <2>2, <3>1 DEF Moves
    <3> QED BY <1>2, <2>1, <3>2 DEF s
  <2>4. CASE At(bytes, x.pos) = ETB
    <3>1. /\ s \in Reader /\ s.pos = PayloadEnd(bytes, x.pos + 1)
          /\ s.block_start = PayloadEnd(bytes, x.pos + 1)
          /\ s.committed_end = PayloadEnd(bytes, x.pos + 1)
          /\ ~s.in_text /\ s.depth = 0
      BY <1>2, <2>4, CommitIs
    <3> HIDE DEF s
    <3>2. s.committed_end <= s.pos /\ (s.committed_end = Len(bytes) => Ready(bytes, s))
      BY <1>0, <3>1 DEF Ready
    <3> QED BY <1>2, <2>1, <3>2 DEF s
  <2> QED BY <2>3, <2>4
<1> HIDE DEF Good
<1>3. G = Reader
  <2>1. /\ G \in SUBSET Reader
        /\ \A x \in Reader : ~Reading(bytes, x) => x \in G
        /\ \A x \in Reader : Reading(bytes, x) /\ Step(bytes, x) \in G => x \in G
    BY <1>1, <1>2
  <2> HIDE DEF G
  <2> QED BY <2>1, ScanInduction
<1>4. Good(NewReader)
  BY <1>3, NewReaderTyped
<1>5. NewReader.committed_end <= NewReader.pos
      /\ (NewReader.committed_end = Len(bytes) => Ready(bytes, NewReader))
  BY NewReaderTyped DEF Ready
<1> QED BY <1>4, <1>5, RunUnfolds DEF Good, Settled, CommittedEnd

\* Reading a file and then what follows it, where no payload goes on, is
\* reading all of it.
LEMMA ReadOn ==
  ASSUME NEW g \in Seq(Byte), NEW h \in Seq(Byte), Begins(g, h),
         Len(g) < Len(h) => OpensElement(At(h, Len(g)))
  PROVE  ScanOf(h) = RunOf(h)[ScanOf(g)]
<1> DEFINE Good(x) == RunOf(h)[x] = RunOf(h)[RunOf(g)[x]]
           G == {x \in Reader : Good(x)}
<1>1. ASSUME NEW x \in Reader, ~Reading(g, x)
      PROVE  Good(x)
  BY <1>1, RunUnfolds
<1>2. ASSUME NEW x \in Reader, Reading(g, x), Good(Step(g, x))
      PROVE  Good(x)
  <2>1. /\ Len(g) \in Nat /\ Len(h) \in Nat /\ Len(g) <= Len(h) /\ x.pos \in Nat
        /\ x.pos < Len(g) /\ Reading(h, x) /\ At(g, x.pos) = At(h, x.pos)
    BY <1>2 DEF Reader, Reading, Begins
  <2>2. PayloadEnd(g, x.pos + 1) = PayloadEnd(h, x.pos + 1)
    <3> SUFFICES ASSUME PayloadEnd(g, x.pos + 1) # PayloadEnd(h, x.pos + 1)
                 PROVE  FALSE
      OBVIOUS
    <3>1. x.pos + 1 \in 0 .. Len(g) /\ x.pos + 1 \in 0 .. Len(h)
      BY <2>1
    <3>2. PayloadEnd(h, x.pos + 1) > Len(g)
      BY <3>1, PayloadCut
    <3>3. /\ PayloadEnd(h, x.pos + 1) \in x.pos + 1 .. Len(h)
          /\ \A q \in x.pos + 1 .. PayloadEnd(h, x.pos + 1) - 1 :
               IsLayout(At(h, q)) \/ IsPlain(At(h, q))
      BY <3>1, PayloadStops
    <3>4. Len(g) \in x.pos + 1 .. PayloadEnd(h, x.pos + 1) - 1 /\ Len(g) < Len(h)
      BY <2>1, <3>2, <3>3
    <3> QED BY <3>3, <3>4 DEF OpensElement
  <2>3. Step(g, x) = Step(h, x)
    BY <1>2, <2>1, <2>2, SameStep
  <2>4. RunOf(h)[x] = RunOf(h)[Step(h, x)] /\ RunOf(g)[x] = RunOf(g)[Step(g, x)]
    BY <1>2, <2>1, RunUnfolds
  <2> QED BY <1>2, <2>3, <2>4
<1> HIDE DEF Good
<1>3. G = Reader
  <2>1. /\ G \in SUBSET Reader
        /\ \A x \in Reader : ~Reading(g, x) => x \in G
        /\ \A x \in Reader : Reading(g, x) /\ Step(g, x) \in G => x \in G
    BY <1>1, <1>2
  <2> HIDE DEF G
  <2> QED BY <2>1, ScanInduction
<1> QED BY <1>3, NewReaderTyped, RunUnfolds DEF Good

-----------------------------------------------------------------------------
(* What is appended, read alone and read where it stands. *)

\* b stands at offset k of h and ends it.
Stands(b, h, k) ==
  /\ Len(h) = Len(b) + k
  /\ \A p \in 0 .. Len(b) - 1 : At(h, p + k) = At(b, p)

LEMMA AppendStands ==
  ASSUME NEW g \in Seq(Byte), NEW b \in Seq(Byte)
  PROVE  g \o b \in Seq(Byte) /\ Begins(g, g \o b) /\ Stands(b, g \o b, Len(g))
BY DEF Begins, Stands, At

LEMMA StopsShift ==
  ASSUME NEW b \in Seq(Byte), NEW h \in Seq(Byte), NEW k \in Nat, Stands(b, h, k),
         NEW to \in 0 .. Len(b), NEW q \in 0 .. to
  PROVE  /\ to = Len(b) => Layout(h, q + k, to + k) = Layout(b, q, to) + k
         /\ to = Len(b) => Plain(h, q + k, to + k) = Plain(b, q, to) + k
         /\ TrimSpaces(h, q + k, to + k) = TrimSpaces(b, q, to) + k
<1>0. /\ Len(b) \in Nat /\ Len(h) = Len(b) + k /\ to + k \in Nat /\ q + k \in 0 .. to + k
      /\ \A p \in 0 .. Len(b) - 1 : At(h, p + k) = At(b, p)
  BY DEF Stands
<1>1. ASSUME NEW x \in Nat, x < Len(b)
      PROVE  At(h, x + k) = At(b, x)
  BY <1>0, <1>1
<1>2. ASSUME NEW lo \in Nat, NEW hi \in 0 .. Len(b), NEW x \in lo + k .. hi + k - 1
      PROVE  x - k \in lo .. hi - 1 /\ At(h, x) = At(b, x - k)
  <2>1. x - k \in lo .. hi - 1 /\ x - k \in Nat /\ x - k < Len(b) /\ x = (x - k) + k
    BY <1>0
  <2> QED BY <1>1, <2>1
<1>3. ASSUME to = Len(b)
      PROVE  Layout(h, q + k, to + k) = Layout(b, q, to) + k
  <2> DEFINE l == Layout(b, q, to)
  <2>1. /\ l \in q .. to /\ \A x \in q .. l - 1 : IsLayout(At(b, x))
        /\ l < to => ~IsLayout(At(b, l))
    BY <1>0, LayoutStops
  <2> HIDE DEF l
  <2>2. q \in Nat /\ l \in 0 .. Len(b) /\ l + k \in q + k .. to + k
    BY <1>0, <2>1
  <2>3. \A x \in q + k .. l + k - 1 : IsLayout(At(h, x))
    BY <1>2, <2>1, <2>2
  <2>4. l + k < to + k => ~IsLayout(At(h, l + k))
    BY <1>0, <1>1, <2>1, <2>2
  <2>5. Layout(h, q + k, to + k) = l + k
    BY <1>0, <2>2, <2>3, <2>4, LayoutIs
  <2> QED BY <2>5 DEF l
<1>4. ASSUME to = Len(b)
      PROVE  Plain(h, q + k, to + k) = Plain(b, q, to) + k
  <2> DEFINE l == Plain(b, q, to)
  <2>1. /\ l \in q .. to /\ \A x \in q .. l - 1 : IsPlain(At(b, x))
        /\ l < to => ~IsPlain(At(b, l))
    BY <1>0, PlainStops
  <2> HIDE DEF l
  <2>2. q \in Nat /\ l \in 0 .. Len(b) /\ l + k \in q + k .. to + k
    BY <1>0, <2>1
  <2>3. \A x \in q + k .. l + k - 1 : IsPlain(At(h, x))
    BY <1>2, <2>1, <2>2
  <2>4. l + k < to + k => ~IsPlain(At(h, l + k))
    BY <1>0, <1>1, <2>1, <2>2, <1>4
  <2>5. Plain(h, q + k, to + k) = l + k
    BY <1>0, <2>2, <2>3, <2>4, PlainIs
  <2> QED BY <2>5 DEF l
<1>5. TrimSpaces(h, q + k, to + k) = TrimSpaces(b, q, to) + k
  <2> DEFINE t == TrimSpaces(b, q, to)
  <2>1. /\ t \in q .. to /\ \A x \in t .. to - 1 : At(b, x) = SP
        /\ t > q => At(b, t - 1) # SP
    BY <1>0, TrimStops
  <2> HIDE DEF t
  <2>2. t \in Nat /\ q \in Nat /\ t + k \in q + k .. to + k
    BY <1>0, <2>1
  <2>3. \A x \in t + k .. to + k - 1 : At(h, x) = SP
    BY <1>2, <2>1, <2>2
  <2>4. t + k > q + k => At(h, t + k - 1) # SP
    <3> SUFFICES ASSUME t > q PROVE At(h, t + k - 1) # SP
      BY <1>0, <2>2
    <3>1. t - 1 \in Nat /\ t - 1 < Len(b) /\ t + k - 1 = (t - 1) + k
      BY <1>0, <2>1, <2>2
    <3> QED BY <1>1, <2>1, <3>1
  <2>5. TrimSpaces(h, q + k, to + k) = t + k
    <3> DEFINE lo == q + k
               hi == to + k
               p == t + k
    <3>1. hi \in Nat /\ lo \in 0 .. hi /\ p \in lo .. hi
      BY <1>0, <2>2
    <3>2. \A x \in p .. hi - 1 : At(h, x) = SP
      BY <2>3
    <3>3. p > lo => At(h, p - 1) # SP
      BY <1>0, <2>2, <2>4
    <3> HIDE DEF lo, hi, p
    <3>4. TrimSpaces(h, lo, hi) = p
      BY <3>1, <3>2, <3>3, TrimIs
    <3> QED BY <3>4 DEF lo, hi, p
  <2> QED BY <2>5 DEF t
<1> QED BY <1>3, <1>4, <1>5

LEMMA PayloadShift ==
  ASSUME NEW b \in Seq(Byte), NEW h \in Seq(Byte), NEW k \in Nat, Stands(b, h, k),
         NEW q \in 0 .. Len(b)
  PROVE  PayloadEnd(h, q + k) = PayloadEnd(b, q) + k
<1> DEFINE len == Len(b)
           p == Layout(b, q, len)
           e == Plain(b, p, len)
<1>0. /\ len \in Nat /\ Len(h) = len + k
      /\ \A x \in 0 .. len - 1 : At(h, x + k) = At(b, x)
  BY DEF Stands
<1>1. p \in q .. len /\ Layout(h, q + k, Len(h)) = p + k
  BY <1>0, LayoutStops, StopsShift
<1>2. p \in 0 .. len
  BY <1>0, <1>1
<1> HIDE DEF p
<1>3. e \in p .. len /\ Plain(h, p + k, Len(h)) = e + k
  <2>1. len \in 0 .. Len(b) /\ len = Len(b) /\ p \in 0 .. len
    BY <1>0, <1>2
  <2>2. e \in p .. len
    BY <1>0, <2>1, PlainStops
  <2>3. Plain(h, p + k, len + k) = e + k
    BY <2>1, StopsShift
  <2> QED BY <1>0, <2>2, <2>3
<1> HIDE DEF e
<1>4. e \in 0 .. len /\ q \in 0 .. e
  BY <1>0, <1>1, <1>2, <1>3
<1>5. TrimSpaces(h, q + k, e + k) = TrimSpaces(b, q, e) + k
  BY <1>4, StopsShift
<1>6. CASE p < len
  <2>1. At(h, p + k) = At(b, p) /\ p + k < Len(h)
    BY <1>0, <1>2, <1>6
  <2>2. CASE IsPlain(At(b, p))
    <3>1. PayloadEnd(b, q) = TrimSpaces(b, q, e)
      BY <1>6, <2>2 DEF PayloadEnd, p, e
    <3>2. PayloadEnd(h, q + k) = TrimSpaces(h, q + k, e + k)
      BY <1>1, <1>3, <2>1, <2>2 DEF PayloadEnd
    <3> QED BY <1>5, <3>1, <3>2
  <2>3. CASE ~IsPlain(At(b, p))
    <3>1. PayloadEnd(b, q) = q
      BY <2>3 DEF PayloadEnd, p
    <3>2. PayloadEnd(h, q + k) = q + k
      BY <1>1, <2>1, <2>3 DEF PayloadEnd
    <3> QED BY <3>1, <3>2
  <2> QED BY <2>2, <2>3
<1>7. CASE ~(p < len)
  <2>1. PayloadEnd(b, q) = q
    BY <1>7 DEF PayloadEnd, p
  <2>2. ~(p + k < Len(h))
    BY <1>0, <1>2, <1>7
  <2>3. PayloadEnd(h, q + k) = q + k
    BY <1>1, <2>2 DEF PayloadEnd
  <2> QED BY <2>1, <2>3
<1> QED BY <1>6, <1>7

\* What is at x in b is k further on where b is appended; but what starts b
\* starts at c, where the notes before it start.
Moved(k, c, x) == IF x = 0 THEN c ELSE x + k

\* r reads b alone, s reads it behind the blocks of what is before it.
Shifted(base, k, c, r, s) ==
  /\ s.pos = r.pos + k
  /\ s.block_start = Moved(k, c, r.block_start)
  /\ s.in_text = r.in_text
  /\ s.depth = r.depth
  /\ s.committed_end = Moved(k, c, r.committed_end)
  /\ Len(s.blocks) = Len(base) + Len(r.blocks)
  /\ \A i \in 1 .. Len(base) : s.blocks[i] = base[i]
  /\ \A i \in 1 .. Len(r.blocks) :
       s.blocks[Len(base) + i] = [start   |-> Moved(k, c, r.blocks[i].start),
                                  stop    |-> r.blocks[i].stop + k,
                                  damaged |-> r.blocks[i].damaged]

\* s is r with another position, in_text and depth.
Changed(r, s, pos, in_text, depth) ==
  /\ s.pos = pos
  /\ s.block_start = r.block_start
  /\ s.in_text = in_text
  /\ s.depth = depth
  /\ s.blocks = r.blocks
  /\ s.committed_end = r.committed_end

LEMMA FieldsOf ==
  ASSUME NEW r \in Reader
  PROVE  /\ Changed(r, Skip(r), r.pos + 1, r.in_text, r.depth)
         /\ Changed(r, SkipEscaped(r), r.pos + 2, r.in_text, r.depth)
         /\ Changed(r, OpenText(r), r.pos + 1, TRUE, r.depth)
         /\ Changed(r, CloseText(r), r.pos + 1, FALSE, r.depth)
         /\ Changed(r, EnterLevel(r), r.pos + 1, r.in_text, r.depth + 1)
         /\ Changed(r, CloseLevel(r), r.pos + 1, r.in_text,
                    IF r.depth = 0 THEN 0 ELSE r.depth - 1)
<1>0. r = [pos |-> r.pos, block_start |-> r.block_start, in_text |-> r.in_text,
           depth |-> r.depth, blocks |-> r.blocks, committed_end |-> r.committed_end]
  BY DEF Reader
<1>1. Changed(r, Skip(r), r.pos + 1, r.in_text, r.depth)
  BY <1>0 DEF Skip, Changed
<1>2. Changed(r, SkipEscaped(r), r.pos + 2, r.in_text, r.depth)
  BY <1>0 DEF SkipEscaped, Changed
<1>3. Changed(r, OpenText(r), r.pos + 1, TRUE, r.depth)
  BY <1>0 DEF OpenText, Skip, Changed
<1>4. Changed(r, CloseText(r), r.pos + 1, FALSE, r.depth)
  BY <1>0 DEF CloseText, Skip, Changed
<1>5. Changed(r, EnterLevel(r), r.pos + 1, r.in_text, r.depth + 1)
  BY <1>0 DEF EnterLevel, Skip, Changed
<1>6. Changed(r, CloseLevel(r), r.pos + 1, r.in_text, IF r.depth = 0 THEN 0 ELSE r.depth - 1)
  BY <1>0 DEF CloseLevel, Skip, Changed
<1> QED BY <1>1, <1>2, <1>3, <1>4, <1>5, <1>6

LEMMA ShiftChanged ==
  ASSUME NEW base, NEW k \in Nat, NEW c \in Nat, NEW r \in Reader, NEW s \in Reader,
         Shifted(base, k, c, r, s), NEW d \in Nat, NEW t, NEW x, NEW y,
         NEW n, Changed(r, x, r.pos + d, t, n), Changed(s, y, s.pos + d, t, n)
  PROVE  Shifted(base, k, c, x, y)
<1>1. r.pos \in Nat /\ s.pos = r.pos + k /\ (r.pos + k) + d = (r.pos + d) + k
  BY DEF Reader, Shifted
<1> QED BY <1>1 DEF Shifted, Changed

LEMMA ShiftKept ==
  ASSUME NEW base, NEW k \in Nat, NEW c \in Nat, NEW r \in Reader, NEW s \in Reader,
         Shifted(base, k, c, r, s)
  PROVE  /\ Shifted(base, k, c, Skip(r), Skip(s))
         /\ Shifted(base, k, c, SkipEscaped(r), SkipEscaped(s))
         /\ Shifted(base, k, c, OpenText(r), OpenText(s))
         /\ Shifted(base, k, c, CloseText(r), CloseText(s))
         /\ Shifted(base, k, c, EnterLevel(r), EnterLevel(s))
         /\ Shifted(base, k, c, CloseLevel(r), CloseLevel(s))
         /\ \A start \in Nat :
              Shifted(base, k, c, Restart(r, start), Restart(s, Moved(k, c, start)))
<1>0. s.depth = r.depth /\ s.in_text = r.in_text
  BY DEF Shifted
<1>1. Shifted(base, k, c, Skip(r), Skip(s))
  BY <1>0, FieldsOf, ShiftChanged
<1>2. Shifted(base, k, c, SkipEscaped(r), SkipEscaped(s))
  BY <1>0, FieldsOf, ShiftChanged
<1>3. Shifted(base, k, c, OpenText(r), OpenText(s))
  BY <1>0, FieldsOf, ShiftChanged
<1>4. Shifted(base, k, c, CloseText(r), CloseText(s))
  BY <1>0, FieldsOf, ShiftChanged
<1>5. Shifted(base, k, c, EnterLevel(r), EnterLevel(s))
  BY <1>0, FieldsOf, ShiftChanged
<1>6. Shifted(base, k, c, CloseLevel(r), CloseLevel(s))
  BY <1>0, FieldsOf, ShiftChanged
<1>7. \A start \in Nat :
              Shifted(base, k, c, Restart(r, start), Restart(s, Moved(k, c, start)))
  <2>1. r.pos \in Nat /\ s.pos = r.pos + k
    BY DEF Reader, Shifted
  <2> QED BY <2>1 DEF Shifted, Restart
<1> QED BY <1>1, <1>2, <1>3, <1>4, <1>5, <1>6, <1>7

LEMMA StepShift ==
  ASSUME NEW base \in Seq(Block), NEW k \in Nat, NEW c \in Nat,
         NEW b \in Seq(Byte), NEW h \in Seq(Byte), Stands(b, h, k),
         NEW r \in Reader, NEW s \in Reader, Shifted(base, k, c, r, s),
         Reading(b, r), r.pos = 0 => At(b, 0) # SYN
  PROVE  Reading(h, s) /\ Shifted(base, k, c, Step(b, r), Step(h, s))
<1> DEFINE code == At(b, r.pos)
<1>0. /\ r.pos \in Nat /\ s.pos \in Nat /\ r.depth \in Nat /\ s.depth = r.depth
      /\ s.in_text = r.in_text /\ r.in_text \in BOOLEAN
      /\ s.pos = r.pos + k /\ r.block_start \in Nat /\ s.block_start = Moved(k, c, r.block_start)
      /\ Len(b) \in Nat /\ r.pos < Len(b)
  BY DEF Reader, Shifted, Reading
<1>1. At(h, s.pos) = code /\ Reading(h, s)
  <2>1. r.pos \in 0 .. Len(b) - 1
    BY <1>0
  <2> QED BY <1>0, <2>1 DEF Stands, Reading
<1>2. CASE code # ETB
  <2>1. CASE r.in_text
    <3>1. /\ code = DLE => Step(b, r) = SkipEscaped(r)
          /\ code = ETX => Step(b, r) = CloseText(r)
          /\ code = SYN \/ code = EOT \/ code = EM => Step(b, r) = CutText(b, r)
          /\ code # DLE /\ code # ETX /\ code # ETB /\ code # SYN /\ code # EOT /\ code # EM
               => Step(b, r) = Skip(r)
      BY <2>1, StepInText
    <3>2. /\ code = DLE => Step(h, s) = SkipEscaped(s)
          /\ code = ETX => Step(h, s) = CloseText(s)
          /\ code = SYN \/ code = EOT \/ code = EM => Step(h, s) = CutText(h, s)
          /\ code # DLE /\ code # ETX /\ code # ETB /\ code # SYN /\ code # EOT /\ code # EM
               => Step(h, s) = Skip(s)
      BY <1>0, <1>1, <2>1, StepInText
    <3>3. /\ CutText(b, r) = IF code = SYN THEN Restart(r, r.pos) ELSE Restart(r, r.block_start)
          /\ CutText(h, s) = IF code = SYN THEN Restart(s, Moved(k, c, r.pos))
                                           ELSE Restart(s, Moved(k, c, r.block_start))
      <4>1. code = SYN => Moved(k, c, r.pos) = s.pos
        BY <1>0 DEF Moved
      <4> QED BY <1>0, <1>1, <4>1 DEF CutText
    <3> HIDE DEF code
    <3>4. /\ Shifted(base, k, c, Skip(r), Skip(s))
          /\ Shifted(base, k, c, SkipEscaped(r), SkipEscaped(s))
          /\ Shifted(base, k, c, CloseText(r), CloseText(s))
          /\ Shifted(base, k, c, Restart(r, r.pos), Restart(s, Moved(k, c, r.pos)))
          /\ Shifted(base, k, c, Restart(r, r.block_start),
                                 Restart(s, Moved(k, c, r.block_start)))
      BY <1>0, ShiftKept
    <3>5. code = SYN \/ code = EOT \/ code = EM => Shifted(base, k, c, Step(b, r), Step(h, s))
      BY <3>1, <3>2, <3>3, <3>4, Zenon
    <3> QED BY <1>1, <1>2, <3>1, <3>2, <3>4, <3>5
  <2>2. CASE ~r.in_text
    <3>1. /\ code = STX => Step(b, r) = OpenText(r)
          /\ code = DLE => Step(b, r) = EnterLevel(r)
          /\ code = CAN => Step(b, r) = CloseLevel(r)
          /\ code = SYN /\ r.pos > 0 => Step(b, r) = StartDocument(r)
          /\ code # STX /\ code # DLE /\ code # CAN /\ code # ETB /\ code # SYN => Step(b, r) = Skip(r)
      BY <2>2, StepOutside
    <3>2. /\ code = STX => Step(h, s) = OpenText(s)
          /\ code = DLE => Step(h, s) = EnterLevel(s)
          /\ code = CAN => Step(h, s) = CloseLevel(s)
          /\ code = SYN /\ s.pos > 0 => Step(h, s) = StartDocument(s)
          /\ code # STX /\ code # DLE /\ code # CAN /\ code # ETB /\ code # SYN => Step(h, s) = Skip(s)
      BY <1>0, <1>1, <2>2, StepOutside
    <3>3. StartDocument(r) = Restart(r, r.pos) /\ (code = SYN => StartDocument(s) = Restart(s, Moved(k, c, r.pos)))
      <4>1. code = SYN => Moved(k, c, r.pos) = s.pos
        BY <1>0 DEF Moved
      <4> QED BY <4>1 DEF StartDocument
    <3>4. code = SYN => r.pos > 0 /\ s.pos > 0
      BY <1>0
    <3> HIDE DEF code
    <3>5. /\ Shifted(base, k, c, Skip(r), Skip(s))
          /\ Shifted(base, k, c, OpenText(r), OpenText(s))
          /\ Shifted(base, k, c, EnterLevel(r), EnterLevel(s))
          /\ Shifted(base, k, c, CloseLevel(r), CloseLevel(s))
          /\ Shifted(base, k, c, Restart(r, r.pos), Restart(s, Moved(k, c, r.pos)))
      BY <1>0, ShiftKept
    <3> QED BY <1>1, <1>2, <3>1, <3>2, <3>3, <3>4, <3>5
  <2> QED BY <2>1, <2>2, Zenon
<1>3. CASE code = ETB
  <2> DEFINE e == PayloadEnd(b, r.pos + 1)
             damaged == r.in_text \/ r.depth > 0
             blk == [start |-> r.block_start, stop |-> r.pos, damaged |-> damaged]
             blk2 == [start |-> s.block_start, stop |-> s.pos, damaged |-> s.in_text \/ s.depth > 0]
             x == Step(b, r)
             y == Step(h, s)
  <2>1. /\ x \in Reader /\ x.pos = e /\ x.block_start = e /\ x.committed_end = e
        /\ ~x.in_text /\ x.depth = 0
        /\ x.blocks = Append(r.blocks, blk)
        /\ e \in r.pos + 1 .. Len(b)
    BY <1>3, CommitIs
  <2>2. PayloadEnd(h, s.pos + 1) = e + k
    <3> DEFINE len == Len(b)
               at == r.pos
    <3>0. len \in Nat /\ at \in Nat /\ at < len /\ s.pos = at + k
      BY <1>0
    <3> HIDE DEF len, at
    <3>1. at + 1 \in 0 .. len /\ s.pos + 1 = (at + 1) + k
      BY <3>0
    <3> USE DEF len, at
    <3> QED BY <3>1, PayloadShift
  <2>3. /\ y \in Reader /\ y.pos = e + k /\ y.block_start = e + k /\ y.committed_end = e + k
        /\ ~y.in_text /\ y.depth = 0
        /\ y.blocks = Append(s.blocks, blk2)
    BY <1>1, <1>3, <2>2, CommitIs
  <2>4. x.in_text = FALSE /\ y.in_text = FALSE
    BY <2>1, <2>3 DEF Reader
  <2>5. blk2 = [start |-> Moved(k, c, blk.start), stop |-> blk.stop + k, damaged |-> blk.damaged]
    BY <1>0
  <2>6. /\ r.blocks \in Seq(Block) /\ s.blocks \in Seq(Block)
        /\ x.blocks \in Seq(Block) /\ y.blocks \in Seq(Block)
        /\ Len(s.blocks) = Len(base) + Len(r.blocks)
        /\ \A i \in 1 .. Len(base) : s.blocks[i] = base[i]
        /\ \A i \in 1 .. Len(r.blocks) :
             s.blocks[Len(base) + i] = [start   |-> Moved(k, c, r.blocks[i].start),
                                        stop    |-> r.blocks[i].stop + k,
                                        damaged |-> r.blocks[i].damaged]
    <3> HIDE DEF x, y
    <3> QED BY <2>1, <2>3 DEF Reader, Shifted
  <2> HIDE DEF e, damaged, blk, blk2, x, y
  <2> DEFINE n == Len(base)
             m == Len(r.blocks)
  <2>7. n \in Nat /\ m \in Nat /\ Len(s.blocks) = n + m
    BY <2>6
  <2>8. Len(x.blocks) = m + 1 /\ Len(y.blocks) = n + (m + 1)
    <3>1. x.blocks = Append(r.blocks, blk) /\ y.blocks = Append(s.blocks, blk2)
      BY <2>1, <2>3
    <3>2. Len(Append(r.blocks, blk)) = m + 1
      BY <2>6
    <3>3. Len(Append(s.blocks, blk2)) = Len(s.blocks) + 1
      <4>1. s.blocks \in Seq(Block)
        BY <2>6
      <4> QED BY <4>1
    <3>4. (n + m) + 1 = n + (m + 1)
      BY <2>7
    <3> HIDE DEF n, m
    <3> QED BY <2>7, <3>1, <3>2, <3>3, <3>4
  <2>9. \A i \in 1 .. n : y.blocks[i] = base[i]
    BY <2>3, <2>6, <2>7
  <2>10. \A i \in 1 .. m : x.blocks[i] = r.blocks[i] /\ y.blocks[n + i] = s.blocks[n + i]
    <3>1. x.blocks = Append(r.blocks, blk) /\ y.blocks = Append(s.blocks, blk2)
      BY <2>1, <2>3
    <3>2. \A i \in 1 .. m : Append(r.blocks, blk)[i] = r.blocks[i]
      BY <2>6
    <3>3. \A j \in 1 .. Len(s.blocks) : Append(s.blocks, blk2)[j] = s.blocks[j]
      BY <2>6
    <3>4. \A i \in 1 .. m : n + i \in 1 .. Len(s.blocks)
      BY <2>7
    <3> QED BY <3>1, <3>2, <3>3, <3>4
  <2>11. x.blocks[m + 1] = blk /\ y.blocks[n + (m + 1)] = blk2
    <3>1. n + (m + 1) = Len(s.blocks) + 1
      BY <2>7
    <3> HIDE DEF n
    <3>2. x.blocks[m + 1] = blk
      BY <2>1, <2>6
    <3>3. y.blocks[Len(s.blocks) + 1] = blk2
      <4>1. s.blocks \in Seq(Block) /\ y.blocks = Append(s.blocks, blk2)
        BY <2>3, <2>6
      <4> QED BY <4>1
    <3> QED BY <3>1, <3>2, <3>3
  <2> HIDE DEF n, m
  <2>12. ASSUME NEW i \in 1 .. m + 1
         PROVE  y.blocks[n + i] = [start   |-> Moved(k, c, x.blocks[i].start),
                                   stop    |-> x.blocks[i].stop + k,
                                   damaged |-> x.blocks[i].damaged]
    <3>1. CASE i = m + 1
      BY <2>5, <2>11, <3>1
    <3>2. CASE i # m + 1
      <4>1. i \in 1 .. m
        BY <2>7, <3>2
      <4> QED BY <2>6, <2>10, <4>1 DEF n, m
    <3> QED BY <3>1, <3>2
  <2>13. Shifted(base, k, c, x, y)
    <3>1. Moved(k, c, e) = e + k
      <4>1. r.pos \in Nat /\ e \in r.pos + 1 .. Len(b)
        BY <1>0, <2>1
      <4>2. e # 0
        BY <4>1
      <4> QED BY <4>2 DEF Moved
    <3> QED BY <2>1, <2>3, <2>4, <2>8, <2>9, <2>12, <3>1 DEF Shifted, n
  <2> QED BY <1>1, <2>13 DEF x, y
<1> QED BY <1>2, <1>3

\* What is appended adds the blocks that it has when it is read alone.
LEMMA RunShift ==
  ASSUME NEW base \in Seq(Block), NEW k \in Nat, NEW c \in Nat,
         NEW b \in Seq(Byte), NEW h \in Seq(Byte), Stands(b, h, k),
         Len(b) > 0 => At(b, 0) # SYN,
         NEW r \in Reader, NEW s \in Reader, Shifted(base, k, c, r, s)
  PROVE  Shifted(base, k, c, RunOf(b)[r], RunOf(h)[s])
<1> DEFINE Good(x) == \A y \in Reader :
                        Shifted(base, k, c, x, y) => Shifted(base, k, c, RunOf(b)[x], RunOf(h)[y])
           G == {x \in Reader : Good(x)}
<1>0. Len(b) \in Nat /\ Len(h) = Len(b) + k /\ \A x \in Reader : x.pos \in Nat
  BY DEF Reader, Stands
<1>1. ASSUME NEW x \in Reader, ~Reading(b, x)
      PROVE  Good(x)
  <2> SUFFICES ASSUME NEW y \in Reader, Shifted(base, k, c, x, y)
               PROVE  Shifted(base, k, c, RunOf(b)[x], RunOf(h)[y])
    OBVIOUS
  <2>1. ~Reading(h, y)
    BY <1>0, <1>1 DEF Reading, Shifted
  <2> QED BY <1>1, <2>1, RunUnfolds
<1>2. ASSUME NEW x \in Reader, Reading(b, x), Good(Step(b, x))
      PROVE  Good(x)
  <2> SUFFICES ASSUME NEW y \in Reader, Shifted(base, k, c, x, y)
               PROVE  Shifted(base, k, c, RunOf(b)[x], RunOf(h)[y])
    OBVIOUS
  <2>1. x.pos = 0 => At(b, 0) # SYN
    BY <1>0, <1>2 DEF Reading
  <2>2. Reading(h, y) /\ Shifted(base, k, c, Step(b, x), Step(h, y))
    BY <1>2, <2>1, StepShift
  <2>3. Step(h, y) \in Reader
    BY <2>2, StepForward
  <2>4. RunOf(b)[x] = RunOf(b)[Step(b, x)] /\ RunOf(h)[y] = RunOf(h)[Step(h, y)]
    BY <1>2, <2>2, RunUnfolds
  <2> QED BY <1>2, <2>2, <2>3, <2>4
<1> HIDE DEF Good
<1>3. G = Reader
  <2>1. /\ G \in SUBSET Reader
        /\ \A x \in Reader : ~Reading(b, x) => x \in G
        /\ \A x \in Reader : Reading(b, x) /\ Step(b, x) \in G => x \in G
    BY <1>1, <1>2
  <2> HIDE DEF G
  <2> QED BY <2>1, ScanInduction
<1> QED BY <1>3 DEF Good

-----------------------------------------------------------------------------
(* A tail of notes, which the loop reads to its end and stays where it was. *)

\* The loop gets from x to y, past bytes that are no commit, and is at y in a
\* text or not as it was at x.
Passes(bytes, x, y) ==
  /\ x \in Reader /\ y \in Reader
  /\ RunOf(bytes)[x] = RunOf(bytes)[y]
  /\ y.block_start = x.block_start
  /\ y.depth = x.depth
  /\ y.blocks = x.blocks
  /\ y.committed_end = x.committed_end

PassesTo(bytes, x, p, in_text) ==
  \E y : Passes(bytes, x, y) /\ y.pos = p /\ y.in_text = in_text

\* A byte outside a text that only moves the loop.
MovesOnly(b) == b \notin {STX, DLE, CAN, ETB, SYN}

LEMMA PassesOnward ==
  ASSUME NEW bytes, NEW x, NEW y, NEW p, NEW in_text,
         Passes(bytes, x, y), PassesTo(bytes, y, p, in_text)
  PROVE  PassesTo(bytes, x, p, in_text)
<1>1. PICK z : Passes(bytes, y, z) /\ z.pos = p /\ z.in_text = in_text
  BY DEF PassesTo
<1>2. Passes(bytes, x, z)
  BY <1>1 DEF Passes
<1> QED BY <1>1, <1>2 DEF PassesTo

LEMMA PassesStep ==
  ASSUME NEW bytes \in Seq(Byte), NEW x \in Reader, Reading(bytes, x),
         NEW p, NEW t, Changed(x, Step(bytes, x), p, t, x.depth)
  PROVE  /\ Passes(bytes, x, Step(bytes, x))
         /\ Step(bytes, x).pos = p
         /\ Step(bytes, x).in_text = t
<1>1. RunOf(bytes)[x] = RunOf(bytes)[Step(bytes, x)] /\ Step(bytes, x) \in Reader
  BY RunUnfolds, StepForward
<1> QED BY <1>1 DEF Passes, Changed

\* A run of bytes outside a text.
LEMMA PassesRun ==
  ASSUME NEW bytes \in Seq(Byte), NEW x \in Reader, x.in_text = FALSE,
         NEW q \in x.pos .. Len(bytes),
         \A p \in x.pos .. q - 1 : MovesOnly(At(bytes, p))
  PROVE  PassesTo(bytes, x, q, FALSE)
<1>0. x.pos \in Nat /\ Len(bytes) \in Nat /\ q \in Nat
  BY DEF Reader
<1> DEFINE n == q - x.pos
           Reached(i) == PassesTo(bytes, x, x.pos + i, FALSE)
           G == {i \in 0 .. n : Reached(i)}
<1>1. n \in Nat /\ x.pos + n = q
  BY <1>0
<1> HIDE DEF n
<1>2. 0 \in G
  <2>1. Passes(bytes, x, x) /\ x.pos = x.pos + 0
    BY <1>0 DEF Passes
  <2>2. PassesTo(bytes, x, x.pos + 0, FALSE)
    BY <2>1 DEF PassesTo
  <2>3. Reached(0)
    BY <2>2
  <2> HIDE DEF Reached
  <2> QED BY <1>1, <2>3
<1>3. ASSUME NEW i \in 1 .. n, i - 1 \in G
      PROVE  i \in G
  <2>1. PICK y : Passes(bytes, x, y) /\ y.pos = x.pos + (i - 1) /\ y.in_text = FALSE
    BY <1>3 DEF PassesTo
  <2>2. y \in Reader /\ y.pos \in x.pos .. q - 1 /\ y.pos + 1 = x.pos + i
    BY <1>0, <1>1, <2>1 DEF Passes
  <2>3. Reading(bytes, y) /\ MovesOnly(At(bytes, y.pos))
    BY <1>0, <2>2 DEF Reading
  <2>4. Step(bytes, y) = Skip(y) /\ Step(bytes, y) \in Reader
    BY <2>1, <2>2, <2>3, StepOutside, StepForward DEF MovesOnly
  <2>5. Changed(y, Skip(y), x.pos + i, FALSE, y.depth)
    BY <2>1, <2>2, FieldsOf
  <2>6. Passes(bytes, y, Skip(y)) /\ Skip(y).pos = x.pos + i /\ Skip(y).in_text = FALSE
    <3>1. Changed(y, Step(bytes, y), x.pos + i, FALSE, y.depth)
      BY <2>4, <2>5
    <3>2. /\ Passes(bytes, y, Step(bytes, y)) /\ Step(bytes, y).pos = x.pos + i
          /\ Step(bytes, y).in_text = FALSE
      BY <2>2, <2>3, <3>1, PassesStep
    <3> QED BY <2>4, <3>2
  <2>7. PassesTo(bytes, y, x.pos + i, FALSE)
    BY <2>6 DEF PassesTo
  <2>8. PassesTo(bytes, x, x.pos + i, FALSE)
    BY <2>1, <2>7, PassesOnward
  <2>9. Reached(i)
    BY <2>8
  <2> HIDE DEF Reached
  <2> QED BY <1>3, <2>9
<1>4. n \in G
  <2> HIDE DEF G
  <2>1. \A i \in 0 .. n : i \in G
    BY <1>1, <1>2, <1>3, UpTo
  <2> QED BY <1>1, <2>1
<1> QED BY <1>1, <1>4

\* The rest of a text that scan.rs reads, the loop reads too.
LEMMA PassesText ==
  ASSUME NEW bytes \in Seq(Byte), NEW x \in Reader, x.in_text = TRUE,
         x.pos <= Len(bytes), TextRest(bytes, Len(bytes))[x.pos] # Err
  PROVE  PassesTo(bytes, x, TextRest(bytes, Len(bytes))[x.pos], FALSE)
<1> DEFINE len == Len(bytes)
           rest == TextRest(bytes, len)
           Good(p) == rest[p] # Err =>
                        \A y \in Reader : y.in_text = TRUE /\ y.pos = p
                          => PassesTo(bytes, y, rest[p], FALSE)
           G == {p \in 0 .. len : Good(p)}
<1>0. /\ len \in Nat
      /\ rest[len] = Err
      /\ \A p \in 0 .. len - 1 :
           /\ EscapeAt(bytes, p, len) => rest[p] = rest[p + 2]
           /\ At(bytes, p) = ETX => rest[p] = p + 1
           /\ PlainInText(At(bytes, p)) => rest[p] = rest[p + 1]
           /\ ~EscapeAt(bytes, p, len) /\ At(bytes, p) # ETX /\ ~PlainInText(At(bytes, p))
                => rest[p] = Err
  BY TextUnfolds
<1> HIDE DEF rest, len
<1>1. len \in G
  <2>1. Good(len)
    BY <1>0
  <2> HIDE DEF Good
  <2> QED BY <1>0, <2>1
<1>2. ASSUME NEW i \in 0 .. len - 1, \A j \in i + 1 .. len : Good(j)
      PROVE  Good(i)
  <2> SUFFICES ASSUME rest[i] # Err, NEW y \in Reader, y.in_text = TRUE, y.pos = i
               PROVE  PassesTo(bytes, y, rest[i], FALSE)
    OBVIOUS
  <2> DEFINE b == At(bytes, y.pos)
  <2>0. Reading(bytes, y) /\ y.pos \in Nat /\ Step(bytes, y) \in Reader
    BY <1>0, StepForward DEF Reading, len
  <2>1. /\ b = DLE => Step(bytes, y) = SkipEscaped(y)
        /\ b = ETX => Step(bytes, y) = CloseText(y)
        /\ b # DLE /\ b # ETX /\ b # ETB /\ b # SYN /\ b # EOT /\ b # EM
             => Step(bytes, y) = Skip(y)
    BY <2>0, StepInText
  <2>2. /\ Changed(y, Skip(y), i + 1, TRUE, y.depth)
        /\ Changed(y, SkipEscaped(y), i + 2, TRUE, y.depth)
        /\ Changed(y, CloseText(y), i + 1, FALSE, y.depth)
    BY FieldsOf
  <2>3. CASE EscapeAt(bytes, i, len)
    <3>1. rest[i] = rest[i + 2] /\ i + 2 \in i + 1 .. len
      BY <1>0, <2>3 DEF EscapeAt
    <3>2. Step(bytes, y) = SkipEscaped(y)
      BY <2>1, <2>3 DEF EscapeAt
    <3>3. Passes(bytes, y, SkipEscaped(y)) /\ SkipEscaped(y).pos = i + 2 /\ SkipEscaped(y).in_text = TRUE
      <4>1. Changed(y, Step(bytes, y), i + 2, TRUE, y.depth)
        BY <2>2, <3>2
      <4>2. /\ Passes(bytes, y, Step(bytes, y)) /\ Step(bytes, y).pos = i + 2
            /\ Step(bytes, y).in_text = TRUE
        BY <2>0, <4>1, PassesStep
      <4> QED BY <3>2, <4>2
    <3>4. PassesTo(bytes, SkipEscaped(y), rest[i], FALSE)
      <4>1. Good(i + 2)
        BY <1>2, <3>1
      <4>2. SkipEscaped(y) \in Reader /\ rest[i + 2] # Err
        BY <3>1, <3>3 DEF Passes
      <4> QED BY <3>1, <3>3, <4>1, <4>2
    <3> QED BY <3>3, <3>4, PassesOnward
  <2>4. CASE b = ETX
    <3>1. rest[i] = i + 1
      BY <1>0, <2>4
    <3>2. Passes(bytes, y, CloseText(y)) /\ CloseText(y).pos = i + 1 /\ CloseText(y).in_text = FALSE
      <4>1. Step(bytes, y) = CloseText(y) /\ Changed(y, Step(bytes, y), i + 1, FALSE, y.depth)
        BY <2>1, <2>2, <2>4
      <4>2. /\ Passes(bytes, y, Step(bytes, y)) /\ Step(bytes, y).pos = i + 1
            /\ Step(bytes, y).in_text = FALSE
        BY <2>0, <4>1, PassesStep
      <4> QED BY <4>1, <4>2
    <3> QED BY <3>1, <3>2 DEF PassesTo
  <2>5. CASE PlainInText(b)
    <3>1. rest[i] = rest[i + 1] /\ i + 1 \in i + 1 .. len
      BY <1>0, <2>5
    <3>2. Step(bytes, y) = Skip(y)
      BY <2>1, <2>5 DEF PlainInText
    <3>3. Passes(bytes, y, Skip(y)) /\ Skip(y).pos = i + 1 /\ Skip(y).in_text = TRUE
      <4>1. Changed(y, Step(bytes, y), i + 1, TRUE, y.depth)
        BY <2>2, <3>2
      <4>2. /\ Passes(bytes, y, Step(bytes, y)) /\ Step(bytes, y).pos = i + 1
            /\ Step(bytes, y).in_text = TRUE
        BY <2>0, <4>1, PassesStep
      <4> QED BY <3>2, <4>2
    <3>4. PassesTo(bytes, Skip(y), rest[i], FALSE)
      <4>1. Good(i + 1)
        BY <1>2, <3>1
      <4>2. Skip(y) \in Reader /\ rest[i + 1] # Err
        BY <3>1, <3>3 DEF Passes
      <4> QED BY <3>1, <3>3, <4>1, <4>2
    <3> QED BY <3>3, <3>4, PassesOnward
  <2> QED BY <1>0, <2>3, <2>4, <2>5
<1>3. x.pos \in 0 .. len
  BY <1>0 DEF Reader, len
<1>4. Good(x.pos)
  <2> HIDE DEF Good
  <2>1. \A i \in 0 .. len - 1 : (\A j \in i + 1 .. len : j \in G) => i \in G
    BY <1>0, <1>2
  <2>2. \A i \in 0 .. len : i \in G
    <3> HIDE DEF G
    <3> QED BY <1>0, <1>1, <2>1, DownFrom
  <2> QED BY <1>3, <2>2
<1> QED BY <1>4 DEF rest, len

\* A note is BEL, layout, and a plain run or a text.
LEMMA NoteIs ==
  ASSUME NEW bytes, NEW len \in Nat, NEW p \in 0 .. len - 1,
         NEW body, body = Layout(bytes, p + 1, len),
         body < len => IsPlain(At(bytes, body)) \/ At(bytes, body) = STX,
         Comment(bytes, p, len) # Err
  PROVE  /\ body \in p + 1 .. len - 1
         /\ \A q \in p + 1 .. body - 1 : IsLayout(At(bytes, q))
         /\ At(bytes, body) = STX => Comment(bytes, p, len) = Text(bytes, body, len)
         /\ At(bytes, body) # STX => Comment(bytes, p, len) = Plain(bytes, body, len)
<1> DEFINE skip == ScanPrimitive(bytes, len)
           note == Comment(bytes, p, len)
<1>1. body \in p + 1 .. len /\ \A q \in p + 1 .. body - 1 : IsLayout(At(bytes, q))
  <2>1. p + 1 \in 0 .. len
    OBVIOUS
  <2> QED BY <2>1, LayoutStops
<1>2. note = CommentEnd(bytes, body, len, skip)
  <2>1. "comment" \in Primitives /\ p \in 0 .. len
    BY DEF Primitives
  <2>2. skip[<<"comment", p>>] = PrimitiveEnd("comment", bytes, p, len, skip)
    BY <2>1, PrimitivesMove DEF RightFrom
  <2>3. PrimitiveEnd("comment", bytes, p, len, skip) =
          CommentEnd(bytes, Layout(bytes, p + 1, len), len, skip)
    BY DEF PrimitiveEnd
  <2> HIDE DEF skip
  <2> QED BY <2>2, <2>3 DEF Comment, skip
<1>3. CommentIs(bytes, len, body, skip, note)
  <2>1. body \in Nat
    BY <1>1
  <2> HIDE DEF skip, note
  <2> QED BY <1>2, <2>1, CommentEndIs
<1> HIDE DEF skip, note
<1>4. body < len
  BY <1>1, <1>3 DEF CommentIs, note
<1> QED BY <1>1, <1>3, <1>4 DEF CommentIs, note

LEMMA PassesNote ==
  ASSUME NEW bytes \in Seq(Byte), NEW x \in Reader, x.in_text = FALSE, Reading(bytes, x),
         At(bytes, x.pos) = BEL,
         LET body == Layout(bytes, x.pos + 1, Len(bytes))
         IN  body < Len(bytes) => IsPlain(At(bytes, body)) \/ At(bytes, body) = STX,
         Comment(bytes, x.pos, Len(bytes)) # Err
  PROVE  PassesTo(bytes, x, Comment(bytes, x.pos, Len(bytes)), FALSE)
<1> DEFINE len == Len(bytes)
           body == Layout(bytes, x.pos + 1, len)
           note == Comment(bytes, x.pos, len)
<1>0. len \in Nat /\ x.pos \in 0 .. len - 1
  BY DEF Reader, Reading
<1>1. /\ body \in x.pos + 1 .. len - 1
      /\ \A q \in x.pos + 1 .. body - 1 : IsLayout(At(bytes, q))
      /\ At(bytes, body) = STX => note = Text(bytes, body, len)
      /\ At(bytes, body) # STX => note = Plain(bytes, body, len)
      /\ At(bytes, body) # STX => IsPlain(At(bytes, body))
  BY <1>0, NoteIs
<1> HIDE DEF body, note
<1>2. \A q \in x.pos .. body - 1 : MovesOnly(At(bytes, q))
  <2>1. MovesOnly(BEL) /\ \A b : IsLayout(b) => MovesOnly(b)
    BY DEF MovesOnly, IsLayout, BEL, STX, DLE, CAN, ETB, SYN, SP, HT, LF, CR
  <2>2. \A q \in x.pos .. body - 1 : q = x.pos \/ q \in x.pos + 1 .. body - 1
    BY <1>0, <1>1
  <2> QED BY <1>1, <2>1, <2>2
<1>3. CASE At(bytes, body) # STX
  <2>1. note \in body .. len /\ \A q \in body .. note - 1 : IsPlain(At(bytes, q))
    BY <1>0, <1>1, <1>3, PlainStops
  <2>2. \A b : IsPlain(b) => MovesOnly(b)
    BY DEF MovesOnly, IsPlain, STX, DLE, CAN, ETB, SYN
  <2>3. \A q \in x.pos .. note - 1 : q \in x.pos .. body - 1 \/ q \in body .. note - 1
    BY <1>0, <1>1, <2>1
  <2>4. \A q \in x.pos .. note - 1 : MovesOnly(At(bytes, q))
    BY <1>2, <2>1, <2>2, <2>3
  <2>5. note \in x.pos .. Len(bytes)
    BY <1>0, <1>1, <2>1
  <2> QED BY <2>4, <2>5, PassesRun DEF note
<1>4. CASE At(bytes, body) = STX
  <2>1. body \in x.pos .. Len(bytes)
    BY <1>0, <1>1
  <2>2. PassesTo(bytes, x, body, FALSE)
    BY <1>2, <2>1, PassesRun
  <2>3. PICK y : Passes(bytes, x, y) /\ y.pos = body /\ y.in_text = FALSE
    BY <2>2 DEF PassesTo
  <2>4. y \in Reader /\ Reading(bytes, y) /\ At(bytes, y.pos) = STX
    BY <1>0, <1>1, <1>4, <2>3 DEF Passes, Reading
  <2>5. Step(bytes, y) = OpenText(y)
    BY <2>3, <2>4, StepOutside
  <2>6. Changed(y, Step(bytes, y), body + 1, TRUE, y.depth)
    BY <2>3, <2>4, <2>5, FieldsOf
  <2> DEFINE z == Step(bytes, y)
  <2>7. Passes(bytes, y, z) /\ z.pos = body + 1 /\ z.in_text = TRUE
    BY <2>4, <2>6, PassesStep
  <2> HIDE DEF z
  <2>8. z \in Reader
    BY <2>7 DEF Passes
  <2>9. note = TextRest(bytes, len)[z.pos] /\ z.pos <= len
    <3>1. Text(bytes, body, len) = IF body + 1 > len THEN Err ELSE TextRest(bytes, len)[body + 1]
      BY <1>0, <1>1, TextUnfolds
    <3> QED BY <1>0, <1>1, <1>4, <2>7, <3>1
  <2>10. note # Err
    BY DEF note
  <2>11. PassesTo(bytes, z, note, FALSE)
    BY <2>7, <2>8, <2>9, <2>10, PassesText
  <2>12. PassesTo(bytes, y, note, FALSE)
    BY <2>7, <2>11, PassesOnward
  <2>13. PassesTo(bytes, x, note, FALSE)
    BY <2>3, <2>12, PassesOnward
  <2> QED BY <2>13 DEF note
<1> QED BY <1>3, <1>4

\* From a place behind which nothing is torn, and no raw region opens, the loop
\* gets to the end of the buffer.
LEMMA PassesTail ==
  ASSUME NEW bytes \in Seq(Byte), NEW x \in Reader, x.in_text = FALSE, x.pos <= Len(bytes),
         ~TornTail(bytes, x.pos),
         \A q \in x.pos .. Len(bytes) - 1 : At(bytes, q) # EM
  PROVE  PassesTo(bytes, x, Len(bytes), FALSE)
<1> DEFINE len == Len(bytes)
           Clean(p) == ~TornTail(bytes, p) /\ \A q \in p .. len - 1 : At(bytes, q) # EM
           Good(p) == Clean(p) =>
                        \A y \in Reader : y.in_text = FALSE /\ y.pos = p
                          => PassesTo(bytes, y, len, FALSE)
           G == {p \in 0 .. len : Good(p)}
<1>0. len \in Nat /\ \A y \in Reader : y.pos \in Nat
  BY DEF Reader
<1>a. MovesOnly(EOT) /\ \A b : IsLayout(b) => MovesOnly(b)
  BY DEF MovesOnly, IsLayout, EOT, STX, DLE, CAN, ETB, SYN, SP, HT, LF, CR
<1>1. ASSUME NEW i \in 0 .. len, \A j \in i + 1 .. len : Good(j)
      PROVE  Good(i)
  <2> SUFFICES ASSUME Clean(i), NEW y \in Reader, y.in_text = FALSE, y.pos = i
               PROVE  PassesTo(bytes, y, len, FALSE)
    OBVIOUS
  <2> DEFINE p == Layout(bytes, i, len)
             b == At(bytes, p)
             body == Layout(bytes, p + 1, len)
             note == Comment(bytes, p, len)
             IsNote == /\ body < len => IsPlain(At(bytes, body)) \/ At(bytes, body) = STX
                       /\ note \in 0 .. len
  <2>1. p \in i .. len /\ \A q \in i .. p - 1 : IsLayout(At(bytes, q))
    BY <1>0, LayoutStops
  <2>2. /\ p < len /\ b = EOT => TornTail(bytes, i) = TornTail(bytes, p + 1)
        /\ p < len /\ b = BEL =>
             TornTail(bytes, i) = IF IsNote THEN TornTail(bytes, note) ELSE TRUE
        /\ p < len /\ b # EOT /\ b # EM /\ b # BEL => TornTail(bytes, i) = TRUE
    BY TornTailIs
  <2>3. \A q \in i .. p - 1 : MovesOnly(At(bytes, q))
    BY <1>a, <2>1
  <2>4. PassesTo(bytes, y, p, FALSE)
    BY <2>1, <2>3, PassesRun
  <2>5. p < len => b # EM
    BY <2>1
  <2>6. ASSUME NEW z \in Reader, z.in_text = FALSE, z.pos \in i + 1 .. len,
               ~TornTail(bytes, z.pos)
        PROVE  PassesTo(bytes, z, len, FALSE)
    <3>1. \A q \in z.pos .. len - 1 : q \in i .. len - 1
      BY <2>6
    <3>2. Clean(z.pos) /\ Good(z.pos)
      BY <1>1, <2>6, <3>1
    <3> QED BY <2>6, <3>2
  <2> HIDE DEF p, note, body
  <2>7. CASE p = len
    BY <2>4, <2>7
  <2>8. CASE p < len /\ b = EOT
    <3>1. /\ p + 1 \in y.pos .. Len(bytes)
          /\ \A q \in y.pos .. (p + 1) - 1 : MovesOnly(At(bytes, q))
      <4>1. \A q \in i .. (p + 1) - 1 : q = p \/ q \in i .. p - 1
        BY <2>1
      <4> QED BY <1>a, <2>1, <2>3, <2>8, <4>1
    <3>2. PassesTo(bytes, y, p + 1, FALSE)
      BY <3>1, PassesRun
    <3>3. PICK z : Passes(bytes, y, z) /\ z.pos = p + 1 /\ z.in_text = FALSE
      BY <3>2 DEF PassesTo
    <3>4. z \in Reader /\ z.pos \in i + 1 .. len /\ ~TornTail(bytes, z.pos)
      BY <2>1, <2>2, <2>8, <3>3 DEF Passes
    <3> QED BY <2>6, <3>3, <3>4, PassesOnward
  <2>9. CASE p < len /\ b = BEL
    <3>1. IsNote /\ ~TornTail(bytes, note)
      BY <2>2, <2>9, Zenon
    <3>2. PICK z : Passes(bytes, y, z) /\ z.pos = p /\ z.in_text = FALSE
      BY <2>4 DEF PassesTo
    <3>3. z \in Reader
      BY <3>2 DEF Passes
    <3>4. note # Err /\ note \in p + 1 .. len
      <4>1. "comment" \in Primitives /\ p \in 0 .. len
        BY <2>1 DEF Primitives
      <4>2. Ranged("comment", p, len, note)
        BY <1>0, <4>1, PrimitivesMove DEF RightFrom, Comment, note
      <4>3. note \in {Err} \cup (p + 1 .. len)
        BY <4>2 DEF Ranged, Passing
      <4> QED BY <3>1, <4>3 DEF Err
    <3>5. PassesTo(bytes, z, note, FALSE)
      <4>1. Reading(bytes, z)
        BY <2>9, <3>2 DEF Reading
      <4>2. z.pos = p /\ At(bytes, z.pos) = BEL
        BY <2>9, <3>2
      <4>3. /\ body = Layout(bytes, z.pos + 1, Len(bytes)) /\ note = Comment(bytes, z.pos, Len(bytes))
            /\ body < Len(bytes) => IsPlain(At(bytes, body)) \/ At(bytes, body) = STX
        BY <3>1, <4>2 DEF body, note
      <4> HIDE DEF b, IsNote
      <4> QED BY <3>2, <3>3, <3>4, <4>1, <4>2, <4>3, PassesNote
    <3>6. PassesTo(bytes, y, note, FALSE)
      BY <3>2, <3>5, PassesOnward
    <3>7. PICK w : Passes(bytes, y, w) /\ w.pos = note /\ w.in_text = FALSE
      BY <3>6 DEF PassesTo
    <3>8. w \in Reader /\ w.pos \in i + 1 .. len /\ ~TornTail(bytes, w.pos)
      BY <2>1, <3>1, <3>4, <3>7 DEF Passes
    <3> QED BY <2>6, <3>7, <3>8, PassesOnward
  <2>10. CASE p < len /\ b # EOT /\ b # EM /\ b # BEL
    BY <2>2, <2>10, Zenon
  <2>11. p = len \/ p < len
    BY <1>0, <2>1
  <2> HIDE DEF b
  <2> QED BY <2>5, <2>7, <2>8, <2>9, <2>10, <2>11
<1>2. \A i \in 0 .. len : i \in G
  <2> HIDE DEF Good
  <2>1. Good(len)
    BY <1>0, <1>1
  <2>2. \A i \in 0 .. len - 1 : (\A j \in i + 1 .. len : j \in G) => i \in G
    BY <1>0, <1>1
  <2>3. len \in G
    BY <1>0, <2>1
  <2> HIDE DEF G
  <2> QED BY <1>0, <2>2, <2>3, DownFrom
<1>3. x.pos \in 0 .. len
  BY <1>0
<1>4. Good(x.pos)
  <2> HIDE DEF Good
  <2> QED BY <1>2, <1>3
<1> QED BY <1>4

\* Right behind a commit, or at the start.
AtCommit(r) ==
  /\ r.pos = r.committed_end
  /\ r.block_start = r.committed_end
  /\ r.in_text = FALSE
  /\ r.depth = 0

\* The loop was right behind the last commit before it came to its end.
LEMMA LastCommit ==
  ASSUME NEW bytes \in Seq(Byte)
  PROVE  \E y \in Reader : /\ AtCommit(y)
                           /\ y.committed_end = CommittedEnd(bytes)
                           /\ RunOf(bytes)[y] = ScanOf(bytes)
<1> DEFINE Found(x) == \E y \in Reader : /\ AtCommit(y)
                                         /\ y.committed_end = RunOf(bytes)[x].committed_end
                                         /\ RunOf(bytes)[y] = RunOf(bytes)[x]
           Good(x) == AtCommit(x) \/ RunOf(bytes)[x].committed_end # x.committed_end => Found(x)
           G == {x \in Reader : Good(x)}
<1>1. ASSUME NEW x \in Reader, ~Reading(bytes, x)
      PROVE  Good(x)
  BY <1>1, RunUnfolds
<1>2. ASSUME NEW x \in Reader, Reading(bytes, x), Good(Step(bytes, x))
      PROVE  Good(x)
  <2> DEFINE s == Step(bytes, x)
             f == RunOf(bytes)[s]
  <2>1. RunOf(bytes)[x] = f
    BY <1>2, RunUnfolds
  <2>2. Found(s) => Found(x)
    BY <2>1
  <2>3. CASE f.committed_end = x.committed_end
    BY <2>1, <2>3
  <2>4. CASE f.committed_end # x.committed_end
    <3>1. CASE At(bytes, x.pos) # ETB
      <4>1. s.committed_end = x.committed_end
        BY <1>2, <3>1, StepMoves DEF Moves
      <4> QED BY <1>2, <2>2, <2>4, <4>1
    <3>2. CASE At(bytes, x.pos) = ETB
      <4>1. s \in Reader /\ AtCommit(s)
        <5>1. /\ s \in Reader /\ s.pos = PayloadEnd(bytes, x.pos + 1)
              /\ s.block_start = PayloadEnd(bytes, x.pos + 1)
              /\ s.committed_end = PayloadEnd(bytes, x.pos + 1)
              /\ ~s.in_text /\ s.depth = 0
          BY <1>2, <3>2, CommitIs
        <5> HIDE DEF s
        <5>2. s.in_text = FALSE
          BY <5>1 DEF Reader
        <5> QED BY <5>1, <5>2 DEF AtCommit
      <4> QED BY <1>2, <2>2, <4>1
    <3> QED BY <3>1, <3>2
  <2> QED BY <2>3, <2>4
<1> HIDE DEF Good
<1>3. G = Reader
  <2>1. /\ G \in SUBSET Reader
        /\ \A x \in Reader : ~Reading(bytes, x) => x \in G
        /\ \A x \in Reader : Reading(bytes, x) /\ Step(bytes, x) \in G => x \in G
    BY <1>1, <1>2
  <2> HIDE DEF G
  <2> QED BY <2>1, ScanInduction
<1>4. Good(NewReader)
  BY <1>3, NewReaderTyped
<1>5. AtCommit(NewReader)
  BY NewReaderTyped DEF AtCommit, NewReader
<1> QED BY <1>4, <1>5, RunUnfolds DEF Good, CommittedEnd

\* The buffer is read to its end, no text or level is open, and the next block
\* starts at the last commit, behind which there may be notes.
Resting(bytes) ==
  /\ bytes \in Seq(Byte)
  /\ ScanOf(bytes).pos = Len(bytes)
  /\ ScanOf(bytes).block_start = CommittedEnd(bytes)
  /\ ScanOf(bytes).in_text = FALSE
  /\ ScanOf(bytes).depth = 0

LEMMA CleanIsResting ==
  ASSUME NEW bytes \in Seq(Byte), CommittedEnd(bytes) \in 0 .. Len(bytes), ~Torn(bytes),
         \A q \in CommittedEnd(bytes) .. Len(bytes) - 1 : At(bytes, q) # EM
  PROVE  Resting(bytes)
<1>1. PICK y \in Reader : /\ AtCommit(y)
                          /\ y.committed_end = CommittedEnd(bytes)
                          /\ RunOf(bytes)[y] = ScanOf(bytes)
  BY LastCommit
<1>2. /\ y.pos = CommittedEnd(bytes) /\ y.pos <= Len(bytes) /\ y.in_text = FALSE
      /\ ~TornTail(bytes, y.pos)
  BY <1>1 DEF AtCommit, Torn, CommittedEnd
<1>3. PassesTo(bytes, y, Len(bytes), FALSE)
  BY <1>2, PassesTail
<1>4. PICK z : Passes(bytes, y, z) /\ z.pos = Len(bytes) /\ z.in_text = FALSE
  BY <1>3 DEF PassesTo
<1>5. z \in Reader /\ ~Reading(bytes, z) /\ RunOf(bytes)[y] = RunOf(bytes)[z]
  BY <1>4 DEF Passes, Reading
<1>6. ScanOf(bytes) = z
  BY <1>1, <1>5, RunUnfolds
<1>7. z.block_start = CommittedEnd(bytes) /\ z.depth = 0
  BY <1>1, <1>4 DEF Passes, AtCommit
<1> QED BY <1>4, <1>6, <1>7 DEF Resting

LEMMA SettledIsResting ==
  ASSUME NEW bytes, Settled(bytes)
  PROVE  Resting(bytes) /\ CommittedEnd(bytes) = Len(bytes)
<1>1. bytes \in Seq(Byte) /\ Ready(bytes, ScanOf(bytes))
  BY DEF Settled
<1>2. ScanOf(bytes) \in Reader
  BY <1>1, NewReaderTyped, RunUnfolds, RunExtends
<1>3. ScanOf(bytes).in_text = FALSE
  BY <1>1, <1>2 DEF Ready, Reader
<1> QED BY <1>1, <1>3 DEF Resting, Ready, CommittedEnd

-----------------------------------------------------------------------------
(* Appending to a file that is committed but for notes. *)

LEMMA AppendScan ==
  ASSUME NEW g, Resting(g), NEW b \in Seq(Byte), Len(b) > 0 => OpensElement(At(b, 0))
  PROVE  /\ ScanOf(g) \in Reader /\ ScanOf(b) \in Reader /\ ScanOf(g \o b) \in Reader
         /\ Shifted(ScanOf(g).blocks, Len(g), CommittedEnd(g), ScanOf(b), ScanOf(g \o b))
<1> DEFINE h == g \o b
           s == ScanOf(g)
           c == CommittedEnd(g)
<1>1. /\ g \in Seq(Byte) /\ h \in Seq(Byte) /\ Begins(g, h) /\ Stands(b, h, Len(g))
      /\ Len(g) \in Nat /\ Len(b) \in Nat
  BY AppendStands DEF Resting
<1> HIDE DEF h
<1>2. /\ s \in Reader /\ ScanOf(b) \in Reader /\ ScanOf(h) \in Reader
      /\ s.blocks \in Seq(Block) /\ c \in Nat
  <2>1. \A x \in Seq(Byte) : ScanOf(x) \in Reader
    BY NewReaderTyped, RunUnfolds, RunExtends
  <2> QED BY <1>1, <2>1 DEF Reader, CommittedEnd
<1>3. Len(g) < Len(h) => OpensElement(At(h, Len(g)))
  <2> SUFFICES ASSUME Len(g) < Len(h) PROVE OpensElement(At(h, Len(g)))
    OBVIOUS
  <2>1. Len(b) > 0 /\ 0 \in 0 .. Len(b) - 1 /\ 0 + Len(g) = Len(g)
    BY <1>1 DEF Stands
  <2> QED BY <1>1, <2>1 DEF Stands
<1>4. ScanOf(h) = RunOf(h)[s]
  BY <1>1, <1>3, ReadOn
<1>5. Shifted(s.blocks, Len(g), c, NewReader, s)
  <2>1. /\ s.pos = Len(g) /\ s.block_start = c /\ s.in_text = FALSE /\ s.depth = 0
        /\ s.committed_end = c
    BY DEF Resting, CommittedEnd
  <2>2. /\ NewReader.pos = 0 /\ NewReader.block_start = 0 /\ NewReader.in_text = FALSE
        /\ NewReader.depth = 0 /\ NewReader.committed_end = 0 /\ Len(NewReader.blocks) = 0
    BY DEF NewReader
  <2> HIDE DEF s, c
  <2>3. Len(s.blocks) \in Nat /\ 0 + Len(g) = Len(g)
    BY <1>1, <1>2
  <2>4. \A i \in 1 .. Len(NewReader.blocks) : FALSE
    BY <2>2
  <2>5. Len(s.blocks) = Len(s.blocks) + Len(NewReader.blocks)
    BY <2>2, <2>3
  <2>6. /\ Moved(Len(g), c, NewReader.block_start) = c
        /\ Moved(Len(g), c, NewReader.committed_end) = c
        /\ s.pos = NewReader.pos + Len(g)
    BY <2>1, <2>2, <2>3 DEF Moved
  <2> QED BY <2>1, <2>2, <2>4, <2>5, <2>6 DEF Shifted
<1>6. Len(b) > 0 => At(b, 0) # SYN
  BY DEF OpensElement
<1>7. Shifted(s.blocks, Len(g), c, RunOf(b)[NewReader], RunOf(h)[s])
  <2> HIDE DEF s, c
  <2> QED BY <1>1, <1>2, <1>5, <1>6, NewReaderTyped, RunShift
<1> QED BY <1>1, <1>2, <1>4, <1>7, RunUnfolds DEF h

-----------------------------------------------------------------------------
(* Where the blocks lie. *)

\* Every block found lies before committed_end.
Placed(bytes, r) ==
  /\ r.block_start <= r.pos
  /\ r.committed_end <= r.pos
  /\ r.committed_end <= Len(bytes)
  /\ r.blocks = << >> => r.committed_end = 0
  /\ \A i \in 1 .. Len(r.blocks) : /\ r.blocks[i].start <= r.blocks[i].stop
                                   /\ r.blocks[i].stop < r.committed_end

LEMMA StepPlaces ==
  ASSUME NEW bytes \in Seq(Byte), NEW r \in Reader, Reading(bytes, r), Placed(bytes, r)
  PROVE  Placed(bytes, Step(bytes, r))
<1> DEFINE s == Step(bytes, r)
           n == Len(r.blocks)
<1>0. /\ r.pos \in Nat /\ r.block_start \in Nat /\ r.committed_end \in Nat
      /\ r.blocks \in Seq(Block) /\ Len(bytes) \in Nat /\ n \in Nat
  BY DEF Reader
<1>1. CASE At(bytes, r.pos) # ETB
  <2>1. s \in Reader /\ Moves(bytes, r, s)
    BY <1>1, StepMoves
  <2> HIDE DEF s
  <2>2. s.pos > r.pos /\ s.pos \in Nat /\ s.block_start <= s.pos
    BY <1>0, <2>1 DEF Moves, Placed
  <2>3. s.blocks = r.blocks /\ s.committed_end = r.committed_end
    BY <2>1 DEF Moves
  <2> QED BY <1>0, <2>2, <2>3 DEF Placed, s
<1>2. CASE At(bytes, r.pos) = ETB
  <2> DEFINE e == PayloadEnd(bytes, r.pos + 1)
             blk == [start |-> r.block_start, stop |-> r.pos,
                     damaged |-> r.in_text \/ r.depth > 0]
  <2>1. /\ s \in Reader /\ s.pos = e /\ s.block_start = e /\ s.committed_end = e
        /\ s.blocks = Append(r.blocks, blk)
        /\ e \in r.pos + 1 .. Len(bytes)
    BY <1>2, CommitIs
  <2>2. blk.start = r.block_start /\ blk.stop = r.pos
    OBVIOUS
  <2> HIDE DEF s, e, blk
  <2>3. /\ Len(s.blocks) = n + 1
        /\ \A i \in 1 .. n : s.blocks[i] = r.blocks[i]
        /\ s.blocks[n + 1] = blk
    BY <1>0, <2>1
  <2>4. \A i \in 1 .. n : r.blocks[i] \in Block
    BY <1>0
  <2>5. ASSUME NEW i \in 1 .. Len(s.blocks)
        PROVE  s.blocks[i].start <= s.blocks[i].stop /\ s.blocks[i].stop < s.committed_end
    <3>1. CASE i = n + 1
      BY <1>0, <2>1, <2>2, <2>3, <3>1 DEF Placed
    <3>2. CASE i # n + 1
      <4>1. i \in 1 .. n
        BY <1>0, <2>3, <3>2
      <4>2. r.blocks[i].stop \in Nat /\ r.blocks[i].start \in Nat
        BY <2>4, <4>1 DEF Block
      <4> QED BY <1>0, <2>1, <2>3, <4>1, <4>2 DEF Placed
    <3> QED BY <3>1, <3>2
  <2>6. s.blocks # << >>
    <3>1. Len(s.blocks) > 0
      BY <1>0, <2>3
    <3> QED BY <3>1
  <2>7. s.block_start <= s.pos /\ s.committed_end <= s.pos /\ s.committed_end <= Len(bytes)
    BY <1>0, <2>1
  <2> QED BY <2>5, <2>6, <2>7 DEF Placed, s
<1> QED BY <1>1, <1>2

\* The blocks of a buffer lie in it, before committed_end, which is 0 if
\* there are none.
LEMMA ScanPlaced ==
  ASSUME NEW bytes \in Seq(Byte)
  PROVE  /\ ScanOf(bytes) \in Reader
         /\ Placed(bytes, ScanOf(bytes))
         /\ CommittedEnd(bytes) \in 0 .. Len(bytes)
<1> DEFINE Good(x) == Placed(bytes, x) => /\ RunOf(bytes)[x] \in Reader
                                          /\ Placed(bytes, RunOf(bytes)[x])
           G == {x \in Reader : Good(x)}
<1>1. ASSUME NEW x \in Reader, ~Reading(bytes, x)
      PROVE  Good(x)
  BY <1>1, RunUnfolds
<1>2. ASSUME NEW x \in Reader, Reading(bytes, x), Good(Step(bytes, x))
      PROVE  Good(x)
  BY <1>2, RunUnfolds, StepPlaces
<1> HIDE DEF Good
<1>3. G = Reader
  <2>1. /\ G \in SUBSET Reader
        /\ \A x \in Reader : ~Reading(bytes, x) => x \in G
        /\ \A x \in Reader : Reading(bytes, x) /\ Step(bytes, x) \in G => x \in G
    BY <1>1, <1>2
  <2> HIDE DEF G
  <2> QED BY <2>1, ScanInduction
<1>4. Placed(bytes, NewReader)
  BY NewReaderTyped DEF Placed
<1>5. ScanOf(bytes) \in Reader /\ Placed(bytes, ScanOf(bytes))
  BY <1>3, <1>4, NewReaderTyped, RunUnfolds DEF Good
<1>6. ScanOf(bytes).committed_end \in 0 .. Len(bytes)
  BY <1>5 DEF Reader, Placed
<1> QED BY <1>5, <1>6 DEF CommittedEnd

-----------------------------------------------------------------------------
(* A batch that is appended, whole or in part. *)

\* A whole batch adds its block, to which the notes before it belong, and the
\* file is ready for the next.
LEMMA BatchLands ==
  ASSUME NEW g, Resting(g), NEW b, OneCommit(b)
  PROVE  /\ Settled(g \o b)
         /\ ScanOf(g \o b).blocks =
              Append(ScanOf(g).blocks,
                     [start |-> CommittedEnd(g), stop |-> Len(g) + Len(b) - 1,
                      damaged |-> FALSE])
<1> DEFINE h == g \o b
           n == Len(ScanOf(g).blocks)
           blk == [start |-> CommittedEnd(g), stop |-> Len(g) + Len(b) - 1, damaged |-> FALSE]
<1>1. g \in Seq(Byte) /\ b \in Seq(Byte) /\ Len(b) > 0 /\ Len(g) \in Nat
  <2>1. b \in Seq(Byte) /\ b # << >>
    BY DEF OneCommit, Settled
  <2> QED BY <2>1 DEF Resting
<1>2. /\ ScanOf(g) \in Reader /\ ScanOf(b) \in Reader /\ ScanOf(h) \in Reader
      /\ Shifted(ScanOf(g).blocks, Len(g), CommittedEnd(g), ScanOf(b), ScanOf(h))
  BY <1>1, AppendScan DEF OneCommit
<1>3. h \in Seq(Byte) /\ Len(h) = Len(b) + Len(g)
  BY <1>1
<1>4. Settled(h)
  <2>1. Ready(b, ScanOf(b))
    BY DEF OneCommit, Settled
  <2> HIDE DEF h
  <2>2. /\ Moved(Len(g), CommittedEnd(g), Len(b)) = Len(b) + Len(g)
    BY <1>1 DEF Moved
  <2> QED BY <1>2, <1>3, <2>1, <2>2 DEF Settled, Ready, Shifted
<1>5. /\ Len(ScanOf(b).blocks) = 1 /\ ScanOf(b).blocks[1].start = 0
      /\ ScanOf(b).blocks[1].stop = Len(b) - 1 /\ ScanOf(b).blocks[1].damaged = FALSE
  BY DEF OneCommit
<1>6. /\ n \in Nat /\ ScanOf(g).blocks \in Seq(Block) /\ ScanOf(h).blocks \in Seq(Block)
  BY <1>2 DEF Reader
<1>7. /\ Len(ScanOf(h).blocks) = n + 1
      /\ \A i \in 1 .. n : ScanOf(h).blocks[i] = ScanOf(g).blocks[i]
      /\ ScanOf(h).blocks[n + 1] = [start |-> CommittedEnd(g), stop |-> Len(b) - 1 + Len(g), damaged |-> FALSE]
  <2>1. 1 \in 1 .. Len(ScanOf(b).blocks)
    BY <1>5
  <2> QED BY <1>2, <1>5, <2>1 DEF Shifted, Moved
<1>8. ScanOf(h).blocks[n + 1] = blk /\ blk \in Block
  <2>1. Len(b) \in Nat /\ CommittedEnd(g) \in Nat /\ Len(b) - 1 + Len(g) = Len(g) + Len(b) - 1
    BY <1>1, <1>2 DEF CommittedEnd, Reader
  <2>2. Len(g) + Len(b) - 1 \in Nat
    BY <1>1, <2>1
  <2> HIDE DEF h, n
  <2> QED BY <1>1, <1>7, <2>1, <2>2 DEF Block
<1> HIDE DEF h, blk, n
<1>9. ScanOf(h).blocks = Append(ScanOf(g).blocks, blk)
  <2> DEFINE s == ScanOf(h).blocks
             t == ScanOf(g).blocks
  <2>1. s \in Seq(Block) /\ t \in Seq(Block) /\ Append(t, blk) \in Seq(Block)
    BY <1>6, <1>8
  <2>3. n = Len(t) /\ Len(s) = n + 1 /\ \A i \in 1 .. n : s[i] = t[i]
    BY <1>7 DEF n
  <2>4. s[n + 1] = blk
    BY <1>8
  <2> HIDE DEF s, t
  <2>2. Len(s) = n + 1 /\ Len(Append(t, blk)) = n + 1
    BY <2>1, <2>3
  <2>5. \A i \in 1 .. n + 1 : s[i] = Append(t, blk)[i]
    BY <1>6, <2>1, <2>3, <2>4
  <2>6. s = Append(t, blk)
    BY <2>1, <2>2, <2>5, SeqEqual
  <2> QED BY <2>6 DEF s, t
<1> QED BY <1>4, <1>9 DEF h, blk

LEMMA WholeLands ==
  ASSUME NEW g, Settled(g), NEW b, OneCommit(b)
  PROVE  /\ Settled(g \o b)
         /\ ScanOf(g \o b).blocks =
              Append(ScanOf(g).blocks,
                     [start |-> Len(g), stop |-> Len(g) + Len(b) - 1, damaged |-> FALSE])
<1>1. Resting(g) /\ CommittedEnd(g) = Len(g)
  BY SettledIsResting
<1> QED BY <1>1, BatchLands

\* A part of a batch adds nothing; if it is more than nothing, it is torn.
LEMMA PartLandsNot ==
  ASSUME NEW g, Settled(g), NEW b, OneCommit(b),
         NEW c \in Seq(Byte), Begins(c, b), Len(c) < Len(b)
  PROVE  /\ ScanOf(g \o c).blocks = ScanOf(g).blocks
         /\ CommittedEnd(g \o c) = Len(g)
         /\ Torn(g \o c) <=> Len(c) > 0
<1> DEFINE h == g \o c
           n == Len(ScanOf(g).blocks)
<1>1. g \in Seq(Byte) /\ b \in Seq(Byte) /\ Len(b) > 0 /\ Len(g) \in Nat /\ Len(c) \in Nat
  <2>1. b \in Seq(Byte) /\ b # << >>
    BY DEF OneCommit, Settled
  <2> QED BY <2>1 DEF Settled
<1>2. Len(c) > 0 => At(c, 0) = At(b, 0)
  BY <1>1 DEF Begins
<1>3. Len(c) > 0 => OpensElement(At(c, 0))
  BY <1>2 DEF OneCommit
<1>4. /\ ScanOf(g) \in Reader /\ ScanOf(c) \in Reader /\ ScanOf(h) \in Reader
      /\ Shifted(ScanOf(g).blocks, Len(g), Len(g), ScanOf(c), ScanOf(h))
  BY <1>3, AppendScan, SettledIsResting
<1>5. ScanOf(c).blocks = << >> /\ ScanOf(c).committed_end = 0
  <2>1. Placed(c, ScanOf(c)) /\ ScanOf(c).blocks \in Seq(Block)
    BY <1>4, ScanPlaced DEF Reader
  <2>2. IsPrefix(ScanOf(c).blocks, ScanOf(b).blocks) /\ ScanOf(b).blocks \in Seq(Block)
    BY <1>1, PrefixScan, ScanPlaced DEF Reader
  <2>3. \A i \in 1 .. Len(ScanOf(c).blocks) :
          i \in 1 .. Len(ScanOf(b).blocks) /\ ScanOf(c).blocks[i] = ScanOf(b).blocks[i]
    BY <2>1, <2>2, PrefixMeans
  <2>4. Len(ScanOf(b).blocks) = 1 /\ ScanOf(b).blocks[1].stop = Len(b) - 1
    BY DEF OneCommit
  <2>5. ~(1 \in 1 .. Len(ScanOf(c).blocks))
    <3> SUFFICES ASSUME 1 \in 1 .. Len(ScanOf(c).blocks) PROVE FALSE
      OBVIOUS
    <3>1. ScanOf(c).blocks[1].stop = Len(b) - 1
      BY <2>3, <2>4
    <3>2. ScanOf(c).blocks[1].stop < ScanOf(c).committed_end /\ ScanOf(c).committed_end <= Len(c)
      BY <2>1 DEF Placed
    <3>3. ScanOf(c).committed_end \in Nat
      BY <1>4 DEF Reader
    <3> QED BY <1>1, <3>1, <3>2, <3>3
  <2>6. ScanOf(c).blocks = << >>
    BY <2>1, <2>5
  <2> QED BY <2>1, <2>6 DEF Placed
<1>6. CommittedEnd(h) = Len(g)
  <2>1. ScanOf(h).committed_end = Moved(Len(g), Len(g), ScanOf(c).committed_end)
    BY <1>4 DEF Shifted
  <2> QED BY <1>1, <1>5, <2>1 DEF CommittedEnd, Moved
<1>7. ScanOf(h).blocks = ScanOf(g).blocks
  <2> DEFINE s == ScanOf(h).blocks
             t == ScanOf(g).blocks
  <2>1. s \in Seq(Block) /\ t \in Seq(Block)
    BY <1>4 DEF Reader
  <2>2. Len(s) = Len(t) /\ \A i \in 1 .. Len(t) : s[i] = t[i]
    BY <1>4, <1>5, <2>1 DEF Shifted
  <2> HIDE DEF s, t
  <2>3. s = t
    BY <2>1, <2>2, SeqEqual
  <2> QED BY <2>3 DEF s, t
<1>8. Torn(h) <=> Len(c) > 0
  <2>1. h \in Seq(Byte) /\ Len(h) = Len(g) + Len(c) /\ Stands(c, h, Len(g))
    BY <1>1, AppendStands DEF Stands
  <2> HIDE DEF h
  <2>2. Torn(h) = TornTail(h, Len(g))
    BY <1>6 DEF Torn, CommittedEnd
  <2> DEFINE p == Layout(h, Len(g), Len(h))
  <2>3. Len(h) \in Nat /\ Len(g) \in 0 .. Len(h)
    BY <1>1, <2>1
  <2> HIDE DEF p
  <2>0. p = Layout(h, Len(g), Len(h))
    BY DEF p
  <2>4. p \in Len(g) .. Len(h) /\ (p < Len(h) => ~IsLayout(At(h, p)))
        /\ \A q \in Len(g) .. p - 1 : IsLayout(At(h, q))
    BY <2>0, <2>3, LayoutStops
  <2>5. CASE Len(c) > 0
    <3>1. At(h, Len(g)) = At(c, 0)
      <4>1. 0 \in 0 .. Len(c) - 1 /\ 0 + Len(g) = Len(g)
        BY <1>1, <2>5
      <4> QED BY <2>1, <4>1 DEF Stands
    <3>2. OpensElement(At(h, Len(g)))
      BY <1>3, <2>5, <3>1
    <3>3. p = Len(g)
      <4>1. ~(Len(g) \in Len(g) .. p - 1)
        BY <2>4, <3>2 DEF OpensElement
      <4> QED BY <1>1, <2>3, <2>4, <4>1
    <3>4. p < Len(h) /\ At(h, p) # EOT /\ At(h, p) # EM /\ At(h, p) # BEL
      BY <1>1, <2>1, <2>5, <3>2, <3>3 DEF OpensElement
    <3>5. TornTail(h, Len(g)) = TRUE
      BY <2>0, <2>1, <2>3, <3>4, TornTailIs
    <3> QED BY <2>2, <2>5, <3>5
  <2>6. CASE ~(Len(c) > 0)
    <3>1. p >= Len(h)
      BY <1>1, <2>1, <2>4, <2>6
    <3>2. TornTail(h, Len(g)) = FALSE
      BY <2>0, <2>1, <2>3, <3>1, TornTailIs
    <3> QED BY <2>2, <2>6, <3>2
  <2> QED BY <2>5, <2>6
<1> QED BY <1>6, <1>7, <1>8 DEF h

-----------------------------------------------------------------------------
(* A batch read alone, and the bytes that the backward scan looks for. *)

\* Reading b alone, the loop comes to p, with nothing committed.
ComesTo(b, p, in_text, depth) ==
  \E y \in Reader : /\ RunOf(b)[y] = ScanOf(b)
                    /\ Changed(NewReader, y, p, in_text, depth)

LEMMA ComesFurther ==
  ASSUME NEW b \in Seq(Byte), NEW p \in 0 .. Len(b) - 1, NEW depth \in Nat
  PROVE  /\ ComesTo(b, p, FALSE, depth) =>
              /\ MovesOnly(At(b, p)) => ComesTo(b, p + 1, FALSE, depth)
              /\ At(b, p) = STX => ComesTo(b, p + 1, TRUE, depth)
              /\ At(b, p) = DLE => ComesTo(b, p + 1, FALSE, depth + 1)
              /\ At(b, p) = CAN /\ depth > 0 => ComesTo(b, p + 1, FALSE, depth - 1)
         /\ ComesTo(b, p, TRUE, depth) =>
              /\ At(b, p) = ETX => ComesTo(b, p + 1, FALSE, depth)
              /\ At(b, p) = DLE => ComesTo(b, p + 2, TRUE, depth)
<1>1. ASSUME NEW y \in Reader, RunOf(b)[y] = ScanOf(b), NEW t \in BOOLEAN,
             Changed(NewReader, y, p, t, depth),
             NEW q, NEW u, NEW d, Changed(y, Step(b, y), q, u, d)
      PROVE  ComesTo(b, q, u, d)
  <2>1. Reading(b, y)
    BY <1>1 DEF Changed, Reading
  <2>2. RunOf(b)[y] = RunOf(b)[Step(b, y)] /\ Step(b, y) \in Reader
    BY <2>1, RunUnfolds, StepForward
  <2>3. Changed(NewReader, Step(b, y), q, u, d)
    BY <1>1 DEF Changed
  <2> QED BY <1>1, <2>2, <2>3 DEF ComesTo
<1>2. ASSUME ComesTo(b, p, FALSE, depth)
      PROVE  /\ MovesOnly(At(b, p)) => ComesTo(b, p + 1, FALSE, depth)
             /\ At(b, p) = STX => ComesTo(b, p + 1, TRUE, depth)
             /\ At(b, p) = DLE => ComesTo(b, p + 1, FALSE, depth + 1)
             /\ At(b, p) = CAN /\ depth > 0 => ComesTo(b, p + 1, FALSE, depth - 1)
  <2>1. PICK y \in Reader : RunOf(b)[y] = ScanOf(b) /\ Changed(NewReader, y, p, FALSE, depth)
    BY <1>2 DEF ComesTo
  <2>2. Reading(b, y) /\ y.pos = p /\ y.in_text = FALSE /\ y.depth = depth
    BY <2>1 DEF Changed, Reading
  <2>3. /\ At(b, p) = STX => Step(b, y) = OpenText(y)
        /\ At(b, p) = DLE => Step(b, y) = EnterLevel(y)
        /\ At(b, p) = CAN => Step(b, y) = CloseLevel(y)
        /\ MovesOnly(At(b, p)) => Step(b, y) = Skip(y)
    BY <2>2, StepOutside DEF MovesOnly
  <2>4. /\ Changed(y, Skip(y), p + 1, FALSE, depth)
        /\ Changed(y, OpenText(y), p + 1, TRUE, depth)
        /\ Changed(y, EnterLevel(y), p + 1, FALSE, depth + 1)
        /\ depth > 0 => Changed(y, CloseLevel(y), p + 1, FALSE, depth - 1)
    <3>1. /\ Changed(y, Skip(y), y.pos + 1, y.in_text, y.depth)
          /\ Changed(y, OpenText(y), y.pos + 1, TRUE, y.depth)
          /\ Changed(y, EnterLevel(y), y.pos + 1, y.in_text, y.depth + 1)
          /\ Changed(y, CloseLevel(y), y.pos + 1, y.in_text,
                     IF y.depth = 0 THEN 0 ELSE y.depth - 1)
      BY FieldsOf
    <3>2. depth > 0 => (IF depth = 0 THEN 0 ELSE depth - 1) = depth - 1
      OBVIOUS
    <3> QED BY <2>2, <3>1, <3>2
  <2> QED BY <1>1, <2>1, <2>3, <2>4
<1>3. ASSUME ComesTo(b, p, TRUE, depth)
      PROVE  /\ At(b, p) = ETX => ComesTo(b, p + 1, FALSE, depth)
             /\ At(b, p) = DLE => ComesTo(b, p + 2, TRUE, depth)
  <2>1. PICK y \in Reader : RunOf(b)[y] = ScanOf(b) /\ Changed(NewReader, y, p, TRUE, depth)
    BY <1>3 DEF ComesTo
  <2>2. Reading(b, y) /\ y.pos = p /\ y.in_text = TRUE /\ y.depth = depth
    BY <2>1 DEF Changed, Reading
  <2>3. /\ At(b, p) = ETX => Step(b, y) = CloseText(y)
        /\ At(b, p) = DLE => Step(b, y) = SkipEscaped(y)
    BY <2>2, StepInText
  <2>4. /\ Changed(y, CloseText(y), p + 1, FALSE, depth)
        /\ Changed(y, SkipEscaped(y), p + 2, TRUE, depth)
    BY <2>2, FieldsOf
  <2> QED BY <1>1, <2>1, <2>3, <2>4
<1> QED BY <1>2, <1>3

LEMMA ComesToCommit ==
  ASSUME NEW b \in Seq(Byte), b # << >>, OpensElement(At(b, 0)),
         At(b, Len(b) - 1) = ETB, ComesTo(b, Len(b) - 1, FALSE, 0)
  PROVE  OneCommit(b)
<1> DEFINE len == Len(b)
           blk == [start |-> 0, stop |-> len - 1, damaged |-> FALSE]
<1>0. len \in Nat /\ len > 0
  OBVIOUS
<1>1. PICK y \in Reader : RunOf(b)[y] = ScanOf(b) /\ Changed(NewReader, y, len - 1, FALSE, 0)
  BY DEF ComesTo
<1> DEFINE s == Step(b, y)
<1>2. /\ y.pos = len - 1 /\ y.block_start = 0 /\ y.in_text = FALSE /\ y.depth = 0
      /\ y.blocks = << >> /\ Reading(b, y)
  BY <1>0, <1>1, NewReaderTyped DEF Changed, Reading, NewReader
<1>3. /\ s \in Reader
      /\ s.pos = PayloadEnd(b, y.pos + 1)
      /\ s.block_start = PayloadEnd(b, y.pos + 1)
      /\ s.committed_end = PayloadEnd(b, y.pos + 1)
      /\ ~s.in_text /\ s.depth = 0
      /\ s.blocks = Append(y.blocks, [start |-> y.block_start, stop |-> y.pos,
                                      damaged |-> y.in_text \/ y.depth > 0])
      /\ PayloadEnd(b, y.pos + 1) \in y.pos + 1 .. Len(b)
  BY <1>2, CommitIs
<1>4. PayloadEnd(b, y.pos + 1) = len
  BY <1>0, <1>2, <1>3
<1>5. RunOf(b)[y] = RunOf(b)[s]
  BY <1>2, RunUnfolds
<1> HIDE DEF s
<1>6. ~Reading(b, s)
  BY <1>0, <1>3, <1>4 DEF Reading
<1>7. ScanOf(b) = s
  BY <1>1, <1>3, <1>5, <1>6, RunUnfolds
<1>8. s.blocks = <<blk>>
  <2>1. (y.in_text \/ y.depth > 0) = FALSE
    BY <1>2
  <2>2. [start |-> y.block_start, stop |-> y.pos, damaged |-> y.in_text \/ y.depth > 0] = blk
    BY <1>2, <2>1
  <2>3. Append(<< >>, blk) = <<blk>>
    <3> HIDE DEF blk
    <3> QED OBVIOUS
  <2> HIDE DEF blk
  <2> QED BY <1>2, <1>3, <2>2, <2>3
<1>9. Settled(b)
  BY <1>3, <1>4, <1>7 DEF Settled, Ready
<1> QED BY <1>7, <1>8, <1>9 DEF OneCommit

\* n is the length of the run of DLEs in front of p.
Escaped(buf, p, n) ==
  /\ \A q \in (p - n) .. (p - 1) : At(buf, q) = DLE
  /\ n < p => At(buf, p - n - 1) # DLE

LEMMA EscapesAre ==
  ASSUME NEW buf, NEW p \in Nat
  PROVE  /\ EscapesBefore(buf, p) \in 0 .. p
         /\ Escaped(buf, p, EscapesBefore(buf, p))
         /\ \A n \in 0 .. p : Escaped(buf, p, n) => EscapesBefore(buf, p) = n
<1> DEFINE Starts == {k \in 0 .. p : \A q \in k .. (p - 1) : At(buf, q) = DLE}
<1>1. Starts \in SUBSET Nat /\ p \in Starts
  OBVIOUS
<1>2. PICK m \in Starts : \A k \in Starts : m <= k
  BY <1>1, LeastOffset
<1>3. m > 0 => At(buf, m - 1) # DLE
  <2> SUFFICES ASSUME m > 0, At(buf, m - 1) = DLE
               PROVE  FALSE
    OBVIOUS
  <2>1. \A q \in m - 1 .. (p - 1) : q = m - 1 \/ q \in m .. (p - 1)
    BY <1>1, <1>2
  <2>2. m - 1 \in Starts
    BY <1>1, <1>2, <2>1
  <2> QED BY <1>1, <1>2, <2>2
<1>4. m \in 0 .. p /\ \A q \in m .. (p - 1) : At(buf, q) = DLE
  BY <1>2
<1>5. p - m \in 0 .. p /\ p - (p - m) = m /\ (p - m < p => m > 0)
  BY <1>4
<1>6. Escaped(buf, p, p - m)
  BY <1>3, <1>4, <1>5 DEF Escaped
<1>7. EscapesBefore(buf, p) = CHOOSE n \in 0 .. p : Escaped(buf, p, n)
  BY DEF EscapesBefore, Escaped
<1>8. EscapesBefore(buf, p) \in 0 .. p /\ Escaped(buf, p, EscapesBefore(buf, p))
  BY <1>5, <1>6, <1>7
<1>9. ASSUME NEW a \in 0 .. p, NEW b \in 0 .. p, Escaped(buf, p, a), Escaped(buf, p, b), a < b
      PROVE  FALSE
  <2>1. a < p /\ p - a - 1 \in (p - b) .. (p - 1)
    BY <1>9
  <2> QED BY <1>9, <2>1 DEF Escaped
<1>10. ASSUME NEW n \in 0 .. p, Escaped(buf, p, n)
       PROVE  EscapesBefore(buf, p) = n
  <2>1. ~(EscapesBefore(buf, p) < n) /\ ~(n < EscapesBefore(buf, p))
    BY <1>8, <1>9, <1>10
  <2> QED BY <1>8, <1>10, <2>1
<1> QED BY <1>8, <1>10

=============================================================================
