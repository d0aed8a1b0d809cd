-------------------------------- MODULE Scan --------------------------------
(***************************************************************************)
(* The scanning primitives of src/src/scan.rs: each takes a buffer, an     *)
(* offset and a stop and returns the offset after the construct it skips.  *)
(* The code's Err(..) is the value Err, which is no offset.                *)
(***************************************************************************)
EXTENDS C0Bytes

Err == -1

(***************************************************************************)
(* layout and plain stop at the first byte of another class; from past the *)
(* stop they do not move.                                                  *)
(***************************************************************************)
Layout(buf, pos, stop) ==
  IF pos >= stop THEN pos
  ELSE CHOOSE p \in pos .. stop :
         /\ \A q \in pos .. (p - 1) : IsLayout(At(buf, q))
         /\ p < stop => ~IsLayout(At(buf, p))

Plain(buf, pos, stop) ==
  IF pos >= stop THEN pos
  ELSE CHOOSE p \in pos .. stop :
         /\ \A q \in pos .. (p - 1) : IsPlain(At(buf, q))
         /\ p < stop => ~IsPlain(At(buf, p))

\* text: from an STX to past its ETX.
Text(buf, pos, stop) ==
  LET rest[p \in 0 .. stop] ==
        IF p = stop THEN Err
        ELSE CASE At(buf, p) = DLE ->
                    IF p + 1 < stop /\ IsTextEscaped(At(buf, p + 1))
                    THEN rest[p + 2] ELSE Err
               [] At(buf, p) = ETX -> p + 1
               [] At(buf, p) = STX \/ IsFraming(At(buf, p)) -> Err
               [] OTHER -> rest[p + 1]
  IN  IF pos + 1 > stop THEN Err ELSE rest[pos + 1]

InLevel(p, depth, rest) == IF p = Err THEN Err ELSE rest[<<p, depth>>]

\* level: from a DLE to past the CAN that closes it.
Level(buf, pos, stop) ==
  LET rest[at \in (0 .. stop) \X (Nat \ {0})] ==
        LET p     == at[1]
            depth == at[2]
        IN  IF p = stop THEN Err
            ELSE CASE At(buf, p) = STX ->
                        InLevel(Text(buf, p, stop), depth, rest)
                   [] At(buf, p) = DLE -> rest[<<p + 1, depth + 1>>]
                   [] At(buf, p) = CAN ->
                        IF depth = 1 THEN p + 1 ELSE rest[<<p + 1, depth - 1>>]
                   [] IsFraming(At(buf, p)) -> Err
                   [] OTHER -> rest[<<p + 1, depth>>]
  IN  IF pos + 1 > stop THEN Err ELSE rest[<<pos + 1, 1>>]

(***************************************************************************)
(* comment, record_end, unit and keyed_unit_end call one another: one      *)
(* recursive function over the name of the primitive and the offset.       *)
(***************************************************************************)
Primitives == {"comment", "record_end", "unit", "keyed_unit_end"}

CodeAt(buf, p, stop, S) == p < stop /\ At(buf, p) \in S

\* An SOH at p whose next non-layout byte is an RS: a header row, not a key.
HeaderRowAt(buf, p, stop) ==
  /\ CodeAt(buf, p, stop, {SOH})
  /\ CodeAt(buf, Layout(buf, p + 1, stop), stop, {RS})

\* comment's GS arm: a run of GS and layout.
GroupMarks(buf, pos, stop) ==
  CHOOSE p \in pos .. stop :
    /\ \A q \in pos .. (p - 1) : At(buf, q) = GS \/ IsLayout(At(buf, q))
    /\ p < stop => ~(At(buf, p) = GS \/ IsLayout(At(buf, p)))

Follow(skip, op, pos) == IF pos = Err THEN Err ELSE skip[<<op, pos>>]

\* Behind a dead construct, whose BEL is before q.
CommentEnd(buf, q, stop, skip) ==
  CASE CodeAt(buf, q, stop, {STX}) -> Text(buf, q, stop)
    [] CodeAt(buf, q, stop, {DLE}) -> Level(buf, q, stop)
    [] CodeAt(buf, q, stop, {RS})  -> skip[<<"record_end", q + 1>>]
    [] HeaderRowAt(buf, q, stop)   -> skip[<<"record_end", Layout(buf, q + 1, stop) + 1>>]
    [] CodeAt(buf, q, stop, {SOH}) /\ ~HeaderRowAt(buf, q, stop) -> skip[<<"keyed_unit_end", q + 1>>]
    [] CodeAt(buf, q, stop, {GS})  -> Plain(buf, GroupMarks(buf, q, stop), stop)
    [] CodeAt(buf, q, stop, {FS})  -> Plain(buf, q + 1, stop)
    [] OTHER -> IF q < stop /\ IsPlain(At(buf, q)) THEN Plain(buf, q, stop) ELSE Err

\* A text, a level or a comment inside what op skips, whose code is at pos.
NestedEnd(buf, pos, stop, skip) ==
  CASE At(buf, pos) = STX -> Text(buf, pos, stop)
    [] At(buf, pos) = DLE -> Level(buf, pos, stop)
    [] At(buf, pos) = BEL -> skip[<<"comment", pos>>]

\* The bytes and codes that op passes over one by one.
PassesOver(op, b) ==
  IsPlain(b) \/ IsLayout(b) \/ b \in IF op = "unit" THEN {ENQ} ELSE {US, ENQ, SOH}

\* Does op stop before the code at pos?
EndsAt(op, buf, pos, stop) ==
  LET next == Layout(buf, pos + 1, stop)
  IN  \/ op = "record_end" /\ HeaderRowAt(buf, pos, stop)
      \/ /\ At(buf, pos) = BEL
         /\ IF op = "record_end"
            THEN CodeAt(buf, next, stop, {RS, GS, FS}) \/ HeaderRowAt(buf, next, stop)
            ELSE next < stop /\ ~IsPlain(At(buf, next)) /\ At(buf, next) \notin {STX, DLE}
      \/ ~PassesOver(op, At(buf, pos)) /\ At(buf, pos) \notin {STX, DLE, BEL}

KeyedValue(buf, us, stop, skip) ==
  IF CodeAt(buf, us, stop, {US}) THEN skip[<<"unit", us + 1>>] ELSE Err

\* What op returns from pos, with skip for what it calls.
PrimitiveEnd(op, buf, pos, stop, skip) ==
  CASE op = "comment" -> CommentEnd(buf, Layout(buf, pos + 1, stop), stop, skip)
    [] op = "keyed_unit_end" ->
         KeyedValue(buf, Plain(buf, Layout(buf, pos, stop), stop), stop, skip)
    [] OTHER ->
         IF pos >= stop \/ EndsAt(op, buf, pos, stop) THEN pos
         ELSE IF PassesOver(op, At(buf, pos)) THEN skip[<<op, pos + 1>>]
         ELSE Follow(skip, op, NestedEnd(buf, pos, stop, skip))

ScanPrimitive(buf, stop) ==
  LET skip[at \in Primitives \X (0 .. stop)] ==
        PrimitiveEnd(at[1], buf, at[2], stop, skip)
  IN  skip

Comment(buf, pos, stop)      == ScanPrimitive(buf, stop)[<<"comment", pos>>]
RecordEnd(buf, pos, stop)    == ScanPrimitive(buf, stop)[<<"record_end", pos>>]
Unit(buf, pos, stop)         == ScanPrimitive(buf, stop)[<<"unit", pos>>]
KeyedUnitEnd(buf, pos, stop) == ScanPrimitive(buf, stop)[<<"keyed_unit_end", pos>>]

=============================================================================
