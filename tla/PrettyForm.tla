------------------------------ MODULE PrettyForm ------------------------------
(***************************************************************************)
(* The pretty form (src/src/pretty.rs): a picture for each code, a line    *)
(* for each element, and back.  A string is a sequence of characters; the  *)
(* characters of data that are not ASCII stand in a buffer for their UTF-8 *)
(* bytes, which are plain.                                                 *)
(***************************************************************************)
EXTENDS Values

CONSTANT Indent   \* the indent string

ASSUME PrettyFormAssumption == Indent \in Seq({SP, HT})

Pictures == 9216          \* U+2400

Glyph(code) == Pictures + code

IsGlyph(ch) == ch \in Glyph(0) .. Glyph(31)

\* FoldLeft, in time linear in seq.
Walk(step(_, _), start, seq) ==
  LET upTo[i \in 0 .. Len(seq)] == IF i = 0 THEN start ELSE step(upTo[i - 1], seq[i])
  IN  upTo[Len(seq)]

\* An ideographic space: white space to str::trim, data to a buffer.
Wide == 12288

\* char::is_whitespace, of the characters told apart here.
IsSpace(ch) == IsLayout(ch) \/ ch = Wide

-----------------------------------------------------------------------------
(***************************************************************************)
(* format_compact.  The writer: where it is in the buffer, the levels and  *)
(* the group it is in, the group depths around them, whether the line is   *)
(* still empty, what it wrote.  An error of the code is Halted.            *)
(***************************************************************************)
NewWriter == [pos |-> 0, depth |-> 0, gdepth |-> 0, stack |-> << >>, fresh |-> TRUE, out |-> << >>]

Halted == [NewWriter EXCEPT !.pos = Err]

PutChars(w, chars) == [w EXCEPT !.out = @ \o chars]

MoveTo(w, pos) == IF w.pos = Err \/ pos = Err THEN Halted ELSE [w EXCEPT !.pos = pos]

\* push_glyph, and past the code.
PutGlyph(w, code) == MoveTo(PutChars(w, <<Glyph(code)>>), w.pos + 1)

EndLine(w) == [PutChars(w, <<LF>>) EXCEPT !.fresh = TRUE]

\* newline_unless, and write_indent.
NewLine(w, depth) ==
  PutChars(IF w.fresh THEN w ELSE PutChars(w, <<LF>>),
           FlattenSeq([i \in 1 .. depth |-> Indent]))

\* write_data: no picture can stand for itself.
WriteData(w, data) == IF \E i \in DOMAIN data : IsGlyph(data[i]) THEN Halted ELSE PutChars(w, data)

\* write_plain
WritePlain(buf, w) ==
  LET start == Layout(buf, w.pos, Len(buf))
      end   == Plain(buf, start, Len(buf))
  IN  IF w.pos = Err THEN Halted ELSE MoveTo(WriteData(w, Trim(Slice(buf, start, end))), end)

\* A byte of a text.
TextChar(b) == IF b < SP /\ b \notin {LF, CR, HT} THEN Glyph(b) ELSE b

\* write_text, of the text at w.
WriteText(buf, w) ==
  LET end == Text(buf, w.pos, Len(buf))
      text == Slice(buf, w.pos, end)
  IN  IF end = Err \/ (\E i \in DOMAIN text : IsGlyph(text[i])) THEN Halted
      ELSE MoveTo(PutChars(w, <<Glyph(STX)>>
                           \o [i \in 1 .. (Len(text) - 2) |-> TextChar(text[i + 1])]
                           \o <<Glyph(ETX)>>), end)

\* What stands behind the layout after the code at pos.
BehindCode(buf, pos) == Layout(buf, pos + 1, Len(buf))

ContentAt(buf, p) == p < Len(buf) /\ (IsPlain(At(buf, p)) \/ At(buf, p) = STX)

\* Wrong: a header row goes on the line of the record before it.
EndsUnits_notHeader(buf, p) ==
  p >= Len(buf)
  \/ \/ At(buf, p) \in {FS, GS, RS, CAN, EOT, EM, SYN, DLE}
     \/ At(buf, p) = BEL /\ ~ContentAt(buf, BehindCode(buf, p))
                         /\ ~CodeAt(buf, BehindCode(buf, p), Len(buf), {DLE})
     \/ At(buf, p) < SP /\ ~IsLayout(At(buf, p))
          /\ At(buf, p) \notin {US, ENQ, SUB, SOH, STX, BEL, ETB}

\* Does write_units stop before the byte at p?  (At a DLE it opens a level.)
EndsUnits(buf, p) ==
  p >= Len(buf)
  \/ \/ HeaderRowAt(buf, p, Len(buf))
     \/ At(buf, p) = BEL /\ ~ContentAt(buf, BehindCode(buf, p))
                         /\ ~CodeAt(buf, BehindCode(buf, p), Len(buf), {DLE})
     \/ At(buf, p) < SP /\ ~IsLayout(At(buf, p))
          /\ At(buf, p) \notin {US, ENQ, SUB, SOH, STX, BEL, ETB}

WriteUnit(buf, w) ==
  LET b == At(buf, w.pos)
  IN  CASE IsPlain(b)  -> WritePlain(buf, w)
        [] b \in {HT, LF, CR} -> MoveTo(w, w.pos + 1)
        [] b = STX     -> WriteText(buf, w)
        [] b = ETB     -> WritePlain(buf, PutGlyph(w, b))
        [] b = BEL     -> MoveTo(PutGlyph(w, b), BehindCode(buf, w.pos))
        [] OTHER       -> PutGlyph(w, b)

\* write_units; a level breaks the line.
RECURSIVE WriteUnits(_, _)
WriteUnits(buf, w) ==
  IF w.pos = Err THEN Halted
  ELSE IF ~EndsUnits(buf, w.pos) THEN WriteUnits(buf, WriteUnit(buf, w))
  ELSE IF CodeAt(buf, w.pos, Len(buf), {DLE})
  THEN EndLine([PutGlyph(w, DLE) EXCEPT !.stack = Append(@, w.gdepth), !.depth = @ + 1])
  ELSE [w EXCEPT !.fresh = FALSE]

UnitsLine(buf, w) ==
  LET Ended(v) == IF v.fresh THEN v ELSE EndLine(v) IN Ended(WriteUnits(buf, w))

\* write_element, from an SOH, an RS, an ETB or a BEL, whose line has begun.
RECURSIVE WriteElement(_, _)
WriteElement(buf, w) ==
  LET next == BehindCode(buf, w.pos)
      bel  == MoveTo(PutGlyph(w, BEL), next)
  IN  CASE CodeAt(buf, w.pos, Len(buf), {BEL}) ->
             IF next >= Len(buf) THEN [bel EXCEPT !.fresh = FALSE]
             ELSE IF ContentAt(buf, next) THEN EndLine(WriteUnits(buf, bel))
             ELSE WriteElement(buf, bel)
        [] CodeAt(buf, w.pos, Len(buf), {SOH}) ->
             UnitsLine(buf, IF CodeAt(buf, next, Len(buf), {RS})
                            THEN PutGlyph(MoveTo(PutGlyph(w, SOH), next), RS)
                            ELSE MoveTo(PutGlyph(w, SOH), next))
        [] CodeAt(buf, w.pos, Len(buf), {RS})  -> UnitsLine(buf, PutGlyph(w, RS))
        [] CodeAt(buf, w.pos, Len(buf), {ETB}) -> EndLine(WritePlain(buf, PutGlyph(w, ETB)))
        [] OTHER -> EndLine(w)

\* write_inline_level, of the bytes up to end.
RECURSIVE WriteInline(_, _, _)
WriteInline(buf, w, end) ==
  LET b == At(buf, w.pos)
  IN  IF w.pos \in {Err, end} THEN w
      ELSE WriteInline(buf, CASE b = STX    -> WriteText(buf, w)
                              [] IsPlain(b) -> WritePlain(buf, w)
                              [] b \in {HT, LF, CR} -> MoveTo(w, w.pos + 1)
                              [] OTHER      -> PutGlyph(w, b), end)

HeadingValue(buf, w) ==
  LET start == Layout(buf, w.pos, Len(buf))
      end   == Level(buf, start, Len(buf))
  IN  CASE CodeAt(buf, start, Len(buf), {STX}) -> WriteText(buf, MoveTo(w, start))
        [] CodeAt(buf, start, Len(buf), {DLE}) ->
             IF end = Err THEN Halted ELSE WriteInline(buf, MoveTo(w, start), end)
        [] OTHER -> WritePlain(buf, w)

HeadingUnit(buf, key) ==
  IF key.pos # Err /\ CodeAt(buf, key.pos, Len(buf), {US})
  THEN HeadingValue(buf, PutGlyph(key, US)) ELSE key

RECURSIVE WriteHeading(_, _)
WriteHeading(buf, w) ==
  LET next == BehindCode(buf, w.pos)
      note == MoveTo(PutGlyph(w, BEL), next)
      Here(S) == CodeAt(buf, w.pos, Len(buf), S)
      Go(v) == WriteHeading(buf, v)
  IN  IF w.pos = Err THEN Halted
      ELSE CASE Here({SOH}) /\ ~HeaderRowAt(buf, w.pos, Len(buf)) ->
                  Go(HeadingUnit(buf, WritePlain(buf, PutGlyph(w, SOH))))
             [] Here({BEL}) /\ ContentAt(buf, next) ->
                  Go(IF At(buf, next) = STX THEN WriteText(buf, note) ELSE WritePlain(buf, note))
             [] Here({BEL}) /\ CodeAt(buf, next, Len(buf), {SOH}) -> Go(note)
             [] Here({SP, HT, LF, CR}) -> Go(MoveTo(w, w.pos + 1))
             [] OTHER -> w

\* The run of GS at pos, without layout.
GsRun(buf, pos) ==
  CHOOSE p \in pos .. Len(buf) :
    /\ \A q \in pos .. (p - 1) : At(buf, q) = GS
    /\ p < Len(buf) => At(buf, p) # GS

\* " n bytes", the summary of the raw region; the number is left out.
Summary(n) == IF n > 0 THEN <<SP, 98>> ELSE << >>

\* One turn of the loop.
WriteNext(buf, w) ==
  LET b == At(buf, w.pos)
      end == Plain(buf, w.pos, Len(buf))
      marks == GsRun(buf, w.pos)
      line(depth) == NewLine(w, depth)
      outer == [w EXCEPT !.depth = IF @ = 0 THEN 0 ELSE @ - 1,
                         !.gdepth = IF w.stack = << >> THEN 0 ELSE Last(w.stack),
                         !.stack = IF @ = << >> THEN @ ELSE Front(@)]
      canLine == NewLine(outer, outer.depth + outer.gdepth)
  IN  CASE IsLayout(b) -> MoveTo(w, w.pos + 1)
        [] IsPlain(b) /\ ~IsLayout(b) ->
             [MoveTo(WriteData(w, Slice(buf, w.pos, end)), end) EXCEPT !.fresh = FALSE]
        [] b = SYN ->
             [EndLine(WriteHeading(buf, PutGlyph(line(0), SYN))) EXCEPT !.gdepth = 0]
        [] b = FS ->
             [EndLine(WritePlain(buf, PutGlyph(line(w.depth), FS))) EXCEPT !.gdepth = 1]
        [] b = GS ->
             [EndLine(WritePlain(buf, MoveTo(PutChars(line(w.depth),
                                                   [i \in 1 .. (marks - w.pos) |-> Glyph(GS)]),
                                          marks))) EXCEPT !.gdepth = 1]
        [] b \in {SOH, RS, BEL, ETB} -> WriteElement(buf, line(w.depth + w.gdepth))
        [] b = CAN -> UnitsLine(buf, PutGlyph(canLine, CAN))
        [] b = EOT -> EndLine(PutGlyph(line(0), EOT))
        [] b = EM  ->
             MoveTo(EndLine(PutChars(PutGlyph(line(0), EM), Summary(Len(buf) - w.pos - 1))), Len(buf))
        [] b \in {STX, DLE, ENQ, US, SUB} -> EndLine(WriteUnits(buf, w))
        [] OTHER -> Halted

RECURSIVE WriteFrom(_, _)
WriteFrom(buf, w) ==
  CASE w.pos = Err      -> Halted
    [] w.pos = Len(buf) -> IF w.fresh THEN w ELSE EndLine(w)
    [] OTHER            -> WriteFrom(buf, WriteNext(buf, w))

\* The string, or NotFormatted.
NotFormatted == <<Err>>

FormatCompact(buf) ==
  LET Written(w) == IF w.pos = Err THEN NotFormatted ELSE w.out
  IN  Written(WriteFrom(buf, NewWriter))

-----------------------------------------------------------------------------
(***************************************************************************)
(* parse and parse_text: a walk over the characters.  The place is "data", *)
(* "text", behind a DLE in a text, or in the summary of a raw region.      *)
(***************************************************************************)
NewParser == [place |-> "data", after |-> TRUE, pending |-> << >>, out |-> << >>]

\* Wrong: an escaped ETX ends the text.
ParseInText_noEscape(p, ch) ==
  IF ~IsGlyph(ch) THEN [p EXCEPT !.place = "text", !.out = Append(@, ch)]
  ELSE [p EXCEPT !.out = Append(@, ch - Pictures),
                 !.place = IF ch = Glyph(ETX) THEN "data" ELSE "text"]

ParseInText(p, ch) ==
  IF ~IsGlyph(ch) THEN [p EXCEPT !.place = "text", !.out = Append(@, ch)]
  ELSE [p EXCEPT !.out = Append(@, ch - Pictures),
                 !.place = CASE p.place = "escaped" -> "text"
                             [] p.place = "text" /\ ch = Glyph(DLE) -> "escaped"
                             [] p.place = "text" /\ ch = Glyph(ETX) -> "data"
                             [] OTHER -> "text"]

ParseInData(p, ch) ==
  CASE IsGlyph(ch) ->
         [place |-> CASE ch = Glyph(STX) -> "text" [] ch = Glyph(EM) -> "summary" [] OTHER -> "data",
          after |-> TRUE, pending |-> << >>, out |-> Append(p.out, ch - Pictures)]
    [] ch \in {LF, CR} -> [p EXCEPT !.pending = << >>, !.after = TRUE]
    [] ch \in {SP, HT} -> [p EXCEPT !.pending = IF p.after THEN @ ELSE Append(@, ch)]
    [] OTHER -> [p EXCEPT !.out = @ \o Append(p.pending, ch), !.pending = << >>, !.after = FALSE]

ParseChar(p, ch) ==
  CASE p.place \in {"text", "escaped"} -> ParseInText(p, ch)
    [] p.place = "summary" /\ ch # LF -> p
    [] OTHER -> ParseInData([p EXCEPT !.place = "data"], ch)

PrettyParse(chars) == Walk(ParseChar, NewParser, chars).out

=============================================================================
