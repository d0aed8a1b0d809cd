----------------------------- MODULE PrettyAlign -----------------------------
(***************************************************************************)
(* align (src/src/pretty.rs): the columns of table rows and of keyed       *)
(* records.  It works on the lines of a pretty form, and a text that holds *)
(* a line feed is on several.                                              *)
(***************************************************************************)
EXTENDS PrettyForm

Sp(mode) == IF mode = "spaced" THEN <<SP>> ELSE << >>

\* str::trim and trim_start
TrimStart(chars) ==
  LET data == {i \in DOMAIN chars : ~IsSpace(chars[i])}
  IN  IF data = {} THEN << >> ELSE SubSeq(chars, Min(data), Len(chars))

TrimChars(chars) == Reverse(TrimStart(Reverse(TrimStart(chars))))

\* split('\n'), without the empty line at the end.
Lines(chars) ==
  LET feeds == SelectSeq([i \in DOMAIN chars |-> i], LAMBDA i : chars[i] = LF)
      cuts == <<0>> \o Append(feeds, Len(chars) + 1)
      lines == [i \in 1 .. (Len(cuts) - 1) |-> SubSeq(chars, cuts[i] + 1, cuts[i + 1] - 1)]
  IN  IF Last(lines) = << >> THEN Front(lines) ELSE lines

\* The spaces and tabs a line begins with.
Blanks(line) ==
  LET data == {i \in DOMAIN line : line[i] \notin {SP, HT}}
  IN  IF data = {} THEN Len(line) ELSE Min(data) - 1

GlyphAt(line, i, codes) == i \in DOMAIN line /\ line[i] \in {Glyph(c) : c \in codes}

-----------------------------------------------------------------------------
(* parse_table_line *)

NoRow == [fields |-> << >>]

\* The walk over the units: those behind it, the one it is in.
RowWalk == [fields |-> << >>, seps |-> << >>, field |-> << >>, place |-> "data"]

NextField(row, sep, field) ==
  [row EXCEPT !.fields = Append(@, TrimChars(row.field)), !.seps = Append(@, sep), !.field = field]

\* Wrong: an escaped character ends the text it is in.
RowChar_noEscape(row, ch, cut) ==
  LET on == [row EXCEPT !.field = Append(@, ch)]
      In(chars) == ch \in {Glyph(c) : c \in chars}
  IN  CASE row.place = "text" -> [on EXCEPT !.place = IF In({ETX}) THEN "data" ELSE @]
        [] row.place = "level" -> row
        [] OTHER ->
             CASE In({STX})      -> [on EXCEPT !.place = "text"]
               [] In({DLE, CAN}) -> [row EXCEPT !.place = "level"]
               [] In({US})       -> NextField(row, TRUE, << >>)
               [] cut            -> NextField(row, FALSE, <<ch>>)
               [] OTHER          -> on

\* A character of a row; cut: it starts an entry of a keyed record.
RowChar(row, ch, cut) ==
  LET on == [row EXCEPT !.field = Append(@, ch)]
      In(chars) == ch \in {Glyph(c) : c \in chars}
  IN  CASE row.place = "escaped" -> [on EXCEPT !.place = "text"]
        [] row.place = "text" ->
             [on EXCEPT !.place = IF In({ETX}) THEN "data" ELSE IF In({DLE}) THEN "escaped" ELSE @]
        [] row.place = "level" -> row
        [] OTHER ->
             CASE In({STX})      -> [on EXCEPT !.place = "text"]
               [] In({DLE, CAN}) -> [row EXCEPT !.place = "level"]
               [] In({US})       -> NextField(row, TRUE, << >>)
               [] cut            -> NextField(row, FALSE, <<ch>>)
               [] OTHER          -> on

\* Behind the prefix, which ends before from.
RowUnits(line, from) ==
  LET keyed == GlyphAt(line, from, {SOH})
      cut(i) == keyed /\ i > from /\ GlyphAt(line, i, {SOH})
      ends(row) ==
        IF row.place # "data" THEN NoRow
        ELSE [prefix |-> SubSeq(line, 1, from - 1),
              fields |-> Append(row.fields, TrimChars(row.field)), seps |-> row.seps]
      units == [i \in 1 .. (Len(line) + 1 - from) |-> from + i - 1]
  IN  ends(Walk(LAMBDA row, i : RowChar(row, line[i], cut(i)), RowWalk, units))

TableLine(line) ==
  LET first == Blanks(line) + 1
      row(from) == IF Len(RowUnits(line, from).fields) < 2 THEN NoRow ELSE RowUnits(line, from)
  IN  CASE GlyphAt(line, first, {RS}) -> row(first + 1)
        [] GlyphAt(line, first, {SOH}) /\ GlyphAt(line, first + 1, {RS}) -> row(first + 2)
        [] OTHER -> NoRow

\* find_table_groups: the rows that no other line parts from i.
GroupOf(rows, i) ==
  {j \in DOMAIN rows : \A k \in DOMAIN rows :
     (k \in i .. j \/ k \in j .. i) => rows[k] # NoRow}

-----------------------------------------------------------------------------
(* align *)

Spaces(n) == [i \in 1 .. n |-> SP]

\* The width of column c of the rows around row i.
Width(rows, i, c) ==
  Max({Len(rows[j].fields[c]) : j \in {j \in GroupOf(rows, i) : c \in DOMAIN rows[j].fields}})

\* A row written again: each field padded to the width of its column.
AlignedRow(rows, i, mode) ==
  LET row == rows[i]
      n == Len(row.fields)
      sep(c) == IF row.seps[c] THEN Sp(mode) \o <<Glyph(US)>> \o Sp(mode) ELSE <<SP>>
      padded(c) == row.fields[c] \o
                   (IF c = n THEN << >>
                    ELSE Spaces(Width(rows, i, c) - Len(row.fields[c])) \o sep(c))
  IN  row.prefix \o Sp(mode) \o FlattenSeq([c \in 1 .. n |-> padded(c)])

\* The codes that a line may begin with.
PrefixCodes == {FS, GS, RS, SOH, US, SYN, BEL}

\* A line that is no row: one space behind its prefix, or none.
PrefixedLine(line, mode) ==
  LET ws == Blanks(line)
      end == CHOOSE p \in ws .. Len(line) :
               /\ \A q \in (ws + 1) .. p : GlyphAt(line, q, PrefixCodes)
               /\ ~GlyphAt(line, p + 1, PrefixCodes)
  IN  IF TrimChars(line) = << >> \/ end = ws \/ end = Len(line) THEN line
      ELSE SubSeq(line, 1, end) \o Sp(mode) \o TrimStart(SubSeq(line, end + 1, Len(line)))

AlignedLine(lines, rows, i, mode) ==
  IF rows[i] # NoRow THEN AlignedRow(rows, i, mode) ELSE PrefixedLine(lines[i], mode)

JoinedLines(lines, rows, mode) ==
  IF lines = << >> THEN <<LF>>
  ELSE FlattenSeq([i \in DOMAIN lines |-> Append(AlignedLine(lines, rows, i, mode), LF)])

AlignLines(lines, mode) == JoinedLines(lines, [i \in DOMAIN lines |-> TableLine(lines[i])], mode)

Align(chars, mode) == AlignLines(Lines(chars), mode)

=============================================================================
