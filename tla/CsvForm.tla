------------------------------- MODULE CsvForm -------------------------------
(***************************************************************************)
(* CSV texts to and from C0DATA (src/src/csv.rs).  A character is its      *)
(* byte, as Byte in C0Bytes; a table is a sequence of rows of fields.      *)
(***************************************************************************)
EXTENDS DocumentReader, Builder

Quote == 34
Comma == 44
Slash == 47

-----------------------------------------------------------------------------
(* parse_csv *)

NewTable == [rows |-> << >>, row |-> << >>, field |-> << >>, quoted |-> FALSE, started |-> FALSE]

EndField(t) == [t EXCEPT !.row = Append(@, t.field), !.field = << >>]

EndRow(t) == [t EXCEPT !.rows = Append(@, Append(t.row, t.field)),
                       !.row = << >>, !.field = << >>, !.started = FALSE]

PutField(t, ch) == [t EXCEPT !.field = Append(@, ch)]

Unquoted(t, ch) ==
  CASE ch = Quote -> [t EXCEPT !.quoted = TRUE]
    [] ch = Comma -> EndField(t)
    [] ch = LF    -> EndRow(t)
    [] ch = CR    -> t
    [] OTHER      -> PutField(t, ch)

\* A quote at i with another behind it.
CsvDoubled(text, i) == i < Len(text) /\ text[i] = Quote /\ text[i + 1] = Quote

RECURSIVE CsvFrom(_, _, _)
CsvFrom(text, i, table) ==
  LET t == [table EXCEPT !.started = TRUE]
  IN  CASE i > Len(text) -> table
        [] i <= Len(text) /\ ~t.quoted -> CsvFrom(text, i + 1, Unquoted(t, text[i]))
        [] i <= Len(text) /\ t.quoted /\ CsvDoubled(text, i) ->
             CsvFrom(text, i + 2, PutField(t, Quote))
        [] OTHER ->
             CsvFrom(text, i + 1, IF text[i] = Quote THEN [t EXCEPT !.quoted = FALSE]
                                  ELSE PutField(t, text[i]))

LastRow(t) ==
  IF t.started \/ t.field # << >> \/ t.row # << >> THEN EndRow(t).rows ELSE t.rows

ParseCsv(text) == LastRow(CsvFrom(text, 1, NewTable))

-----------------------------------------------------------------------------
(* from_csv *)

\* header panics on what is no name.
CsvPanics(table) == table # << >> /\ \E i \in DOMAIN table[1] : ~IsName(table[1][i])

FromCsv(table, name) ==
  IF table = << >> THEN << >>
  ELSE FoldLeft(PositionalRecord, GroupAt(NewBuilder, name, <<table[1]>>, 1), Tail(table)).buf

-----------------------------------------------------------------------------
(* to_csv_group *)

NoCsv == <<Err>>

\* Wrong: a line feed is not quoted.
CsvQuote_notLf(field) ==
  IF Range(field) \cap {Comma, Quote, CR} = {} THEN field
  ELSE <<Quote>>
       \o FlattenSeq([i \in DOMAIN field |->
            IF field[i] = Quote THEN <<Quote, Quote>> ELSE <<field[i]>>])
       \o <<Quote>>

CsvQuote(field) ==
  IF Range(field) \cap {Comma, Quote, LF, CR} = {} THEN field
  ELSE <<Quote>>
       \o FlattenSeq([i \in DOMAIN field |->
            IF field[i] = Quote THEN <<Quote, Quote>> ELSE <<field[i]>>])
       \o <<Quote>>

Joined(parts, by) ==
  FlattenSeq([i \in DOMAIN parts |-> IF i = 1 THEN parts[i] ELSE <<by>> \o parts[i]])

CsvRow(fields) == Joined([i \in DOMAIN fields |-> CsvQuote(fields[i])], Comma) \o <<LF>>

\* The fields of a record; a keyed one has none, and a level or what cannot
\* be read has no CSV form.
CsvFields(record) ==
  CASE record[1] # "positional" -> << >>
    [] OTHER -> [i \in DOMAIN record[2] |->
                   CASE record[2][i][1] = "value" -> record[2][i][2]
                     [] record[2][i][1] = "ref"   -> Joined(record[2][i][2], Slash)
                     [] OTHER                     -> NoCsv]

CsvRows(header, rows) ==
  IF \E i \in DOMAIN rows : NoCsv \in Range(rows[i]) THEN NoCsv
  ELSE FlattenSeq([i \in DOMAIN header |-> CsvRow(header[i])])
       \o FlattenSeq([i \in DOMAIN rows |-> CsvRow(rows[i])])

CsvOfGroup(g) == CsvRows(g.header, [i \in DOMAIN g.records |-> CsvFields(g.records[i])])

\* The first group, or the first of the name that is given (<<name>>).
ToCsv(doc, named) ==
  LET found == IF doc = NoDocument THEN << >>
               ELSE SelectSeq(GroupsOf(doc), LAMBDA g : named = << >> \/ g.name = named[1])
  IN  IF found = << >> THEN NoCsv ELSE CsvOfGroup(Head(found))

=============================================================================
