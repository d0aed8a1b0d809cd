------------------------------- MODULE Builder -------------------------------
(***************************************************************************)
(* The composed methods of Builder (src/src/builder.rs) as functions on    *)
(* the builder's state, and the primitives they are made of.  A name with  *)
(* a control code panics; every name given here is one (IsName).           *)
(***************************************************************************)
EXTENDS Values

NewBuilder == [buf |-> << >>, in_record |-> FALSE, units |-> 0, stack |-> << >>]

Push(b, bytes) == [b EXCEPT !.buf = @ \o bytes]

-----------------------------------------------------------------------------
(* Internals. *)

EndRecord(b) == [b EXCEPT !.in_record = FALSE, !.units = 0]

FirstValue(b, v) == [Push(b, WriteValue(v)) EXCEPT !.units = 1]

-----------------------------------------------------------------------------
(* Primitives: one per code, bare or with what follows it. *)

Fs(b, name)     == Push(EndRecord(b), <<FS>> \o name)
Gs(b, name)     == Push(EndRecord(b), <<GS>> \o name)
Rs(b)           == [Push(b, <<RS>>) EXCEPT !.in_record = TRUE, !.units = 0]
Us(b, v)        == [Push(b, <<US>> \o WriteValue(v)) EXCEPT !.units = @ + 1]
Soh(b, name)    == Push(b, <<SOH>> \o name)
Enq(b, name)    == Push(b, <<ENQ>> \o name)
BelNote(b, v)   == Push(b, <<BEL>> \o WriteValue(v))

Dle(b) ==
  [Push(b, <<DLE>>) EXCEPT !.in_record = FALSE, !.units = 0,
                           !.stack = Append(@, <<b.in_record, b.units>>)]

\* Wrong: the first value of a record after a level gets no US.
Can_noUnits(b) ==
  [Push(b, <<CAN>>) EXCEPT !.in_record = Last(b.stack)[1], !.units = 0, !.stack = Front(@)]

Can(b) ==
  [Push(b, <<CAN>>) EXCEPT !.in_record = Last(b.stack)[1],
                           !.units = Last(b.stack)[2],
                           !.stack = Front(@)]

EnqPath(b, path) ==
  IF Len(path) = 1 THEN Enq(b, path[1])
  ELSE Push(b, <<ENQ, STX>> \o path[1]
                 \o FlattenSeq([i \in 1 .. (Len(path) - 1) |-> <<US>> \o path[i + 1]])
                 \o <<ETX>>)

\* next_unit: RS or US, as the record needs.
NextUnit(b) ==
  LET at == IF ~b.in_record THEN Rs(b) ELSE IF b.units > 0 THEN Push(b, <<US>>) ELSE b
  IN  [at EXCEPT !.units = @ + 1]

Syn(b)              == Push(EndRecord(b), <<SYN>>)
Eot(b)              == Push(EndRecord(b), <<EOT>>)
Etb(b)              == Push(EndRecord(b), <<ETB>>)
EtbPayload(b, name) == Push(Etb(b), name)

-----------------------------------------------------------------------------
(* Composed methods. *)

\* heading
HeadingEntry(b, name, v) == Us(Soh(EndRecord(b), name), v)

Header(b, names) ==
  LET row == Rs(Soh(EndRecord(b), << >>))
  IN  EndRecord(FoldLeft(LAMBDA c, name : IF c.units = 0 THEN FirstValue(c, name) ELSE Us(c, name),
                         row, names))

\* GS depth times, a name and a header row when there is one (<<names>>).
GroupAt(b, name, header, depth) ==
  LET line == Gs(Push(EndRecord(b), [i \in 1 .. (depth - 1) |-> GS]), name)
  IN  IF header = << >> THEN line ELSE Header(line, header[1])

Field(b, v) ==
  IF ~b.in_record THEN FirstValue(Rs(b), v)
  ELSE IF b.units = 0 THEN FirstValue(b, v) ELSE Us(b, v)

InRecord(b) == IF b.in_record THEN b ELSE Rs(b)

Key(b, name, v) == Us(Soh(InRecord(b), name), v)

\* key_level up to its f; Can(b) follows.
OpenKeyLevel(b, name) == Dle(Us(Soh(InRecord(b), name), << >>))

\* level, up to its f.
OpenLevel(b) == Dle(NextUnit(b))

PositionalRecord(b, values) == FoldLeft(Field, Rs(b), values)

KeyedRecord(b, pairs) == FoldLeft(LAMBDA c, pair : Key(c, pair[1], pair[2]), Rs(b), pairs)

List(b, values) ==
  LET level == OpenLevel(b)
  IN  Can(IF values = << >> THEN level ELSE PositionalRecord(level, values))

ReferencePath(b, path) == EnqPath(NextUnit(b), path)

Note(b, v) == BelNote(b, v)

-----------------------------------------------------------------------------
(* StreamWriter's calls (src/src/stream.rs): what commit_bytes gives. *)

Bytes(b) == Etb(b).buf

RecordBytes(row)  == Bytes(PositionalRecord(NewBuilder, row))
MapBytes(pairs)   == Bytes(KeyedRecord(NewBuilder, pairs))
HeaderBytes(names) == Bytes(Header(NewBuilder, names))
GroupBytes(name, header) == Bytes(GroupAt(NewBuilder, name, header, 1))
StartBytes(pairs) ==
  Bytes(FoldLeft(LAMBDA b, pair : HeadingEntry(b, pair[1], pair[2]), Syn(NewBuilder), pairs))

=============================================================================
