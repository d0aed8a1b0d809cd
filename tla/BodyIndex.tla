------------------------------ MODULE BodyIndex ------------------------------
(***************************************************************************)
(* Body, FileView, Group, Record and Reference (src/src/body.rs): the      *)
(* index of a body and what its records are read as.  A record is its raw  *)
(* bytes after the RS; an index is where it stopped and what it found.     *)
(***************************************************************************)
EXTENDS Values

NoIndex == [pos |-> Err]

Group(depth, name) ==
  [depth |-> depth, name |-> name, header |-> << >>, records |-> << >>]

File(name) == [name |-> name, groups |-> << >>]

HasContent(group) == group.header # << >> \/ group.records # << >>

\* buf[s..e] without the layout at its end.
TrimEnd(buf, s, e) ==
  Slice(buf, s, CHOOSE p \in s .. e :
                  /\ \A q \in p .. (e - 1) : IsLayout(At(buf, q))
                  /\ p > s => ~IsLayout(At(buf, p - 1)))

\* A BEL at p before one of the codes of S.
DeadAt(buf, p, stop, S) ==
  CodeAt(buf, p, stop, {BEL}) /\ CodeAt(buf, Layout(buf, p + 1, stop), stop, S)

-----------------------------------------------------------------------------
(* index_group_contents: notes, a header row, records, commits.  first says *)
(* whether a header row may still come.                                    *)

RECURSIVE GroupContents(_, _, _, _, _)
GroupContents(buf, from, stop, group, first) ==
  LET pos  == Layout(buf, from, stop)
      next == Layout(buf, pos + 1, stop)
      Go(end, g, f) == IF end = Err THEN NoIndex ELSE GroupContents(buf, end, stop, g, f)
      Record(s, e) == Go(e, [group EXCEPT !.records = Append(@, TrimEnd(buf, s, e))], FALSE)
      HeaderRow(s, e) == Go(e, [group EXCEPT !.header = <<TrimEnd(buf, s, e)>>], FALSE)
  IN  CASE CodeAt(buf, pos, stop, {RS}) -> Record(pos + 1, RecordEnd(buf, pos + 1, stop))
        [] CodeAt(buf, pos, stop, {SOH}) ->
             IF HeaderRowAt(buf, pos, stop) /\ first
             THEN HeaderRow(next + 1, RecordEnd(buf, next + 1, stop)) ELSE NoIndex
        [] CodeAt(buf, pos, stop, {ETB}) -> Go(Plain(buf, next, stop), group, first)
        [] CodeAt(buf, pos, stop, {BEL})
             /\ (next < stop => IsPlain(At(buf, next)) \/ At(buf, next) \in {STX, RS, SOH}) ->
             Go(Comment(buf, pos, stop), group, first /\ ~CodeAt(buf, next, stop, {RS}))
        [] OTHER -> [pos |-> pos, group |-> group]

(***************************************************************************)
(* What stands before the first group line of a part, or behind a dead     *)
(* group or file line: it goes to the file's last group, or else to an     *)
(* unnamed one, which is kept when it has content.                         *)
(***************************************************************************)
Led(file, index) ==
  LET groups == IF file.groups # << >> THEN Append(Front(file.groups), index.group)
                ELSE IF HasContent(index.group) THEN <<index.group>> ELSE << >>
  IN  IF index.pos = Err THEN NoIndex
      ELSE [pos |-> index.pos, file |-> [file EXCEPT !.groups = groups]]

Leading(buf, pos, stop, file) ==
  LET group == IF file.groups = << >> THEN Group(0, << >>) ELSE Last(file.groups)
  IN  Led(file, GroupContents(buf, pos, stop, group, TRUE))

WithGroup(file, index) ==
  IF index.pos = Err THEN NoIndex
  ELSE [pos |-> index.pos, file |-> [file EXCEPT !.groups = Append(@, index.group)]]

RECURSIVE GroupLines(_, _, _)
GroupLines(buf, stop, part) ==
  LET pos  == part.pos
      dead == DeadAt(buf, pos, stop, {GS})
      marks == IF dead THEN Layout(buf, pos + 1, stop) ELSE pos
      name == GroupMarks(buf, marks, stop)
      end  == Plain(buf, name, stop)
      depth == Cardinality({p \in marks .. (name - 1) : At(buf, p) = GS})
      group == Group(depth, Trim(Slice(buf, name, end)))
  IN  IF pos = Err \/ ~(dead \/ CodeAt(buf, pos, stop, {GS})) THEN part
      ELSE GroupLines(buf, stop,
             IF dead THEN Leading(buf, end, stop, part.file)
             ELSE WithGroup(part.file, GroupContents(buf, end, stop, group, TRUE)))

\* index_part
Part(buf, pos, stop, file) == GroupLines(buf, stop, Leading(buf, pos, stop, file))

WithFile(files, part) ==
  IF part.pos = Err THEN NoIndex ELSE [pos |-> part.pos, files |-> Append(files, part.file)]

\* Body::index from a file line on.
RECURSIVE FileLines(_, _, _)
FileLines(buf, stop, body) ==
  LET pos  == body.pos
      dead == DeadAt(buf, pos, stop, {FS})
      name == Layout(buf, (IF dead THEN Layout(buf, pos + 1, stop) ELSE pos) + 1, stop)
      end  == Plain(buf, name, stop)
      before == IF body.files = << >> THEN <<File(<< >>)>> ELSE body.files
      file == IF dead THEN Last(before) ELSE File(Trim(Slice(buf, name, end)))
  IN  IF pos = Err \/ ~(dead \/ CodeAt(buf, pos, stop, {FS})) THEN body
      ELSE FileLines(buf, stop, WithFile(IF dead THEN Front(before) ELSE body.files,
                                         Part(buf, end, stop, file)))

\* The leading file without a name, which a file line behind it replaces when
\* it has no groups.
LeadingFile(buf, stop, part) ==
  LET fs == CodeAt(buf, part.pos, stop, {FS}) \/ DeadAt(buf, part.pos, stop, {FS})
  IN  IF part.pos = Err THEN NoIndex
      ELSE [pos |-> part.pos,
            files |-> IF part.file.groups = << >> /\ fs THEN << >> ELSE <<part.file>>]

SomeFile(body) ==
  IF body.pos = Err THEN NoIndex
  ELSE [body EXCEPT !.files = IF @ = << >> THEN <<File(<< >>)>> ELSE @]

\* Body::slice
Index(buf, start, stop) ==
  SomeFile(FileLines(buf, stop,
             LeadingFile(buf, stop, Part(buf, Layout(buf, start, stop), stop, File(<< >>)))))

-----------------------------------------------------------------------------
(* Records. *)

\* keyed: the first unit behind the notes, live or dead, is an SOH.
Keyed(raw) ==
  LET len == Len(raw)
      from[p \in 0 .. len] ==
        LET q == Layout(raw, p + 1, len)
        IN  IF ~CodeAt(raw, p, len, {BEL}) THEN CodeAt(raw, p, len, {SOH})
            ELSE IF CodeAt(raw, q, len, {SOH}) THEN TRUE
            ELSE IF q < len /\ ~IsPlain(At(raw, q)) /\ At(raw, q) \notin {STX, DLE} THEN FALSE
            ELSE \E e \in {Comment(raw, p, len)} \ {Err} : from[Layout(raw, e, len)]
  IN  from[Layout(raw, 0, len)]

\* unit_ranges: the raw units of a positional record.
UnitStop(raw, s) ==
  LET len == Len(raw)
      Stop(u) == IF u = Err THEN len ELSE u
  IN  Stop(Unit(raw, IF s = 0 THEN Layout(raw, 0, len) ELSE s, len))

Units(raw) ==
  LET from[s \in 0 .. Len(raw)] ==
        LET Cut(e) == <<Slice(raw, s, e)>> \o
                      IF CodeAt(raw, e, Len(raw), {US}) THEN from[e + 1] ELSE << >>
        IN  Cut(UnitStop(raw, s))
  IN  IF Keyed(raw) THEN << >> ELSE from[0]

NoEntries == <<NoValue>>

\* keyed_ranges: the live keys and their raw units.
Entries(raw) ==
  LET len == Len(raw)
      from[p \in 0 .. len] ==
        LET ks == Layout(raw, p + 1, len)
            ke == Plain(raw, ks, len)
            And(entry, more) == IF more = NoEntries THEN NoEntries ELSE <<entry>> \o more
            Entry(ve) ==
              IF ve = Err THEN NoEntries
              ELSE And(<<Trim(Slice(raw, ks, ke)), Slice(raw, ke + 1, ve)>>, from[ve])
            Behind(note) == IF note = Err THEN NoEntries ELSE from[note]
        IN  CASE CodeAt(raw, p, len, {SOH}) ->
                   IF CodeAt(raw, ke, len, {US}) THEN Entry(Unit(raw, ke + 1, len)) ELSE NoEntries
              [] CodeAt(raw, p, len, {BEL}) -> Behind(Comment(raw, p, len))
              [] p < len /\ IsLayout(At(raw, p)) -> from[p + 1]
              [] OTHER -> << >>
  IN  from[Layout(raw, 0, len)]

\* The segments of a path, which US separates.
Segments(inside) ==
  LET cuts == {0, Len(inside) + 1} \cup {i \in DOMAIN inside : inside[i] = US}
      cut == SetToSortSeq(cuts, LAMBDA x, y : x < y)
  IN  [i \in 1 .. (Len(cut) - 1) |-> SubSeq(inside, cut[i] + 1, cut[i + 1] - 1)]

IsPath(segments) ==
  Len(segments) <= 3 /\ \A i \in DOMAIN segments : segments[i] # << >> /\ IsName(segments[i])

NoPath == << >>

\* Reference::parse
Reference(raw) ==
  LET t == Trim(raw)
      p == Layout(t, 1, Len(t))
      end == Text(t, p, Len(t))
      path == Segments(TextValue(t, p, end))
      name == Trim(Slice(t, p, Len(t)))
  IN  IF CodeAt(t, p, Len(t), {STX})
      THEN IF end # Err /\ IsPath(path) THEN path ELSE NoPath
      ELSE IF name # << >> THEN <<name>> ELSE NoPath

(***************************************************************************)
(* What a body says: each unit is a value, a reference or the body of a    *)
(* level, or cannot be read.  The last field says whether the index got to *)
(* the end of the body; it may stop before it without an error.            *)
(***************************************************************************)
Unreadable == <<"unreadable">>

Readable(kind, meaning, none) == IF meaning = none THEN Unreadable ELSE <<kind, meaning>>

RECURSIVE Read(_, _, _), ReadLevel(_, _)

ReadLevel(t, end) == IF end = Err THEN Unreadable ELSE <<"level", Read(t, 1, end - 1)>>

ReadUnit(raw) ==
  CASE StartsWith(raw, DLE) -> ReadLevel(Trim(raw), Level(Trim(raw), 0, Len(Trim(raw))))
    [] StartsWith(raw, ENQ) -> Readable("ref", Reference(raw), NoPath)
    [] OTHER                -> Readable("value", Value(raw), NoValue)

ReadPairs(entries) ==
  IF entries = NoEntries THEN Unreadable
  ELSE <<"keyed", [i \in DOMAIN entries |-> <<entries[i][1], ReadUnit(entries[i][2])>>]>>

ReadUnits(units) == <<"positional", [i \in DOMAIN units |-> ReadUnit(units[i])]>>

ReadRecord(raw) == IF Keyed(raw) THEN ReadPairs(Entries(raw)) ELSE ReadUnits(Units(raw))

NamesOf(units) == [i \in DOMAIN units |-> Trim(units[i])]

ReadGroup(group) ==
  [group EXCEPT !.header  = [i \in DOMAIN @ |-> NamesOf(Units(@[i]))],
                !.records = [i \in DOMAIN @ |-> ReadRecord(@[i])]]

ReadFile(file) == [file EXCEPT !.groups = [i \in DOMAIN @ |-> ReadGroup(@[i])]]

ReadFiles(index, stop) ==
  IF index.pos = Err THEN Unreadable
  ELSE <<"body", [i \in DOMAIN index.files |-> ReadFile(index.files[i])], index.pos = stop>>

Read(buf, start, stop) == ReadFiles(Index(buf, start, stop), stop)

=============================================================================
