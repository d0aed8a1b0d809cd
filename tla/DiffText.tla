------------------------------- MODULE DiffText -------------------------------
(***************************************************************************)
(* diff::parse and the methods of DiffBuilder and SectionBuilder           *)
(* (src/src/diff.rs): the bytes of a diff and the edits that they say.     *)
(*                                                                         *)
(* A file's edit is [path, leading, sections], a section [units, replaces],*)
(* a unit [old, new], whose new is << >> for an anchor and else <<value>>. *)
(***************************************************************************)
EXTENDS DocumentReader, Builder

NoPart == [pos |-> Err]

\* read_dvalue: a plain value, a text, or nothing.
DValue(buf, from) ==
  LET len == Len(buf)
      pos == Layout(buf, from, len)
      text == Text(buf, pos, len)
      plain == Plain(buf, pos, len)
  IN  CASE CodeAt(buf, pos, len, {STX}) ->
             IF text = Err THEN NoPart
             ELSE [pos |-> Layout(buf, text, len), value |-> TextValue(buf, pos, text)]
        [] OTHER -> [pos |-> plain, value |-> Trim(Slice(buf, pos, plain))]

\* The notes behind a unit.
RECURSIVE NotesEnd(_, _)
NotesEnd(buf, pos) ==
  LET len == Len(buf)
      next == Layout(buf, pos + 1, len)
      end == Comment(buf, pos, len)
  IN  IF pos = Err \/ ~CodeAt(buf, pos, len, {BEL})
           \/ ~(next < len /\ (IsPlain(At(buf, next)) \/ At(buf, next) = STX))
      THEN pos
      ELSE IF end = Err THEN Err ELSE NotesEnd(buf, Layout(buf, end, len))

SubAt(buf, part) == part.pos # Err /\ CodeAt(buf, part.pos, Len(buf), {SUB})

\* The part behind a SUB, or nothing.
NewPart(buf, old) == IF SubAt(buf, old) THEN DValue(buf, old.pos + 1) ELSE old

\* parse_pattern
RECURSIVE PatternFrom(_, _, _)
PatternFrom(buf, from, units) ==
  LET Behind(old, new) ==
        LET end == NotesEnd(buf, new.pos)
            unit == [old |-> old.value, new |-> IF SubAt(buf, old) THEN <<new.value>> ELSE << >>]
        IN  IF Err \in {old.pos, new.pos} \/ end = Err THEN NoPart
            ELSE IF CodeAt(buf, end, Len(buf), {US})
            THEN PatternFrom(buf, end + 1, Append(units, unit))
            ELSE [pos |-> end, units |-> Append(units, unit)]
      Old(old) == Behind(old, NewPart(buf, old))
  IN  Old(DValue(buf, from))

-----------------------------------------------------------------------------
(* parse: where it is, the files behind it, the one it is in, the error. *)

NewDiff == [pos |-> 0, files |-> << >>, edit |-> << >>, error |-> "none"]

FileEdit(path) == [path |-> path, leading |-> << >>, sections |-> << >>]

Wrong(d, why) == [d EXCEPT !.error = why]

Past(d, pos) == IF pos = Err THEN Wrong(d, "Syntax") ELSE [d EXCEPT !.pos = pos]

\* flush
Flushed(d) == [d EXCEPT !.files = @ \o d.edit, !.edit = << >>]

\* Wrong: a dead file line ends the file before it.
DiffFile_deadEnds(buf, d, from, dead) ==
  LET start == Layout(buf, from, Len(buf))
      end == Plain(buf, start, Len(buf))
      path == Trim(Slice(buf, start, end))
      named(f) == [Past(f, end) EXCEPT !.edit = IF dead THEN << >> ELSE <<FileEdit(path)>>]
  IN  CASE CodeAt(buf, start, Len(buf), {STX}) -> Wrong(d, "TextPath")
        [] OTHER -> IF \E i \in DOMAIN Flushed(d).files : Flushed(d).files[i].path = path
                    THEN Wrong(d, "DuplicatePath") ELSE named(Flushed(d))

\* The file line from behind its FS.
DiffFile(buf, d, from, dead) ==
  LET start == Layout(buf, from, Len(buf))
      end == Plain(buf, start, Len(buf))
      path == Trim(Slice(buf, start, end))
      named(f) == [Past(f, end) EXCEPT !.edit = <<FileEdit(path)>>]
  IN  CASE CodeAt(buf, start, Len(buf), {STX}) -> Wrong(d, "TextPath")
        [] dead /\ ~CodeAt(buf, start, Len(buf), {STX}) -> Past(d, end)
        [] OTHER -> IF \E i \in DOMAIN Flushed(d).files : Flushed(d).files[i].path = path
                    THEN Wrong(d, "DuplicatePath") ELSE named(Flushed(d))

\* A section, from behind its GS.
DiffSection(d, pattern, dead) ==
  CASE d.edit = << >> -> Wrong(d, "BeforeAnyFile")
    [] d.edit # << >> /\ pattern.pos = Err -> Wrong(d, "Syntax")
    [] OTHER ->
         IF dead THEN Past(d, pattern.pos)
         ELSE [Past(d, pattern.pos) EXCEPT
                !.edit[1].sections = Append(@, [units |-> pattern.units, replaces |-> << >>])]

\* It goes to the last section, or before the first.
WithReplace(edit, replace) ==
  IF edit.sections = << >> THEN [edit EXCEPT !.leading = Append(@, replace)]
  ELSE [edit EXCEPT !.sections[Len(edit.sections)].replaces = Append(@, replace)]

\* Wrong: a replace-all may replace nothing.
DiffReplace_emptyOld(buf, d, old, dead) ==
  LET new == NewPart(buf, old)
      replace == [old |-> old.value, new |-> new.value]
  IN  CASE d.edit = << >> -> Wrong(d, "BeforeAnyFile")
        [] d.edit # << >> /\ old.pos = Err -> Wrong(d, "Syntax")
        [] OTHER ->
             IF ~SubAt(buf, old) THEN Wrong(d, "MissingSub")
             ELSE IF dead \/ new.pos = Err THEN Past(d, new.pos)
             ELSE Past([d EXCEPT !.edit = <<WithReplace(@[1], replace)>>], new.pos)

\* A replace-all, from behind its RS.
DiffReplace(buf, d, old, dead) ==
  LET new == NewPart(buf, old)
      replace == [old |-> old.value, new |-> new.value]
  IN  CASE d.edit = << >> -> Wrong(d, "BeforeAnyFile")
        [] d.edit # << >> /\ old.pos = Err -> Wrong(d, "Syntax")
        [] d.edit # << >> /\ old.pos # Err /\ old.value = << >> -> Wrong(d, "EmptyOld")
        [] OTHER ->
             IF ~SubAt(buf, old) THEN Wrong(d, "MissingSub")
             ELSE IF dead \/ new.pos = Err THEN Past(d, new.pos)
             ELSE Past([d EXCEPT !.edit = <<WithReplace(@[1], replace)>>], new.pos)

\* Behind an EOT, which ends the diff.
DiffEot(buf, d, pos) ==
  IF CodeAt(buf, pos, Len(buf), {SYN, EM}) \/ pos = Len(buf)
  THEN Flushed([d EXCEPT !.pos = pos]) ELSE Wrong(d, "Syntax")

RECURSIVE DiffElements(_, _)
DiffElements(buf, d) ==
  LET len == Len(buf)
      pos == Layout(buf, d.pos, len)
      next == Layout(buf, pos + 1, len)
      dead == DeadAt(buf, pos, len, {FS, GS, RS})
      code == IF dead THEN next ELSE pos
      Here(S) == CodeAt(buf, code, len, S)
      Go(e) == DiffElements(buf, e)
  IN  CASE d.error # "none" -> d
        [] d.error = "none" /\ pos = len -> Flushed(d)
        [] d.error = "none" /\ Here({FS}) -> Go(DiffFile(buf, d, code + 1, dead))
        [] d.error = "none" /\ Here({GS}) ->
             Go(DiffSection(d, PatternFrom(buf, code + 1, << >>), dead))
        [] d.error = "none" /\ Here({RS}) -> Go(DiffReplace(buf, d, DValue(buf, code + 1), dead))
        [] d.error = "none" /\ Here({ETB}) -> Go(Past(d, Plain(buf, next, len)))
        [] d.error = "none" /\ Here({BEL}) -> Go(Past(d, Comment(buf, pos, len)))
        [] d.error = "none" /\ Here({EOT}) -> DiffEot(buf, d, next)
        [] OTHER -> Wrong(d, "Syntax")

\* Heading::shape, the value of the last such key.  It is taken to be UTF-8: the
\* code reads no shape in another value.
ShapeOf(heading, shape) ==
  LET keys == SelectSeq(heading.pairs, LAMBDA pair : pair[1] = shape)
      raw == Last(keys)[2]
  IN  IF keys = << >> THEN << >>
      ELSE <<IF StartsWith(raw, DLE) THEN raw ELSE Value(raw)>>

BehindHeading(buf, heading, shape, diff) ==
  IF heading.pos = Err THEN Wrong(NewDiff, "Syntax")
  ELSE IF ShapeOf(heading, shape) \notin {<< >>, <<diff>>} THEN Wrong(NewDiff, "WrongShape")
  ELSE DiffElements(buf, [NewDiff EXCEPT !.pos = heading.pos])

\* parse; shape and diff are the words.
ParseDiff(buf, shape, diff) ==
  LET first == Layout(buf, 0, Len(buf))
  IN  IF CodeAt(buf, first, Len(buf), {SYN})
      THEN BehindHeading(buf, Heading(buf, first + 1, << >>), shape, diff)
      ELSE DiffElements(buf, NewDiff)

-----------------------------------------------------------------------------
(* DiffBuilder and SectionBuilder. *)

DiffHeadingBytes(shape, diff) == <<SYN, SOH>> \o shape \o <<US>> \o diff

\* anchor and sub
UnitBytes(unit) ==
  WriteValue(unit.old) \o IF unit.new = << >> THEN << >> ELSE <<SUB>> \o WriteValue(unit.new[1])

\* Wrong: the units of a section are not parted.
SectionBytes_noSep(units) == <<GS>> \o FlattenSeq([i \in DOMAIN units |-> UnitBytes(units[i])])

\* section
SectionBytes(units) ==
  <<GS>> \o FlattenSeq([i \in DOMAIN units |->
              (IF i = 1 THEN << >> ELSE <<US>>) \o UnitBytes(units[i])])

\* replace: a substitution between two anchors, when there are.
ReplaceUnits(before, old, new, after) ==
  LET anchor(v) == IF v = << >> THEN << >> ELSE <<[old |-> v, new |-> << >>]>>
  IN  anchor(before) \o <<[old |-> old, new |-> <<new>>]>> \o anchor(after)

ReplaceAllBytes(old, new) == <<RS>> \o WriteValue(old) \o <<SUB>> \o WriteValue(new)

NoteBytes(v) == <<BEL>> \o WriteValue(v)

=============================================================================
