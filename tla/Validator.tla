------------------------------ MODULE Validator ------------------------------
(***************************************************************************)
(* The check of a buffer against the grammar (src/src/validator.rs).  One  *)
(* operator per method; each takes the state of the walk and returns it    *)
(* after what it checked, or Failed.  Every method stops at the end of the *)
(* buffer: the code passes the same stop down into the levels.             *)
(***************************************************************************)
EXTENDS BodyIndex

CONSTANTS
  Shape,   \* the heading key "shape"
  Diff     \* its value "diff"

\* Where the walk is, whether all was canonical so far, whether the body that
\* follows is a diff.
States == [pos : Int, canonical : BOOLEAN, diff : BOOLEAN]

Start == [pos |-> 0, canonical |-> TRUE, diff |-> FALSE]

Failed == [pos |-> Err, canonical |-> FALSE, diff |-> FALSE]

NotCanonical(s) == [s EXCEPT !.canonical = FALSE]

To(s, pos) == IF Err \in {s.pos, pos} THEN Failed ELSE [s EXCEPT !.pos = pos]

\* What stands at p: one of the codes S, a plain run or a text, a header row.
\* Nothing stands at Err.
Code(buf, p, S)   == p # Err /\ CodeAt(buf, p, Len(buf), S)
Content(buf, p)   == p \in 0 .. (Len(buf) - 1) /\ (IsPlain(At(buf, p)) \/ At(buf, p) = STX)
HeaderRow(buf, p) == p # Err /\ HeaderRowAt(buf, p, Len(buf))

\* The byte after the code at p, its layout skipped.
NextAt(buf, p) == Layout(buf, p + 1, Len(buf))

\* The plain run or the text at p.
ContentEnd(buf, p) == IF At(buf, p) = STX THEN Text(buf, p, Len(buf)) ELSE Plain(buf, p, Len(buf))

\* layout
Lay(buf, s) ==
  LET p == Layout(buf, s.pos, Len(buf))
  IN  IF s.pos = Err THEN Failed
      ELSE [s EXCEPT !.pos = p, !.canonical = @ /\ p = s.pos]

\* A name, a payload or a plain value from here on, its layout at the end.
PlainName(buf, s) ==
  LET t == Lay(buf, s)
      end == Plain(buf, t.pos, Len(buf))
  IN  IF t.pos = Err \/ Code(buf, t.pos, {STX}) THEN Failed
      ELSE [t EXCEPT !.pos = end,
                     !.canonical = @ /\ (end > t.pos => ~IsLayout(At(buf, end - 1)))]

\* ETB and its payload.
Commit(buf, s) ==
  LET t == Lay(buf, To(NotCanonical(s), s.pos + 1))
  IN  To(t, Plain(buf, t.pos, Len(buf)))

\* trailing_notes; a BEL before a code is left to the caller.
RECURSIVE TrailingNotes(_, _)
TrailingNotes(buf, s) ==
  LET q == NextAt(buf, s.pos)
  IN  CASE Code(buf, s.pos, {BEL}) /\ q = Len(buf) -> Failed
        [] Code(buf, s.pos, {BEL}) /\ Content(buf, q) ->
             TrailingNotes(buf, Lay(buf, To(NotCanonical(s), ContentEnd(buf, q))))
        [] OTHER -> s

\* notes: the same, with the layout before each.
Notes(buf, s) == TrailingNotes(buf, Lay(buf, s))

\* check_keys
DistinctKeys(s, keys) ==
  IF ~IsInjective(keys) THEN NotCanonical(s) ELSE s

KeyAt(buf, soh) ==
  LET ks == NextAt(buf, soh) IN Trim(Slice(buf, ks, Plain(buf, ks, Len(buf))))

\* What follows a value: notes, and no second value.
OneValue(buf, s) ==
  LET Alone(t) == IF Content(buf, t.pos) \/ Code(buf, t.pos, {DLE, ENQ}) THEN Failed ELSE t
  IN  Alone(TrailingNotes(buf, Lay(buf, s)))

\* Wrong: any text will do.
TextIsNeeded_never(buf, s) == s

\* The text at s.pos is a value that could not be plain.
TextIsNeeded(buf, s) ==
  LET end == Text(buf, s.pos, Len(buf))
      Needed(v) == v # << >> /\ ~IsPlainValue(v)
  IN  [s EXCEPT !.canonical = @ /\ end # Err /\ Needed(TextValue(buf, s.pos, end))]

PlainValue(buf, s) ==
  LET end == Plain(buf, s.pos, Len(buf))
  IN  [s EXCEPT !.pos = end, !.canonical = @ /\ ~IsLayout(At(buf, end - 1))]

UnitReference(buf, s) ==
  LET t == Lay(buf, To(s, s.pos + 1))
      end == Text(buf, t.pos, Len(buf))
      path == Segments(TextValue(buf, t.pos, end))
      checked == IF Len(path) = 1 THEN NotCanonical(t) ELSE t
  IN  IF ~Content(buf, t.pos) THEN Failed
      ELSE IF ~Code(buf, t.pos, {STX})
      THEN TrailingNotes(buf, Lay(buf, To(t, Plain(buf, t.pos, Len(buf)))))
      ELSE IF end = Err \/ ~IsPath(path) THEN Failed
      ELSE TrailingNotes(buf, Lay(buf, To(checked, end)))

\* Wrong: a key may stand alone.
KeyedUnit_noValue(buf, value, s, heading) ==
  LET t == Lay(buf, To(s, s.pos + 1))
      ke == Plain(buf, t.pos, Len(buf))
  IN  value[To(t, IF Code(buf, ke, {US}) THEN ke + 1 ELSE ke), heading]

\* keyed_unit, from its SOH.
KeyedUnit(buf, value, s, heading) ==
  LET t == Lay(buf, To(s, s.pos + 1))
      ke == Plain(buf, t.pos, Len(buf))
  IN  IF Code(buf, ke, {US}) THEN value[To(t, ke + 1), heading] ELSE Failed

\* keyed_start: the record's first unit behind the notes, live or dead, is keyed.
KeyedStart(buf, s) ==
  LET IsKey(p) == Code(buf, p, {SOH}) \/ (Code(buf, p, {BEL}) /\ Code(buf, NextAt(buf, p), {SOH}))
  IN  IsKey(TrailingNotes(buf, s).pos)

RECURSIVE KeyedUnits(_, _, _, _)
KeyedUnits(buf, value, from, keys) ==
  LET s == Lay(buf, from)
      p == s.pos
      q == NextAt(buf, p)
  IN  CASE Code(buf, p, {SOH}) /\ ~HeaderRow(buf, p) ->
             KeyedUnits(buf, value, KeyedUnit(buf, value, s, FALSE), Append(keys, KeyAt(buf, p)))
        [] Code(buf, p, {BEL}) /\ q = Len(buf) -> Failed
        [] Code(buf, p, {BEL}) /\ Code(buf, q, {SOH}) /\ ~HeaderRow(buf, q) ->
             KeyedUnits(buf, value, KeyedUnit(buf, value, To(NotCanonical(s), q), FALSE), keys)
        [] Code(buf, p, {BEL}) /\ Content(buf, q) ->
             KeyedUnits(buf, value, Notes(buf, s), keys)
        [] OTHER -> IF Code(buf, p, {US}) THEN Failed ELSE DistinctKeys(s, keys)

\* A positional unit is checked; s is behind it.
RECURSIVE PositionalUnits(_, _, _)
PositionalUnits(buf, value, s) ==
  CASE Code(buf, s.pos, {US}) ->
         PositionalUnits(buf, value, Lay(buf, value[To(s, s.pos + 1), FALSE]))
    [] Code(buf, s.pos, {SOH}) /\ ~HeaderRow(buf, s.pos) -> Failed
    [] OTHER -> s

\* record, from behind its RS.
Record(buf, value, from) ==
  LET s == Lay(buf, from)
  IN  IF s.pos = Err \/ TrailingNotes(buf, s).pos = Err THEN Failed
      ELSE IF KeyedStart(buf, s) THEN KeyedUnits(buf, value, s, << >>)
      ELSE PositionalUnits(buf, value, Lay(buf, value[s, FALSE]))

RECURSIVE HeaderNames(_, _)
HeaderNames(buf, s) ==
  LET More(t) == IF Code(buf, t.pos, {US}) THEN HeaderNames(buf, To(t, t.pos + 1)) ELSE t
  IN  More(PlainName(buf, s))

\* header_row, when one stands at s.
HeaderFrom(buf, s) ==
  LET Behind(t) == HeaderNames(buf, To(t, t.pos + 1))
  IN  IF HeaderRow(buf, s.pos) THEN Behind(Lay(buf, To(s, s.pos + 1))) ELSE s

(***************************************************************************)
(* pre, header_row and items: notes, commits at depth zero, dead records   *)
(* and dead header rows, then a header row, then the same with the live    *)
(* records among them.                                                     *)
(***************************************************************************)
RECURSIVE Contents(_, _, _, _, _)
Contents(buf, value, from, depth0, records) ==
  LET s == Lay(buf, from)
      p == s.pos
      q == NextAt(buf, p)
      dead == Code(buf, p, {BEL}) /\ Code(buf, q, {RS})
      Go(t) == Contents(buf, value, t, depth0, records)
  IN  CASE dead \/ (records /\ Code(buf, p, {RS})) ->
             Go(Record(buf, value, IF dead THEN To(NotCanonical(s), q + 1) ELSE To(s, p + 1)))
        [] Code(buf, p, {ETB}) -> IF depth0 THEN Go(Commit(buf, s)) ELSE Failed
        [] Code(buf, p, {BEL}) /\ q = Len(buf) -> Failed
        [] Code(buf, p, {BEL}) /\ Content(buf, q) -> Go(Notes(buf, s))
        [] Code(buf, p, {BEL}) /\ Code(buf, q, {SOH}) ->
             IF HeaderRow(buf, q)
             THEN Go(HeaderNames(buf, To(NotCanonical(s), NextAt(buf, q) + 1))) ELSE Failed
        [] OTHER ->
             IF ~records THEN Contents(buf, value, HeaderFrom(buf, s), depth0, TRUE)
             ELSE IF Code(buf, p, {SOH}) \/ (Code(buf, p, {BEL}) /\ Code(buf, q, {DLE}))
             THEN Failed ELSE s

\* The codes of a group line at s, and the layout behind each.
RECURSIVE GroupMarksFrom(_, _)
GroupMarksFrom(buf, s) ==
  IF Code(buf, s.pos, {GS}) THEN GroupMarksFrom(buf, Lay(buf, To(s, s.pos + 1))) ELSE s

\* A part of a body: its contents, and those behind each group line, live or
\* dead.
RECURSIVE BodyPart(_, _, _, _)
BodyPart(buf, value, s, depth0) ==
  LET dead(t) == Code(buf, t.pos, {BEL}) /\ Code(buf, NextAt(buf, t.pos), {GS})
      line(t) == IF dead(t) THEN To(NotCanonical(t), NextAt(buf, t.pos)) ELSE t
      Groups(t) ==
        IF dead(t) \/ Code(buf, t.pos, {GS})
        THEN BodyPart(buf, value, PlainName(buf, GroupMarksFrom(buf, line(t))), depth0) ELSE t
  IN  Groups(Contents(buf, value, s, depth0, FALSE))

\* body: a part, and one behind each file line.
RECURSIVE DataBody(_, _, _, _)
DataBody(buf, value, s, depth0) ==
  LET dead(t) == Code(buf, t.pos, {BEL}) /\ Code(buf, NextAt(buf, t.pos), {FS})
      line(t) == IF dead(t) THEN To(NotCanonical(t), NextAt(buf, t.pos)) ELSE t
      Files(t) ==
        IF dead(t) \/ Code(buf, t.pos, {FS})
        THEN DataBody(buf, value, PlainName(buf, To(line(t), line(t).pos + 1)), depth0) ELSE t
  IN  Files(BodyPart(buf, value, Lay(buf, s), depth0))

LevelBody(buf, value, s) ==
  IF Code(buf, s.pos, {FS, GS, RS, SOH, BEL}) THEN Lay(buf, DataBody(buf, value, s, FALSE)) ELSE s

\* level, from its DLE.
NestedLevel(buf, value, from) ==
  LET Closed(s) == IF Code(buf, s.pos, {CAN}) THEN To(s, s.pos + 1) ELSE Failed
  IN  Closed(LevelBody(buf, value, Lay(buf, To(from, from.pos + 1))))

\* A unit that starts with a BEL is empty.
DeadUnit(buf, s) ==
  LET q == NextAt(buf, s.pos)
  IN  CASE q = Len(buf)    -> Failed
        [] Content(buf, q) -> Lay(buf, To(NotCanonical(s), ContentEnd(buf, q)))
        [] OTHER           -> s

(***************************************************************************)
(* value: what a unit may hold, in a body or in a heading.  Its levels     *)
(* hold records, and those hold values.                                    *)
(***************************************************************************)
UnitValues(buf) ==
  LET value[from \in States, heading \in BOOLEAN] ==
        LET s == Lay(buf, from)
            deadLevel == Code(buf, s.pos, {BEL}) /\ Code(buf, NextAt(buf, s.pos), {DLE})
            Behind(t) == IF deadLevel THEN Lay(buf, t) ELSE OneValue(buf, t)
        IN  CASE Code(buf, s.pos, {STX}) ->
                   OneValue(buf, To(TextIsNeeded(buf, s), Text(buf, s.pos, Len(buf))))
              [] Code(buf, s.pos, {DLE}) \/ deadLevel ->
                   Behind(NestedLevel(buf, value,
                     IF deadLevel THEN To(NotCanonical(s), NextAt(buf, s.pos)) ELSE s))
              [] Code(buf, s.pos, {ENQ}) -> IF heading THEN Failed ELSE UnitReference(buf, s)
              [] Code(buf, s.pos, {BEL}) /\ ~deadLevel -> DeadUnit(buf, s)
              [] OTHER ->
                   IF Content(buf, s.pos) THEN OneValue(buf, PlainValue(buf, s)) ELSE s
  IN  value

-----------------------------------------------------------------------------
(* A diff body. *)

\* dvalue
DiffValue(buf, from) ==
  LET s == Lay(buf, from)
  IN  IF Content(buf, s.pos)
      THEN Lay(buf, To(s, ContentEnd(buf, s.pos))) ELSE s

RECURSIVE Pattern(_, _)
Pattern(buf, from) ==
  LET New(old) == IF Code(buf, old.pos, {SUB})
                  THEN DiffValue(buf, To(old, old.pos + 1)) ELSE old
      More(s) == IF Code(buf, s.pos, {US}) THEN Pattern(buf, To(s, s.pos + 1)) ELSE s
  IN  More(TrailingNotes(buf, New(DiffValue(buf, from))))

Substitution(buf, from) ==
  LET New(old) ==
        IF ~Code(buf, old.pos, {SUB}) \/ Trim(Slice(buf, from.pos, old.pos)) = << >>
        THEN Failed ELSE DiffValue(buf, To(old, old.pos + 1))
  IN  New(DiffValue(buf, from))

RECURSIVE DiffBody(_, _)
DiffBody(buf, from) ==
  LET s == Lay(buf, from)
      p == s.pos
      q == NextAt(buf, p)
      dead == Code(buf, p, {BEL}) /\ Code(buf, q, {FS, GS, RS})
      at == IF dead THEN To(NotCanonical(s), q) ELSE s
      body == To(at, at.pos + 1)
  IN  CASE Code(buf, at.pos, {FS}) -> DiffBody(buf, PlainName(buf, body))
        [] Code(buf, at.pos, {GS}) -> DiffBody(buf, Pattern(buf, body))
        [] Code(buf, at.pos, {RS}) -> DiffBody(buf, Substitution(buf, body))
        [] ~dead /\ Code(buf, p, {BEL}) ->
             IF Content(buf, q) THEN DiffBody(buf, Notes(buf, s)) ELSE Failed
        [] Code(buf, p, {ETB}) -> DiffBody(buf, Commit(buf, s))
        [] OTHER -> IF p = Len(buf) \/ Code(buf, p, {EOT, SYN, EM}) THEN s ELSE Failed

-----------------------------------------------------------------------------
(* heading and run. *)

RECURSIVE HeadingUnits(_, _, _, _)
HeadingUnits(buf, value, from, keys) ==
  LET s == Lay(buf, from)
      p == s.pos
      q == NextAt(buf, p)
      us == Plain(buf, q, Len(buf))
      isDiff(end) == KeyAt(buf, p) = Shape /\ Trim(Slice(buf, us + 1, end)) = Diff
      Behind(unit) ==
        IF unit.pos = Err THEN Failed
        ELSE HeadingUnits(buf, value, [unit EXCEPT !.diff = @ \/ isDiff(unit.pos)],
                          Append(keys, KeyAt(buf, p)))
  IN  CASE Code(buf, p, {SOH}) /\ ~HeaderRow(buf, p) ->
             Behind(KeyedUnit(buf, value, s, TRUE))
        [] Code(buf, p, {BEL}) /\ q = Len(buf) -> Failed
        [] Code(buf, p, {BEL})
             /\ (Content(buf, q) \/ (Code(buf, q, {SOH}) /\ ~HeaderRow(buf, q))) ->
             HeadingUnits(buf, value, To(NotCanonical(s), Comment(buf, p, Len(buf))), keys)
        [] Content(buf, p) /\ ~Code(buf, p, {STX}) -> Failed
        [] OTHER -> DistinctKeys(s, keys)

\* The body of a document, and the EOT that may end it.
DocumentBody(buf, value, s) ==
  LET Eot(t) == IF Code(buf, t.pos, {EOT}) THEN Lay(buf, To(NotCanonical(t), t.pos + 1)) ELSE t
      Ended(t) == IF t.pos = Len(buf) \/ Code(buf, t.pos, {SYN, EM}) THEN t ELSE Failed
  IN  Ended(Eot(Lay(buf, IF s.diff THEN DiffBody(buf, s) ELSE DataBody(buf, value, s, TRUE))))

RECURSIVE Run(_, _, _, _)
Run(buf, value, s, first) ==
  CASE s.pos = Err \/ s.pos = Len(buf) -> s
    [] Code(buf, s.pos, {SYN}) ->
         Run(buf, value, HeadingUnits(buf, value, To(NotCanonical(s), s.pos + 1), << >>), TRUE)
    [] Code(buf, s.pos, {EM}) -> To(NotCanonical(s), Len(buf))
    [] OTHER -> IF first THEN Run(buf, value, DocumentBody(buf, value, s), FALSE) ELSE Failed

Validate(buf) == Run(buf, UnitValues(buf), Lay(buf, Start), TRUE)

WellFormed(buf) == Validate(buf).pos # Err
Canonical(buf)  == Validate(buf).canonical

=============================================================================
